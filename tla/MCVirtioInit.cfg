SPECIFICATION FairSpec
CONSTANTS
  VIRTIO_SLOTS = 2
  Size = 2
INVARIANTS
  AcceptedOffered
  OwnRings
  ServesLiveDevice
PROPERTIES
  LiveUndisturbed
  ScanReturns

SPECIFICATION FairSpec
CONSTANTS
  Index <- MCIndex
  VIRTIO_SLOTS = 2
  HeapSizes <- MCHeapSizes
  Trees <- MCTrees
  Ns16550a <- MCNs16550a
  VirtioMmio <- MCVirtioMmio
INVARIANTS
  TablesOwned
  KernelMapped
  MapsExact
  LostOnlyIfSmall
  VectorsSet
  FdtExact
PROPERTY
  BootEnds

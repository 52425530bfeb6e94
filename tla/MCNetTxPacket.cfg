SPECIFICATION Spec
CONSTANTS
  Size = 3
  IndexMod = 6
  BufSize = 30
  Lengths <- MCFitting
  Pages = 14
INVARIANT
  TransmitsPacket

SPECIFICATION FairSpec
CONSTANTS
  Size = 3
  IndexMod = 6
  BufSize = 30
  Lengths <- MCLengths
  Pages = 14
INVARIANTS
  PacketBuilt
  SentInOrder
  OnlyLostInUse
PROPERTY
  FittingReturns

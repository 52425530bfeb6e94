SPECIFICATION FairSpec
CONSTANTS
  Text <- MCText
  Times <- MCTimes
  HexDigits = 2
  FIFO_SIZE = 2
  MaxTicks = 2
INVARIANTS
  TrapTransparent
  FrameExact
  ConsoleExact
PROPERTY
  PrintsAll

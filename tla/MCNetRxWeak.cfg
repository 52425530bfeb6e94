SPECIFICATION WeakSpec
CONSTANTS
  Size = 2
  IndexMod = 4
  HeaderLen = 3
  Length = 5
  WordMod = 16
  FrameLens <- MCFrameLens
INVARIANT FramesInOrder

SPECIFICATION Spec
CONSTANTS
  PageSize = 4
  HeapSym = 74
  StackLimit = 98
  MaxHeap = 64
  VirtOffset = 64
  KernelBase = 72
  Sizes <- MCSizes
  FreeArgs <- MCFreeArgs
INVARIANT TypeOK
INVARIANT HeapPartition
INVARIANT CountExact
PROPERTY HeapContract

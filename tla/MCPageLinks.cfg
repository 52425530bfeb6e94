SPECIFICATION Spec
CONSTANTS
  N = 3
  Clients = {c1, c2}
  Counts <- MCCounts
  Junk = Junk
PROPERTIES
  CallsAtomic
  MaskRestored
  MaskedCallReturns

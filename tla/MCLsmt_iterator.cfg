SPECIFICATION Spec
CONSTANTS
  Keys = {k1, k2}
  ReservedKey = k0
  Readers = {r1}
  SizeThreshold = 1
  MaxImmutables = 2
  MergeLimit = 2
  ZeroLevelMax = 2
  TierGrowth = 2
  MergeChunk = 3
  MaxInserts = 5
  MaxFlushes = 1
PROPERTY IteratorComplete

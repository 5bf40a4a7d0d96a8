SPECIFICATION FairSpec
CONSTANTS
  Keys = {k1}
  ReservedKey = k0
  Readers = {}
  SizeThreshold = 0
  MaxImmutables = 1
  MergeLimit = 2
  ZeroLevelMax = 1
  TierGrowth = 2
  MergeChunk = 3
  MaxInserts = 4
  MaxFlushes = 1
PROPERTIES
  WriterReturns
  EveryMemtableFlushed

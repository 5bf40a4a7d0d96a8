SPECIFICATION Spec
CONSTANTS
  Keys = {k1, k2}
  ReservedKey = k0
  Readers = {r1}
  SizeThreshold = 1
  MaxImmutables = 2
  MergeLimit = 2
  ZeroLevelMax = 2
  TierGrowth = 2
  MergeChunk = 3
  MaxInserts = 6
  MaxFlushes = 1
SYMMETRY Symmetry
INVARIANTS
  TypeOK
  NoRecordLost
  NoRecordTwice
  NoUseAfterFree
  NoOrphanFile
  DiskMetadataSound
  DiskMetadataCurrent
  NeverQuits
PROPERTIES
  FlushDrains
  IteratorMissesOnlyInTransit
  ImplementsRecordStore

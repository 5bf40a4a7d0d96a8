SPECIFICATION WriteSpec
CONSTANTS
  Nodes = {1, 2}
  NoNode = 0
  Conns = {c1}
  BatchSize = 2
  PauseAt = 1
  ResumeBelow = 1
  MaxImmutables = 1
  Rejected = {}
  MaxMessages = 2
  MaxElections = 1
  BatchLen = 2
  MaxRetries = 2
  MaxBatches = 1
  RedirectLen = 3
CHECK_DEADLOCK FALSE
INVARIANT WrittenBatchIsApplied

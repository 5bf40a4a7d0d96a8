SPECIFICATION WriteSpec
CONSTANTS
  Nodes = {1, 2}
  NoNode = 0
  Conns = {c1, c2}
  BatchSize = 2
  PauseAt = 1
  ResumeBelow = 1
  MaxImmutables = 1
  Rejected = {}
  MaxMessages = 4
  MaxElections = 1
  BatchLen = 2
  MaxRetries = 1
  MaxBatches = 2
  RedirectLen = 3
SYMMETRY Symmetry
CHECK_DEADLOCK FALSE
INVARIANT CleanBatchIsApplied

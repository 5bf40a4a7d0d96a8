SPECIFICATION Spec
CONSTANTS
  NumClusters = 2
  MaxKeyspace = 2
  Ids = {0, 1, 2, 3}
  Timestamps = {0, 1}
INVARIANT ReadComplete

SPECIFICATION FairSpec
CONSTANTS
  NumClusters = 2
  MaxKeyspace = 2
  Ids = {0, 1, 2, 3}
  Timestamps = {0, 1}
INVARIANTS
  NothingUnasked
  PagesDoNotOverlap
  OnlyTiesAreMissed
PROPERTY ReadEnds

SPECIFICATION FairSpec
CONSTANTS
  Nodes = {n1, n2}
  NoNode = none
  Conns = {c1}
  BatchSize = 2
  PauseAt = 2
  ResumeBelow = 1
  MaxImmutables = 2
  Rejected = {4}
  MaxMessages = 4
  MaxElections = 1
INVARIANTS
  TypeOK
  AckMeansApplied
  AppliedInOrder
  RefCountExact
  NothingLeftBehind
PROPERTY EveryMessageTaken

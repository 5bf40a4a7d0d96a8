SPECIFICATION FairSpec
CONSTANTS
  Clients = {c1, c2}
  MaxQueries = 2
  ReqSize = 2
  MaxRequests = 2
INVARIANTS
  TypeOK
  RefCountExact
  ActiveCountExact
  ListExact
  PausedOnlyWhenFull
PROPERTY EveryQueryAnswered

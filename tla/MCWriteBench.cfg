SPECIFICATION FairSpec
CONSTANTS
  Clusters = {1, 2}
  NodesOf <- TwoClusters
  NoNode = 0
  RequestCounts = {5, 6}
  ChunkSize = 2
  BatchSize = 2
  MaxFutures = 0
  Threads = 2
  MaxRetries = 2
  MaxRedirects = 1
CHECK_DEADLOCK FALSE
INVARIANTS RecordsAccounted InFlightBounded EndsClean
PROPERTY BenchEnds

CONSTANTS
  r1 = r1
  r2 = r2
  r3 = r3
  Requests = {r1, r2, r3}
  Priority <- MCPriority
  Batch <- MCBatch
  MaxQueueSize = 2
  MaxConcurrent = 1
  Threshold = 2
  MaxInits = 2
  MaxStops = 2
SPECIFICATION FairSpec
INVARIANTS
  TypeOK
  NoLostPromise
  BreakerMatchesFailures
PROPERTIES
  SettlesOnce
  StartsInOrder
  EveryRequestSettles

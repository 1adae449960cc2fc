CONSTANTS
  None = None
  s1 = s1
  s2 = s2
  r1 = r1
  r2 = r2
  r3 = r3
  Strategies = {s1, s2}
  Handlers = {h1}
  Requests = {r1, r2, r3}
  RequestSpec <- MCRequests
  MaxChanges = 2
  Broken = {1}
  MaxConcurrentReloads = 1
  ListenerThrows = TRUE
SPECIFICATION FairSpec
CHECK_DEADLOCK FALSE
INVARIANTS
  TypeOK
  NoSilentUnload
PROPERTIES
  StartedReloadsEnd
  LatestVersionLoaded

CONSTANTS
  c1 = c1
  c2 = c2
  r1 = r1
  r2 = r2
  Calls = {c1, c2}
  Reconnections = {r1}
  FailureThreshold = 2
  MaxReconnectAttempts = 2
  MaxRetries = 1
  MaxFaults = 3
SPECIFICATION FairSpec
INVARIANTS
  BreakerHasCause
  ReconnectsGoOn
PROPERTIES
  BreakerRecovers

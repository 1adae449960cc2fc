CONSTANTS
  None = None
  c1 = c1
  c2 = c2
  Clients = {c1,c2}
  Invalid = {c2}
  Ids = {o1, o2}
  Passes = {m1,m2}
  Cancels = {k1}
  MaxRetries = 1
  MaxCalls = 1
  MaxFaults = 2
SPECIFICATION FairSpec
CHECK_DEADLOCK FALSE
INVARIANTS
  OpenOrdersCancellable
  CancelledAtVenue
  TrackingLags
PROPERTIES
  CallsReturn
  OpenTrackingEnds

CONSTANTS
  None = None
  c1 = c1
  c2 = c2
  Clients = {c1}
  Invalid = {}
  Ids = {o1, o2}
  Passes = {m1}
  Cancels = {k1}
  MaxRetries = 1
  MaxCalls = 1
  MaxFaults = 0
SPECIFICATION FairSpec
CHECK_DEADLOCK FALSE
PROPERTIES
  ClosedOrdersLeaveTracking

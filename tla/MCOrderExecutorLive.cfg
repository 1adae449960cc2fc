CONSTANTS
  p1 = p1
  p2 = p2
  Plans = {p1}
  PlanSpecs <- MCEverySpec
  MaxSlices = 3
  MaxChecks = 2
  MaxOrderSize = 2
  ListenerThrows = TRUE
  RealTimeMonitoring = TRUE
  MaxTimers = 2
SPECIFICATION FairSpec
INVARIANTS
  SlicesAddUp
  SliceManagersOfRunning
PROPERTIES
  EveryCallReturns
  ActiveOrdersDrain

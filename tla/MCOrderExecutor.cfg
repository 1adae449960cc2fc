CONSTANTS
  p1 = p1
  p2 = p2
  Plans = {p1, p2}
  PlanSpecs <- MCPairSpecs
  MaxSlices = 2
  MaxChecks = 2
  MaxOrderSize = 2
  ListenerThrows = FALSE
  RealTimeMonitoring = TRUE
  MaxTimers = 1
SPECIFICATION Spec
SYMMETRY PlanSymmetry
INVARIANTS
  OneHome
  InterimUntilSettled
  MetricsMatchOutcomes
PROPERTIES
  NoResurrection
  OutcomeIsFinal

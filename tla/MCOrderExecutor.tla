--------------------------- MODULE MCOrderExecutor ---------------------------
(* Instances of OrderExecutor for TLC. *)
EXTENDS OrderExecutor, TLC

CONSTANTS p1, p2

Plan(venue, quantity, slices, valid) ==
  [venue |-> venue, quantity |-> quantity, slices |-> slices, valid |-> valid]

\* Two concurrent calls: slices with a remainder whose fills may be missing
\* (dYdX), a single simulated order, an order that validation refuses.
MCPairSpecs ==
  {Plan("dydx", 3, 2, TRUE), Plan("paper", 1, 1, TRUE), Plan("mock", 1, 1, FALSE)}

\* One call on every venue: remainders, empty slices (quantity below the number
\* of slices), a last slice above MaxOrderSize.
MCEverySpec ==
  {Plan("paper", 4, 3, TRUE), Plan("paper", 1, 1, TRUE), Plan("backtest", 2, 3, TRUE),
   Plan("mock", 5, 3, TRUE), Plan("mock", 1, 1, FALSE), Plan("dydx", 5, 3, TRUE),
   Plan("dydx", 2, 1, TRUE)}

PlanSymmetry == Permutations({p1, p2})
=============================================================================

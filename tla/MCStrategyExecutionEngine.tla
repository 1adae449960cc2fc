---------------------- MODULE MCStrategyExecutionEngine ----------------------
(* Instances of StrategyExecutionEngine for TLC. *)
EXTENDS StrategyExecutionEngine

CONSTANTS r1, r2, r3

\* Two equals and one above them.
MCPriority == [r \in Requests |-> IF r = r3 THEN 4 ELSE 2]

MCBatch == <<r1, r3>>
=============================================================================

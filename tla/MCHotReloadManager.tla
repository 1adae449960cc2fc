------------------------- MODULE MCHotReloadManager -------------------------
EXTENDS HotReloadManager

CONSTANTS s1, s2, r1, r2, r3

MCSpec(s, p, graceful, skip) ==
  [strategy |-> s, priority |-> p, graceful |-> graceful, skipValidation |-> skip]

\* Two requests of one strategy, graceful and immediate, and an urgent one
\* of the other strategy.
MCRequests ==
  [r \in Requests |-> CASE r = r1 -> MCSpec(s1, 5, TRUE, FALSE)
                        [] r = r2 -> MCSpec(s1, 5, FALSE, TRUE)
                        [] r = r3 -> MCSpec(s2, 8, FALSE, FALSE)]
=============================================================================

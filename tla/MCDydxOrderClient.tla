-------------------------- MODULE MCDydxOrderClient --------------------------
(* Instances of DydxOrderClient for TLC. *)
EXTENDS DydxOrderClient

CONSTANTS c1, c2
=============================================================================

--------------------------- MODULE MCReadWriteLock ---------------------------
(* Instances of ReadWriteLock for TLC. *)
EXTENDS ReadWriteLock, TLC

Interchangeable == Permutations(Tasks)
=============================================================================

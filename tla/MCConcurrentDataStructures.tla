--------------------- MODULE MCConcurrentDataStructures ---------------------
(***************************************************************************)
(* The circular buffer, the read-write lock and the priority queue of      *)
(* src/backend/data/ConcurrentDataStructures.ts for TLC.  They share       *)
(* nothing: one of them moves while the others are in their initial state, *)
(* so that their state spaces add up instead of multiplying.               *)
(***************************************************************************)
EXTENDS ConcurrentDataStructures

MCInit == Init /\ Lock!Init /\ PQ!QueueInit

MCNext ==
  \/ Next /\ Lock!Init /\ PQ!QueueInit /\ UNCHANGED <<lockVars, pqVars>>
  \/ Lock!Next /\ Init /\ PQ!QueueInit /\ UNCHANGED <<vars, pqVars>>
  \/ PQ!QueueNext /\ Init /\ Lock!Init /\ UNCHANGED <<vars, lockVars>>

MCSpec ==
  /\ MCInit /\ [][MCNext]_<<vars, lockVars, pqVars>>
  /\ Lock!Fairness /\ PQ!QueueFairness

\* Of the read-write lock: every waiting task gets the lock.
LockServesWaiters == Lock!EveryWaiterServed

\* Of the mutex of the priority queue: every waiting operation gets its turn.
MutexServesWaiters == PQ!EveryWaiterHolds
=============================================================================

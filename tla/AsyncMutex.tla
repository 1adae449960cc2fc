------------------------------ MODULE AsyncMutex ------------------------------
(***************************************************************************)
(* AsyncMutex of src/backend/data/ConcurrentDataStructures.ts: release()   *)
(* unlocks at once and wakes the next waiting task by a setTimeout of 0 ms.*)
(* The timeout of acquire() is looked at once, when the call is made, so a *)
(* task that waits waits for ever; a call with timeout 0 never waits, like *)
(* tryAcquire().                                                           *)
(***************************************************************************)
EXTENDS Naturals, Sequences, SequencesExt, FiniteSets

CONSTANT Tasks   \* callers, each with one call at a time

VARIABLES
  mode,           \* what a task does
  locked,         \* this.locked
  waitingQueue,   \* tasks that wait, the first one next
  timers          \* tasks whose wake-up timer is due, in order

vars == <<mode, locked, waitingQueue, timers>>

Holders == {t \in Tasks : mode[t] = "holds"}

Init ==
  /\ mode = [t \in Tasks |-> "idle"]
  /\ locked = FALSE
  /\ waitingQueue = <<>> /\ timers = <<>>

\* acquire() or tryAcquire() of an unlocked mutex; tryAcquire() of a locked one
\* changes nothing.
Lock(t) ==
  /\ mode[t] = "idle" /\ ~locked
  /\ locked' = TRUE
  /\ mode' = [mode EXCEPT ![t] = "holds"]
  /\ UNCHANGED <<waitingQueue, timers>>

Wait(t) ==
  /\ mode[t] = "idle" /\ locked
  /\ waitingQueue' = Append(waitingQueue, t)
  /\ mode' = [mode EXCEPT ![t] = "waits"]
  /\ UNCHANGED <<locked, timers>>

\* Mutant: a task is only woken when it is the only one that waits.
Release_WakesOnlyOne(t) ==
  /\ mode[t] = "holds"
  /\ mode' = [mode EXCEPT ![t] = "idle"]
  /\ locked' = FALSE
  /\ IF Len(waitingQueue) = 1
     THEN timers' = Append(timers, Head(waitingQueue)) /\ waitingQueue' = <<>>
     ELSE UNCHANGED <<timers, waitingQueue>>

\* release(): the mutex is free until the timer of the next task fires.
Release(t) ==
  /\ mode[t] = "holds"
  /\ mode' = [mode EXCEPT ![t] = "idle"]
  /\ locked' = FALSE
  /\ IF waitingQueue # <<>>
     THEN timers' = Append(timers, Head(waitingQueue)) /\ waitingQueue' = Tail(waitingQueue)
     ELSE UNCHANGED <<timers, waitingQueue>>

\* The wake-up timer of a task fires: it holds the mutex, whoever locked it
\* after the release.
Wake ==
  /\ timers # <<>>
  /\ timers' = Tail(timers)
  /\ locked' = TRUE
  /\ mode' = [mode EXCEPT ![Head(timers)] = "holds"]
  /\ UNCHANGED waitingQueue

-----------------------------------------------------------------------------
\* Every waiting task gets its turn, whoever slips in before it: no release
\* leaves the queue behind.
EveryWaiterHolds == \A t \in Tasks : mode[t] = "waits" ~> mode[t] = "holds"

=============================================================================

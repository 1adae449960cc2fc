---------------------------- MODULE ReadWriteLock ----------------------------
(***************************************************************************)
(* ReadWriteLock of src/backend/data/ConcurrentDataStructures.ts: counters *)
(* of readers, writers and waiting writers, two queues, and a setTimeout   *)
(* of 0 ms between the release of the lock and the task it wakes.          *)
(* A timeout is looked at once, when the call is made: it only matters     *)
(* when it is 0.                                                           *)
(***************************************************************************)
EXTENDS Integers, Sequences, SequencesExt, FiniteSets

CONSTANTS
  Tasks,         \* callers, each with one call at a time
  ZeroTimeouts   \* bound: how often acquireWrite is called with timeout 0

VARIABLES
  mode,              \* what a task does
  readers, writers, waitingWriters,
  readerWaitQueue, writerWaitQueue,
  timers,            \* the tasks whose wake-up timer is due, in order
  zeroTimeouts       \* calls with timeout 0 so far

counters == <<readers, writers, waitingWriters>>
queues == <<readerWaitQueue, writerWaitQueue>>
vars == <<mode, counters, queues, timers, zeroTimeouts>>

Modes == {"idle", "readWaits", "writeWaits", "reads", "writes"}

In(m) == {t \in Tasks : mode[t] = m}

Init ==
  /\ mode = [t \in Tasks |-> "idle"]
  /\ readers = 0 /\ writers = 0 /\ waitingWriters = 0
  /\ readerWaitQueue = <<>> /\ writerWaitQueue = <<>>
  /\ timers = <<>>
  /\ zeroTimeouts = 0

-----------------------------------------------------------------------------
AcquireRead(t) ==
  /\ mode[t] = "idle"
  /\ IF writers = 0 /\ waitingWriters = 0
     THEN /\ readers' = readers + 1
          /\ mode' = [mode EXCEPT ![t] = "reads"]
          /\ UNCHANGED readerWaitQueue
     ELSE /\ readerWaitQueue' = Append(readerWaitQueue, t)
          /\ mode' = [mode EXCEPT ![t] = "readWaits"]
          /\ UNCHANGED readers
  /\ UNCHANGED <<writers, waitingWriters, writerWaitQueue, timers, zeroTimeouts>>

AcquireWrite(t) ==
  /\ mode[t] = "idle"
  /\ IF readers = 0 /\ writers = 0
     THEN /\ writers' = 1
          /\ mode' = [mode EXCEPT ![t] = "writes"]
          /\ UNCHANGED <<waitingWriters, writerWaitQueue>>
     ELSE /\ waitingWriters' = waitingWriters + 1
          /\ writerWaitQueue' = Append(writerWaitQueue, t)
          /\ mode' = [mode EXCEPT ![t] = "writeWaits"]
          /\ UNCHANGED writers
  /\ UNCHANGED <<readers, readerWaitQueue, timers, zeroTimeouts>>

\* acquireWrite with timeout 0 rejects when the lock is taken, and uncounts a
\* waiting writer that it has never counted.
AcquireWriteNow(t) ==
  /\ mode[t] = "idle"
  /\ zeroTimeouts < ZeroTimeouts
  /\ zeroTimeouts' = zeroTimeouts + 1
  /\ readers # 0 \/ writers # 0
  /\ waitingWriters' = IF waitingWriters > 0 THEN waitingWriters - 1 ELSE 0
  /\ UNCHANGED <<mode, readers, writers, queues, timers>>

\* Mutant: the last reader does not look for a waiting writer.
ReleaseRead_WakesNobody(t) ==
  /\ mode[t] = "reads"
  /\ mode' = [mode EXCEPT ![t] = "idle"]
  /\ readers' = IF readers > 0 THEN readers - 1 ELSE 0
  /\ UNCHANGED <<timers, writerWaitQueue, writers, waitingWriters, readerWaitQueue, zeroTimeouts>>

\* The last reader wakes one writer.
ReleaseRead(t) ==
  /\ mode[t] = "reads"
  /\ mode' = [mode EXCEPT ![t] = "idle"]
  /\ readers' = IF readers > 0 THEN readers - 1 ELSE 0
  /\ IF readers' = 0 /\ writerWaitQueue # <<>>
     THEN /\ timers' = Append(timers, Head(writerWaitQueue))
          /\ writerWaitQueue' = Tail(writerWaitQueue)
     ELSE UNCHANGED <<timers, writerWaitQueue>>
  /\ UNCHANGED <<writers, waitingWriters, readerWaitQueue, zeroTimeouts>>

\* Mutant: one reader is woken, the others are forgotten.
ReleaseWrite_FirstReader(t) ==
  /\ mode[t] = "writes"
  /\ mode' = [mode EXCEPT ![t] = "idle"]
  /\ writers' = 0
  /\ IF readerWaitQueue # <<>>
     THEN /\ timers' = Append(timers, Head(readerWaitQueue))
          /\ readerWaitQueue' = <<>>
          /\ UNCHANGED writerWaitQueue
     ELSE IF writerWaitQueue # <<>>
     THEN /\ timers' = Append(timers, Head(writerWaitQueue))
          /\ writerWaitQueue' = Tail(writerWaitQueue)
          /\ UNCHANGED readerWaitQueue
     ELSE UNCHANGED <<timers, queues>>
  /\ UNCHANGED <<readers, waitingWriters, zeroTimeouts>>

\* A writer wakes all waiting readers, or one writer if there are none.
ReleaseWrite(t) ==
  /\ mode[t] = "writes"
  /\ mode' = [mode EXCEPT ![t] = "idle"]
  /\ writers' = 0
  /\ IF readerWaitQueue # <<>>
     THEN /\ timers' = timers \o readerWaitQueue
          /\ readerWaitQueue' = <<>>
          /\ UNCHANGED writerWaitQueue
     ELSE IF writerWaitQueue # <<>>
     THEN /\ timers' = Append(timers, Head(writerWaitQueue))
          /\ writerWaitQueue' = Tail(writerWaitQueue)
          /\ UNCHANGED readerWaitQueue
     ELSE UNCHANGED <<timers, queues>>
  /\ UNCHANGED <<readers, waitingWriters, zeroTimeouts>>

\* The timer of a woken task fires: it has the lock, whoever took it meanwhile.
Wake ==
  /\ timers # <<>>
  /\ timers' = Tail(timers)
  /\ LET t == Head(timers)
     IN IF mode[t] = "readWaits"
        THEN /\ readers' = readers + 1
             /\ mode' = [mode EXCEPT ![t] = "reads"]
             /\ UNCHANGED <<writers, waitingWriters>>
        ELSE /\ writers' = 1
             /\ waitingWriters' = waitingWriters - 1
             /\ mode' = [mode EXCEPT ![t] = "writes"]
             /\ UNCHANGED readers
  /\ UNCHANGED <<queues, zeroTimeouts>>

-----------------------------------------------------------------------------
Next ==
  \/ Wake
  \/ \E t \in Tasks : \/ AcquireRead(t) \/ AcquireWrite(t) \/ AcquireWriteNow(t)
                      \/ ReleaseRead(t) \/ ReleaseWrite(t)

Spec == Init /\ [][Next]_vars

\* Timers fire and whoever has the lock releases it: the callers do so in a
\* finally clause.
Fairness ==
  /\ WF_vars(Wake)
  /\ \A t \in Tasks : WF_vars(ReleaseRead(t) \/ ReleaseWrite(t))

FairSpec == Spec /\ Fairness

-----------------------------------------------------------------------------
\* Every call so far waits or goes through; none was refused with timeout 0.
Unspoiled == zeroTimeouts = 0

\* Nobody waits unless somebody has the lock or is about to get it; a writer
\* does not even when calls with timeout 0 have spoiled the count.
NoLostWakeup ==
  writerWaitQueue # <<>> \/ (Unspoiled /\ readerWaitQueue # <<>>) =>
    In("reads") \cup In("writes") # {} \/ timers # <<>>

\* Every waiting task gets the lock (readers may overtake a writer for ever, and
\* wait for nobody, once a call with timeout 0 has spoiled the count).
EveryWaiterServed ==
  \A t \in Tasks :
    mode[t] \in {"readWaits", "writeWaits"} ~> mode[t] \in {"reads", "writes"} \/ ~Unspoiled

\* "Read-write lock allowing multiple readers but exclusive writers".
ExclusiveWriters ==
  /\ Cardinality(In("writes")) <= 1
  /\ In("writes") # {} => In("reads") = {}
=============================================================================

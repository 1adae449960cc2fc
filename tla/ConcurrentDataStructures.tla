----------------------- MODULE ConcurrentDataStructures -----------------------
(***************************************************************************)
(* The circular buffer, the read-write lock and the priority queue of      *)
(* src/backend/data/ConcurrentDataStructures.ts side by side.  They share  *)
(* nothing.                                                                *)
(***************************************************************************)
EXTENDS LockFreeCircularBuffer, Integers

CONSTANTS LockTasks, ZeroTimeouts, QueueTasks, Priorities, MaxItems

ASSUME QueueAssumption == Priorities \subseteq Int

VARIABLES
  lockMode, readers, writers, waitingWriters, readerWaitQueue, writerWaitQueue,
  lockTimers, zeroTimeouts,
  mutexMode, locked, waitingQueue, mutexTimers, heap, result

lockVars == <<lockMode, readers, writers, waitingWriters, readerWaitQueue,
              writerWaitQueue, lockTimers, zeroTimeouts>>

Lock == INSTANCE ReadWriteLock
          WITH Tasks <- LockTasks, mode <- lockMode, timers <- lockTimers

pqVars == <<mutexMode, locked, waitingQueue, mutexTimers, heap, result>>

PQ == INSTANCE ConcurrentPriorityQueue
        WITH Tasks <- QueueTasks, mode <- mutexMode, timers <- mutexTimers

\* Of the read-write lock: nobody waits without somebody to wait for.
LockNoLostWakeup == Lock!NoLostWakeup

\* Of the priority queue: it is a bag that gives its highest priority first.
QueueImplementsBag == PQ!ImplementsBag
=============================================================================

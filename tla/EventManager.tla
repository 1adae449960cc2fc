---------------------------- MODULE EventManager ----------------------------
(***************************************************************************)
(* EventManager of src/backend/engine/EventManager.ts: the queue of        *)
(* events, its batches, the handlers with their concurrency limits, the    *)
(* retries and the dead letter queue.  Critical and emergency events are   *)
(* handled at once and from the queue as well.  Subscriptions, streams,    *)
(* the store of events and the analytics are left out: nothing here        *)
(* depends on them.  Handlers declare no onError hook, the listeners of    *)
(* the manager's events do not throw, and enableDeadLetterQueue is on, as  *)
(* by default.                                                             *)
(***************************************************************************)
EXTENDS Integers, Sequences, SequencesExt, FiniteSets

CONSTANTS
  Events,
  Critical,         \* events of priority critical or emergency
  Handlers,
  Limit,            \* per handler: 1 when not concurrent, or maxConcurrency
  MaxRetries, BatchSize,
  DeadLetterLimit,  \* 1000 in the code
  DeadLetterKept    \* 500 in the code

ASSUME EventManagerAssumption ==
  /\ Critical \subseteq Events
  /\ Limit \in [Handlers -> Nat \ {0}]
  /\ {MaxRetries, BatchSize, DeadLetterKept} \subseteq Nat \ {0}
  /\ DeadLetterLimit \in Nat /\ DeadLetterKept <= DeadLetterLimit

VARIABLES
  isRunning,
  cleaning,         \* cleanup() waits for the handlers to stop
  handlers,         \* the registered handlers
  status, retryCount,
  processingQueue,
  processings,      \* calls of processEvent under way, and their handler calls
  activeHandlers,
  retryTimers,      \* pending retry timers of each event
  deadLetterQueue,
  dropped           \* events cut off the dead letter queue

lifecycle == <<isRunning, cleaning, handlers>>
work == <<processings, activeHandlers>>
retrying == <<retryCount, retryTimers>>
deadLetters == <<deadLetterQueue, dropped>>
vars == <<lifecycle, status, processingQueue, work, retrying, deadLetters>>

Init ==
  /\ isRunning = FALSE /\ cleaning = FALSE /\ handlers = Handlers
  /\ status = [e \in Events |-> "none"] /\ retryCount = [e \in Events |-> 0]
  /\ processingQueue = <<>> /\ processings = <<>>
  /\ activeHandlers = [h \in Handlers |-> 0]
  /\ retryTimers = [e \in Events |-> 0]
  /\ deadLetterQueue = <<>> /\ dropped = {}

-----------------------------------------------------------------------------
\* Math.max(0, currentConcurrency - 1).
Released(active) == IF active > 0 THEN active - 1 ELSE 0

\* executeHandler up to its first await: a call at the limit throws at once,
\* and its finally block takes one off the count it never added to.
Admitted(active, h) == active[h] < Limit[h]

StartProcessing(at, e) ==
  LET Count(h) == CASE h \notin handlers -> at.active[h]
                    [] Admitted(at.active, h) -> at.active[h] + 1
                    [] OTHER -> Released(at.active[h])
      Call(h) == CASE h \notin handlers -> "none"
                   [] Admitted(at.active, h) -> "running"
                   [] OTHER -> "failed"
  IN [active |-> [h \in Handlers |-> Count(h)],
      begun |-> Append(at.begun, [event |-> e, calls |-> [h \in Handlers |-> Call(h)]])]

\* One processEvent after the other: what the first n events of a batch began.
Started(batch) ==
  LET after[n \in 0..Len(batch)] ==
        IF n = 0 THEN [active |-> activeHandlers, begun |-> processings]
        ELSE StartProcessing(after[n - 1], batch[n])
  IN after

\* All events of a batch begin before any of their handlers can end.
Process(batch) ==
  LET after == Started(batch)[Len(batch)]
  IN processings' = after.begun /\ activeHandlers' = after.active

-----------------------------------------------------------------------------
Initialize ==
  /\ ~isRunning
  /\ isRunning' = TRUE
  /\ UNCHANGED <<cleaning, handlers, status, processingQueue, work, retrying, deadLetters>>

RegisterHandler(h) ==
  /\ h \notin handlers
  /\ handlers' = handlers \cup {h}
  /\ UNCHANGED <<isRunning, cleaning, status, processingQueue, work, retrying, deadLetters>>

\* The calls of the handler that are under way go on.
UnregisterHandler(h) ==
  /\ h \in handlers
  /\ handlers' = handlers \ {h}
  /\ UNCHANGED <<isRunning, cleaning, status, processingQueue, work, retrying, deadLetters>>

EmitEvent(e) ==
  /\ status[e] = "none"
  /\ processingQueue' = Append(processingQueue, e)
  /\ IF e \in Critical
     THEN Process(<<e>>) /\ status' = [status EXCEPT ![e] = "processing"]
     ELSE status' = [status EXCEPT ![e] = "pending"] /\ UNCHANGED work
  /\ UNCHANGED <<lifecycle, retrying, deadLetters>>

\* Mutant: only full batches are taken.
TakeBatch_FullOnly ==
  /\ Len(processingQueue) >= BatchSize
  /\ LET batch == SubSeq(processingQueue, 1, BatchSize)
     IN /\ Process(batch)
        /\ status' = [e \in Events |-> IF e \in ToSet(batch) THEN "processing" ELSE status[e]]
        /\ processingQueue' = SubSeq(processingQueue, BatchSize + 1, Len(processingQueue))

\* Mutant: the batch is copied and stays in the queue when it is the last one.
TakeBatch_Copies ==
  LET n == IF BatchSize < Len(processingQueue) THEN BatchSize ELSE Len(processingQueue)
      batch == SubSeq(processingQueue, 1, n)
  IN /\ processingQueue # <<>>
     /\ Len(processings) < 3
     /\ Process(batch)
     /\ status' = [e \in Events |-> IF e \in ToSet(batch) THEN "processing" ELSE status[e]]
     /\ UNCHANGED processingQueue

\* processEventBatch: at most batchSize events leave the queue together.
TakeBatch ==
  LET n == IF BatchSize < Len(processingQueue) THEN BatchSize ELSE Len(processingQueue)
      batch == SubSeq(processingQueue, 1, n)
  IN /\ processingQueue # <<>>
     /\ Process(batch)
     /\ status' = [e \in Events |-> IF e \in ToSet(batch) THEN "processing" ELSE status[e]]
     /\ processingQueue' = SubSeq(processingQueue, n + 1, Len(processingQueue))

\* The interval does not wait for the batch before.
ProcessEventBatch ==
  /\ isRunning
  /\ TakeBatch
  /\ UNCHANGED <<lifecycle, retrying, deadLetters>>

Cleanup ==
  /\ ~cleaning
  /\ isRunning' = FALSE /\ cleaning' = TRUE
  /\ UNCHANGED <<handlers, status, processingQueue, work, retrying, deadLetters>>

\* The handlers have stopped: one more batch is taken, however many are left.
ProcessRemainingEvents ==
  /\ cleaning
  /\ cleaning' = FALSE
  /\ TakeBatch \/ (processingQueue = <<>> /\ UNCHANGED <<processingQueue, status, work>>)
  /\ UNCHANGED <<isRunning, handlers, retrying, deadLetters>>

-----------------------------------------------------------------------------
\* Mutant: only a call that returns is taken off the count.
CallEnds_CountsReturnsOnly(i, h, outcome) ==
  /\ processings[i].calls[h] = "running"
  /\ processings' = [processings EXCEPT ![i].calls[h] = outcome]
  /\ activeHandlers' = IF outcome = "done"
                       THEN [activeHandlers EXCEPT ![h] = Released(@)] ELSE activeHandlers
  /\ UNCHANGED <<lifecycle, status, processingQueue, retrying, deadLetters>>

\* The handler returns, or it throws or is timed out.
CallEnds(i, h, outcome) ==
  /\ processings[i].calls[h] = "running"
  /\ processings' = [processings EXCEPT ![i].calls[h] = outcome]
  /\ activeHandlers' = [activeHandlers EXCEPT ![h] = Released(@)]
  /\ UNCHANGED <<lifecycle, status, processingQueue, retrying, deadLetters>>

Calls(i) == {processings[i].calls[h] : h \in Handlers}

Completed(e) ==
  /\ status' = [status EXCEPT ![e] = "completed"]
  /\ UNCHANGED <<retrying, deadLetters>>

Retried(e) ==
  /\ retryCount[e] + 1 < MaxRetries
  /\ status' = [status EXCEPT ![e] = "retrying"]
  /\ retryCount' = [retryCount EXCEPT ![e] = @ + 1]
  /\ retryTimers' = [retryTimers EXCEPT ![e] = @ + 1]
  /\ UNCHANGED deadLetters

\* A listener of 'event_dead_letter' that threw would bring the event here again,
\* through the catch of processEvent.
DeadLettered(e) ==
  LET longer == Append(deadLetterQueue, e)
      kept == IF Len(longer) <= DeadLetterLimit THEN longer
              ELSE SubSeq(longer, Len(longer) - DeadLetterKept + 1, Len(longer))
  IN /\ retryCount[e] + 1 >= MaxRetries
     /\ status' = [status EXCEPT ![e] = "dead_letter"]
     /\ retryCount' = [retryCount EXCEPT ![e] = @ + 1]
     /\ deadLetterQueue' = kept
     /\ dropped' = dropped \cup (ToSet(longer) \ ToSet(kept))
     /\ UNCHANGED retryTimers

\* processEvent after its handlers: one that failed makes the event fail.
Settle(i) ==
  LET e == processings[i].event
  IN /\ "running" \notin Calls(i)
     /\ processings' = RemoveAt(processings, i)
     /\ IF "failed" \in Calls(i) THEN Retried(e) \/ DeadLettered(e) ELSE Completed(e)
     /\ UNCHANGED <<lifecycle, processingQueue, activeHandlers>>

\* Mutant: the event of a retry is queued only while the manager runs.
RetryTimer_OnlyRunning(e) ==
  /\ retryTimers[e] > 0
  /\ retryTimers' = [retryTimers EXCEPT ![e] = @ - 1]
  /\ status' = [status EXCEPT ![e] = "pending"]
  /\ processingQueue' = IF isRunning THEN Append(processingQueue, e) ELSE processingQueue
  /\ UNCHANGED <<lifecycle, work, retryCount, deadLetters>>

\* cleanup() leaves these timers alone.
RetryTimer(e) ==
  /\ retryTimers[e] > 0
  /\ retryTimers' = [retryTimers EXCEPT ![e] = @ - 1]
  /\ status' = [status EXCEPT ![e] = "pending"]
  /\ processingQueue' = Append(processingQueue, e)
  /\ UNCHANGED <<lifecycle, work, retryCount, deadLetters>>

\* filter(): the events among the first n of a queue that are in the set.
Filtered(queue, set) ==
  LET kept[n \in 0..Len(queue)] ==
        IF n = 0 THEN <<>>
        ELSE IF queue[n] \in set THEN Append(kept[n - 1], queue[n]) ELSE kept[n - 1]
  IN kept

\* Mutant: an event that is retried stays in the dead letter queue as well.
RetryDeadLetterEvents_KeepsThem(ids) ==
  /\ Len(processingQueue) < 3
  /\ processingQueue' = processingQueue \o Filtered(deadLetterQueue, ids)[Len(deadLetterQueue)]
  /\ status' = [e \in Events |-> IF e \in ids THEN "pending" ELSE status[e]]
  /\ retryCount' = [e \in Events |-> IF e \in ids THEN 0 ELSE retryCount[e]]
  /\ UNCHANGED <<lifecycle, work, retryTimers, deadLetters>>

RetryDeadLetterEvents(ids) ==
  LET Picked(set) == Filtered(deadLetterQueue, set)[Len(deadLetterQueue)]
  IN /\ processingQueue' = processingQueue \o Picked(ids)
     /\ deadLetterQueue' = Picked(Events \ ids)
     /\ status' = [e \in Events |-> IF e \in ids THEN "pending" ELSE status[e]]
     /\ retryCount' = [e \in Events |-> IF e \in ids THEN 0 ELSE retryCount[e]]
     /\ UNCHANGED <<lifecycle, work, retryTimers, dropped>>

-----------------------------------------------------------------------------
ProcessingStep(i) ==
  \/ \E h \in Handlers, outcome \in {"done", "failed"} : CallEnds(i, h, outcome)
  \/ Settle(i)

Next ==
  \/ Initialize \/ ProcessEventBatch \/ Cleanup \/ ProcessRemainingEvents
  \/ \E h \in Handlers : RegisterHandler(h) \/ UnregisterHandler(h)
  \/ \E e \in Events : EmitEvent(e) \/ RetryTimer(e)
  \/ \E i \in DOMAIN processings : ProcessingStep(i)
  \/ \E ids \in SUBSET ToSet(deadLetterQueue) \ {{}} : RetryDeadLetterEvents(ids)

Spec == Init /\ [][Next]_vars

\* The interval ticks, timers fire, and the timeout ends every handler call.
\* A processing only ever moves to the front of the list, so that fairness at
\* each position is fairness to each processing.
FairSpec ==
  /\ Spec
  /\ WF_vars(ProcessEventBatch) /\ WF_vars(ProcessRemainingEvents)
  /\ \A e \in Events : WF_vars(RetryTimer(e))
  /\ \A i \in 1..(2 * Cardinality(Events)) : WF_vars(i \in DOMAIN processings /\ ProcessingStep(i))

-----------------------------------------------------------------------------
Statuses == {"none", "pending", "processing", "completed", "retrying", "dead_letter"}

Occurrences(e, queue) == Cardinality({i \in DOMAIN queue : queue[i] = e})
Processing(e) == Cardinality({i \in DOMAIN processings : processings[i].event = e})

\* Whatever the status of an event says, somebody holds it who will go on
\* with it: the queue, a processing, a retry timer or the dead letter queue, unless
\* it was dropped when the dead letters were cut.
NoEventLost ==
  \A e \in Events :
    /\ status[e] = "pending" => e \in ToSet(processingQueue)
    /\ status[e] = "processing" => Processing(e) > 0
    /\ status[e] = "retrying" => retryTimers[e] > 0
    /\ status[e] = "dead_letter" => e \in ToSet(deadLetterQueue) \cup dropped

\* Where an event is: queued, handled, about to be retried, or dead.
Copies(e) ==
  Occurrences(e, processingQueue) + Processing(e) + retryTimers[e] + Occurrences(e, deadLetterQueue)

\* Types of the manager's state; an event is in one place at a time, through
\* failures, retries and dead letters, and a critical one in two at most, since it
\* is also handled at once.
TypeOK ==
  /\ isRunning \in BOOLEAN /\ cleaning \in BOOLEAN /\ handlers \subseteq Handlers
  /\ status \in [Events -> Statuses] /\ retryCount \in [Events -> Nat]
  /\ processingQueue \in Seq(Events) /\ deadLetterQueue \in Seq(Events)
  /\ processings \in Seq([event : Events, calls : [Handlers -> {"none", "running", "done", "failed"}]])
  /\ activeHandlers \in [Handlers -> Nat] /\ retryTimers \in [Events -> Nat]
  /\ dropped \subseteq Events
  /\ \A e \in Events : Copies(e) <= IF e \in Critical THEN 2 ELSE 1

Running(h) == {i \in DOMAIN processings : processings[i].calls[h] = "running"}

\* No slot of a handler leaks: its count never exceeds the calls under way,
\* so that a handler without calls admits the next one.
NoSlotLeaks == \A h \in Handlers : activeHandlers[h] <= Cardinality(Running(h))

\* An event that all handlers have handled is not handled again, unless it is
\* a critical one.
CompletedStays ==
  [][\A e \in Events \ Critical : status[e] = "completed" => status'[e] = "completed"]_vars

\* While the manager runs, every event is handled or becomes a dead letter.
EventsSettle ==
  \A e \in Events :
    status[e] \in {"pending", "retrying", "processing"} ~> status[e] \in {"completed", "dead_letter"} \/ ~isRunning

=============================================================================

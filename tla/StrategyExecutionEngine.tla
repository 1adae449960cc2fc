----------------------- MODULE StrategyExecutionEngine -----------------------
(***************************************************************************)
(* src/backend/execution/StrategyExecutionEngine.ts: trade decisions are   *)
(* admitted through a circuit breaker into a bounded priority queue, a     *)
(* 10 ms interval starts them, at most maxConcurrentExecutions at a time,  *)
(* and the promise given to the caller settles with their result.          *)
(* initialize, start, pause, resume and stop drive the status meanwhile.   *)
(* processQueue has no await: its isProcessingQueue flag is never seen set,*)
(* and no code reads config.enableCircuitBreaker: the breaker is always on.*)
(* The listeners of the engine's events are assumed not to throw.          *)
(***************************************************************************)
EXTENDS Integers, Sequences, SequencesExt, FiniteSets

CONSTANTS
  Requests,         \* trade decisions; each is submitted at most once
  Priority,         \* mapPriorityToNumber of a request's priority: 1..4
  Batch,            \* the sequence of requests given to executeBatch()
  MaxQueueSize, MaxConcurrent,   \* config limits
  Threshold,        \* circuitBreakerThreshold
  MaxInits, MaxStops   \* bounds: calls of initialize() and of stop()

ASSUME EngineAssumption ==
  /\ IsFiniteSet(Requests)
  /\ Priority \in [Requests -> 1..4]
  /\ Batch \in Seq(Requests) /\ IsInjective(Batch)
  /\ MaxQueueSize \in Nat /\ MaxConcurrent \in Nat \ {0} /\ Threshold \in Nat \ {0}
  /\ MaxInits \in Nat /\ MaxStops \in Nat

VARIABLES
  status,            \* ExecutionStatus
  executionQueue,    \* waiting requests, the next one first
  activeExecutions,  \* requests that are executing
  executionResults,  \* requests whose result is stored
  fate,              \* what became of the promise of a request
  arrivals,          \* admitted requests in the order of their timestamps
  batched,           \* how many requests of Batch executeBatch() has submitted
  breaker,           \* [state, failures]
  retryDue,          \* has nextRetryTime passed?
  overdue,           \* requests queued for longer than queueTimeout
  processors,        \* queue intervals that are running
  queueProcessor,    \* this.queueProcessor: the latest interval, 0: undefined
  initializing,      \* calls of initialize() that are suspended
  stops,             \* calls of stop() so far
  stopWaits          \* per call of stop(): the executions it still waits for

requestVars == <<executionQueue, activeExecutions, executionResults, fate, arrivals, batched>>
breakerVars == <<breaker, retryDue>>
controlVars == <<status, processors, queueProcessor, initializing, stops, stopWaits>>
vars == <<requestVars, breakerVars, controlVars, overdue>>

-----------------------------------------------------------------------------
EngineStatuses == {"idle", "processing", "executing", "paused", "stopped", "error"}

\* "refused" resolves with an error result without ever being queued; "ok" and
\* "failed" are results of executions; "rejected" rejects the promise.
Fates == {"new", "pending", "ok", "failed", "refused", "rejected"}
Settled == {"ok", "failed", "refused", "rejected"}

NotStopping == {"none"}   \* what a call of stop() waits for before it begins and after its end

Init ==
  /\ status = "idle"
  /\ executionQueue = <<>> /\ activeExecutions = {} /\ executionResults = {}
  /\ fate = [r \in Requests |-> "new"]
  /\ arrivals = <<>> /\ batched = 0
  /\ breaker = [state |-> "closed", failures |-> 0]
  /\ retryDue = FALSE
  /\ overdue = {}
  /\ processors = {} /\ queueProcessor = 0
  /\ initializing = 0
  /\ stops = 0 /\ stopWaits = [k \in 1..MaxStops |-> NotStopping]

-----------------------------------------------------------------------------
\* Mutant: only the priorities decide, a request overtakes its equals.
Ahead_OvertakesEquals(q, r) ==
  {i \in 1..Len(q) : \A j \in 1..i : Priority[q[j]] > Priority[r]}

\* The items addToQueue walks past: it stops at the first lower priority.
Ahead(q, r) == {i \in 1..Len(q) : \A j \in 1..i : Priority[q[j]] >= Priority[r]}

AddToQueue(q, r) == InsertAt(q, Cardinality(Ahead(q, r)) + 1, r)

\* One addToQueue after the other: the queue after the first i requests of rs.
Queued(q, rs) ==
  LET after[i \in 0..Len(rs)] == IF i = 0 THEN q ELSE AddToQueue(after[i - 1], rs[i])
  IN after

\* CircuitBreaker.canExecute, which moves an open breaker to half-open once the
\* recovery time is over.
Admits == breaker.state # "open" \/ retryDue

BreakerAsked ==
  breaker' = IF breaker.state = "open" /\ retryDue
             THEN [breaker EXCEPT !.state = "half-open"] ELSE breaker

\* executeTradeDecision for each request of rs in one synchronous run: refused
\* by the breaker, refused by a full queue, or queued.
Submit(rs) ==
  LET free     == IF MaxQueueSize > Len(executionQueue) THEN MaxQueueSize - Len(executionQueue) ELSE 0
      admitted == IF Admits THEN SubSeq(rs, 1, IF free < Len(rs) THEN free ELSE Len(rs)) ELSE <<>>
  IN /\ executionQueue' = Queued(executionQueue, admitted)[Len(admitted)]
     /\ arrivals' = arrivals \o admitted
     /\ fate' = [r \in Requests |-> IF r \in ToSet(admitted) THEN "pending"
                                    ELSE IF r \in ToSet(rs) THEN "refused" ELSE fate[r]]
     /\ BreakerAsked

ExecuteTradeDecision(r) ==
  /\ fate[r] = "new" /\ r \notin ToSet(Batch)
  /\ Submit(<<r>>)
  /\ UNCHANGED <<activeExecutions, executionResults, batched, retryDue, controlVars, overdue>>

\* The previous slice of the batch has settled.
BatchReady ==
  /\ batched < Len(Batch)
  /\ \A i \in 1..batched : fate[Batch[i]] \in Settled

\* executeBatch submits the next maxConcurrency decisions at once.
ExecuteBatch ==
  LET last == IF batched + MaxConcurrent < Len(Batch) THEN batched + MaxConcurrent ELSE Len(Batch)
  IN /\ BatchReady
     /\ Submit(SubSeq(Batch, batched + 1, last))
     /\ batched' = last
     /\ UNCHANGED <<activeExecutions, executionResults, retryDue, controlVars, overdue>>

-----------------------------------------------------------------------------
\* Mutant: the limit on concurrent executions is off by one.
CanProcess_OneMore ==
  /\ processors # {}
  /\ status = "executing"
  /\ executionQueue # <<>>
  /\ Cardinality(activeExecutions) <= MaxConcurrent

\* One tick of a queue interval: the head of the queue starts ...
CanProcess ==
  /\ processors # {}
  /\ status = "executing"
  /\ executionQueue # <<>>
  /\ Cardinality(activeExecutions) < MaxConcurrent

ProcessQueue ==
  /\ CanProcess
  /\ Head(executionQueue) \notin overdue
  /\ executionQueue' = Tail(executionQueue)
  /\ activeExecutions' = activeExecutions \cup {Head(executionQueue)}
  /\ UNCHANGED <<executionResults, fate, arrivals, batched, breakerVars, controlVars, overdue>>

\* Mutant: the timed-out request is dropped and its caller never told.
ProcessQueueTimeout_Silent ==
  /\ CanProcess
  /\ Head(executionQueue) \in overdue
  /\ executionQueue' = Tail(executionQueue)
  /\ UNCHANGED <<activeExecutions, executionResults, fate, arrivals, batched, breakerVars,
                 controlVars, overdue>>

\* ... unless it waited for too long.
ProcessQueueTimeout ==
  /\ CanProcess
  /\ Head(executionQueue) \in overdue
  /\ executionQueue' = Tail(executionQueue)
  /\ fate' = [fate EXCEPT ![Head(executionQueue)] = "rejected"]
  /\ UNCHANGED <<activeExecutions, executionResults, arrivals, batched, breakerVars,
                 controlVars, overdue>>

\* Mutant: the breaker closes but keeps its failures.
OnSuccess_KeepsFailures ==
  breaker' = IF breaker.state = "half-open" THEN [breaker EXCEPT !.state = "closed"] ELSE breaker

\* CircuitBreaker.onSuccess and onFailure.
OnSuccess ==
  breaker' = IF breaker.state = "half-open" THEN [state |-> "closed", failures |-> 0] ELSE breaker

\* `failures` is capped at Threshold: beyond it nothing depends on its value.
OnFailure ==
  LET failures == IF breaker.failures < Threshold THEN breaker.failures + 1 ELSE Threshold
  IN breaker' = [state |-> IF failures >= Threshold THEN "open" ELSE breaker.state,
                 failures |-> failures]

\* Promise.allSettled of every suspended stop() goes on without r.
StopsGoOn(r) ==
  stopWaits' = [k \in 1..MaxStops |->
                  IF stopWaits[k] = NotStopping THEN NotStopping ELSE stopWaits[k] \ {r}]

\* The execution promise of r settles: executeRequest catches every error, so
\* it carries a result.  A breaker that opens starts its recovery time anew.
Complete(r, success) ==
  /\ r \in activeExecutions
  /\ fate' = [fate EXCEPT ![r] = IF success THEN "ok" ELSE "failed"]
  /\ activeExecutions' = activeExecutions \ {r}
  /\ executionResults' = executionResults \cup {r}
  /\ IF success THEN OnSuccess ELSE OnFailure
  /\ retryDue' = IF ~success /\ breaker'.state = "open" THEN FALSE ELSE retryDue
  /\ StopsGoOn(r)
  /\ UNCHANGED <<executionQueue, arrivals, batched, overdue, status, processors, queueProcessor,
                 initializing, stops>>

\* clearResults: results of requests older than some moment are forgotten.
ClearResults ==
  /\ \E n \in 0..Len(arrivals) :
       executionResults' = executionResults \ ToSet(SubSeq(arrivals, 1, n))
  /\ UNCHANGED <<executionQueue, activeExecutions, fate, arrivals, batched, breakerVars,
                 controlVars, overdue>>

-----------------------------------------------------------------------------
\* Nothing keeps calls of initialize() from overlapping.
InitializeBegin ==
  /\ queueProcessor + initializing < MaxInits
  /\ status' = "processing"
  /\ initializing' = initializing + 1
  /\ UNCHANGED <<requestVars, breakerVars, overdue, processors, queueProcessor, stops, stopWaits>>

\* The components are ready: a new interval, whatever became of an older one.
InitializeEnd ==
  /\ initializing > 0
  /\ initializing' = initializing - 1
  /\ queueProcessor' = queueProcessor + 1
  /\ processors' = processors \cup {queueProcessor + 1}
  /\ status' = "idle"
  /\ UNCHANGED <<requestVars, breakerVars, overdue, stops, stopWaits>>

\* A component fails to initialize.
InitializeFails ==
  /\ initializing > 0
  /\ initializing' = initializing - 1
  /\ status' = "error"
  /\ UNCHANGED <<requestVars, breakerVars, overdue, processors, queueProcessor, stops, stopWaits>>

\* start(): `if (!this.queueProcessor)` looks at the handle, which stop() never
\* resets, not at the interval.
Start ==
  /\ status # "executing"
  /\ status' = "executing"
  /\ IF queueProcessor = 0
     THEN queueProcessor' = 1 /\ processors' = processors \cup {1}
     ELSE UNCHANGED <<queueProcessor, processors>>
  /\ UNCHANGED <<requestVars, breakerVars, overdue, initializing, stops, stopWaits>>

Pause ==
  /\ status' = "paused"
  /\ UNCHANGED <<requestVars, breakerVars, overdue, processors, queueProcessor,
                 initializing, stops, stopWaits>>

Resume ==
  /\ status = "paused"
  /\ status' = "executing"
  /\ UNCHANGED <<requestVars, breakerVars, overdue, processors, queueProcessor,
                 initializing, stops, stopWaits>>

\* stop(): clear the interval, then wait for the executions active now, also
\* while an earlier call waits.
StopBegin ==
  /\ stops < MaxStops
  /\ stops' = stops + 1
  /\ status' = "stopped"
  /\ processors' = processors \ {queueProcessor}
  /\ stopWaits' = [stopWaits EXCEPT ![stops + 1] = activeExecutions]
  /\ UNCHANGED <<requestVars, breakerVars, overdue, queueProcessor, initializing>>

\* Mutant: the queue is dropped, the callers are not told.
RejectQueued_Silent ==
  /\ executionQueue' = <<>>
  /\ UNCHANGED fate

\* Mutant: the executions that run are rejected as well.
RejectQueued_ActiveToo ==
  /\ executionQueue' = <<>>
  /\ fate' = [r \in Requests |-> IF fate[r] = "pending" THEN "rejected" ELSE fate[r]]

RejectQueued ==
  /\ executionQueue' = <<>>
  /\ fate' = [r \in Requests |-> IF r \in ToSet(executionQueue) THEN "rejected" ELSE fate[r]]

\* ... and reject whatever is queued by then.
StopEnd(k) ==
  /\ stopWaits[k] = {}
  /\ RejectQueued
  /\ stopWaits' = [stopWaits EXCEPT ![k] = NotStopping]
  /\ UNCHANGED <<activeExecutions, executionResults, arrivals, batched, breakerVars, overdue,
                 status, processors, queueProcessor, initializing, stops>>

\* Time passes.
RecoveryElapses ==
  /\ breaker.state = "open" /\ ~retryDue
  /\ retryDue' = TRUE
  /\ UNCHANGED <<requestVars, breaker, controlVars, overdue>>

QueueTimeoutElapses(r) ==
  /\ r \in ToSet(executionQueue) \ overdue
  \* every item that was queued earlier is overdue too
  /\ \A i, j \in 1..Len(arrivals) :
       i < j /\ arrivals[j] = r /\ arrivals[i] \in ToSet(executionQueue) => arrivals[i] \in overdue
  /\ overdue' = overdue \cup {r}
  /\ UNCHANGED <<requestVars, breakerVars, controlVars>>

-----------------------------------------------------------------------------
Next ==
  \/ InitializeBegin \/ InitializeEnd \/ InitializeFails
  \/ Start \/ Pause \/ Resume \/ StopBegin \/ \E k \in 1..MaxStops : StopEnd(k)
  \/ ExecuteBatch \/ ProcessQueue \/ ProcessQueueTimeout \/ ClearResults \/ RecoveryElapses
  \/ \E r \in Requests : \/ ExecuteTradeDecision(r) \/ QueueTimeoutElapses(r)
                         \/ \E success \in BOOLEAN : Complete(r, success)

Spec == Init /\ [][Next]_vars

\* The interval ticks, promises settle and executeBatch goes on after its
\* awaits; executions settle because executeOrder always does (OrderExecutor).
Fairness ==
  /\ WF_vars(ProcessQueue \/ ProcessQueueTimeout)
  /\ \A r \in Requests : WF_vars(\E success \in BOOLEAN : Complete(r, success))
  /\ WF_vars(InitializeEnd \/ InitializeFails) /\ WF_vars(ExecuteBatch)
  /\ WF_vars(\E k \in 1..MaxStops : StopEnd(k))

FairSpec == Spec /\ Fairness

-----------------------------------------------------------------------------
\* Types of the engine's state; its limits hold whatever intervals, stops and
\* batches overlap.
TypeOK ==
  /\ status \in EngineStatuses
  /\ executionQueue \in Seq(Requests) /\ Len(executionQueue) <= MaxQueueSize
  /\ activeExecutions \subseteq Requests /\ Cardinality(activeExecutions) <= MaxConcurrent
  /\ executionResults \subseteq Requests
  /\ fate \in [Requests -> Fates]
  /\ arrivals \in Seq(Requests)
  /\ batched \in 0..Len(Batch)
  /\ breaker \in [state : {"closed", "open", "half-open"}, failures : 0..Threshold]
  /\ retryDue \in BOOLEAN
  /\ overdue \subseteq Requests
  /\ processors \subseteq 1..(MaxInits + 1)
  /\ queueProcessor \in 0..(MaxInits + 1)
  /\ initializing \in 0..MaxInits
  /\ stops \in 0..MaxStops
  /\ stopWaits \in [1..MaxStops -> (SUBSET Requests) \cup {NotStopping}]

\* No promise is lost: a request is unsettled exactly while it is queued once
\* or executing, through timeouts, stops and restarts.
NoLostPromise ==
  /\ IsInjective(executionQueue)
  /\ ToSet(executionQueue) \cap activeExecutions = {}
  /\ ToSet(executionQueue) \cup activeExecutions = {r \in Requests : fate[r] = "pending"}

Before(r, s) ==
  \E i, j \in 1..Len(arrivals) : i < j /\ arrivals[i] = r /\ arrivals[j] = s

\* The breaker is open or half-open only after Threshold failures, and a closed
\* one has fewer: late results of earlier executions cannot leave it in between.
BreakerMatchesFailures == breaker.state = "closed" <=> breaker.failures < Threshold

\* A promise settles once, and only a pending one is resolved with a result.
SettlesOnce ==
  [][\A r \in Requests :
       /\ fate[r] \in Settled => fate'[r] = fate[r]
       /\ fate'[r] \in {"ok", "failed"} /\ fate'[r] # fate[r] => r \in activeExecutions]_vars

\* Whatever starts has waited behind nobody of its priority or a higher one who
\* came earlier.
StartsInOrder ==
  [][\A r \in activeExecutions' \ activeExecutions :
       \A s \in ToSet(executionQueue) \ {r} :
         \/ Priority[r] > Priority[s]
         \/ Priority[r] = Priority[s] /\ Before(r, s)]_vars

\* Once the engine keeps executing with a running interval, every request that
\* is queued or started settles (finitely many are submitted: nothing here says
\* that a low priority is served under an endless supply of higher ones).
EveryRequestSettles ==
  <>[](status = "executing" /\ processors # {}) =>
    \A r \in Requests : fate[r] = "pending" ~> fate[r] \in Settled

=============================================================================

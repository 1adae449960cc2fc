-------------------------- MODULE DatabaseManager --------------------------
(***************************************************************************)
(* DatabaseManager of src/backend/database/DatabaseManager.ts: the         *)
(* connection pool with its initialization, the circuit breaker, the       *)
(* reconnection timer, the retries of query(), transaction() and           *)
(* shutdown().  Of the Redis cache there is what the rest sees: hits and   *)
(* misses of reads, and the await of quitting it.  The health monitor only *)
(* watches.  PostgreSQL and the pool library are the environment: they     *)
(* fail at most MaxFaults times.                                           *)
(***************************************************************************)
EXTENDS Integers

CONSTANTS
  Calls,          \* callers of initialize(), query() and transaction()
  Reconnections,  \* callbacks of the reconnection timer, at most so many at once
  FailureThreshold, MaxReconnectAttempts, MaxRetries,
  MaxFaults

ASSUME DatabaseManagerAssumption ==
  /\ Calls \cap Reconnections = {}
  /\ {FailureThreshold, MaxReconnectAttempts} \subseteq Nat \ {0}
  /\ {MaxRetries, MaxFaults} \subseteq Nat

Procs == Calls \cup Reconnections
Operations == {"initialize", "query", "transaction"}

VARIABLES
  circuitState,
  circuitFailureCount,  \* counts up to the threshold: only that is compared
  withinTimeout,        \* the last failure is less than circuitTimeout ago
  reconnectAttempts,
  reconnectTimer,       \* a timer is pending
  isInitialized,
  shutdown,             \* how far shutdown() is
  pool,                 \* the pool of this.pool
  orphaned,             \* a pool that was overwritten is still open
  pc, operation, retries,
  faults                \* failures of the environment so far

breaker == <<circuitState, circuitFailureCount, withinTimeout>>
reconnecting == <<reconnectAttempts, reconnectTimer>>
pools == <<pool, orphaned>>
work == <<pc, operation, retries>>
vars == <<breaker, reconnecting, isInitialized, shutdown, pools, work, faults>>

isShuttingDown == shutdown # "running"

Init ==
  /\ circuitState = "CLOSED" /\ circuitFailureCount = 0 /\ withinTimeout = FALSE
  /\ reconnectAttempts = 0 /\ reconnectTimer = FALSE
  /\ isInitialized = FALSE /\ shutdown = "running"
  /\ pool = "none" /\ orphaned = FALSE
  /\ pc = [p \in Procs |-> "idle"]
  /\ operation = [c \in Calls |-> "query"] /\ retries = [c \in Calls |-> 0]
  /\ faults = 0

At(p, where) == pc' = [pc EXCEPT ![p] = where]

Fault == faults < MaxFaults /\ faults' = faults + 1

-----------------------------------------------------------------------------
CountFailure ==
  /\ circuitFailureCount' = IF circuitFailureCount < FailureThreshold
                            THEN circuitFailureCount + 1 ELSE circuitFailureCount
  /\ withinTimeout' = TRUE
  /\ circuitState' = IF circuitFailureCount' >= FailureThreshold
                     THEN "OPEN" ELSE circuitState

\* A timer that is pending stays the only one.
ScheduleReconnection ==
  IF reconnectTimer
  THEN UNCHANGED reconnecting
  ELSE reconnectAttempts' = reconnectAttempts + 1 /\ reconnectTimer' = TRUE

\* Mutant: the last attempt is not made.
HandleConnectionError_OneLess(always) ==
  /\ CountFailure
  /\ IF (always \/ ~isShuttingDown) /\ reconnectAttempts + 1 < MaxReconnectAttempts
     THEN ScheduleReconnection ELSE UNCHANGED reconnecting

\* handleConnectionError.  The callback of the timer calls scheduleReconnection
\* once more, and whether or not the manager is shutting down ("always"); if it
\* is not, its call finds the timer pending and changes nothing.
HandleConnectionError(always) ==
  /\ CountFailure
  /\ IF (always \/ ~isShuttingDown) /\ reconnectAttempts < MaxReconnectAttempts
     THEN ScheduleReconnection ELSE UNCHANGED reconnecting

HandleSuccessfulConnection ==
  reconnectAttempts' = 0 /\ reconnectTimer' = FALSE

\* Mutants: any success forgets the failures; success leaves the breaker as it is.
HandleSuccessfulQuery_Forgets ==
  /\ circuitState' = IF circuitState = "HALF_OPEN" THEN "CLOSED" ELSE circuitState
  /\ circuitFailureCount' = 0
  /\ UNCHANGED withinTimeout
HandleSuccessfulQuery_StaysHalfOpen == UNCHANGED breaker

HandleSuccessfulQuery ==
  IF circuitState = "HALF_OPEN"
  THEN /\ circuitState' = "CLOSED" /\ circuitFailureCount' = 0
       /\ UNCHANGED withinTimeout
  ELSE UNCHANGED breaker

-----------------------------------------------------------------------------
\* initialize() up to its first await: the new pool overwrites the old one,
\* which nothing ends.
BeginInitialize(p) ==
  /\ pool' = "open"
  /\ orphaned' = (orphaned \/ pool = "open")
  /\ At(p, "connecting")

\* The attempt of a query or transaction begins: an ended pool refuses it.
BeginAttempt(c) == At(c, IF pool = "open" THEN "attempting" ELSE "doomed")

\* A call of initialize(), query() or transaction() up to its first await.
Initialize(c) ==
  /\ pc[c] = "idle" /\ ~isInitialized
  /\ \E op \in Operations : operation' = [operation EXCEPT ![c] = op]
  /\ BeginInitialize(c)
  /\ retries' = [retries EXCEPT ![c] = 0]
  /\ UNCHANGED <<breaker, reconnecting, isInitialized, shutdown, faults>>

\* query() looks at the breaker; the first attempt follows at once, or after the
\* cache has been asked in vain.
LetThrough(c) ==
  /\ pc[c] = "idle" /\ isInitialized
  /\ ~(circuitState = "OPEN" /\ withinTimeout)
  /\ circuitState' = IF circuitState = "OPEN" THEN "HALF_OPEN" ELSE circuitState
  /\ UNCHANGED <<circuitFailureCount, withinTimeout, reconnecting, isInitialized,
                 shutdown, pools, faults>>

Query(c) ==
  /\ LetThrough(c)
  /\ operation' = [operation EXCEPT ![c] = "query"]
  /\ retries' = [retries EXCEPT ![c] = 0]
  /\ BeginAttempt(c) \/ At(c, "backoff")

\* A cache hit: a breaker that was open stays half-open without an attempt.
CachedQuery(c) == LetThrough(c) /\ UNCHANGED work

Transaction(c) ==
  /\ pc[c] = "idle" /\ isInitialized
  /\ circuitState # "OPEN"
  /\ operation' = [operation EXCEPT ![c] = "transaction"]
  /\ BeginAttempt(c)
  /\ UNCHANGED <<breaker, reconnecting, isInitialized, shutdown, pools, retries, faults>>

\* The pool's 'connect' event, for the test of initialize() or for an attempt
\* that found no idle client.
Connected(p) ==
  /\ \/ pc[p] = "connecting" /\ At(p, "testing")
     \/ pc[p] = "attempting" /\ UNCHANGED pc
  /\ HandleSuccessfulConnection
  /\ UNCHANGED <<breaker, isInitialized, shutdown, pools, operation, retries, faults>>

\* The test query is answered; the caller goes on with a closed breaker.
Initialized(p) ==
  /\ pc[p] = "testing"
  /\ isInitialized' = TRUE
  /\ circuitState' = "CLOSED"
  /\ reconnectAttempts' = 0
  /\ IF p \in Calls /\ operation[p] # "initialize"
     THEN BeginAttempt(p) ELSE At(p, "idle")
  /\ UNCHANGED <<circuitFailureCount, withinTimeout, reconnectTimer, shutdown, pools,
                 operation, retries, faults>>

InitializeFails(p) ==
  /\ pc[p] \in {"connecting", "testing"}
  /\ Fault
  /\ HandleConnectionError(p \in Reconnections)
  /\ At(p, "idle")
  /\ UNCHANGED <<isInitialized, shutdown, pools, operation, retries>>

-----------------------------------------------------------------------------
\* A query or a transaction succeeds.
Succeeds(c) ==
  /\ pc[c] = "attempting"
  /\ HandleSuccessfulQuery
  /\ At(c, "idle")
  /\ UNCHANGED <<reconnecting, isInitialized, shutdown, pools, operation, retries, faults>>

AttemptFails(c) ==
  \/ pc[c] = "attempting" /\ Fault
  \/ pc[c] = "doomed" /\ UNCHANGED faults

\* The catch of query(): back off, or give up and count the failure.
QueryAttemptFails(c) ==
  /\ operation[c] = "query"
  /\ AttemptFails(c)
  /\ retries' = [retries EXCEPT ![c] = @ + 1]
  /\ IF retries[c] < MaxRetries
     THEN At(c, "backoff") /\ UNCHANGED <<breaker, reconnecting>>
     ELSE At(c, "idle") /\ HandleConnectionError(FALSE)
  /\ UNCHANGED <<isInitialized, shutdown, pools, operation>>

\* The backoff or the cache read is over: neither the breaker nor isInitialized
\* is looked at again.
Retry(c) ==
  /\ pc[c] = "backoff"
  /\ BeginAttempt(c)
  /\ UNCHANGED <<breaker, reconnecting, isInitialized, shutdown, pools, operation, retries,
                 faults>>

\* A transaction fails inside and is rolled back; one that gets no client, or
\* whose ROLLBACK fails too, is not counted.
TransactionFails(c) ==
  /\ operation[c] = "transaction"
  /\ AttemptFails(c)
  /\ At(c, "idle")
  /\ \/ pc[c] = "attempting" /\ HandleConnectionError(FALSE)
     \/ UNCHANGED <<breaker, reconnecting>>
  /\ UNCHANGED <<isInitialized, shutdown, pools, operation, retries>>

-----------------------------------------------------------------------------
\* The 'error' event of a pool, the current one or one that was overwritten.
PoolError ==
  /\ pool = "open" \/ orphaned
  /\ Fault
  /\ HandleConnectionError(FALSE)
  /\ UNCHANGED <<isInitialized, shutdown, pools, work>>

TimerFires(r) ==
  /\ reconnectTimer /\ pc[r] = "idle"
  /\ reconnectTimer' = FALSE
  /\ isInitialized' = FALSE
  /\ BeginInitialize(r)
  /\ UNCHANGED <<breaker, reconnectAttempts, shutdown, operation, retries, faults>>

\* circuitTimeout after the last failure.
TimeoutPasses ==
  /\ withinTimeout /\ withinTimeout' = FALSE
  /\ UNCHANGED <<circuitState, circuitFailureCount, reconnecting, isInitialized, shutdown,
                 pools, work, faults>>

\* shutdown() clears the timer, quits Redis, ends the pool that this.pool then
\* is, and waits for it.
Shutdown ==
  /\ shutdown = "running" /\ shutdown' = "quitting"
  /\ reconnectTimer' = FALSE
  /\ UNCHANGED <<breaker, reconnectAttempts, isInitialized, pools, work, faults>>

EndPool ==
  /\ shutdown = "quitting" /\ shutdown' = "ending"
  /\ pool' = IF pool = "open" THEN "ended" ELSE pool
  /\ UNCHANGED <<breaker, reconnecting, isInitialized, orphaned, work, faults>>

ShutdownCompletes ==
  /\ shutdown = "ending" /\ shutdown' = "done"
  /\ isInitialized' = FALSE
  /\ UNCHANGED <<breaker, reconnecting, pools, work, faults>>

-----------------------------------------------------------------------------
Settles(p) == Connected(p) \/ Initialized(p) \/ InitializeFails(p)

CallStep(c) ==
  \/ Initialize(c) \/ Query(c) \/ CachedQuery(c) \/ Transaction(c)
  \/ Succeeds(c) \/ QueryAttemptFails(c) \/ TransactionFails(c) \/ Retry(c)

Next ==
  \/ \E p \in Procs : Settles(p)
  \/ \E c \in Calls : CallStep(c)
  \/ \E r \in Reconnections : TimerFires(r)
  \/ PoolError \/ TimeoutPasses
  \/ Shutdown \/ EndPool \/ ShutdownCompletes

Spec == Init /\ [][Next]_vars

\* The pool settles what it is asked, timers fire, and queries keep coming.
FairSpec ==
  /\ Spec
  /\ \A p \in Procs : WF_vars(Settles(p) /\ pc' # pc)
  /\ \A c \in Calls :
       /\ WF_vars(Initialize(c)) /\ WF_vars(Query(c)) /\ WF_vars(Retry(c))
       /\ WF_vars(Succeeds(c) \/ QueryAttemptFails(c) \/ TransactionFails(c))
  /\ WF_vars(\E r \in Reconnections : TimerFires(r))
  /\ WF_vars(TimeoutPasses)

-----------------------------------------------------------------------------
(* Properties *)

\* Every variable has its type, and reconnections never outnumber
\* maxReconnectAttempts, whichever of query(), the timer and the pool's errors
\* schedule them.
TypeOK ==
  /\ circuitState \in {"CLOSED", "OPEN", "HALF_OPEN"}
  /\ circuitFailureCount \in 0 .. FailureThreshold
  /\ withinTimeout \in BOOLEAN
  /\ reconnectAttempts \in 0 .. MaxReconnectAttempts
  /\ reconnectTimer \in BOOLEAN /\ isInitialized \in BOOLEAN
  /\ shutdown \in {"running", "quitting", "ending", "done"}
  /\ pool \in {"none", "open", "ended"} /\ orphaned \in BOOLEAN
  /\ pc \in [Procs -> {"idle", "connecting", "testing", "attempting", "doomed", "backoff"}]
  /\ operation \in [Calls -> Operations]
  /\ retries \in [Calls -> 0 .. MaxRetries + 1]
  /\ faults \in 0 .. MaxFaults

\* The breaker is open, or half-open on probation, only after circuitFailureThreshold
\* failures, whatever succeeds meanwhile: attempts that began before the breaker
\* opened, a reconnection, transactions.
BreakerHasCause == circuitState # "CLOSED" => circuitFailureCount = FailureThreshold

\* Reconnecting never ends before maxReconnectAttempts: once counted, an attempt is
\* pending or under way until it succeeds or the next one follows.
ReconnectsGoOn ==
  reconnectAttempts \in 1 .. MaxReconnectAttempts - 1 /\ ~isShuttingDown =>
    reconnectTimer \/ \E r \in Reconnections : pc[r] # "idle"

\* With finitely many faults the breaker closes again, although transactions never
\* try a breaker that is open and reconnecting may have been given up.
BreakerRecovers == circuitState # "CLOSED" ~> circuitState = "CLOSED" \/ isShuttingDown

=============================================================================

----------------------- MODULE DatabaseManagerProofs -----------------------
(***************************************************************************)
(* Proofs about DatabaseManager for any number of callers, of overlapping  *)
(* reconnections, of retries and of faults.                                *)
(***************************************************************************)
EXTENDS DatabaseManager, TLAPS

\* A query under way has counted at most MaxRetries failed attempts.
RetriesLeft ==
  \A c \in Calls : operation[c] = "query" /\ pc[c] # "idle" => retries[c] <= MaxRetries

Inv == TypeOK /\ RetriesLeft /\ BreakerHasCause /\ ReconnectsGoOn

\* What a step must keep when the shared variables are settled.
Shared ==
  /\ circuitState \in {"CLOSED", "OPEN", "HALF_OPEN"}
  /\ circuitFailureCount \in 0 .. FailureThreshold
  /\ withinTimeout \in BOOLEAN
  /\ BreakerHasCause

Timer ==
  /\ reconnectAttempts \in 0 .. MaxReconnectAttempts
  /\ reconnectTimer \in BOOLEAN

USE DEF Procs, Operations, isShuttingDown

\* Counting a failure leaves the breaker with its cause.
LEMMA CountFailureShared ==
  ASSUME DatabaseManagerAssumption, Shared, CountFailure PROVE Shared'
BY DEF DatabaseManagerAssumption, Shared, CountFailure, BreakerHasCause

\* A success leaves the breaker closed or with its cause.
LEMMA SuccessShared ==
  ASSUME DatabaseManagerAssumption, Shared, HandleSuccessfulQuery PROVE Shared'
BY DEF DatabaseManagerAssumption, Shared, HandleSuccessfulQuery, BreakerHasCause, breaker

\* handleConnectionError keeps to the maximum and, while attempts are left and the
\* manager runs, leaves a timer behind.
LEMMA ErrorTimer ==
  ASSUME DatabaseManagerAssumption, Timer,
         HandleConnectionError(TRUE) \/ HandleConnectionError(FALSE)
  PROVE  /\ Timer'
         /\ ~isShuttingDown /\ reconnectAttempts' < MaxReconnectAttempts => reconnectTimer'
<1>1. \/ /\ reconnectAttempts < MaxReconnectAttempts /\ ~reconnectTimer
         /\ reconnectAttempts' = reconnectAttempts + 1 /\ reconnectTimer' = TRUE
      \/ /\ reconnectAttempts' = reconnectAttempts /\ reconnectTimer' = reconnectTimer
         /\ reconnectTimer \/ isShuttingDown \/ ~(reconnectAttempts < MaxReconnectAttempts)
  BY Zenon DEF HandleConnectionError, ScheduleReconnection, reconnecting
<1>2. CASE reconnectAttempts < MaxReconnectAttempts /\ reconnectAttempts' = reconnectAttempts + 1
           /\ reconnectTimer' = TRUE
  BY <1>2 DEF DatabaseManagerAssumption, Timer
<1>3. CASE reconnectAttempts' = reconnectAttempts /\ reconnectTimer' = reconnectTimer
           /\ (reconnectTimer \/ isShuttingDown \/ ~(reconnectAttempts < MaxReconnectAttempts))
  BY <1>3 DEF DatabaseManagerAssumption, Timer
<1>. QED BY <1>1, <1>2, <1>3

\* A failure keeps reconnecting going.
LEMMA ErrorGoesOn ==
  ASSUME DatabaseManagerAssumption, TypeOK,
         HandleConnectionError(TRUE) \/ HandleConnectionError(FALSE), UNCHANGED shutdown
  PROVE  Timer' /\ ReconnectsGoOn'
<1>1. Timer BY DEF TypeOK, Timer
<1>2. /\ Timer'
      /\ ~isShuttingDown /\ reconnectAttempts' < MaxReconnectAttempts => reconnectTimer'
  BY <1>1, ErrorTimer
<1>3. reconnectAttempts' \in 1 .. MaxReconnectAttempts - 1
        => reconnectAttempts' < MaxReconnectAttempts
  BY <1>2 DEF Timer, DatabaseManagerAssumption
<1>. QED BY <1>2, <1>3 DEF ReconnectsGoOn
-----------------------------------------------------------------------------
LEMMA InitInv == ASSUME DatabaseManagerAssumption, Init PROVE Inv
<1>0. /\ 0 \in 0 .. FailureThreshold /\ 0 \in 0 .. MaxReconnectAttempts
      /\ 0 \in 0 .. MaxRetries + 1 /\ 0 \in 0 .. MaxFaults
  BY DEF DatabaseManagerAssumption
<1>1. TypeOK BY <1>0 DEF Init, TypeOK
<1>2. RetriesLeft BY DEF Init, RetriesLeft
<1>3. BreakerHasCause /\ ReconnectsGoOn BY DEF Init, BreakerHasCause, ReconnectsGoOn
<1>. QED BY <1>1, <1>2, <1>3 DEF Inv

LEMMA StepInv == ASSUME DatabaseManagerAssumption, Inv, [Next]_vars PROVE Inv'
<1>. USE DatabaseManagerAssumption DEF DatabaseManagerAssumption
<1>0. Shared /\ Timer BY DEF Inv, TypeOK, Shared, Timer
<1>1. ASSUME NEW p \in Procs, Connected(p) PROVE Inv'
  <2>1. 0 \in 0 .. MaxReconnectAttempts
    OBVIOUS
  <2>2. pc' \in [Procs -> {"idle", "connecting", "testing", "attempting", "doomed", "backoff"}]
    BY <1>1 DEF Inv, TypeOK, Connected, At
  <2>3. TypeOK'
    BY <1>1, <2>1, <2>2, Zenon DEF Inv, TypeOK, Connected, HandleSuccessfulConnection,
                                   breaker, pools
  <2>4. ASSUME NEW q \in Procs, pc'[q] # "idle" PROVE pc[q] # "idle"
    <3>1. CASE q = p BY <1>1, <3>1 DEF Connected
    <3>2. CASE q # p BY <1>1, <2>4, <3>2 DEF Inv, TypeOK, Connected, At
    <3>. QED BY <3>1, <3>2
  <2>5. RetriesLeft'
    BY <1>1, <2>4 DEF Inv, RetriesLeft, Connected
  <2>6. BreakerHasCause' /\ ReconnectsGoOn'
    BY <1>1 DEF Inv, BreakerHasCause, ReconnectsGoOn, Connected,
                HandleSuccessfulConnection, breaker
  <2>. QED BY <2>3, <2>5, <2>6 DEF Inv
<1>2. ASSUME NEW p \in Procs, Initialized(p) PROVE Inv'
  BY <1>2 DEF Inv, TypeOK, RetriesLeft, BreakerHasCause, ReconnectsGoOn, Initialized, At,
              BeginAttempt, pools
<1>3. ASSUME NEW p \in Procs, InitializeFails(p) PROVE Inv'
  <2>0. HandleConnectionError(TRUE) \/ HandleConnectionError(FALSE)
    BY <1>3 DEF InitializeFails, HandleConnectionError
  <2>1. Shared' BY <1>0, <2>0, CountFailureShared DEF HandleConnectionError
  <2>2. Timer' /\ ReconnectsGoOn'
    BY <1>3, <2>0, ErrorGoesOn DEF InitializeFails, Inv
  <2>. QED
    BY <1>3, <2>1, <2>2 DEF Inv, TypeOK, RetriesLeft, Shared, Timer, InitializeFails, At,
                            Fault, pools
<1>4. ASSUME NEW c \in Calls, Initialize(c) PROVE Inv'
  BY <1>4 DEF Inv, TypeOK, RetriesLeft, BreakerHasCause, ReconnectsGoOn, Initialize,
              BeginInitialize, At, breaker, reconnecting
<1>5. ASSUME NEW c \in Calls, Query(c) PROVE Inv'
  BY <1>5 DEF Inv, TypeOK, RetriesLeft, BreakerHasCause, ReconnectsGoOn, Query, LetThrough,
              BeginAttempt, At, reconnecting, pools
<1>6. ASSUME NEW c \in Calls, CachedQuery(c) PROVE Inv'
  BY <1>6 DEF Inv, TypeOK, RetriesLeft, BreakerHasCause, ReconnectsGoOn, CachedQuery,
               LetThrough, reconnecting, pools, work
<1>7. ASSUME NEW c \in Calls, Transaction(c) PROVE Inv'
  BY <1>7 DEF Inv, TypeOK, RetriesLeft, BreakerHasCause, ReconnectsGoOn, Transaction,
              BeginAttempt, At, breaker, reconnecting, pools
<1>8. ASSUME NEW c \in Calls, Succeeds(c) PROVE Inv'
  <2>1. Shared' BY <1>0, <1>8, SuccessShared DEF Succeeds
  <2>. QED
    BY <1>8, <2>1 DEF Inv, TypeOK, RetriesLeft, ReconnectsGoOn, Shared, Succeeds, At,
                      reconnecting, pools
<1>9. ASSUME NEW c \in Calls, QueryAttemptFails(c) PROVE Inv'
  <2>0. pc[c] # "idle" /\ faults' \in 0 .. MaxFaults
    BY <1>9 DEF QueryAttemptFails, AttemptFails, Fault, Inv, TypeOK
  <2>1. CASE retries[c] < MaxRetries
    BY <1>9, <2>0, <2>1 DEF Inv, TypeOK, RetriesLeft, BreakerHasCause, ReconnectsGoOn,
                            QueryAttemptFails, At, breaker, reconnecting, pools
  <2>2. CASE ~(retries[c] < MaxRetries)
    <3>1. Shared'
      BY <1>0, <1>9, <2>2, CountFailureShared DEF QueryAttemptFails, HandleConnectionError
    <3>2. Timer' /\ ReconnectsGoOn'
      BY <1>9, <2>2, ErrorGoesOn DEF QueryAttemptFails, Inv
    <3>. QED
      BY <1>9, <2>0, <2>2, <3>1, <3>2 DEF Inv, TypeOK, RetriesLeft, Shared, Timer,
                                          QueryAttemptFails, At, pools
  <2>. QED BY <2>1, <2>2
<1>10. ASSUME NEW c \in Calls, TransactionFails(c) PROVE Inv'
  <2>0. faults' \in 0 .. MaxFaults
    BY <1>10 DEF TransactionFails, AttemptFails, Fault, Inv, TypeOK
  <2>1. CASE HandleConnectionError(FALSE)
    <3>1. Shared' BY <1>0, <2>1, CountFailureShared DEF HandleConnectionError
    <3>2. Timer' /\ ReconnectsGoOn'
      BY <1>10, <2>1, ErrorGoesOn DEF TransactionFails, Inv
    <3>. QED
      BY <1>10, <2>0, <3>1, <3>2 DEF Inv, TypeOK, RetriesLeft, Shared, Timer,
                                    TransactionFails, At, pools
  <2>2. CASE UNCHANGED <<breaker, reconnecting>>
    BY <1>10, <2>0, <2>2 DEF Inv, TypeOK, RetriesLeft, BreakerHasCause, ReconnectsGoOn,
                            TransactionFails, At, breaker, reconnecting, pools
  <2>. QED BY <1>10, <2>1, <2>2 DEF TransactionFails
<1>11. ASSUME NEW c \in Calls, Retry(c) PROVE Inv'
  BY <1>11 DEF Inv, TypeOK, RetriesLeft, BreakerHasCause, ReconnectsGoOn, Retry,
               BeginAttempt, At, breaker, reconnecting, pools
<1>12. ASSUME NEW r \in Reconnections, TimerFires(r) PROVE Inv'
  BY <1>12 DEF Inv, TypeOK, RetriesLeft, BreakerHasCause, ReconnectsGoOn, TimerFires,
               BeginInitialize, At, breaker
<1>13. CASE PoolError
  <2>1. Shared' BY <1>0, <1>13, CountFailureShared DEF PoolError, HandleConnectionError
  <2>2. Timer' /\ ReconnectsGoOn' BY <1>13, ErrorGoesOn DEF PoolError, Inv
  <2>. QED
    BY <1>13, <2>1, <2>2 DEF Inv, TypeOK, RetriesLeft, Shared, Timer, PoolError, Fault,
                             work, pools
<1>14. CASE TimeoutPasses \/ Shutdown \/ EndPool \/ ShutdownCompletes
  <2>1. CASE TimeoutPasses
    BY <2>1 DEF Inv, TypeOK, RetriesLeft, BreakerHasCause, ReconnectsGoOn, TimeoutPasses,
                breaker, reconnecting, pools, work
  <2>2. CASE Shutdown
    BY <2>2 DEF Inv, TypeOK, RetriesLeft, BreakerHasCause, ReconnectsGoOn, Shutdown,
                breaker, reconnecting, pools, work
  <2>3. CASE EndPool
    BY <2>3 DEF Inv, TypeOK, RetriesLeft, BreakerHasCause, ReconnectsGoOn, EndPool,
                breaker, reconnecting, pools, work
  <2>4. CASE ShutdownCompletes
    BY <2>4 DEF Inv, TypeOK, RetriesLeft, BreakerHasCause, ReconnectsGoOn, ShutdownCompletes,
                breaker, reconnecting, pools, work
  <2>. QED BY <1>14, <2>1, <2>2, <2>3, <2>4
<1>15. CASE UNCHANGED vars
  BY <1>15 DEF Inv, TypeOK, RetriesLeft, BreakerHasCause, ReconnectsGoOn, vars, breaker,
               reconnecting, pools, work
<1>. QED
  BY <1>1, <1>2, <1>3, <1>4, <1>5, <1>6, <1>7, <1>8, <1>9, <1>10, <1>11, <1>12, <1>13, <1>14,
     <1>15
  DEF Next, Settles, CallStep

\* Inv is an invariant of the manager.
THEOREM InvAlways == ASSUME DatabaseManagerAssumption PROVE Spec => []Inv
BY InitInv, StepInv, PTL DEF Spec

\* The manager's variables have their types, and reconnections never outnumber
\* maxReconnectAttempts.
THEOREM TypeCorrectness == ASSUME DatabaseManagerAssumption PROVE Spec => []TypeOK
<1>1. Inv => TypeOK BY DEF Inv
<1>. QED BY <1>1, InvAlways, PTL

\* The breaker is open or half-open only after circuitFailureThreshold failures,
\* with any number of queries, transactions and reconnections that overlap.
THEOREM BreakerHasCauseAlways ==
  ASSUME DatabaseManagerAssumption PROVE Spec => []BreakerHasCause
<1>1. Inv => BreakerHasCause BY DEF Inv
<1>. QED BY <1>1, InvAlways, PTL

\* Reconnecting goes on until it succeeds or its attempts are used up, with any
\* number of overlapping reconnections.
THEOREM ReconnectsGoOnAlways ==
  ASSUME DatabaseManagerAssumption PROVE Spec => []ReconnectsGoOn
<1>1. Inv => ReconnectsGoOn BY DEF Inv
<1>. QED BY <1>1, InvAlways, PTL
=============================================================================

---------------------------- MODULE OrderExecutor ----------------------------
(***************************************************************************)
(* src/backend/execution/OrderExecutor.ts: the executor that turns an      *)
(* execution plan into one order, or into a parent order and its slices,   *)
(* and follows every order until it is filled, rejected or failed.  Every  *)
(* executeOrder() call is an asynchronous activity of its own; cancels,    *)
(* the monitoring interval and cleanup() run between its awaits and share  *)
(* the order objects and the two maps with it.                             *)
(***************************************************************************)
EXTENDS Integers, FiniteSets

CONSTANTS
  Plans,            \* execution plans; executeOrder() is called once for each
  PlanSpecs,        \* what a plan may ask for: [venue, quantity, slices, valid]
  MaxSlices,        \* bound: the largest number of slices a plan asks for
  MaxChecks,        \* fill polls before a live order times out (60 dYdX, 30 mock)
  MaxOrderSize,     \* config.maxOrderSize
  ListenerThrows,   \* may a listener of an order event throw?
  RealTimeMonitoring, \* config.enableRealTimeMonitoring
  MaxTimers         \* bound: calls of initialize()

\* "dydx" and "mock" are mode 'live' with and without an injected dYdX client.
Venues == {"paper", "backtest", "mock", "dydx"}

ASSUME ConstantsAssumption ==
  /\ IsFiniteSet(Plans)
  /\ MaxSlices \in Nat \ {0}
  /\ MaxChecks \in Nat \ {0}
  /\ MaxOrderSize \in Nat
  /\ MaxTimers \in Nat
  /\ ListenerThrows \in BOOLEAN
  /\ RealTimeMonitoring \in BOOLEAN
  /\ PlanSpecs \subseteq [venue : Venues, quantity : Nat,
                          slices : 1..MaxSlices, valid : BOOLEAN]
  /\ PlanSpecs # {}

VARIABLES
  spec,               \* plan -> the specification its call was made with
  pc,                 \* plan -> where its executeOrder() call is suspended
  cur,                \* plan -> 0: the order itself; i: slice i is executing
  checks,             \* plan -> fill polls made for the current order
  lastFill,           \* plan -> fillQuantity of the last slice result, 0 if none
  totalFill,          \* plan -> totalFillQuantity of executeSlicedOrder
  status,             \* order -> status of the shared order object
  filledQuantity,     \* order -> filledQuantity of the order object
  activeOrders,       \* keys of this.activeOrders
  orderHistory,       \* keys of this.orderHistory
  orderSliceManagers, \* keys of this.orderSliceManagers
  metrics,            \* this.executionMetrics: the three counters
  aged,               \* plans whose orders are older than orderTimeoutMs
  timers,             \* monitoring intervals that are running
  monitoringTimer,    \* this.monitoringTimer: the latest interval, 0: undefined
  cleanup             \* progress of cleanup(): "no", "client", "done"

execVars  == <<spec, pc, cur, checks, lastFill, totalFill>>
orderVars == <<status, filledQuantity, activeOrders, orderHistory>>
timeVars  == <<aged, timers, monitoringTimer, cleanup>>
vars == <<execVars, orderVars, orderSliceManagers, metrics, timeVars>>

-----------------------------------------------------------------------------
Orders == Plans \X (0..MaxSlices)   \* <<p, 0>> is the order, <<p, i>> slice i

Suspended == {"validate", "submit", "monitor", "simulate", "backtest",
              "returned", "pause"}
PCs == Suspended \cup {"none", "done"}

Statuses == {"absent", "pending", "filled", "rejected", "cancelled",
             "expired", "error"}

IsSliced(p) == spec[p].slices > 1

Current(p) == <<p, cur[p]>>

\* Mutant: every slice gets the remainder.
SliceQuantity_RemainderInAll(s, i) == (s.quantity \div s.slices) + (s.quantity % s.slices)

\* OrderSliceManager.createSlices: equal floors, the remainder in the last one.
SliceQuantity(s, i) ==
  IF i = s.slices THEN (s.quantity \div s.slices) + (s.quantity % s.slices)
                  ELSE s.quantity \div s.slices

QuantityOf(id) ==
  IF id[2] = 0 THEN spec[id[1]].quantity ELSE SliceQuantity(spec[id[1]], id[2])

\* Where executeSingleOrder first suspends, by order.metadata.mode.
Entry(venue) == CASE venue = "paper"    -> "simulate"
                  [] venue = "backtest" -> "backtest"
                  [] venue \in {"mock", "dydx"} -> "validate"

-----------------------------------------------------------------------------
Init ==
  /\ spec \in [Plans -> PlanSpecs]
  /\ pc = [p \in Plans |-> "none"]
  /\ cur = [p \in Plans |-> 0]
  /\ checks = [p \in Plans |-> 0]
  /\ lastFill = [p \in Plans |-> 0]
  /\ totalFill = [p \in Plans |-> 0]
  /\ status = [id \in Orders |-> "absent"]
  /\ filledQuantity = [id \in Orders |-> 0]
  /\ activeOrders = {}
  /\ orderHistory = {}
  /\ orderSliceManagers = {}
  /\ metrics = [total |-> 0, successful |-> 0, failed |-> 0]
  /\ aged = {}
  /\ timers = {}
  /\ monitoringTimer = 0
  /\ cleanup = "no"

\* initialize(): starts the monitoring interval.  A second call overwrites the
\* handle of the first interval, which then runs for ever.
Initialize ==
  /\ monitoringTimer < MaxTimers
  /\ RealTimeMonitoring
  /\ monitoringTimer' = monitoringTimer + 1
  /\ timers' = timers \cup {monitoringTimer + 1}
  /\ UNCHANGED <<execVars, orderVars, orderSliceManagers, metrics, aged, cleanup>>

-----------------------------------------------------------------------------
\* createOrderFromPlan and createSlices: the order objects of p, all 'pending';
\* the slices copy the parent's status and creation time.
CreateOrders(p) ==
  status' = [id \in Orders |->
               IF id[1] = p /\ (id[2] = 0 \/ (IsSliced(p) /\ id[2] <= spec[p].slices))
               THEN "pending" ELSE status[id]]

\* executeOrder() up to its first await: track the order, announce it, begin
\* to execute it or its first slice.
ExecuteOrder(p) ==
  /\ pc[p] = "none"
  /\ CreateOrders(p)
  /\ LET first == IF IsSliced(p) THEN 1 ELSE 0
     IN /\ cur' = [cur EXCEPT ![p] = first]
        /\ activeOrders' = activeOrders \cup {<<p, 0>>, <<p, first>>}
  /\ pc' = [pc EXCEPT ![p] = Entry(spec[p].venue)]
  /\ orderSliceManagers' = IF IsSliced(p) THEN orderSliceManagers \cup {p}
                                          ELSE orderSliceManagers
  /\ UNCHANGED <<spec, checks, lastFill, totalFill, filledQuantity,
                 orderHistory, metrics, timeVars>>

\* A listener of 'order_created' throws: the catch of executeOrder answers with
\* an error and leaves the order in activeOrders.
ExecuteOrderThrows(p) ==
  /\ ListenerThrows
  /\ pc[p] = "none"
  /\ status' = [status EXCEPT ![<<p, 0>>] = "pending"]
  /\ activeOrders' = activeOrders \cup {<<p, 0>>}
  /\ pc' = [pc EXCEPT ![p] = "done"]
  /\ UNCHANGED <<spec, cur, checks, lastFill, totalFill, filledQuantity,
                 orderHistory, orderSliceManagers, metrics, timeVars>>

\* Mutant: failures are not counted.
Counted_SuccessOnly(m, success) ==
  [m EXCEPT !.total = @ + 1, !.successful = @ + (IF success THEN 1 ELSE 0)]

\* updateExecutionMetrics: one more result.
Counted(m, success) ==
  [total      |-> m.total + 1,
   successful |-> m.successful + (IF success THEN 1 ELSE 0),
   failed     |-> m.failed + (IF success THEN 0 ELSE 1)]

\* Mutant: the order is not deleted from activeOrders.
ToHistory_StaysActive(ids, st) ==
  /\ status' = [id \in Orders |-> IF id \in ids THEN st ELSE status[id]]
  /\ orderHistory' = orderHistory \cup ids
  /\ UNCHANGED activeOrders

\* Mutant: an order that is no longer active keeps its status.
ToHistory_KeepsCancelled(ids, st) ==
  /\ status' = [id \in Orders |-> IF id \in ids /\ id \in activeOrders THEN st ELSE status[id]]
  /\ orderHistory' = orderHistory \cup ids
  /\ activeOrders' = activeOrders \ ids

\* Orders take the status st and move to orderHistory, wherever they are now.
ToHistory(ids, st) ==
  /\ status' = [id \in Orders |-> IF id \in ids THEN st ELSE status[id]]
  /\ orderHistory' = orderHistory \cup ids
  /\ activeOrders' = activeOrders \ ids

\* The result of the exchange or simulator reaches executeSingleOrder: it
\* overwrites the status, whatever the order went through meanwhile.
\* `filledQuantity = result.fillQuantity || order.quantity`.
Settle(p, success, fill) ==
  /\ pc' = [pc EXCEPT ![p] = IF cur[p] = 0 THEN "done" ELSE "returned"]
  /\ filledQuantity' =
       IF success THEN [filledQuantity EXCEPT ![Current(p)] =
                          IF fill # 0 THEN fill ELSE QuantityOf(Current(p))]
                  ELSE filledQuantity
  /\ \/ /\ ToHistory({Current(p)}, IF success THEN "filled" ELSE "rejected")
        /\ lastFill' = [lastFill EXCEPT ![p] = IF success THEN fill ELSE 0]
        /\ metrics' = Counted(metrics, success)
     \/ \* a listener of 'order_filled' or 'order_failed' throws
        /\ ListenerThrows
        /\ ToHistory({Current(p)}, "error")
        /\ lastFill' = [lastFill EXCEPT ![p] = 0]
        /\ UNCHANGED metrics
  /\ UNCHANGED <<spec, cur, checks, totalFill, orderSliceManagers, timeVars>>

\* LiveTradingExecutor.validateOrder.
IsValid(p) == spec[p].valid /\ QuantityOf(Current(p)) <= MaxOrderSize

ValidationFails(p) ==
  /\ pc[p] = "validate"
  /\ ~IsValid(p)
  /\ Settle(p, FALSE, 0)

ValidationPasses(p) ==
  /\ pc[p] = "validate"
  /\ IsValid(p)
  /\ pc' = [pc EXCEPT ![p] = "submit"]
  /\ UNCHANGED <<spec, cur, checks, lastFill, totalFill, orderVars,
                 orderSliceManagers, metrics, timeVars>>

\* dydxClient.placeOrder or submitToExchange answers with a failure.
SubmissionFails(p) ==
  /\ pc[p] = "submit"
  /\ Settle(p, FALSE, 0)

SubmissionSucceeds(p) ==
  /\ pc[p] = "submit"
  /\ pc' = [pc EXCEPT ![p] = "monitor"]
  /\ checks' = [checks EXCEPT ![p] = 0]
  /\ UNCHANGED <<spec, cur, lastFill, totalFill, orderVars,
                 orderSliceManagers, metrics, timeVars>>

\* What the fills of a FILLED order add up to: the mock exchange always fills
\* the quantity, dYdX reports a list of fills that may lag behind the status.
FillSizes(p) ==
  IF spec[p].venue = "dydx" THEN 0..QuantityOf(Current(p)) ELSE {QuantityOf(Current(p))}

PollFilled(p) ==
  /\ pc[p] = "monitor"
  /\ \E fill \in FillSizes(p) : Settle(p, TRUE, fill)

PollCancelled(p) ==
  /\ pc[p] = "monitor"
  /\ spec[p].venue = "dydx"
  /\ Settle(p, FALSE, 0)

\* Mutant: the polls start over instead of timing out.
PollOpen_StartsOver(p) ==
  /\ pc[p] = "monitor"
  /\ checks' = [checks EXCEPT ![p] = (@ + 1) % MaxChecks]
  /\ UNCHANGED <<spec, pc, cur, lastFill, totalFill, orderVars,
                 orderSliceManagers, metrics, timeVars>>

\* Open, partially filled, or an error while asking: keep polling.
PollOpen(p) ==
  /\ pc[p] = "monitor"
  /\ checks[p] + 1 < MaxChecks
  /\ checks' = [checks EXCEPT ![p] = @ + 1]
  /\ UNCHANGED <<spec, pc, cur, lastFill, totalFill, orderVars,
                 orderSliceManagers, metrics, timeVars>>

\* The last poll finds the order open: 'Order monitoring timed out'.
PollTimesOut(p) ==
  /\ pc[p] = "monitor"
  /\ checks[p] + 1 = MaxChecks
  /\ Settle(p, FALSE, 0)

\* simulateExecution fills everything, or finds a limit price not executable.
Simulate(p) ==
  /\ pc[p] = "simulate"
  /\ \/ Settle(p, TRUE, QuantityOf(Current(p)))
     \/ Settle(p, FALSE, 0)

Backtest(p) ==
  /\ pc[p] = "backtest"
  /\ Settle(p, TRUE, QuantityOf(Current(p)))

-----------------------------------------------------------------------------
\* executeSlicedOrder resumes after a slice that is not the last one.
SliceReturned(p) ==
  /\ pc[p] = "returned"
  /\ cur[p] < spec[p].slices
  /\ totalFill' = [totalFill EXCEPT ![p] = @ + lastFill[p]]
  /\ pc' = [pc EXCEPT ![p] = "pause"]
  /\ UNCHANGED <<spec, cur, checks, lastFill, orderVars, orderSliceManagers,
                 metrics, timeVars>>

\* The loop of executeSlicedOrder begins with slice i.
SendSlice(p, i) ==
  /\ cur' = [cur EXCEPT ![p] = i]
  /\ activeOrders' = activeOrders \cup {<<p, i>>}
  /\ pc' = [pc EXCEPT ![p] = Entry(spec[p].venue)]
  /\ UNCHANGED <<spec, checks, lastFill, totalFill, status, filledQuantity,
                 orderHistory, orderSliceManagers, metrics, timeVars>>

\* Mutant: the slice tracks its parent again.
StartSlice_TracksParent(p) ==
  /\ pc[p] = "pause"
  /\ cur' = [cur EXCEPT ![p] = @ + 1]
  /\ activeOrders' = activeOrders \cup {<<p, cur[p] + 1>>, <<p, 0>>}
  /\ pc' = [pc EXCEPT ![p] = Entry(spec[p].venue)]
  /\ UNCHANGED <<spec, checks, lastFill, totalFill, status, filledQuantity,
                 orderHistory, orderSliceManagers, metrics, timeVars>>

\* The slice interval is over: track and execute the next slice.
StartSlice(p) == pc[p] = "pause" /\ SendSlice(p, cur[p] + 1)

\* Mutant: the manager is released on success only.
ReleaseSliceManager_OnSuccess(p, success) ==
  orderSliceManagers' = IF success THEN orderSliceManagers \ {p} ELSE orderSliceManagers

\* The finally block of executeSlicedOrder.
ReleaseSliceManager(p, success) == orderSliceManagers' = orderSliceManagers \ {p}

\* The last slice returned: settle the parent from the accumulated fills.
FinishParent(p) ==
  /\ pc[p] = "returned"
  /\ cur[p] = spec[p].slices
  /\ LET total   == totalFill[p] + lastFill[p]
         success == total > 0
     IN /\ totalFill' = [totalFill EXCEPT ![p] = total]
        /\ ToHistory({<<p, 0>>}, IF success THEN "filled" ELSE "rejected")
        /\ filledQuantity' = [filledQuantity EXCEPT ![<<p, 0>>] = total]
        /\ ReleaseSliceManager(p, success)
        /\ \/ metrics' = Counted(metrics, success)
           \/ ListenerThrows /\ UNCHANGED metrics
  /\ pc' = [pc EXCEPT ![p] = "done"]
  /\ UNCHANGED <<spec, cur, checks, lastFill, timeVars>>

-----------------------------------------------------------------------------
\* Mutant: orders of the history can be cancelled too.
CancelOrder_FromHistory(id) ==
  /\ id \in activeOrders \cup orderHistory
  /\ ToHistory({id}, "cancelled")
  /\ UNCHANGED <<filledQuantity, execVars, orderSliceManagers, metrics, timeVars>>

\* cancelOrder(): exchangeOrderId is never set, so nothing is awaited and the
\* exchange is not told; the suspended execution is not stopped.
CancelOrder(id) ==
  /\ id \in activeOrders
  /\ ToHistory({id}, "cancelled")
  /\ UNCHANGED <<filledQuantity, execVars, orderSliceManagers, metrics, timeVars>>

\* orderTimeoutMs passes for the orders of p; slices share the creation time.
Age(p) ==
  /\ pc[p] # "none"
  /\ aged' = aged \cup {p}
  /\ UNCHANGED <<execVars, orderVars, orderSliceManagers, metrics,
                 timers, monitoringTimer, cleanup>>

\* The active orders that are older than orderTimeoutMs.
Due == {id \in activeOrders : id[1] \in aged}

\* One tick of the monitoring interval.  A throwing listener of 'order_expired'
\* ends the loop early; the map is walked in insertion order, parents first.
MonitorActiveOrders ==
  /\ timers # {}
  /\ \E ids \in SUBSET Due :
       /\ \/ ids = Due
          \/ /\ ListenerThrows /\ ids # {}
             /\ \A id \in ids : <<id[1], 0>> \in Due => <<id[1], 0>> \in ids
       /\ ToHistory(ids, "expired")
  /\ UNCHANGED <<filledQuantity, execVars, orderSliceManagers, metrics, timeVars>>

\* cleanup(): stop the interval and wait for the dYdX client (without one the
\* two steps follow each other at once, one of the interleavings here) ...
CleanupBegin ==
  /\ cleanup = "no"
  /\ cleanup' = "client"
  /\ timers' = timers \ {monitoringTimer}
  /\ UNCHANGED <<execVars, orderVars, orderSliceManagers, metrics, aged, monitoringTimer>>

\* ... then cancel every order that is active now.
CleanupCancel ==
  /\ cleanup = "client"
  /\ cleanup' = "done"
  /\ ToHistory(activeOrders, "cancelled")
  /\ UNCHANGED <<filledQuantity, execVars, orderSliceManagers, metrics, aged, timers, monitoringTimer>>

-----------------------------------------------------------------------------
\* The steps of the executeOrder() call of p after it was made.
Progress(p) ==
  \/ ValidationFails(p) \/ ValidationPasses(p)
  \/ SubmissionFails(p) \/ SubmissionSucceeds(p)
  \/ PollFilled(p) \/ PollCancelled(p) \/ PollOpen(p) \/ PollTimesOut(p)
  \/ Simulate(p) \/ Backtest(p)
  \/ SliceReturned(p) \/ StartSlice(p) \/ FinishParent(p)

Next ==
  \/ Initialize \/ MonitorActiveOrders \/ CleanupBegin \/ CleanupCancel
  \/ \E p \in Plans : ExecuteOrder(p) \/ ExecuteOrderThrows(p) \/ Age(p) \/ Progress(p)
  \/ \E id \in Orders : CancelOrder(id)

Spec == Init /\ [][Next]_vars

\* Timers fire and awaited promises settle; the submission and status requests
\* carry a timeout of their own, so they settle too.
Fairness == \A p \in Plans : WF_vars(Progress(p))

FairSpec == Spec /\ Fairness

-----------------------------------------------------------------------------
MetricsType == [total : Nat, successful : Nat, failed : Nat]

\* Types of the executor's maps, order objects and suspended calls.
TypeOK ==
  /\ spec \in [Plans -> PlanSpecs]
  /\ pc \in [Plans -> PCs]
  /\ cur \in [Plans -> 0..MaxSlices]
  /\ checks \in [Plans -> 0..MaxChecks]
  /\ lastFill \in [Plans -> Nat]
  /\ totalFill \in [Plans -> Nat]
  /\ status \in [Orders -> Statuses]
  /\ filledQuantity \in [Orders -> Nat]
  /\ activeOrders \subseteq Orders
  /\ orderHistory \subseteq Orders
  /\ orderSliceManagers \subseteq Plans
  /\ metrics \in MetricsType
  /\ aged \subseteq Plans
  /\ timers \subseteq 1..MaxTimers
  /\ monitoringTimer \in 0..MaxTimers
  /\ cleanup \in {"no", "client", "done"}

\* Slices that createSlices made and the loop has not reached yet.
Unsent(id) == status[id] # "absent" /\ id[2] > cur[id[1]]

\* activeOrders and orderHistory never share an order, and an order object is
\* 'pending' exactly while it is active or a slice still to be sent: no
\* interleaving of executions, cancels, expiries and cleanup loses an order.
OneHome ==
  /\ activeOrders \cap orderHistory = {}
  /\ \A id \in Orders :
       /\ status[id] = "pending" <=> id \in activeOrders \/ Unsent(id)
       /\ status[id] \notin {"absent", "pending"} <=> id \in orderHistory

\* The call that owns the order has not settled it yet.
Executing(id) ==
  LET p == id[1] IN
  /\ pc[p] \in Suspended
  /\ \/ id[2] = 0
     \/ id[2] = cur[p] /\ pc[p] \notin {"returned", "pause"}

\* 'cancelled' and 'expired' are interim: cancelOrder and the monitoring tick do
\* not stop the execution, so once it has settled the order, its status is the
\* execution's outcome (no listener of order events throws).
InterimUntilSettled ==
  ~ListenerThrows =>
    \A id \in Orders : status[id] \in {"cancelled", "expired"} => Executing(id)

\* What every slice of p was filled with, and the sums of the first i of them.
SliceFills(p) == [i \in 1..MaxSlices |-> filledQuantity[<<p, i>>]]

PartialSums(f) ==
  LET sum[i \in 0..MaxSlices] == IF i = 0 THEN 0 ELSE sum[i - 1] + f[i]
  IN sum

\* executeSlicedOrder: the parent reports no more than its slices got, and the
\* slices get no more than the plan asked for.
SlicesAddUp ==
  \A p \in Plans :
    IsSliced(p) /\ status[<<p, 1>>] # "absent" =>
      LET filled == PartialSums(SliceFills(p))[spec[p].slices]
      IN /\ filledQuantity[<<p, 0>>] <= filled
         /\ filled <= spec[p].quantity

\* executionMetrics counts every settled order once, slices and parents alike;
\* only a throwing listener can make it miss one.
MetricsMatchOutcomes ==
  LET filled   == Cardinality({id \in Orders : status[id] = "filled"})
      rejected == Cardinality({id \in Orders : status[id] = "rejected"})
  IN /\ metrics.total = metrics.successful + metrics.failed
     /\ metrics.successful <= filled
     /\ metrics.failed <= rejected
     /\ ~ListenerThrows => metrics.total = filled + rejected

\* The finally of executeSlicedOrder: a slice manager lives exactly as long as
\* the sliced execution it belongs to.
SliceManagersOfRunning ==
  orderSliceManagers = {p \in Plans : IsSliced(p) /\ pc[p] \in Suspended}

\* An order that reached orderHistory stays there and is never active again.
NoResurrection ==
  [][/\ orderHistory \subseteq orderHistory'
     /\ activeOrders' \cap orderHistory = {}]_vars

\* The outcome of an execution is final: no later cancel, expiry, cleanup or
\* second settlement changes 'filled', 'rejected' or 'error'.
OutcomeIsFinal ==
  [][\A id \in Orders :
       status[id] \in {"filled", "rejected", "error"} => status'[id] = status[id]]_vars

\* Every executeOrder() call returns, with or without cancels on the way.
EveryCallReturns == \A p \in Plans : pc[p] # "none" ~> pc[p] = "done"

\* No order stays in activeOrders for ever, but one whose call ended because a
\* listener of 'order_created' threw.
ActiveOrdersDrain ==
  \A id \in Orders :
    id \in activeOrders ~>
      \/ id \notin activeOrders
      \/ ListenerThrows /\ status[id] = "pending" /\ pc[id[1]] = "done"
=============================================================================

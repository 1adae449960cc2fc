------------------------- MODULE OrderExecutorProofs -------------------------
(***************************************************************************)
(* Proofs about OrderExecutor for every number of plans, slices and fill   *)
(* polls.  The inductive invariant IInv strengthens TypeOK and OneHome by  *)
(* what each suspended call knows about the order objects it owns.         *)
(***************************************************************************)
EXTENDS OrderExecutor, FiniteSetTheorems, WellFoundedInduction, TLAPS

\* Suspended inside executeSingleOrder for the current order.
InSingle == Suspended \ {"returned", "pause"}

\* What an order whose execution has not settled it yet can be.
Interim == {"pending", "cancelled", "expired"}

\* A call and the order objects it made.
CallInvOf(p) ==
    /\ pc[p] = "none" => cur[p] = 0 /\ status[<<p, 0>>] = "absent"
    /\ cur[p] = 0 => \A i \in 1..MaxSlices : status[<<p, i>>] = "absent"
    /\ cur[p] > 0 => /\ IsSliced(p)
                     /\ cur[p] <= spec[p].slices
                     /\ \A i \in 1..spec[p].slices : status[<<p, i>>] # "absent"
    /\ pc[p] \in Suspended => status[<<p, 0>>] \in Interim
    /\ pc[p] \in Suspended /\ cur[p] = 0 => ~IsSliced(p) /\ pc[p] \in InSingle
    /\ pc[p] \in InSingle => status[<<p, cur[p]>>] \in Interim
    /\ pc[p] = "pause" => cur[p] < spec[p].slices

CallInv == \A p \in Plans : CallInvOf(p)

\* Only orders that were sent are tracked.
TrackedWasSent == \A id \in activeOrders : id[2] <= cur[id[1]]

IInv == TypeOK /\ CallInv /\ TrackedWasSent /\ OneHome

-----------------------------------------------------------------------------
\* The quantity of an order or slice is a natural number.
LEMMA QuantityType ==
  ASSUME TypeOK, NEW p \in Plans, NEW i \in 0..MaxSlices
  PROVE  QuantityOf(<<p, i>>) \in Nat
<1>1. /\ spec[p].quantity \in Nat
      /\ spec[p].slices \in Nat \ {0}
  BY ConstantsAssumption DEF TypeOK
<1>2. DEFINE q == spec[p].quantity
             n == spec[p].slices
<1>3. q \div n \in Nat /\ q % n \in Nat
  <2> HIDE DEF q, n
  <2>1. q \in Nat /\ n \in Nat \ {0}
    BY <1>1 DEF q, n
  <2> QED BY <2>1
<1> QED BY <1>1, <1>3 DEF QuantityOf, SliceQuantity

\* executeSingleOrder suspends inside itself, whatever the mode.
LEMMA EntryType ==
  ASSUME TypeOK, NEW p \in Plans
  PROVE  Entry(spec[p].venue) \in InSingle
<1>1. spec[p].venue \in Venues
  BY ConstantsAssumption DEF TypeOK
<1> QED BY <1>1 DEF Entry, Venues, InSingle, Suspended

\* A newly constructed executor satisfies the invariant.
LEMMA InitIInv == Init => IInv
<1> SUFFICES ASSUME Init PROVE IInv
  OBVIOUS
<1>1. TypeOK
  <2> USE ConstantsAssumption DEF Init, ConstantsAssumption
  <2>1. spec \in [Plans -> PlanSpecs] /\ pc \in [Plans -> PCs]
    BY DEF PCs
  <2>2. /\ cur \in [Plans -> 0..MaxSlices]
        /\ checks \in [Plans -> 0..MaxChecks]
        /\ lastFill \in [Plans -> Nat]
        /\ totalFill \in [Plans -> Nat]
    OBVIOUS
  <2>3. status \in [Orders -> Statuses] /\ filledQuantity \in [Orders -> Nat]
    BY DEF Statuses
  <2>4. /\ activeOrders \subseteq Orders /\ orderHistory \subseteq Orders
        /\ orderSliceManagers \subseteq Plans /\ aged \subseteq Plans
    OBVIOUS
  <2>5. metrics \in MetricsType
    BY DEF MetricsType
  <2>6. /\ timers \subseteq 1..MaxTimers /\ monitoringTimer \in 0..MaxTimers
        /\ cleanup \in {"no", "client", "done"}
    OBVIOUS
  <2> QED BY <2>1, <2>2, <2>3, <2>4, <2>5, <2>6 DEF TypeOK
<1>2. CallInv
  <2>1. \A p \in Plans : pc[p] = "none" /\ cur[p] = 0
    BY DEF Init
  <2>2. \A p \in Plans, i \in 0..MaxSlices : status[<<p, i>>] = "absent"
    BY DEF Init, Orders
  <2>3. \A p \in Plans : pc[p] \notin Suspended /\ pc[p] \notin InSingle /\ pc[p] # "pause"
    BY <2>1 DEF Suspended, InSingle
  <2> QED BY <2>1, <2>2, <2>3, ConstantsAssumption DEF CallInv, CallInvOf
<1>3. TrackedWasSent /\ OneHome
  BY DEF Init, TrackedWasSent, OneHome, Unsent
<1> QED BY <1>1, <1>2, <1>3 DEF IInv

-----------------------------------------------------------------------------
\* Orders that were sent keep OneHome when they move to the history.
LEMMA ToHistoryStep ==
  ASSUME IInv, NEW ids \in SUBSET Orders, \A id \in ids : id[2] <= cur[id[1]],
         NEW st \in Statuses \ {"absent", "pending"},
         ToHistory(ids, st), cur' = cur
  PROVE  /\ status' \in [Orders -> Statuses]
         /\ \A id \in Orders : status'[id] = IF id \in ids THEN st ELSE status[id]
         /\ activeOrders' \subseteq Orders
         /\ orderHistory' \subseteq Orders
         /\ TrackedWasSent'
         /\ OneHome'
<1>1. /\ status' \in [Orders -> Statuses]
      /\ \A id \in Orders : status'[id] = IF id \in ids THEN st ELSE status[id]
      /\ activeOrders' \subseteq Orders
      /\ orderHistory' \subseteq Orders
  BY DEF IInv, TypeOK, ToHistory
<1>2. TrackedWasSent'
  BY DEF IInv, TrackedWasSent, ToHistory
<1>3. activeOrders' \cap orderHistory' = {}
  BY DEF IInv, OneHome, ToHistory
<1>4. ASSUME NEW id \in Orders
      PROVE  /\ status'[id] = "pending" <=> id \in activeOrders' \/ Unsent(id)'
             /\ status'[id] \notin {"absent", "pending"} <=> id \in orderHistory'
  <2>1. cur[id[1]] \in Int /\ id[2] \in Int
    BY DEF Orders, IInv, TypeOK
  <2>2. CASE id \in ids
    <3>1. ~Unsent(id)'
      BY <2>1, <2>2 DEF Unsent
    <3>2. status'[id] = st /\ id \notin activeOrders' /\ id \in orderHistory'
      BY <1>1, <2>2 DEF ToHistory
    <3> QED BY <3>1, <3>2
  <2>3. CASE id \notin ids
    <3>1. /\ status'[id] = status[id]
          /\ id \in activeOrders' <=> id \in activeOrders
          /\ id \in orderHistory' <=> id \in orderHistory
      BY <1>1, <2>3 DEF ToHistory
    <3>2. Unsent(id)' <=> Unsent(id)
      BY <3>1 DEF Unsent
    <3> QED BY <3>1, <3>2 DEF IInv, OneHome
  <2> QED BY <2>2, <2>3
<1> QED BY <1>1, <1>2, <1>3, <1>4 DEF OneHome

\* An outcome is an outcome: the counters stay natural numbers.
LEMMA CountedType ==
  ASSUME NEW m \in MetricsType, NEW success \in BOOLEAN
  PROVE  Counted(m, success) \in MetricsType
BY DEF Counted, MetricsType

\* The result of an execution reaches executeSingleOrder.
LEMMA SettleStep ==
  ASSUME IInv, NEW p \in Plans, pc[p] \in InSingle,
         NEW success \in BOOLEAN, NEW fill \in Nat, Settle(p, success, fill)
  PROVE  IInv'
<1>1. /\ cur[p] \in 0..MaxSlices /\ pc[p] \in Suspended
      /\ status[<<p, cur[p]>>] \in Interim
      /\ <<p, cur[p]>> \in Orders
      /\ QuantityOf(<<p, cur[p]>>) \in Nat
  BY QuantityType DEF IInv, TypeOK, CallInv, CallInvOf, InSingle, Orders
<1>2. PICK outcome \in {"filled", "rejected", "error"} : ToHistory({<<p, cur[p]>>}, outcome)
  BY DEF Settle, Current
<1>3. /\ spec' = spec /\ cur' = cur /\ checks' = checks /\ totalFill' = totalFill
      /\ orderSliceManagers' = orderSliceManagers /\ aged' = aged
      /\ timers' = timers /\ monitoringTimer' = monitoringTimer /\ cleanup' = cleanup
  BY DEF Settle, timeVars
<1>4. /\ status' \in [Orders -> Statuses]
      /\ \A id \in Orders : status'[id] = IF id \in {<<p, cur[p]>>} THEN outcome ELSE status[id]
      /\ activeOrders' \subseteq Orders
      /\ orderHistory' \subseteq Orders
      /\ TrackedWasSent'
      /\ OneHome'
  <2>1. {<<p, cur[p]>>} \in SUBSET Orders /\ \A id \in {<<p, cur[p]>>} : id[2] <= cur[id[1]]
    BY <1>1
  <2>2. outcome \in Statuses \ {"absent", "pending"}
    BY DEF Statuses
  <2> QED BY <1>2, <1>3, <2>1, <2>2, ToHistoryStep
<1>5. /\ pc' = [pc EXCEPT ![p] = IF cur[p] = 0 THEN "done" ELSE "returned"]
      /\ pc' \in [Plans -> PCs]
  BY DEF Settle, IInv, TypeOK, PCs, Suspended
<1>6. lastFill' \in [Plans -> Nat] /\ filledQuantity' \in [Orders -> Nat] /\ metrics' \in MetricsType
  BY <1>1, CountedType DEF Settle, IInv, TypeOK, Current
<1>7. TypeOK'
  BY <1>3, <1>4, <1>5, <1>6 DEF IInv, TypeOK
<1>8. ASSUME NEW x \in Plans PROVE CallInvOf(x)'
  <2>1. IsSliced(x)' <=> IsSliced(x)
    BY <1>3 DEF IsSliced
  <2>2. /\ spec[x].slices \in 1..MaxSlices /\ cur[x] \in 0..MaxSlices
        /\ 0 \in 0..MaxSlices /\ 1..spec[x].slices \subseteq 0..MaxSlices
        /\ 1..MaxSlices \subseteq 0..MaxSlices
    BY ConstantsAssumption DEF IInv, TypeOK
  <2>3. \A i \in 0..MaxSlices : status'[<<x, i>>] =
          IF x = p /\ i = cur[p] THEN outcome ELSE status[<<x, i>>]
    BY <1>4 DEF Orders
  <2>4. pc'[x] = IF x = p THEN (IF cur[p] = 0 THEN "done" ELSE "returned") ELSE pc[x]
    BY <1>5 DEF IInv, TypeOK
  <2>5. CallInvOf(x)
    BY DEF IInv, CallInv
  <2>6. CASE x # p
    <3>1. \A i \in 0..MaxSlices : status'[<<x, i>>] = status[<<x, i>>]
      BY <2>3, <2>6
    <3>2. pc'[x] = pc[x] /\ cur'[x] = cur[x] /\ spec'[x] = spec[x]
      BY <1>3, <2>4, <2>6
    <3> QED BY <2>1, <2>2, <2>5, <3>1, <3>2 DEF CallInvOf
  <2>7. CASE x = p
    <3>1. /\ pc'[p] \notin {"none", "pause"} /\ pc'[p] \notin InSingle
          /\ pc'[p] \in Suspended => cur[p] > 0
          /\ cur'[p] = cur[p] /\ spec'[p] = spec[p]
      BY <1>1, <1>3, <2>2, <2>4, <2>7 DEF Suspended, InSingle
    <3>2. \A i \in 0..MaxSlices : i # cur[p] => status'[<<p, i>>] = status[<<p, i>>]
      BY <2>3, <2>7
    <3>3. status'[<<p, cur[p]>>] # "absent"
      BY <1>1, <2>3, <2>7
    <3>4. \A i \in 1..spec[p].slices : cur[p] > 0 => status'[<<p, i>>] # "absent"
      BY <2>2, <2>5, <2>7, <3>2, <3>3 DEF CallInvOf
    <3> QED BY <1>1, <2>1, <2>2, <2>5, <2>7, <3>1, <3>2, <3>4 DEF CallInvOf
  <2> QED BY <2>6, <2>7
<1> QED BY <1>4, <1>7, <1>8 DEF IInv, CallInv

-----------------------------------------------------------------------------
\* Steps that leave the order objects, the maps and cur alone.
LEMMA OrdersUnchanged ==
  ASSUME IInv, UNCHANGED <<status, cur, activeOrders, orderHistory>>
  PROVE  TrackedWasSent' /\ OneHome'
<1>1. \A id \in Orders : Unsent(id)' <=> Unsent(id)
  BY DEF Unsent
<1>2. TrackedWasSent'
  BY DEF IInv, TrackedWasSent
<1>3. OneHome'
  BY <1>1 DEF IInv, OneHome
<1> QED BY <1>2, <1>3

\* A call moves on to another of its suspension points.
LEMMA ResumeStep ==
  ASSUME IInv, NEW p \in Plans, pc[p] \in Suspended,
         NEW dest \in Suspended, pc' = [pc EXCEPT ![p] = dest],
         dest \in InSingle => pc[p] \in InSingle,
         dest \notin InSingle => cur[p] > 0,
         dest = "pause" => cur[p] < spec[p].slices,
         checks' \in [Plans -> 0..MaxChecks], totalFill' \in [Plans -> Nat],
         UNCHANGED <<spec, cur, lastFill, status, filledQuantity, activeOrders, orderHistory>>,
         UNCHANGED <<orderSliceManagers, metrics, aged, timers, monitoringTimer, cleanup>>
  PROVE  IInv'
<1>1. pc' \in [Plans -> PCs]
  BY DEF IInv, TypeOK, PCs
<1>2. TypeOK'
  BY <1>1 DEF IInv, TypeOK
<1>3. ASSUME NEW x \in Plans PROVE CallInvOf(x)'
  <2>1. IsSliced(x)' <=> IsSliced(x)
    BY DEF IsSliced
  <2>2. CallInvOf(x)
    BY DEF IInv, CallInv
  <2>3. pc'[x] = IF x = p THEN dest ELSE pc[x]
    BY DEF IInv, TypeOK
  <2>4. dest # "none"
    BY DEF Suspended
  <2>5. CASE x # p
    BY <2>1, <2>2, <2>3, <2>5 DEF CallInvOf
  <2>6. CASE x = p
    <3>1. cur[p] \in Nat
      BY DEF IInv, TypeOK
    <3> QED BY <2>1, <2>2, <2>3, <2>4, <2>6, <3>1 DEF CallInvOf
  <2> QED BY <2>5, <2>6
<1> QED BY <1>2, <1>3, OrdersUnchanged DEF IInv, CallInv

\* executeOrder() makes the order objects and sends the first of them.
LEMMA ExecuteStep ==
  ASSUME IInv, NEW p \in Plans, ExecuteOrder(p)
  PROVE  IInv'
<1> DEFINE first == IF IsSliced(p) THEN 1 ELSE 0
           made  == {id \in Orders : id[1] = p /\ (id[2] = 0 \/ (IsSliced(p) /\ id[2] <= spec[p].slices))}
<1>1. /\ pc[p] = "none" /\ cur[p] = 0 /\ status[<<p, 0>>] = "absent"
      /\ \A i \in 0..MaxSlices : status[<<p, i>>] = "absent"
      /\ spec[p].slices \in 1..MaxSlices
      /\ MaxSlices \in Nat \ {0}
  <2>1. pc[p] = "none" /\ CallInvOf(p)
    BY DEF ExecuteOrder, IInv, CallInv
  <2>2. /\ cur[p] = 0 /\ status[<<p, 0>>] = "absent"
        /\ \A i \in 1..MaxSlices : status[<<p, i>>] = "absent"
    BY <2>1 DEF CallInvOf
  <2>3. spec[p].slices \in 1..MaxSlices /\ MaxSlices \in Nat \ {0}
    BY ConstantsAssumption DEF IInv, TypeOK
  <2> QED BY <2>1, <2>2, <2>3
<1>2. /\ cur' = [cur EXCEPT ![p] = first]
      /\ activeOrders' = activeOrders \cup {<<p, 0>>, <<p, first>>}
      /\ pc' = [pc EXCEPT ![p] = Entry(spec[p].venue)]
      /\ orderSliceManagers' \subseteq orderSliceManagers \cup {p}
      /\ spec' = spec /\ checks' = checks /\ lastFill' = lastFill /\ totalFill' = totalFill
      /\ filledQuantity' = filledQuantity /\ orderHistory' = orderHistory /\ metrics' = metrics
      /\ aged' = aged /\ timers' = timers /\ monitoringTimer' = monitoringTimer /\ cleanup' = cleanup
  BY DEF ExecuteOrder, timeVars
<1>3. /\ status' \in [Orders -> Statuses]
      /\ \A id \in Orders : status'[id] = IF id \in made THEN "pending" ELSE status[id]
  BY DEF ExecuteOrder, CreateOrders, IInv, TypeOK, Statuses
<1>4. first \in 0..MaxSlices /\ first <= spec[p].slices /\ (first = 1 <=> IsSliced(p))
  BY <1>1
<1>5. <<p, 0>> \in made /\ <<p, first>> \in made
  BY <1>1, <1>4 DEF Orders
<1>6. TypeOK'
  <2>1. pc' \in [Plans -> PCs]
    BY <1>2, EntryType DEF IInv, TypeOK, PCs, InSingle
  <2>2. cur' \in [Plans -> 0..MaxSlices]
    BY <1>2, <1>4 DEF IInv, TypeOK
  <2>3. activeOrders' \subseteq Orders
    BY <1>2, <1>5 DEF IInv, TypeOK
  <2> QED BY <1>2, <1>3, <2>1, <2>2, <2>3 DEF IInv, TypeOK
<1> HIDE DEF first
<1>7. ASSUME NEW x \in Plans PROVE CallInvOf(x)'
  <2>1. IsSliced(x)' <=> IsSliced(x)
    BY <1>2 DEF IsSliced
  <2>2. CallInvOf(x)
    BY DEF IInv, CallInv
  <2>3. CASE x # p
    <3>1. pc'[x] = pc[x] /\ cur'[x] = cur[x] /\ spec'[x] = spec[x]
      BY <1>2, <2>3 DEF IInv, TypeOK
    <3>2. \A i \in 0..MaxSlices : status'[<<x, i>>] = status[<<x, i>>]
      BY <1>3, <2>3 DEF Orders
    <3>3. /\ spec[x].slices \in 1..MaxSlices /\ cur[x] \in 0..MaxSlices
          /\ 0 \in 0..MaxSlices /\ 1..spec[x].slices \subseteq 0..MaxSlices
          /\ 1..MaxSlices \subseteq 0..MaxSlices
      BY ConstantsAssumption DEF IInv, TypeOK
    <3> QED BY <2>1, <2>2, <3>1, <3>2, <3>3 DEF CallInvOf
  <2>4. CASE x = p
    <3>1. pc'[p] \in InSingle /\ cur'[p] = first /\ spec'[p] = spec[p]
      BY <1>2, EntryType DEF IInv, TypeOK
    <3>2. pc'[p] \in Suspended /\ pc'[p] \notin {"none", "pause"}
      BY <3>1 DEF InSingle, Suspended
    <3>3. status'[<<p, 0>>] = "pending" /\ status'[<<p, first>>] = "pending"
      BY <1>3, <1>5 DEF Orders
    <3>4. first = 0 => \A i \in 1..MaxSlices : status'[<<p, i>>] = "absent"
      BY <1>1, <1>3, <1>4 DEF Orders
    <3>5. first \in {0, 1} /\ (first > 0 => first <= spec[p].slices)
      BY <1>4 DEF first
    <3>6. first > 0 => /\ IsSliced(p)
                       /\ \A i \in 1..spec[p].slices : status'[<<p, i>>] = "pending"
      <4>1. first > 0 => IsSliced(p)
        BY <1>4, <3>5
      <4>2. \A i \in 1..spec[p].slices : <<p, i>> \in Orders
        BY <1>1 DEF Orders
      <4> QED BY <1>3, <4>1, <4>2
    <3>7. status'[<<p, cur'[p]>>] \in Interim /\ status'[<<p, 0>>] \in Interim
      BY <3>1, <3>3 DEF Interim
    <3> QED BY <1>4, <2>1, <2>4, <3>1, <3>2, <3>4, <3>5, <3>6, <3>7 DEF CallInvOf
  <2> QED BY <2>3, <2>4
<1>8. TrackedWasSent'
  <2> SUFFICES ASSUME NEW id \in activeOrders' PROVE id[2] <= cur'[id[1]]
    BY DEF TrackedWasSent
  <2>1. cur[p] = 0 /\ cur'[p] = first /\ \A x \in Plans : x # p => cur'[x] = cur[x]
    BY <1>1, <1>2 DEF IInv, TypeOK
  <2>2. CASE id \in {<<p, 0>>, <<p, first>>}
    BY <1>4, <2>1, <2>2
  <2>3. CASE id \in activeOrders
    <3>1. id[1] \in Plans /\ id[2] \in 0..MaxSlices /\ id[2] <= cur[id[1]]
      BY <2>3 DEF IInv, TypeOK, TrackedWasSent, Orders
    <3> QED BY <1>4, <2>1, <3>1
  <2> QED BY <1>2, <2>2, <2>3
<1>9. OneHome'
  <2> SUFFICES ASSUME NEW id \in Orders
               PROVE  /\ ~(id \in activeOrders' /\ id \in orderHistory')
                      /\ status'[id] = "pending" <=> id \in activeOrders' \/ Unsent(id)'
                      /\ status'[id] \notin {"absent", "pending"} <=> id \in orderHistory'
    BY <1>6 DEF OneHome, TypeOK
  <2>1. /\ ~(id \in activeOrders /\ id \in orderHistory)
        /\ status[id] = "pending" <=> id \in activeOrders \/ Unsent(id)
        /\ status[id] \notin {"absent", "pending"} <=> id \in orderHistory
    BY DEF IInv, OneHome
  <2>2. id[1] \in Plans /\ id[2] \in 0..MaxSlices /\ id = <<id[1], id[2]>>
    BY DEF Orders
  <2>3. CASE id[1] # p
    <3>1. /\ status'[id] = status[id] /\ (id \in activeOrders' <=> id \in activeOrders)
          /\ cur'[id[1]] = cur[id[1]]
      BY <1>2, <1>3, <2>2, <2>3 DEF IInv, TypeOK
    <3>2. Unsent(id)' <=> Unsent(id)
      BY <3>1 DEF Unsent
    <3> QED BY <1>2, <2>1, <3>1, <3>2
  <2>4. CASE id[1] = p
    <3>1. status[id] = "absent" /\ id \notin activeOrders /\ id \notin orderHistory
      BY <1>1, <2>1, <2>2, <2>4
    <3>2. cur'[p] = first
      BY <1>2 DEF IInv, TypeOK
    <3>3. CASE id \notin made
      <4>1. status'[id] = "absent" /\ ~Unsent(id)' /\ id \notin activeOrders'
        BY <1>2, <1>3, <1>5, <3>1, <3>3 DEF Unsent
      <4> QED BY <1>2, <3>1, <4>1
    <3>4. CASE id \in made
      <4>1. status'[id] = "pending"
        BY <1>3, <3>4
      <4>2. CASE id[2] <= first
        <5>1. id[2] = 0 \/ id[2] = first
          BY <1>4, <2>2, <4>2 DEF first
        <5>2. id \in activeOrders'
          BY <1>2, <2>2, <2>4, <5>1
        <5> QED BY <1>2, <3>1, <4>1, <5>2
      <4>3. CASE id[2] > first
        <5>1. Unsent(id)'
          BY <2>4, <3>2, <4>1, <4>3 DEF Unsent
        <5> QED BY <1>2, <3>1, <4>1, <5>1
      <4> QED BY <1>4, <2>2, <4>2, <4>3
    <3> QED BY <3>3, <3>4
  <2> QED BY <2>3, <2>4
<1> QED BY <1>6, <1>7, <1>8, <1>9 DEF IInv, CallInv

\* A throwing listener of 'order_created' leaves one order behind.
LEMMA ExecuteThrowsStep ==
  ASSUME IInv, NEW p \in Plans, ExecuteOrderThrows(p)
  PROVE  IInv'
<1>1. /\ pc[p] = "none" /\ cur[p] = 0 /\ status[<<p, 0>>] = "absent" /\ <<p, 0>> \in Orders
      /\ \A i \in 1..MaxSlices : status[<<p, i>>] = "absent"
  <2>1. pc[p] = "none" /\ CallInvOf(p)
    BY DEF ExecuteOrderThrows, IInv, CallInv
  <2>2. <<p, 0>> \in Orders
    BY ConstantsAssumption DEF Orders
  <2> QED BY <2>1, <2>2 DEF CallInvOf
<1>2. /\ status' = [status EXCEPT ![<<p, 0>>] = "pending"]
      /\ activeOrders' = activeOrders \cup {<<p, 0>>}
      /\ pc' = [pc EXCEPT ![p] = "done"]
      /\ spec' = spec /\ cur' = cur /\ checks' = checks /\ lastFill' = lastFill
      /\ totalFill' = totalFill /\ filledQuantity' = filledQuantity
      /\ orderHistory' = orderHistory /\ orderSliceManagers' = orderSliceManagers
      /\ metrics' = metrics /\ aged' = aged /\ timers' = timers
      /\ monitoringTimer' = monitoringTimer /\ cleanup' = cleanup
  BY DEF ExecuteOrderThrows, timeVars
<1>3. \A id \in Orders : status'[id] = IF id = <<p, 0>> THEN "pending" ELSE status[id]
  BY <1>1, <1>2 DEF IInv, TypeOK
<1>4. TypeOK'
  <2>1. status' \in [Orders -> Statuses] /\ activeOrders' \subseteq Orders
    BY <1>1, <1>2 DEF IInv, TypeOK, Statuses
  <2>2. pc' \in [Plans -> PCs]
    BY <1>2 DEF IInv, TypeOK, PCs
  <2> QED BY <1>2, <2>1, <2>2 DEF IInv, TypeOK
<1>5. ASSUME NEW x \in Plans PROVE CallInvOf(x)'
  <2>1. IsSliced(x)' <=> IsSliced(x)
    BY <1>2 DEF IsSliced
  <2>2. CallInvOf(x)
    BY DEF IInv, CallInv
  <2>3. /\ spec[x].slices \in 1..MaxSlices /\ cur[x] \in 0..MaxSlices
        /\ 0 \in 0..MaxSlices /\ 1..spec[x].slices \subseteq 0..MaxSlices
        /\ 1..MaxSlices \subseteq 0..MaxSlices
    BY ConstantsAssumption DEF IInv, TypeOK
  <2>4. CASE x # p
    <3>1. pc'[x] = pc[x]
      BY <1>2, <2>4 DEF IInv, TypeOK
    <3>2. \A i \in 0..MaxSlices : status'[<<x, i>>] = status[<<x, i>>]
      BY <1>3, <2>4 DEF Orders
    <3> QED BY <1>2, <2>1, <2>2, <2>3, <3>1, <3>2 DEF CallInvOf
  <2>5. CASE x = p
    <3>1. pc'[p] = "done" /\ "done" \notin Suspended /\ "done" \notin InSingle
      BY <1>2 DEF IInv, TypeOK, Suspended, InSingle
    <3>2. \A i \in 1..MaxSlices : status'[<<p, i>>] = "absent"
      BY <1>1, <1>3, <2>3 DEF Orders
    <3> QED BY <1>1, <1>2, <2>5, <3>1, <3>2 DEF CallInvOf
  <2> QED BY <2>4, <2>5
<1>6. TrackedWasSent'
  BY <1>1, <1>2 DEF IInv, TrackedWasSent
<1>7. OneHome'
  <2>1. <<p, 0>> \notin orderHistory /\ <<p, 0>> \notin activeOrders
    BY <1>1 DEF IInv, OneHome
  <2>2. activeOrders' \cap orderHistory' = {}
    BY <1>2, <2>1 DEF IInv, OneHome
  <2>3. ASSUME NEW id \in Orders
        PROVE  /\ status'[id] = "pending" <=> id \in activeOrders' \/ Unsent(id)'
               /\ status'[id] \notin {"absent", "pending"} <=> id \in orderHistory'
    <3>1. CASE id = <<p, 0>>
      BY <1>2, <1>3, <2>1, <3>1
    <3>2. CASE id # <<p, 0>>
      <4>1. status'[id] = status[id] /\ (id \in activeOrders' <=> id \in activeOrders)
        BY <1>2, <1>3, <3>2
      <4>2. Unsent(id)' <=> Unsent(id)
        BY <1>2, <4>1 DEF Unsent
      <4> QED BY <1>2, <4>1, <4>2 DEF IInv, OneHome
    <3> QED BY <3>1, <3>2
  <2> QED BY <2>2, <2>3 DEF OneHome
<1> QED BY <1>4, <1>5, <1>6, <1>7 DEF IInv, CallInv

\* The sliced execution sends its next slice.
LEMMA StartSliceStep ==
  ASSUME IInv, NEW p \in Plans, StartSlice(p)
  PROVE  IInv'
<1> DEFINE i == cur[p] + 1
<1>1. /\ pc[p] = "pause" /\ CallInvOf(p) /\ cur[p] \in 0..MaxSlices
      /\ spec[p].slices \in 1..MaxSlices /\ MaxSlices \in Nat
  BY ConstantsAssumption DEF StartSlice, IInv, TypeOK, CallInv
<1>2. /\ pc[p] \in Suspended /\ pc[p] \notin InSingle
  BY <1>1 DEF Suspended, InSingle
<1>3. /\ cur[p] < spec[p].slices /\ cur[p] > 0 /\ i \in 1..spec[p].slices
      /\ status[<<p, i>>] # "absent" /\ IsSliced(p) /\ status[<<p, 0>>] \in Interim
      /\ \A j \in 1..spec[p].slices : status[<<p, j>>] # "absent"
  BY <1>1, <1>2 DEF CallInvOf
<1>4. <<p, i>> \in Orders
  BY <1>1, <1>3 DEF Orders
<1>5. status[<<p, i>>] = "pending"
  <2>1. Unsent(<<p, i>>)
    BY <1>1, <1>3 DEF Unsent
  <2> QED BY <1>4, <2>1 DEF IInv, OneHome
<1>6. /\ cur' = [cur EXCEPT ![p] = i]
      /\ activeOrders' = activeOrders \cup {<<p, i>>}
      /\ pc' = [pc EXCEPT ![p] = Entry(spec[p].venue)]
      /\ spec' = spec /\ checks' = checks /\ lastFill' = lastFill /\ totalFill' = totalFill
      /\ status' = status /\ filledQuantity' = filledQuantity /\ orderHistory' = orderHistory
      /\ orderSliceManagers' = orderSliceManagers /\ metrics' = metrics /\ aged' = aged
      /\ timers' = timers /\ monitoringTimer' = monitoringTimer /\ cleanup' = cleanup
  BY DEF StartSlice, SendSlice, timeVars
<1>7. i \in 0..MaxSlices
  BY <1>1, <1>3
<1> HIDE DEF i
<1>8. cur'[p] = i /\ \A x \in Plans : x # p => cur'[x] = cur[x] /\ pc'[x] = pc[x]
  BY <1>6 DEF IInv, TypeOK
<1>9. pc'[p] \in InSingle
  BY <1>6, EntryType DEF IInv, TypeOK
<1>10. TypeOK'
  <2>1. pc' \in [Plans -> PCs]
    BY <1>6, EntryType DEF IInv, TypeOK, PCs, InSingle
  <2>2. cur' \in [Plans -> 0..MaxSlices] /\ activeOrders' \subseteq Orders
    BY <1>4, <1>6, <1>7 DEF IInv, TypeOK
  <2> QED BY <1>6, <2>1, <2>2 DEF IInv, TypeOK
<1>11. ASSUME NEW x \in Plans PROVE CallInvOf(x)'
  <2>1. IsSliced(x)' <=> IsSliced(x)
    BY <1>6 DEF IsSliced
  <2>2. CallInvOf(x)
    BY DEF IInv, CallInv
  <2>3. CASE x # p
    BY <1>6, <1>8, <2>1, <2>2, <2>3 DEF CallInvOf
  <2>4. CASE x = p
    <3>1. pc'[p] \notin {"none", "pause"} /\ pc'[p] \in Suspended
      BY <1>9 DEF InSingle, Suspended
    <3>2. status[<<p, i>>] \in Interim
      BY <1>5 DEF Interim
    <3>3. i > 0 /\ i <= spec[p].slices
      BY <1>1, <1>3
    <3> QED BY <1>3, <1>6, <1>8, <1>9, <2>1, <2>4, <3>1, <3>2, <3>3 DEF CallInvOf
  <2> QED BY <2>3, <2>4
<1>12. TrackedWasSent'
  <2> SUFFICES ASSUME NEW id \in activeOrders' PROVE id[2] <= cur'[id[1]]
    BY DEF TrackedWasSent
  <2>1. CASE id = <<p, i>>
    BY <1>7, <1>8, <2>1
  <2>2. CASE id \in activeOrders
    <3>1. id[1] \in Plans /\ id[2] \in 0..MaxSlices /\ id[2] <= cur[id[1]]
      BY <2>2 DEF IInv, TypeOK, TrackedWasSent, Orders
    <3> QED BY <1>1, <1>8, <3>1 DEF i
  <2> QED BY <1>6, <2>1, <2>2
<1>13. OneHome'
  <2>1. <<p, i>> \notin orderHistory
    BY <1>4, <1>5 DEF IInv, OneHome
  <2>2. activeOrders' \cap orderHistory' = {}
    BY <1>6, <2>1 DEF IInv, OneHome
  <2>3. ASSUME NEW id \in Orders
        PROVE  /\ status'[id] = "pending" <=> id \in activeOrders' \/ Unsent(id)'
               /\ status'[id] \notin {"absent", "pending"} <=> id \in orderHistory'
    <3>1. CASE id = <<p, i>>
      BY <1>5, <1>6, <2>1, <3>1
    <3>2. CASE id # <<p, i>>
      <4>1. id[1] \in Plans /\ id[2] \in 0..MaxSlices /\ id = <<id[1], id[2]>>
        BY DEF Orders
      <4>2. Unsent(id)' <=> Unsent(id)
        BY <1>1, <1>6, <1>8, <3>2, <4>1 DEF Unsent, i
      <4> QED BY <1>6, <3>2, <4>2 DEF IInv, OneHome
    <3> QED BY <3>1, <3>2
  <2> QED BY <2>2, <2>3 DEF OneHome
<1> QED BY <1>10, <1>11, <1>12, <1>13 DEF IInv, CallInv

\* After its last slice the sliced execution settles the parent.
LEMMA FinishParentStep ==
  ASSUME IInv, NEW p \in Plans, FinishParent(p)
  PROVE  IInv'
<1>1. /\ pc[p] = "returned" /\ CallInvOf(p) /\ cur[p] = spec[p].slices
      /\ spec[p].slices \in 1..MaxSlices /\ MaxSlices \in Nat \ {0}
  BY ConstantsAssumption DEF FinishParent, IInv, TypeOK, CallInv
<1>2. /\ cur[p] > 0 /\ IsSliced(p) /\ status[<<p, 0>>] \in Interim /\ <<p, 0>> \in Orders
      /\ \A j \in 1..spec[p].slices : status[<<p, j>>] # "absent"
  BY <1>1 DEF CallInvOf, Suspended, Orders
<1>3. PICK st \in {"filled", "rejected"} : ToHistory({<<p, 0>>}, st)
  BY DEF FinishParent
<1>4. /\ pc' = [pc EXCEPT ![p] = "done"]
      /\ spec' = spec /\ cur' = cur /\ checks' = checks /\ lastFill' = lastFill
      /\ orderSliceManagers' = orderSliceManagers \ {p} /\ aged' = aged
      /\ timers' = timers /\ monitoringTimer' = monitoringTimer /\ cleanup' = cleanup
  BY DEF FinishParent, ReleaseSliceManager, timeVars
<1>5. /\ totalFill' \in [Plans -> Nat] /\ filledQuantity' \in [Orders -> Nat]
  <2> DEFINE total == totalFill[p] + lastFill[p]
  <2>1. total \in Nat
    BY DEF IInv, TypeOK
  <2>2. /\ totalFill' = [totalFill EXCEPT ![p] = total]
        /\ filledQuantity' = [filledQuantity EXCEPT ![<<p, 0>>] = total]
    BY DEF FinishParent
  <2> HIDE DEF total
  <2> QED BY <1>2, <2>1, <2>2 DEF IInv, TypeOK
<1>6. metrics' \in MetricsType
  <2>1. metrics \in MetricsType
    BY DEF IInv, TypeOK
  <2>2. \/ metrics' = metrics
        \/ metrics' = [total |-> metrics.total + 1, successful |-> metrics.successful + 1,
                       failed |-> metrics.failed + 0]
        \/ metrics' = [total |-> metrics.total + 1, successful |-> metrics.successful + 0,
                       failed |-> metrics.failed + 1]
    BY DEF FinishParent, Counted
  <2> QED BY <2>1, <2>2 DEF MetricsType
<1>7. /\ status' \in [Orders -> Statuses]
      /\ \A id \in Orders : status'[id] = IF id \in {<<p, 0>>} THEN st ELSE status[id]
      /\ activeOrders' \subseteq Orders
      /\ orderHistory' \subseteq Orders
      /\ TrackedWasSent'
      /\ OneHome'
  <2>1. {<<p, 0>>} \in SUBSET Orders /\ \A id \in {<<p, 0>>} : id[2] <= cur[id[1]]
    BY <1>1, <1>2
  <2>2. st \in Statuses \ {"absent", "pending"}
    BY DEF Statuses
  <2> QED BY <1>3, <1>4, <2>1, <2>2, ToHistoryStep
<1>8. TypeOK'
  <2>1. pc' \in [Plans -> PCs]
    BY <1>4 DEF IInv, TypeOK, PCs
  <2> QED BY <1>4, <1>5, <1>6, <1>7, <2>1 DEF IInv, TypeOK
<1>9. ASSUME NEW x \in Plans PROVE CallInvOf(x)'
  <2>1. IsSliced(x)' <=> IsSliced(x)
    BY <1>4 DEF IsSliced
  <2>2. CallInvOf(x)
    BY DEF IInv, CallInv
  <2>3. /\ spec[x].slices \in 1..MaxSlices /\ cur[x] \in 0..MaxSlices
        /\ 0 \in 0..MaxSlices /\ 1..spec[x].slices \subseteq 0..MaxSlices
        /\ 1..MaxSlices \subseteq 0..MaxSlices
    BY ConstantsAssumption DEF IInv, TypeOK
  <2>4. CASE x # p
    <3>1. pc'[x] = pc[x]
      BY <1>4, <2>4 DEF IInv, TypeOK
    <3>2. \A i \in 0..MaxSlices : status'[<<x, i>>] = status[<<x, i>>]
      BY <1>7, <2>4 DEF Orders
    <3> QED BY <1>4, <2>1, <2>2, <2>3, <3>1, <3>2 DEF CallInvOf
  <2>5. CASE x = p
    <3>1. pc'[p] = "done" /\ "done" \notin Suspended /\ "done" \notin InSingle
      BY <1>4 DEF IInv, TypeOK, Suspended, InSingle
    <3>2. \A i \in 1..spec[p].slices : status'[<<p, i>>] # "absent"
      BY <1>2, <1>7, <2>3, <2>5 DEF Orders
    <3> QED BY <1>1, <1>2, <1>4, <2>1, <2>3, <2>5, <3>1, <3>2 DEF CallInvOf
  <2> QED BY <2>4, <2>5
<1> QED BY <1>7, <1>8, <1>9 DEF IInv, CallInv

\* A cancel, a monitoring tick or cleanup() retires orders that are active.
LEMMA RetireActiveStep ==
  ASSUME IInv, NEW ids \in SUBSET activeOrders, NEW st \in {"cancelled", "expired"},
         ToHistory(ids, st), cleanup' \in {"no", "client", "done"},
         UNCHANGED <<filledQuantity, execVars, orderSliceManagers, metrics,
                     aged, timers, monitoringTimer>>
  PROVE  IInv'
<1>1. /\ spec' = spec /\ pc' = pc /\ cur' = cur /\ checks' = checks /\ lastFill' = lastFill
      /\ totalFill' = totalFill /\ filledQuantity' = filledQuantity
      /\ orderSliceManagers' = orderSliceManagers /\ metrics' = metrics /\ aged' = aged
      /\ timers' = timers /\ monitoringTimer' = monitoringTimer
  BY DEF execVars
<1>2. /\ status' \in [Orders -> Statuses]
      /\ \A id \in Orders : status'[id] = IF id \in ids THEN st ELSE status[id]
      /\ activeOrders' \subseteq Orders
      /\ orderHistory' \subseteq Orders
      /\ TrackedWasSent'
      /\ OneHome'
  <2>1. ids \in SUBSET Orders /\ \A id \in ids : id[2] <= cur[id[1]]
    BY DEF IInv, TypeOK, TrackedWasSent
  <2>2. st \in Statuses \ {"absent", "pending"}
    BY DEF Statuses
  <2> QED BY <1>1, <2>1, <2>2, ToHistoryStep
<1>3. TypeOK'
  BY <1>1, <1>2 DEF IInv, TypeOK
<1>4. \A id \in Orders : /\ status'[id] = "absent" <=> status[id] = "absent"
                         /\ status[id] \in Interim => status'[id] \in Interim
  <2>1. \A id \in ids : id \in Orders /\ status[id] = "pending"
    BY DEF IInv, TypeOK, OneHome
  <2> QED BY <1>2, <2>1 DEF Interim
<1>5. ASSUME NEW x \in Plans PROVE CallInvOf(x)'
  <2>1. IsSliced(x)' <=> IsSliced(x)
    BY <1>1 DEF IsSliced
  <2>2. CallInvOf(x)
    BY DEF IInv, CallInv
  <2>3. /\ spec[x].slices \in 1..MaxSlices /\ cur[x] \in 0..MaxSlices
        /\ 0 \in 0..MaxSlices /\ 1..spec[x].slices \subseteq 0..MaxSlices
        /\ 1..MaxSlices \subseteq 0..MaxSlices
    BY ConstantsAssumption DEF IInv, TypeOK
  <2>4. \A i \in 0..MaxSlices :
          /\ status'[<<x, i>>] = "absent" <=> status[<<x, i>>] = "absent"
          /\ status[<<x, i>>] \in Interim => status'[<<x, i>>] \in Interim
    BY <1>4 DEF Orders
  <2> QED BY <1>1, <2>1, <2>2, <2>3, <2>4 DEF CallInvOf
<1> QED BY <1>2, <1>3, <1>5 DEF IInv, CallInv

\* Time passes, intervals start and stop: no call and no order is touched.
LEMMA TimeStep ==
  ASSUME IInv, UNCHANGED <<execVars, orderVars, orderSliceManagers, metrics>>,
         aged' \subseteq Plans, timers' \subseteq 1..MaxTimers,
         monitoringTimer' \in 0..MaxTimers, cleanup' \in {"no", "client", "done"}
  PROVE  IInv'
<1>1. /\ spec' = spec /\ pc' = pc /\ cur' = cur /\ checks' = checks /\ lastFill' = lastFill
      /\ totalFill' = totalFill /\ status' = status /\ filledQuantity' = filledQuantity
      /\ activeOrders' = activeOrders /\ orderHistory' = orderHistory
      /\ orderSliceManagers' = orderSliceManagers /\ metrics' = metrics
  BY DEF execVars, orderVars
<1>2. TypeOK'
  BY <1>1 DEF IInv, TypeOK
<1>3. CallInv'
  <2>1. ASSUME NEW x \in Plans PROVE CallInvOf(x)'
    <3>1. IsSliced(x)' <=> IsSliced(x)
      BY <1>1 DEF IsSliced
    <3> QED BY <1>1, <3>1 DEF IInv, CallInv, CallInvOf
  <2> QED BY <2>1 DEF CallInv
<1> QED BY <1>1, <1>2, <1>3, OrdersUnchanged DEF IInv

-----------------------------------------------------------------------------
\* Every step of the executor preserves the invariant.
LEMMA StepIInv == IInv /\ [Next]_vars => IInv'
<1> SUFFICES ASSUME IInv, [Next]_vars PROVE IInv'
  OBVIOUS
<1>1. \A p \in Plans, i \in 0..MaxSlices : QuantityOf(<<p, i>>) \in Nat
  BY QuantityType DEF IInv
<1>2. \A p \in Plans : QuantityOf(Current(p)) \in Nat
  BY <1>1 DEF Current, IInv, TypeOK
<1>3. CASE UNCHANGED vars
  BY <1>3, TimeStep DEF vars, timeVars, IInv, TypeOK
<1>4. CASE Initialize
  <2>1. timers' \subseteq 1..MaxTimers /\ monitoringTimer' \in 0..MaxTimers
    BY <1>4, ConstantsAssumption DEF Initialize, IInv, TypeOK
  <2> QED BY <1>4, <2>1, TimeStep DEF Initialize, IInv, TypeOK
<1>5. CASE MonitorActiveOrders
  <2>1. PICK ids \in SUBSET Due : ToHistory(ids, "expired")
    BY <1>5 DEF MonitorActiveOrders
  <2>2. ids \in SUBSET activeOrders
    BY DEF Due
  <2> QED BY <1>5, <2>1, <2>2, RetireActiveStep DEF MonitorActiveOrders, timeVars, IInv, TypeOK
<1>6. CASE CleanupBegin
  <2>1. timers' \subseteq 1..MaxTimers
    BY <1>6 DEF CleanupBegin, IInv, TypeOK
  <2> QED BY <1>6, <2>1, TimeStep DEF CleanupBegin, IInv, TypeOK
<1>7. CASE CleanupCancel
  BY <1>7, RetireActiveStep DEF CleanupCancel
<1>8. ASSUME NEW p \in Plans, ExecuteOrder(p) \/ ExecuteOrderThrows(p)
      PROVE  IInv'
  BY <1>8, ExecuteStep, ExecuteThrowsStep
<1>9. ASSUME NEW p \in Plans, Age(p)
      PROVE  IInv'
  <2>1. aged' \subseteq Plans
    BY <1>9 DEF Age, IInv, TypeOK
  <2> QED BY <1>9, <2>1, TimeStep DEF Age, IInv, TypeOK
<1>10. ASSUME NEW id \in Orders, CancelOrder(id)
       PROVE  IInv'
  BY <1>10, RetireActiveStep DEF CancelOrder, timeVars, IInv, TypeOK
<1>11. ASSUME NEW p \in Plans, Progress(p)
       PROVE  IInv'
  <2>1. CASE ValidationFails(p)
    BY <2>1, SettleStep DEF ValidationFails, InSingle, Suspended
  <2>2. CASE ValidationPasses(p)
    <3>1. pc[p] = "validate" /\ pc' = [pc EXCEPT ![p] = "submit"] /\ checks' = checks
      BY <2>2 DEF ValidationPasses
    <3> QED BY <2>2, <3>1, ResumeStep
            DEF ValidationPasses, InSingle, Suspended, IInv, TypeOK, orderVars, timeVars
  <2>3. CASE SubmissionFails(p)
    BY <2>3, SettleStep DEF SubmissionFails, InSingle, Suspended
  <2>4. CASE SubmissionSucceeds(p)
    <3>1. pc[p] = "submit" /\ pc' = [pc EXCEPT ![p] = "monitor"]
      BY <2>4 DEF SubmissionSucceeds
    <3>2. checks' \in [Plans -> 0..MaxChecks]
      BY <2>4, ConstantsAssumption DEF SubmissionSucceeds, IInv, TypeOK
    <3> QED BY <2>4, <3>1, <3>2, ResumeStep
            DEF SubmissionSucceeds, InSingle, Suspended, IInv, TypeOK, orderVars, timeVars
  <2>5. CASE PollFilled(p)
    <3>1. PICK fill \in FillSizes(p) : Settle(p, TRUE, fill)
      BY <2>5 DEF PollFilled
    <3>2. fill \in Nat
      BY <1>2, <3>1 DEF FillSizes
    <3> QED BY <2>5, <3>1, <3>2, SettleStep DEF PollFilled, InSingle, Suspended
  <2>6. CASE PollCancelled(p)
    BY <2>6, SettleStep DEF PollCancelled, InSingle, Suspended
  <2>7. CASE PollOpen(p)
    <3>1. pc[p] = "monitor" /\ pc' = [pc EXCEPT ![p] = "monitor"]
      BY <2>7 DEF PollOpen, IInv, TypeOK
    <3>2. checks' \in [Plans -> 0..MaxChecks]
      BY <2>7, ConstantsAssumption DEF PollOpen, IInv, TypeOK
    <3> QED BY <2>7, <3>1, <3>2, ResumeStep
            DEF PollOpen, InSingle, Suspended, IInv, TypeOK, orderVars, timeVars
  <2>8. CASE PollTimesOut(p)
    BY <2>8, SettleStep DEF PollTimesOut, InSingle, Suspended
  <2>9. CASE Simulate(p)
    BY <1>2, <2>9, SettleStep DEF Simulate, InSingle, Suspended
  <2>10. CASE Backtest(p)
    BY <1>2, <2>10, SettleStep DEF Backtest, InSingle, Suspended
  <2>11. CASE SliceReturned(p)
    <3>1. /\ pc[p] = "returned" /\ pc' = [pc EXCEPT ![p] = "pause"] /\ checks' = checks
          /\ cur[p] < spec[p].slices
      BY <2>11 DEF SliceReturned
    <3>2. cur[p] > 0
      <4>1. CallInvOf(p) /\ cur[p] \in 0..MaxSlices
        BY DEF IInv, CallInv, TypeOK
      <4> QED BY <3>1, <4>1 DEF CallInvOf, Suspended, InSingle
    <3>3. totalFill' \in [Plans -> Nat]
      BY <2>11 DEF SliceReturned, IInv, TypeOK
    <3> QED BY <2>11, <3>1, <3>2, <3>3, ResumeStep
            DEF SliceReturned, InSingle, Suspended, IInv, TypeOK, orderVars, timeVars
  <2>12. CASE StartSlice(p)
    BY <2>12, StartSliceStep
  <2>13. CASE FinishParent(p)
    BY <2>13, FinishParentStep
  <2> QED BY <1>11, <2>1, <2>2, <2>3, <2>4, <2>5, <2>6, <2>7, <2>8, <2>9, <2>10,
             <2>11, <2>12, <2>13 DEF Progress
<1> QED BY <1>3, <1>4, <1>5, <1>6, <1>7, <1>8, <1>9, <1>10, <1>11 DEF Next

\* The executor's calls, order objects and maps stay in step for ever.
THEOREM Invariance == Spec => []IInv
<1>1. Init => IInv
  BY InitIInv
<1>2. IInv /\ [Next]_vars => IInv'
  BY StepIInv
<1> QED BY <1>1, <1>2, PTL DEF Spec

\* Type correctness, for every number of plans, slices and polls.
THEOREM TypeCorrectness == Spec => []TypeOK
<1>1. IInv => TypeOK
  BY DEF IInv
<1> QED BY <1>1, Invariance, PTL

\* No interleaving of executions, cancels, expiries and cleanup loses an order
\* or tracks it twice.
THEOREM OneHomeAlways == Spec => []OneHome
<1>1. IInv => OneHome
  BY DEF IInv
<1> QED BY <1>1, Invariance, PTL

-----------------------------------------------------------------------------
Outcomes == {"filled", "rejected", "error"}

\* What NoResurrection and OutcomeIsFinal say of one step.
StepIsFinal ==
  /\ orderHistory \subseteq orderHistory'
  /\ activeOrders' \cap orderHistory = {}
  /\ \A id \in Orders : status[id] \in Outcomes => status'[id] = status[id]

\* Orders that have no outcome yet may move to the history.
LEMMA ToHistoryIsFinal ==
  ASSUME IInv, NEW ids \in SUBSET Orders, \A id \in ids : status[id] \in Interim,
         NEW st, ToHistory(ids, st)
  PROVE  StepIsFinal
<1>1. activeOrders \cap orderHistory = {}
  BY DEF IInv, OneHome
<1>2. \A id \in Orders : status[id] \in Outcomes => id \notin ids
  BY DEF Outcomes, Interim
<1> QED BY <1>1, <1>2 DEF ToHistory, StepIsFinal

\* No step undoes an outcome or takes an order back from the history.
LEMMA EveryStepIsFinal == IInv /\ [Next]_vars => StepIsFinal
<1> SUFFICES ASSUME IInv, [Next]_vars PROVE StepIsFinal
  OBVIOUS
<1>1. activeOrders \cap orderHistory = {}
  BY DEF IInv, OneHome
<1>2. ASSUME UNCHANGED orderVars PROVE StepIsFinal
  BY <1>1, <1>2 DEF StepIsFinal, orderVars
<1>3. \A id \in activeOrders : id \in Orders /\ status[id] \in Interim
  BY DEF IInv, TypeOK, OneHome, Interim
<1>4. CASE UNCHANGED vars
  BY <1>2, <1>4 DEF vars
<1>5. CASE Initialize \/ CleanupBegin
  BY <1>2, <1>5 DEF Initialize, CleanupBegin
<1>6. CASE MonitorActiveOrders
  <2>1. PICK ids \in SUBSET Due : ToHistory(ids, "expired")
    BY <1>6 DEF MonitorActiveOrders
  <2>2. ids \in SUBSET Orders /\ \A id \in ids : status[id] \in Interim
    BY <1>3 DEF Due
  <2> QED BY <2>1, <2>2, ToHistoryIsFinal
<1>7. CASE CleanupCancel
  BY <1>3, <1>7, ToHistoryIsFinal DEF CleanupCancel
<1>8. ASSUME NEW id \in Orders, CancelOrder(id) PROVE StepIsFinal
  <2>1. {id} \in SUBSET Orders /\ \A x \in {id} : status[x] \in Interim
    BY <1>3, <1>8 DEF CancelOrder
  <2> QED BY <1>8, <2>1, ToHistoryIsFinal DEF CancelOrder
<1>9. ASSUME NEW p \in Plans, ExecuteOrder(p) \/ ExecuteOrderThrows(p) PROVE StepIsFinal
  <2>1. /\ \A i \in 0..MaxSlices : status[<<p, i>>] = "absent"
        /\ 0 \in 0..MaxSlices /\ 1 \in 0..MaxSlices
    <3>1. pc[p] = "none" /\ CallInvOf(p)
      BY <1>9 DEF ExecuteOrder, ExecuteOrderThrows, IInv, CallInv
    <3>2. MaxSlices \in Nat \ {0}
      BY ConstantsAssumption
    <3>3. /\ status[<<p, 0>>] = "absent"
          /\ \A i \in 1..MaxSlices : status[<<p, i>>] = "absent"
      BY <3>1 DEF CallInvOf
    <3> QED BY <3>2, <3>3
  <2>2. \A i \in {0, 1} : <<p, i>> \notin orderHistory
    BY <2>1 DEF IInv, OneHome, Orders
  <2>3. orderHistory' = orderHistory /\ activeOrders' \subseteq activeOrders \cup {<<p, 0>>, <<p, 1>>}
    BY <1>9 DEF ExecuteOrder, ExecuteOrderThrows
  <2>4. \A id \in Orders : status[id] # "absent" => status'[id] = status[id]
    <3>1. CASE ExecuteOrder(p)
      <4>1. \A id \in Orders : id[1] = p => status[id] = "absent"
        BY <2>1 DEF Orders
      <4> QED BY <3>1, <4>1 DEF ExecuteOrder, CreateOrders
    <3>2. CASE ExecuteOrderThrows(p)
      BY <2>1, <3>2 DEF ExecuteOrderThrows, IInv, TypeOK
    <3> QED BY <1>9, <3>1, <3>2
  <2> QED BY <1>1, <2>2, <2>3, <2>4 DEF StepIsFinal, Outcomes
<1>10. ASSUME NEW p \in Plans, Age(p) PROVE StepIsFinal
  BY <1>2, <1>10 DEF Age
<1>11. ASSUME NEW p \in Plans, NEW success \in BOOLEAN, NEW fill,
              pc[p] \in InSingle, Settle(p, success, fill)
       PROVE  StepIsFinal
  <2>1. {Current(p)} \in SUBSET Orders /\ \A id \in {Current(p)} : status[id] \in Interim
    <3>1. CallInvOf(p) /\ cur[p] \in 0..MaxSlices
      BY DEF IInv, CallInv, TypeOK
    <3>2. status[<<p, cur[p]>>] \in Interim
      BY <1>11, <3>1 DEF CallInvOf
    <3>3. <<p, cur[p]>> \in Orders
      BY <3>1 DEF Orders
    <3> QED BY <3>2, <3>3 DEF Current
  <2>2. PICK st : ToHistory({Current(p)}, st)
    BY <1>11 DEF Settle
  <2> QED BY <2>1, <2>2, ToHistoryIsFinal
<1>12. ASSUME NEW p \in Plans, Progress(p) PROVE StepIsFinal
  <2>1. CASE ValidationFails(p) \/ SubmissionFails(p) \/ PollCancelled(p) \/ PollTimesOut(p)
    BY <1>11, <2>1 DEF ValidationFails, SubmissionFails, PollCancelled, PollTimesOut,
                       InSingle, Suspended
  <2>2. CASE PollFilled(p) \/ Simulate(p) \/ Backtest(p)
    BY <1>11, <2>2 DEF PollFilled, Simulate, Backtest, InSingle, Suspended
  <2>3. CASE ValidationPasses(p) \/ SubmissionSucceeds(p) \/ PollOpen(p) \/ SliceReturned(p)
    BY <1>2, <2>3 DEF ValidationPasses, SubmissionSucceeds, PollOpen, SliceReturned
  <2>4. CASE StartSlice(p)
    <3>1. /\ pc[p] = "pause" /\ CallInvOf(p) /\ cur[p] \in 0..MaxSlices
          /\ spec[p].slices \in 1..MaxSlices /\ MaxSlices \in Nat
      BY <2>4, ConstantsAssumption DEF StartSlice, IInv, TypeOK, CallInv
    <3>2. cur[p] > 0 /\ cur[p] + 1 \in 1..spec[p].slices /\ <<p, cur[p] + 1>> \in Orders
      BY <3>1 DEF CallInvOf, Suspended, InSingle, Orders
    <3>3. Unsent(<<p, cur[p] + 1>>)
      BY <3>1, <3>2 DEF CallInvOf, Unsent
    <3>4. <<p, cur[p] + 1>> \notin orderHistory
      BY <3>2, <3>3 DEF IInv, OneHome
    <3>5. /\ activeOrders' = activeOrders \cup {<<p, cur[p] + 1>>}
          /\ status' = status /\ orderHistory' = orderHistory
      BY <2>4 DEF StartSlice, SendSlice
    <3> QED BY <1>1, <3>4, <3>5 DEF StepIsFinal
  <2>5. CASE FinishParent(p)
    <3>1. pc[p] = "returned" /\ CallInvOf(p) /\ <<p, 0>> \in Orders
      BY <2>5, ConstantsAssumption DEF FinishParent, IInv, CallInv, Orders
    <3>2. {<<p, 0>>} \in SUBSET Orders /\ \A id \in {<<p, 0>>} : status[id] \in Interim
      BY <3>1 DEF CallInvOf, Suspended
    <3>3. PICK st : ToHistory({<<p, 0>>}, st)
      BY <2>5 DEF FinishParent
    <3> QED BY <3>2, <3>3, ToHistoryIsFinal
  <2> QED BY <1>12, <2>1, <2>2, <2>3, <2>4, <2>5 DEF Progress
<1> QED BY <1>4, <1>5, <1>6, <1>7, <1>8, <1>9, <1>10, <1>12 DEF Next

\* An order that reached orderHistory stays there and is never active again.
THEOREM NoResurrectionAlways == Spec => NoResurrection
<1>1. IInv /\ [Next]_vars => [/\ orderHistory \subseteq orderHistory'
                             /\ activeOrders' \cap orderHistory = {}]_vars
  BY EveryStepIsFinal DEF StepIsFinal
<1> QED BY <1>1, Invariance, PTL DEF Spec, NoResurrection

\* No cancel, expiry, cleanup or second settlement changes an outcome.
THEOREM OutcomeIsFinalAlways == Spec => OutcomeIsFinal
<1>1. IInv /\ [Next]_vars =>
        [\A id \in Orders :
           status[id] \in {"filled", "rejected", "error"} => status'[id] = status[id]]_vars
  BY EveryStepIsFinal DEF StepIsFinal, Outcomes
<1> QED BY <1>1, Invariance, PTL DEF Spec, OutcomeIsFinal


-----------------------------------------------------------------------------
\* Suspended calls resume inside or outside executeSingleOrder, all else is kept.
Resumes(p) ==
  /\ pc[p] \in Suspended
  /\ \E dest \in Suspended : /\ dest \in InSingle <=> pc[p] \in InSingle
                             /\ pc' = [pc EXCEPT ![p] = dest]
  /\ \/ SliceReturned(p)
     \/ /\ pc[p] # "returned" /\ pc'[p] # "returned"
        /\ UNCHANGED <<lastFill, totalFill>>
  /\ UNCHANGED <<spec, cur, orderVars, orderSliceManagers, metrics>>

\* Active orders are retired by a cancel, a monitoring tick or cleanup().
Retires ==
  /\ \E ids \in SUBSET activeOrders, st \in {"cancelled", "expired"} : ToHistory(ids, st)
  /\ UNCHANGED <<execVars, filledQuantity, orderSliceManagers, metrics>>

\* The result of an execution arrives.
Settles(p) ==
  /\ pc[p] \in InSingle
  /\ \E success \in BOOLEAN, fill \in 0..QuantityOf(Current(p)) : Settle(p, success, fill)

\* What a step is to the calls, the order objects, the managers and the metrics.
LEMMA StepKinds ==
  ASSUME IInv, [Next]_vars
  PROVE  \/ \E p \in Plans : \/ ExecuteOrder(p) \/ ExecuteOrderThrows(p)
                             \/ StartSlice(p) \/ FinishParent(p) \/ Settles(p) \/ Resumes(p)
         \/ Retires
         \/ UNCHANGED <<spec, pc, cur, lastFill, totalFill, orderVars, orderSliceManagers, metrics>>
<1>1. \A p \in Plans : QuantityOf(Current(p)) \in Nat
  BY QuantityType DEF Current, IInv, TypeOK
<1>2. CASE UNCHANGED vars \/ Initialize \/ CleanupBegin \/ \E p \in Plans : Age(p)
  BY <1>2 DEF vars, execVars, Initialize, CleanupBegin, Age
<1>3. CASE MonitorActiveOrders
  <2>1. PICK ids \in SUBSET Due : ToHistory(ids, "expired")
    BY <1>3 DEF MonitorActiveOrders
  <2>2. ids \in SUBSET activeOrders
    BY DEF Due
  <2> QED BY <1>3, <2>1, <2>2 DEF MonitorActiveOrders, Retires
<1>4. CASE CleanupCancel
  BY <1>4 DEF CleanupCancel, Retires
<1>5. CASE \E id \in Orders : CancelOrder(id)
  BY <1>5 DEF CancelOrder, Retires
<1>6. ASSUME NEW p \in Plans, Progress(p)
      PROVE  StartSlice(p) \/ FinishParent(p) \/ Settles(p) \/ Resumes(p)
  <2>1. CASE ValidationFails(p) \/ SubmissionFails(p) \/ PollCancelled(p) \/ PollTimesOut(p)
    <3>1. pc[p] \in {"validate", "submit", "monitor"} /\ Settle(p, FALSE, 0)
      BY <2>1 DEF ValidationFails, SubmissionFails, PollCancelled, PollTimesOut
    <3>2. 0 \in 0..QuantityOf(Current(p))
      BY <1>1
    <3> QED BY <3>1, <3>2 DEF Settles, InSingle, Suspended
  <2>2. CASE PollFilled(p)
    <3>1. PICK fill \in FillSizes(p) : Settle(p, TRUE, fill)
      BY <2>2 DEF PollFilled
    <3>2. fill \in 0..QuantityOf(Current(p))
      BY <1>1, <3>1 DEF FillSizes
    <3> QED BY <2>2, <3>1, <3>2 DEF PollFilled, Settles, InSingle, Suspended
  <2>3. CASE Simulate(p) \/ Backtest(p)
    <3>1. /\ pc[p] \in {"simulate", "backtest"}
          /\ Settle(p, TRUE, QuantityOf(Current(p))) \/ Settle(p, FALSE, 0)
      BY <2>3 DEF Simulate, Backtest
    <3>2. 0 \in 0..QuantityOf(Current(p)) /\ QuantityOf(Current(p)) \in 0..QuantityOf(Current(p))
      BY <1>1
    <3> QED BY <3>1, <3>2 DEF Settles, InSingle, Suspended
  <2>4. CASE ValidationPasses(p) \/ SubmissionSucceeds(p)
    <3>1. PICK dest \in {"submit", "monitor"} :
            /\ pc[p] \in {"validate", "submit"} /\ pc' = [pc EXCEPT ![p] = dest]
            /\ UNCHANGED <<spec, cur, lastFill, totalFill, orderVars, orderSliceManagers, metrics>>
      BY <2>4 DEF ValidationPasses, SubmissionSucceeds
    <3>2. pc'[p] = dest
      BY <3>1 DEF IInv, TypeOK
    <3> QED BY <3>1, <3>2 DEF Resumes, InSingle, Suspended
  <2>5. CASE PollOpen(p)
    <3>1. pc[p] = "monitor" /\ pc' = [pc EXCEPT ![p] = "monitor"]
      BY <2>5 DEF PollOpen, IInv, TypeOK
    <3> QED BY <2>5, <3>1 DEF PollOpen, Resumes, InSingle, Suspended
  <2>6. CASE SliceReturned(p)
    BY <2>6 DEF SliceReturned, Resumes, InSingle, Suspended
  <2> QED BY <1>6, <2>1, <2>2, <2>3, <2>4, <2>5, <2>6 DEF Progress
<1> QED BY <1>2, <1>3, <1>4, <1>5, <1>6 DEF Next

\* A slice manager belongs to a suspended call of a sliced plan.
LEMMA SliceManagersStep ==
  ASSUME IInv, SliceManagersOfRunning, [Next]_vars
  PROVE  SliceManagersOfRunning'
<1> USE DEF Suspended, InSingle
<1>1. pc \in [Plans -> PCs] /\ spec' = spec
  <2>1. spec' = spec
    BY StepKinds DEF ExecuteOrder, ExecuteOrderThrows, StartSlice, SendSlice, FinishParent,
                     Settles, Settle, Resumes, Retires, execVars
  <2> QED BY <2>1 DEF IInv, TypeOK
<1>2. \A p \in Plans : IsSliced(p)' <=> IsSliced(p)
  BY <1>1 DEF IsSliced
<1>3. ASSUME NEW p \in Plans, pc[p] \in Suspended, NEW dest \in Suspended,
             pc' = [pc EXCEPT ![p] = dest], UNCHANGED orderSliceManagers
      PROVE  SliceManagersOfRunning'
  BY <1>1, <1>2, <1>3 DEF SliceManagersOfRunning
<1>4. ASSUME NEW p \in Plans, ExecuteOrder(p) PROVE SliceManagersOfRunning'
  <2>1. /\ pc[p] = "none" /\ pc' = [pc EXCEPT ![p] = Entry(spec[p].venue)]
        /\ orderSliceManagers' = IF IsSliced(p) THEN orderSliceManagers \cup {p}
                                                ELSE orderSliceManagers
    BY <1>4 DEF ExecuteOrder
  <2>2. pc'[p] \in Suspended
    BY <1>1, <2>1, EntryType DEF IInv
  <2> QED BY <1>1, <1>2, <2>1, <2>2 DEF SliceManagersOfRunning
<1>5. ASSUME NEW p \in Plans, ExecuteOrderThrows(p) PROVE SliceManagersOfRunning'
  BY <1>1, <1>2, <1>5 DEF ExecuteOrderThrows, SliceManagersOfRunning
<1>6. ASSUME NEW p \in Plans, StartSlice(p) PROVE SliceManagersOfRunning'
  <2>1. pc[p] = "pause" /\ pc' = [pc EXCEPT ![p] = Entry(spec[p].venue)]
        /\ UNCHANGED orderSliceManagers
    BY <1>6 DEF StartSlice, SendSlice
  <2>2. Entry(spec[p].venue) \in Suspended
    BY EntryType DEF IInv
  <2> QED BY <1>3, <2>1, <2>2
<1>7. ASSUME NEW p \in Plans, FinishParent(p) PROVE SliceManagersOfRunning'
  <2>1. pc' = [pc EXCEPT ![p] = "done"] /\ orderSliceManagers' = orderSliceManagers \ {p}
    BY <1>7 DEF FinishParent, ReleaseSliceManager
  <2> QED BY <1>1, <1>2, <2>1 DEF SliceManagersOfRunning
<1>8. ASSUME NEW p \in Plans, Settles(p) PROVE SliceManagersOfRunning'
  <2>1. /\ pc[p] \in Suspended /\ UNCHANGED orderSliceManagers
        /\ pc' = [pc EXCEPT ![p] = IF cur[p] = 0 THEN "done" ELSE "returned"]
    BY <1>8 DEF Settles, Settle
  <2>2. cur[p] = 0 => ~IsSliced(p)
    BY <2>1 DEF IInv, CallInv, CallInvOf
  <2> QED BY <1>1, <1>2, <2>1, <2>2 DEF SliceManagersOfRunning
<1>9. ASSUME NEW p \in Plans, Resumes(p) PROVE SliceManagersOfRunning'
  BY <1>3, <1>9 DEF Resumes
<1>10. CASE UNCHANGED <<pc, orderSliceManagers>>
  BY <1>2, <1>10 DEF SliceManagersOfRunning
<1> QED BY <1>4, <1>5, <1>6, <1>7, <1>8, <1>9, <1>10, StepKinds DEF Retires, execVars

\* The finally of executeSlicedOrder: a slice manager lives exactly as long as
\* the sliced execution it belongs to, also when listeners throw.
THEOREM SliceManagersAlways == Spec => []SliceManagersOfRunning
<1>1. Init => SliceManagersOfRunning
  BY DEF Init, SliceManagersOfRunning, Suspended
<1>2. IInv /\ SliceManagersOfRunning /\ [Next]_vars => SliceManagersOfRunning'
  BY SliceManagersStep
<1> QED BY <1>1, <1>2, Invariance, PTL DEF Spec

-----------------------------------------------------------------------------
\* An order that is active, cancelled or expired has a call that will settle it.
RunningOrders ==
  ~ListenerThrows =>
    \A id \in Orders :
      id \in activeOrders \/ status[id] \in {"cancelled", "expired"} => Executing(id)

\* Steps keep it: no call ends or leaves a slice that it has not settled.
LEMMA RunningOrdersStep ==
  ASSUME IInv, RunningOrders, [Next]_vars
  PROVE  RunningOrders'
<1> SUFFICES ASSUME ~ListenerThrows, NEW id \in Orders,
                    id \in activeOrders' \/ status'[id] \in {"cancelled", "expired"}
             PROVE  Executing(id)'
  BY DEF RunningOrders
<1> DEFINE Open == id \in activeOrders \/ status[id] \in {"cancelled", "expired"}
<1>1. Open => Executing(id)
  BY DEF RunningOrders
<1>2. /\ id[1] \in Plans /\ id[2] \in 0..MaxSlices /\ id = <<id[1], id[2]>>
      /\ cur \in [Plans -> 0..MaxSlices] /\ pc \in [Plans -> PCs]
      /\ status \in [Orders -> Statuses] /\ MaxSlices \in Nat \ {0}
  BY ConstantsAssumption DEF Orders, IInv, TypeOK
<1>3. ASSUME Open, pc'[id[1]] = pc[id[1]], cur'[id[1]] = cur[id[1]] PROVE Executing(id)'
  BY <1>1, <1>3 DEF Executing
<1>4. ASSUME NEW p \in Plans, id[1] # p,
             \/ ExecuteOrder(p) \/ StartSlice(p) \/ FinishParent(p) \/ Settles(p) \/ Resumes(p)
      PROVE  Executing(id)'
  <2>1. pc'[id[1]] = pc[id[1]] /\ cur'[id[1]] = cur[id[1]]
    BY <1>2, <1>4 DEF ExecuteOrder, StartSlice, SendSlice, FinishParent, Settles, Settle, Resumes
  <2>2. status'[id] = status[id] /\ (id \in activeOrders' => id \in activeOrders)
    BY <1>2, <1>4 DEF ExecuteOrder, CreateOrders, StartSlice, SendSlice, FinishParent, Settles,
                      Settle, Resumes, ToHistory, Current, orderVars
  <2> QED BY <1>3, <2>1, <2>2
<1>5. CASE ExecuteOrder(id[1])
  <2>1. /\ pc' = [pc EXCEPT ![id[1]] = Entry(spec[id[1]].venue)]
        /\ cur' = [cur EXCEPT ![id[1]] = IF IsSliced(id[1]) THEN 1 ELSE 0]
        /\ activeOrders' = activeOrders \cup
             {<<id[1], 0>>, <<id[1], IF IsSliced(id[1]) THEN 1 ELSE 0>>}
        /\ pc[id[1]] = "none"
    BY <1>5 DEF ExecuteOrder
  <2>2. pc'[id[1]] \in Suspended /\ pc'[id[1]] \notin {"returned", "pause"}
    BY <1>2, <2>1, EntryType DEF IInv, InSingle
  <2>3. status[id] = "absent" /\ status'[id] \in {"absent", "pending"}
    <3>1. CallInvOf(id[1])
      BY <1>2 DEF IInv, CallInv
    <3>2. id[2] = 0 \/ id[2] \in 1..MaxSlices
      BY <1>2
    <3>3. status[<<id[1], id[2]>>] = "absent"
      BY <2>1, <3>1, <3>2 DEF CallInvOf
    <3>4. status[id] = "absent"
      BY <1>2, <3>3
    <3> QED BY <1>5, <3>4 DEF ExecuteOrder, CreateOrders
  <2>4. id \in {<<id[1], 0>>, <<id[1], IF IsSliced(id[1]) THEN 1 ELSE 0>>}
    BY <2>1, <2>3 DEF IInv, OneHome
  <2>5. id[2] = 0 \/ id[2] = cur'[id[1]]
    BY <1>2, <2>1, <2>4
  <2> QED BY <2>2, <2>5 DEF Executing
<1>6. CASE StartSlice(id[1])
  <2>1. /\ pc' = [pc EXCEPT ![id[1]] = Entry(spec[id[1]].venue)]
        /\ cur' = [cur EXCEPT ![id[1]] = cur[id[1]] + 1]
        /\ activeOrders' = activeOrders \cup {<<id[1], cur[id[1]] + 1>>}
        /\ pc[id[1]] = "pause" /\ status' = status
    BY <1>6 DEF StartSlice, SendSlice
  <2>2. pc'[id[1]] \in Suspended /\ pc'[id[1]] \notin {"returned", "pause"}
    BY <1>2, <2>1, EntryType DEF IInv, InSingle
  <2>3. id[2] = 0 \/ id = <<id[1], cur[id[1]] + 1>>
    BY <1>1, <2>1 DEF Executing
  <2>4. id[2] = 0 \/ id[2] = cur'[id[1]]
    BY <1>2, <2>1, <2>3
  <2> QED BY <2>2, <2>4 DEF Executing
<1>7. CASE FinishParent(id[1])
  <2>1. pc[id[1]] = "returned" /\ (id # <<id[1], 0>> => Open)
    BY <1>2, <1>7 DEF FinishParent, ToHistory
  <2>2. id = <<id[1], 0>>
    BY <1>1, <1>2, <2>1 DEF Executing
  <2> QED BY <1>7, <2>2 DEF FinishParent, ToHistory
<1>8. CASE Settles(id[1])
  <2>1. PICK st \in {"filled", "rejected", "error"} : ToHistory({Current(id[1])}, st)
    BY <1>8 DEF Settles, Settle
  <2>2. id # Current(id[1]) /\ Open
    BY <2>1 DEF ToHistory
  <2>3. id[2] = 0 /\ cur[id[1]] # 0
    BY <1>1, <1>2, <2>2 DEF Executing, Current
  <2>4. pc'[id[1]] = "returned"
    BY <1>2, <1>8, <2>3 DEF Settles, Settle
  <2> QED BY <2>3, <2>4 DEF Executing, Suspended
<1>9. CASE Resumes(id[1])
  <2>1. Open /\ cur' = cur
    BY <1>9 DEF Resumes, orderVars
  <2>2. PICK dest \in Suspended : /\ dest \in InSingle <=> pc[id[1]] \in InSingle
                                  /\ pc' = [pc EXCEPT ![id[1]] = dest]
    BY <1>9 DEF Resumes
  <2>3. pc'[id[1]] = dest
    BY <1>2, <2>2
  <2> QED BY <1>1, <2>1, <2>2, <2>3 DEF Executing, InSingle
<1>10. CASE Retires
  <2>1. Open
    BY <1>10 DEF Retires, ToHistory
  <2> QED BY <1>3, <1>10, <2>1 DEF Retires, execVars
<1>11. CASE UNCHANGED <<spec, pc, cur, lastFill, totalFill, orderVars, orderSliceManagers, metrics>>
  BY <1>3, <1>11 DEF orderVars
<1>12. ~ \E p \in Plans : ExecuteOrderThrows(p)
  BY DEF ExecuteOrderThrows
<1> QED BY <1>4, <1>5, <1>6, <1>7, <1>8, <1>9, <1>10, <1>11, <1>12, StepKinds

\* 'cancelled' and 'expired' are interim: cancelOrder and the monitoring tick do
\* not stop the execution, which is still there to settle the order.
THEOREM InterimUntilSettledAlways == Spec => []InterimUntilSettled
<1>1. Init => RunningOrders
  BY DEF Init, RunningOrders
<1>2. IInv /\ RunningOrders /\ [Next]_vars => RunningOrders'
  BY RunningOrdersStep
<1>3. RunningOrders => InterimUntilSettled
  BY DEF RunningOrders, InterimUntilSettled
<1> QED BY <1>1, <1>2, <1>3, Invariance, PTL DEF Spec
-----------------------------------------------------------------------------
\* The orders with one outcome.
WithStatus(st) == {id \in Orders : status[id] = st}

\* There are finitely many orders.
LEMMA FiniteOrders == IsFiniteSet(Orders)
<1>1. IsFiniteSet(Plans) /\ MaxSlices \in Nat
  BY ConstantsAssumption
<1>2. IsFiniteSet(0..MaxSlices)
  BY <1>1, FS_Interval
<1> QED BY <1>1, <1>2, FS_Product DEF Orders

LEMMA FiniteWithStatus ==
  ASSUME NEW st
  PROVE  IsFiniteSet(WithStatus(st)) /\ Cardinality(WithStatus(st)) \in Nat
BY FiniteOrders, FS_Subset, FS_CardinalityType DEF WithStatus

\* Settling an order counts it under its outcome, once, and under no other.
LEMMA ToHistoryCounts ==
  ASSUME IInv, NEW id \in Orders, status[id] \in Interim, NEW st,
         ToHistory({id}, st), NEW outcome \in {"filled", "rejected"}
  PROVE  Cardinality(WithStatus(outcome)') =
           Cardinality(WithStatus(outcome)) + (IF st = outcome THEN 1 ELSE 0)
<1>1. \A x \in Orders : status'[x] = IF x = id THEN st ELSE status[x]
  BY DEF ToHistory
<1>2. id \notin WithStatus(outcome) /\ IsFiniteSet(WithStatus(outcome))
  BY FiniteWithStatus DEF WithStatus, Interim
<1>3. CASE st = outcome
  <2>1. WithStatus(outcome)' = WithStatus(outcome) \cup {id}
    BY <1>1, <1>3 DEF WithStatus
  <2> QED BY <1>2, <1>3, <2>1, FS_AddElement
<1>4. CASE st # outcome
  <2>1. WithStatus(outcome)' = WithStatus(outcome)
    BY <1>1, <1>2, <1>4 DEF WithStatus
  <2> QED BY <1>4, <2>1, FiniteWithStatus
<1> QED BY <1>3, <1>4

\* The same property over the named sets.
LEMMA MetricsDef ==
  MetricsMatchOutcomes <=>
    /\ metrics.total = metrics.successful + metrics.failed
    /\ metrics.successful <= Cardinality(WithStatus("filled"))
    /\ metrics.failed <= Cardinality(WithStatus("rejected"))
    /\ ~ListenerThrows => metrics.total = Cardinality(WithStatus("filled"))
                                          + Cardinality(WithStatus("rejected"))
BY DEF MetricsMatchOutcomes, WithStatus

\* A settled order is counted, or a listener has thrown before it was.
LEMMA CountedStep ==
  ASSUME IInv, MetricsMatchOutcomes, NEW id \in Orders, status[id] \in Interim,
         NEW success \in BOOLEAN,
         \/ /\ ToHistory({id}, IF success THEN "filled" ELSE "rejected")
            /\ metrics' = Counted(metrics, success) \/ (ListenerThrows /\ metrics' = metrics)
         \/ ListenerThrows /\ ToHistory({id}, "error") /\ metrics' = metrics
  PROVE  MetricsMatchOutcomes'
<1> DEFINE F == Cardinality(WithStatus("filled"))
           R == Cardinality(WithStatus("rejected"))
<1>1. /\ metrics \in MetricsType /\ F \in Nat /\ R \in Nat
  BY FiniteWithStatus DEF IInv, TypeOK
<1>2. PICK st \in {"filled", "rejected", "error"} :
        /\ ToHistory({id}, st)
        /\ \/ st = (IF success THEN "filled" ELSE "rejected") /\ metrics' = Counted(metrics, success)
           \/ ListenerThrows /\ metrics' = metrics
  OBVIOUS
<1>3. /\ F' = F + (IF st = "filled" THEN 1 ELSE 0)
      /\ R' = R + (IF st = "rejected" THEN 1 ELSE 0)
  BY <1>2, ToHistoryCounts
<1>4. /\ metrics.total = metrics.successful + metrics.failed
      /\ metrics.successful <= F /\ metrics.failed <= R
      /\ ~ListenerThrows => metrics.total = F + R
  BY MetricsDef
<1>5. MetricsMatchOutcomes' <=>
        /\ metrics'.total = metrics'.successful + metrics'.failed
        /\ metrics'.successful <= F' /\ metrics'.failed <= R'
        /\ ~ListenerThrows => metrics'.total = F' + R'
  BY DEF MetricsMatchOutcomes, WithStatus
<1> HIDE DEF F, R
<1>6. /\ metrics.total \in Nat /\ metrics.successful \in Nat /\ metrics.failed \in Nat
  BY <1>1 DEF MetricsType
<1>7. CASE metrics' = metrics /\ ListenerThrows
  BY <1>1, <1>3, <1>4, <1>5, <1>6, <1>7
<1>8. CASE st = (IF success THEN "filled" ELSE "rejected") /\ metrics' = Counted(metrics, success)
  <2>1. /\ metrics'.total = metrics.total + 1
        /\ metrics'.successful = metrics.successful + (IF success THEN 1 ELSE 0)
        /\ metrics'.failed = metrics.failed + (IF success THEN 0 ELSE 1)
    BY <1>8 DEF Counted
  <2> QED BY <1>1, <1>3, <1>4, <1>5, <1>6, <1>8, <2>1
<1> QED BY <1>2, <1>7, <1>8

\* Steps that neither settle an order nor touch the counters.
LEMMA UncountedStep ==
  ASSUME MetricsMatchOutcomes, metrics' = metrics,
         \A id \in Orders : \A st \in {"filled", "rejected"} :
           status'[id] = st <=> status[id] = st
  PROVE  MetricsMatchOutcomes'
<1>1. /\ {id \in Orders : status[id] = "filled"}' = {id \in Orders : status[id] = "filled"}
      /\ {id \in Orders : status[id] = "rejected"}' = {id \in Orders : status[id] = "rejected"}
  OBVIOUS
<1> QED BY <1>1 DEF MetricsMatchOutcomes

LEMMA MetricsStep ==
  ASSUME IInv, MetricsMatchOutcomes, [Next]_vars
  PROVE  MetricsMatchOutcomes'
<1>1. cur \in [Plans -> 0..MaxSlices] /\ MaxSlices \in Nat
  BY ConstantsAssumption DEF IInv, TypeOK
<1>2. ASSUME NEW p \in Plans, ExecuteOrder(p) \/ ExecuteOrderThrows(p)
      PROVE  MetricsMatchOutcomes'
  <2>1. pc[p] = "none" /\ CallInvOf(p) /\ metrics' = metrics
    BY <1>2 DEF ExecuteOrder, ExecuteOrderThrows, IInv, CallInv
  <2>2. \A i \in 0..MaxSlices : status[<<p, i>>] = "absent"
    <3>1. cur[p] = 0 /\ \A i \in 0..MaxSlices : i = 0 \/ i \in 1..MaxSlices
      BY <1>1, <2>1 DEF CallInvOf
    <3> QED BY <2>1, <3>1 DEF CallInvOf
  <2>3. \A id \in Orders : id[1] = p => status[id] = "absent"
    BY <2>2 DEF Orders
  <2>4. <<p, 0>> \in Orders
    BY <1>1 DEF Orders
  <2>5. \A id \in Orders :
          status'[id] = status[id] \/ (status[id] = "absent" /\ status'[id] = "pending")
    BY <1>2, <2>3, <2>4 DEF ExecuteOrder, CreateOrders, ExecuteOrderThrows, IInv, TypeOK
  <2> QED BY <2>1, <2>5, UncountedStep
<1>3. ASSUME NEW p \in Plans, StartSlice(p) \/ Resumes(p) PROVE MetricsMatchOutcomes'
  BY <1>3, UncountedStep DEF StartSlice, SendSlice, Resumes, orderVars
<1>4. ASSUME NEW p \in Plans, FinishParent(p) PROVE MetricsMatchOutcomes'
  <2>1. pc[p] = "returned" /\ CallInvOf(p) /\ <<p, 0>> \in Orders
    BY <1>1, <1>4 DEF FinishParent, IInv, CallInv, Orders
  <2>2. status[<<p, 0>>] \in Interim
    BY <2>1 DEF CallInvOf, Suspended
  <2>3. \E success \in BOOLEAN :
          /\ ToHistory({<<p, 0>>}, IF success THEN "filled" ELSE "rejected")
          /\ metrics' = Counted(metrics, success) \/ (ListenerThrows /\ metrics' = metrics)
    <3>1. PICK success \in BOOLEAN :
            /\ success <=> totalFill[p] + lastFill[p] > 0
            /\ ToHistory({<<p, 0>>}, IF success THEN "filled" ELSE "rejected")
            /\ metrics' = Counted(metrics, success) \/ (ListenerThrows /\ UNCHANGED metrics)
      <4> DEFINE success == totalFill[p] + lastFill[p] > 0
      <4>1. success \in BOOLEAN
        OBVIOUS
      <4>2. /\ ToHistory({<<p, 0>>}, IF success THEN "filled" ELSE "rejected")
            /\ metrics' = Counted(metrics, success) \/ (ListenerThrows /\ UNCHANGED metrics)
        BY <1>4 DEF FinishParent
      <4> QED BY <4>1, <4>2, Zenon
    <3> QED BY <3>1
  <2> QED BY <2>1, <2>2, <2>3, CountedStep
<1>5. ASSUME NEW p \in Plans, Settles(p) PROVE MetricsMatchOutcomes'
  <2>1. PICK success \in BOOLEAN, fill \in 0..QuantityOf(Current(p)) : Settle(p, success, fill)
    BY <1>5 DEF Settles
  <2>2. Current(p) \in Orders /\ status[Current(p)] \in Interim
    BY <1>1, <1>5 DEF Settles, IInv, CallInv, CallInvOf, Current, Orders
  <2> QED BY <2>1, <2>2, CountedStep DEF Settle
<1>6. CASE Retires
  <2>1. \A id \in Orders : status'[id] # status[id] =>
          id \in activeOrders /\ status'[id] \in {"cancelled", "expired"}
    BY <1>6 DEF Retires, ToHistory
  <2>2. \A id \in activeOrders : id \in Orders /\ status[id] = "pending"
    BY DEF IInv, OneHome, TypeOK
  <2> QED BY <1>6, <2>1, <2>2, UncountedStep DEF Retires
<1>7. CASE UNCHANGED <<spec, pc, cur, lastFill, totalFill, orderVars, orderSliceManagers, metrics>>
  BY <1>7, UncountedStep DEF orderVars
<1> QED BY <1>2, <1>3, <1>4, <1>5, <1>6, <1>7, StepKinds

\* executionMetrics counts every settled order once, slices and parents alike;
\* only a throwing listener can make it miss one.
THEOREM MetricsMatchOutcomesAlways == Spec => []MetricsMatchOutcomes
<1>1. Init => MetricsMatchOutcomes
  <2> SUFFICES ASSUME Init PROVE MetricsMatchOutcomes
    OBVIOUS
  <2>1. {id \in Orders : status[id] = "filled"} = {} /\ {id \in Orders : status[id] = "rejected"} = {}
    BY DEF Init
  <2>2. /\ Cardinality({id \in Orders : status[id] = "filled"}) = 0
        /\ Cardinality({id \in Orders : status[id] = "rejected"}) = 0
    BY <2>1, FS_EmptySet
  <2>3. metrics.total = 0 /\ metrics.successful = 0 /\ metrics.failed = 0
    BY DEF Init
  <2> QED BY <2>2, <2>3 DEF MetricsMatchOutcomes
<1>2. IInv /\ MetricsMatchOutcomes /\ [Next]_vars => MetricsMatchOutcomes'
  BY MetricsStep
<1> QED BY <1>1, <1>2, Invariance, PTL DEF Spec
-----------------------------------------------------------------------------
\* Every set of natural numbers that is not empty has a least element.
LEMMA Least ==
  ASSUME NEW T \in SUBSET Nat, T # {}
  PROVE  \E m \in T : \A n \in T : m <= n
<1>1. ASSUME NEW R, R = OpToRel(<, Nat)
      PROVE  \E m \in T : \A y \in T : ~(<<y, m>> \in R)
  BY <1>1, NatLessThanWellFounded, WFMin
<1>2. \A x, y \in Nat : x < y => <<x, y>> \in OpToRel(<, Nat)
  BY DEF OpToRel
<1>3. \E m \in T : \A y \in T : ~(y < m)
  BY <1>1, <1>2, Zenon
<1> QED BY <1>3

\* The recursive definition of PartialSums has a solution, built up to each n.
LEMMA PartialSumsEquation ==
  ASSUME NEW f
  PROVE  PartialSums(f) =
           [i \in 0..MaxSlices |-> IF i = 0 THEN 0 ELSE PartialSums(f)[i - 1] + f[i]]
<1> DEFINE Solves(g, n) == g = [i \in 0..n |-> IF i = 0 THEN 0 ELSE g[i - 1] + f[i]]
           T == {n \in Nat : ~ \E g : Solves(g, n)}
<1>1. T = {}
  <2> SUFFICES ASSUME T # {} PROVE FALSE
    OBVIOUS
  <2>1. PICK m \in T : \A n \in T : m <= n
    BY Least
  <2>2. CASE m = 0
    <3>1. Solves([i \in 0..0 |-> 0], 0)
      OBVIOUS
    <3> QED BY <2>1, <2>2, <3>1
  <2>3. CASE m # 0
    <3>1. m - 1 \in Nat /\ m - 1 \notin T
      BY <2>1, <2>3
    <3>2. PICK g : Solves(g, m - 1)
      BY <3>1
    <3> DEFINE h == [i \in 0..m |-> IF i = m THEN g[m - 1] + f[m] ELSE g[i]]
    <3>3. ASSUME NEW i \in 0..m
          PROVE  h[i] = IF i = 0 THEN 0 ELSE h[i - 1] + f[i]
      <4>1. CASE i = m
        <5>1. h[m] = g[m - 1] + f[m] /\ h[m - 1] = g[m - 1]
          BY <2>3, <3>1
        <5> QED BY <2>3, <4>1, <5>1
      <4>2. CASE i # m
        <5>1. i \in 0..(m - 1) /\ h[i] = g[i]
          BY <3>1, <4>2
        <5>2. i # 0 => i - 1 \in 0..m /\ i - 1 # m
          BY <3>1, <4>2
        <5>3. g[i] = IF i = 0 THEN 0 ELSE g[i - 1] + f[i]
          BY <3>2, <5>1
        <5> QED BY <5>1, <5>2, <5>3
      <4> QED BY <4>1, <4>2
    <3>4. Solves(h, m)
      BY <3>3
    <3> QED BY <2>1, <3>4
  <2> QED BY <2>2, <2>3
<1>2. \E g : Solves(g, MaxSlices)
  BY <1>1, ConstantsAssumption
<1>3. PartialSums(f) = CHOOSE g : Solves(g, MaxSlices)
  BY DEF PartialSums
<1>4. Solves(CHOOSE g : Solves(g, MaxSlices), MaxSlices)
  BY <1>2
<1> QED BY <1>3, <1>4

\* The first sum is 0, and each adds one element to the one before it.
LEMMA PartialSumsRec ==
  ASSUME NEW f
  PROVE  /\ PartialSums(f)[0] = 0
         /\ \A i \in 1..MaxSlices : PartialSums(f)[i] = PartialSums(f)[i - 1] + f[i]
<1>1. MaxSlices \in Nat
  BY ConstantsAssumption
<1>2. \A i \in 0..MaxSlices :
        PartialSums(f)[i] = IF i = 0 THEN 0 ELSE PartialSums(f)[i - 1] + f[i]
  BY PartialSumsEquation, Zenon
<1> QED BY <1>1, <1>2

\* Sums of natural numbers are natural numbers.
LEMMA PartialSumsType ==
  ASSUME NEW f \in [1..MaxSlices -> Nat], NEW k \in 0..MaxSlices
  PROVE  PartialSums(f)[k] \in Nat
<1> DEFINE T == {n \in 0..MaxSlices : PartialSums(f)[n] \notin Nat}
<1> SUFFICES ASSUME T # {} PROVE FALSE
  OBVIOUS
<1>1. MaxSlices \in Nat
  BY ConstantsAssumption
<1>2. PICK m \in T : \A n \in T : m <= n
  <2>1. T \in SUBSET Nat
    BY <1>1
  <2> QED BY <2>1, Least
<1>3. m # 0
  BY <1>2, PartialSumsRec
<1>4. m \in 1..MaxSlices /\ m - 1 \in 0..MaxSlices /\ m - 1 \notin T
  BY <1>1, <1>2, <1>3
<1>5. PartialSums(f)[m - 1] \in Nat /\ f[m] \in Nat
  BY <1>4
<1>6. PartialSums(f)[m] = PartialSums(f)[m - 1] + f[m]
  BY <1>4, PartialSumsRec
<1> QED BY <1>2, <1>5, <1>6

\* What one element gains, every sum that it is part of gains.
LEMMA PartialSumsGain ==
  ASSUME NEW f \in [1..MaxSlices -> Nat], NEW g \in [1..MaxSlices -> Nat],
         NEW c \in 1..MaxSlices, NEW d \in Nat, g[c] = f[c] + d,
         \A i \in 1..MaxSlices : i # c => g[i] = f[i],
         NEW k \in 0..MaxSlices
  PROVE  PartialSums(g)[k] = PartialSums(f)[k] + (IF c <= k THEN d ELSE 0)
<1> DEFINE T == {n \in 0..MaxSlices :
                   PartialSums(g)[n] # PartialSums(f)[n] + (IF c <= n THEN d ELSE 0)}
<1> SUFFICES ASSUME T # {} PROVE FALSE
  OBVIOUS
<1>1. MaxSlices \in Nat
  BY ConstantsAssumption
<1>2. PICK m \in T : \A n \in T : m <= n
  <2>1. T \in SUBSET Nat
    BY <1>1
  <2> QED BY <2>1, Least
<1>3. m # 0
  <2>1. PartialSums(f)[0] = 0 /\ PartialSums(g)[0] = 0
    BY PartialSumsRec
  <2> QED BY <1>1, <1>2, <2>1
<1>4. m \in 1..MaxSlices /\ m - 1 \in 0..MaxSlices /\ m - 1 \notin T
  BY <1>1, <1>2, <1>3
<1>5. PartialSums(g)[m - 1] = PartialSums(f)[m - 1] + (IF c <= m - 1 THEN d ELSE 0)
  BY <1>4
<1>6. /\ PartialSums(f)[m] = PartialSums(f)[m - 1] + f[m]
      /\ PartialSums(g)[m] = PartialSums(g)[m - 1] + g[m]
  BY <1>4, PartialSumsRec
<1>7. /\ PartialSums(f)[m - 1] \in Nat /\ PartialSums(g)[m - 1] \in Nat
      /\ f[m] \in Nat /\ g[m] \in Nat
  BY <1>4, PartialSumsType
<1>8. PartialSums(g)[m] = PartialSums(f)[m] + (IF c <= m THEN d ELSE 0)
  <2>1. CASE m = c
    BY <1>4, <1>5, <1>6, <1>7, <2>1
  <2>2. CASE m # c
    <3>1. g[m] = f[m] /\ (c <= m <=> c <= m - 1)
      BY <1>4, <2>2
    <3> QED BY <1>4, <1>5, <1>6, <1>7, <3>1
  <2> QED BY <2>1, <2>2
<1> QED BY <1>2, <1>8

\* Slices of at most their share add up to at most the quantity of the plan.
LEMMA PartialSumsBound ==
  ASSUME NEW s \in PlanSpecs, NEW f \in [1..MaxSlices -> Nat],
         \A i \in 1..s.slices : f[i] <= SliceQuantity(s, i)
  PROVE  PartialSums(f)[s.slices] <= s.quantity
<1> DEFINE share == s.quantity \div s.slices
           rest  == s.quantity % s.slices
           T     == {k \in 0..(s.slices - 1) : ~(PartialSums(f)[k] <= k * share)}
<1>1. /\ MaxSlices \in Nat /\ s.quantity \in Nat
      /\ s.slices \in 1..MaxSlices /\ s.slices \in Nat \ {0}
  BY ConstantsAssumption
<1>2. /\ share \in Nat /\ rest \in Nat
      /\ s.slices * share + rest = s.quantity
  <2>1. \A q \in Nat, n \in Nat \ {0} :
          q \div n \in Nat /\ q % n \in Nat /\ n * (q \div n) + (q % n) = q
    OBVIOUS
  <2> QED BY <1>1, <2>1
<1>3. \A i \in 1..s.slices : SliceQuantity(s, i) = IF i = s.slices THEN share + rest ELSE share
  BY DEF SliceQuantity
<1> HIDE DEF share, rest
<1>4. T = {}
  <2> SUFFICES ASSUME T # {} PROVE FALSE
    OBVIOUS
  <2>1. PICK m \in T : \A n \in T : m <= n
    <3>1. T \in SUBSET Nat
      BY <1>1
    <3> QED BY <3>1, Least
  <2>2. m # 0
    <3>1. 0 * share = 0 /\ PartialSums(f)[0] = 0
      BY <1>2, PartialSumsRec
    <3> QED BY <2>1, <3>1
  <2>3. m \in 1..MaxSlices /\ m \in 1..s.slices /\ m # s.slices
        /\ m - 1 \in 0..MaxSlices /\ m - 1 \in 0..(s.slices - 1) /\ m - 1 \notin T
    BY <1>1, <2>1, <2>2
  <2>4. PartialSums(f)[m - 1] <= (m - 1) * share
    BY <2>3
  <2>5. PartialSums(f)[m] = PartialSums(f)[m - 1] + f[m] /\ f[m] <= share
    BY <1>3, <2>3, PartialSumsRec
  <2>6. (m - 1) * share + share = m * share /\ (m - 1) * share \in Int
    BY <1>2, <2>3
  <2>7. PartialSums(f)[m - 1] \in Nat /\ f[m] \in Nat
    BY <2>3, PartialSumsType
  <2>8. PartialSums(f)[m] <= m * share
    BY <1>2, <2>4, <2>5, <2>6, <2>7
  <2> QED BY <2>1, <2>8
<1>5. PartialSums(f)[s.slices - 1] <= (s.slices - 1) * share
  BY <1>1, <1>4
<1>6. /\ PartialSums(f)[s.slices] = PartialSums(f)[s.slices - 1] + f[s.slices]
      /\ f[s.slices] <= share + rest
  <2>1. s.slices \in 1..s.slices /\ SliceQuantity(s, s.slices) = share + rest
    BY <1>1, <1>3
  <2> QED BY <1>1, <2>1, PartialSumsRec
<1>7. PartialSums(f)[s.slices - 1] \in Nat /\ f[s.slices] \in Nat
  BY <1>1, PartialSumsType
<1>8. (s.slices - 1) * share + share = s.slices * share /\ (s.slices - 1) * share \in Int
  BY <1>1, <1>2
<1> QED BY <1>1, <1>2, <1>5, <1>6, <1>7, <1>8, SMTT(30)
-----------------------------------------------------------------------------
\* What executeSlicedOrder has reported or is about to: the fills it has added
\* up, and the result of the slice that has returned.
Reported(p) == totalFill[p] + (IF pc[p] = "returned" THEN lastFill[p] ELSE 0)

Filled(p) == PartialSums(SliceFills(p))[spec[p].slices]

\* A slice is filled with its share at most, and nothing is reported that no
\* slice was filled with.
SliceInvOf(p) ==
  /\ \A i \in 0..MaxSlices :
       status[<<p, i>>] \in Interim \cup {"absent"} => filledQuantity[<<p, i>>] = 0
  /\ IsSliced(p) =>
       /\ \A i \in 1..spec[p].slices : filledQuantity[<<p, i>>] <= SliceQuantity(spec[p], i)
       /\ filledQuantity[<<p, 0>>] <= Filled(p)
       /\ pc[p] = "none" => totalFill[p] = 0
       /\ pc[p] \in Suspended => Reported(p) <= Filled(p)

SliceInv == \A p \in Plans : SliceInvOf(p)

\* The types that the lemmas on slices need.
LEMMA SliceTypes ==
  ASSUME IInv, NEW p \in Plans
  PROVE  /\ spec[p] \in PlanSpecs /\ spec[p].slices \in 1..MaxSlices /\ MaxSlices \in Nat
         /\ 1..spec[p].slices \subseteq 1..MaxSlices
         /\ \A i \in 0..MaxSlices : <<p, i>> \in Orders /\ filledQuantity[<<p, i>>] \in Nat
         /\ SliceFills(p) \in [1..MaxSlices -> Nat]
         /\ Filled(p) \in Nat /\ totalFill[p] \in Nat /\ lastFill[p] \in Nat
<1>1. /\ spec[p] \in PlanSpecs /\ spec[p].slices \in 1..MaxSlices /\ MaxSlices \in Nat
      /\ totalFill[p] \in Nat /\ lastFill[p] \in Nat
  BY ConstantsAssumption DEF IInv, TypeOK
<1>2. \A i \in 0..MaxSlices : <<p, i>> \in Orders /\ filledQuantity[<<p, i>>] \in Nat
  BY DEF IInv, TypeOK, Orders
<1>3. SliceFills(p) \in [1..MaxSlices -> Nat]
  BY <1>1, <1>2 DEF SliceFills
<1> QED BY <1>1, <1>2, <1>3, PartialSumsType, SMTT(30) DEF Filled

\* Only the amounts of p's own slices are in its sum.
LEMMA FilledUnchanged ==
  ASSUME spec' = spec, NEW p \in Plans,
         \A i \in 1..MaxSlices : filledQuantity'[<<p, i>>] = filledQuantity[<<p, i>>]
  PROVE  Filled(p)' = Filled(p)
<1>1. SliceFills(p)' = SliceFills(p)
  BY DEF SliceFills
<1> QED BY <1>1 DEF Filled

\* Calls that a step does not concern.
LEMMA OtherSliceInv ==
  ASSUME IInv, SliceInv, spec' = spec, NEW p \in Plans, pc'[p] = pc[p],
         totalFill'[p] = totalFill[p], lastFill'[p] = lastFill[p],
         \A i \in 0..MaxSlices :
           /\ filledQuantity'[<<p, i>>] = filledQuantity[<<p, i>>]
           /\ status'[<<p, i>>] \in Interim \cup {"absent"} =>
                status[<<p, i>>] \in Interim \cup {"absent"}
  PROVE  SliceInvOf(p)'
<1>1. /\ Filled(p)' = Filled(p) /\ Reported(p)' = Reported(p)
      /\ IsSliced(p)' <=> IsSliced(p)
      /\ 1..spec[p].slices \subseteq 0..MaxSlices /\ 0 \in 0..MaxSlices
  BY FilledUnchanged, SliceTypes DEF Reported, IsSliced
<1>2. \A i \in 1..spec[p].slices :
        IsSliced(p) => filledQuantity'[<<p, i>>] <= SliceQuantity(spec[p], i)
  BY <1>1 DEF SliceInv, SliceInvOf
<1>3. \A i \in 0..MaxSlices :
        status'[<<p, i>>] \in Interim \cup {"absent"} => filledQuantity'[<<p, i>>] = 0
  BY DEF SliceInv, SliceInvOf
<1>4. \A i : SliceQuantity(spec[p], i)' = SliceQuantity(spec[p], i)
  BY DEF SliceQuantity
<1> QED BY <1>1, <1>2, <1>3, <1>4 DEF SliceInv, SliceInvOf

\* The result of a slice: its amount and its part of the sum grow alike.
LEMMA SettleSliceInv ==
  ASSUME IInv, SliceInv, NEW p \in Plans, pc[p] \in InSingle,
         NEW success \in BOOLEAN, NEW fill \in Nat, Settle(p, success, fill),
         fill <= QuantityOf(Current(p))
  PROVE  SliceInv'
<1> SUFFICES ASSUME NEW x \in Plans PROVE SliceInvOf(x)'
  BY DEF SliceInv
<1> DEFINE c == cur[p]
           d == IF success THEN (IF fill # 0 THEN fill ELSE QuantityOf(<<p, c>>)) ELSE 0
<1>1. /\ c \in 0..MaxSlices /\ status[<<p, c>>] \in Interim /\ CallInvOf(p)
      /\ pc \in [Plans -> PCs] /\ lastFill \in [Plans -> Nat]
      /\ filledQuantity \in [Orders -> Nat] /\ pc[p] # "returned" /\ pc[p] \in Suspended
  BY DEF IInv, CallInv, CallInvOf, TypeOK, InSingle
<1>2. d \in Nat /\ QuantityOf(<<p, c>>) \in Nat /\ fill <= QuantityOf(<<p, c>>)
  BY <1>1, QuantityType DEF IInv, Current
<1>3. spec' = spec /\ totalFill' = totalFill
  BY DEF Settle
<1>4. PICK outcome \in {"filled", "rejected", "error"} : ToHistory({<<p, c>>}, outcome)
  BY DEF Settle, Current
<1>5. filledQuantity[<<p, c>>] = 0
  BY <1>1 DEF SliceInv, SliceInvOf
<1>6. \A id \in Orders :
        filledQuantity'[id] = IF id = <<p, c>> THEN d ELSE filledQuantity[id]
  BY <1>1, <1>5 DEF Settle, Current
<1>7. CASE x # p
  <2>1. pc'[x] = pc[x] /\ lastFill'[x] = lastFill[x] /\ totalFill'[x] = totalFill[x]
    BY <1>1, <1>3, <1>7 DEF Settle
  <2>2. \A i \in 0..MaxSlices :
          /\ filledQuantity'[<<x, i>>] = filledQuantity[<<x, i>>]
          /\ status'[<<x, i>>] = status[<<x, i>>]
    BY <1>4, <1>6, <1>7 DEF ToHistory, Orders
  <2> QED BY <1>3, <2>1, <2>2, OtherSliceInv
<1>8. CASE x = p
  <2>1. \A i \in 0..MaxSlices :
          /\ filledQuantity'[<<p, i>>] = IF i = c THEN d ELSE filledQuantity[<<p, i>>]
          /\ status'[<<p, i>>] = IF i = c THEN outcome ELSE status[<<p, i>>]
    BY <1>4, <1>6 DEF ToHistory, Orders
  <2>2. \A i \in 0..MaxSlices :
          status'[<<p, i>>] \in Interim \cup {"absent"} => filledQuantity'[<<p, i>>] = 0
    BY <2>1 DEF SliceInv, SliceInvOf, Interim
  <2>3. ASSUME IsSliced(p)
        PROVE  /\ \A i \in 1..spec[p].slices :
                    filledQuantity'[<<p, i>>] <= SliceQuantity(spec[p], i)
               /\ filledQuantity'[<<p, 0>>] <= Filled(p)'
               /\ pc'[p] = "returned" /\ Reported(p)' <= Filled(p)'
    <3>1. c \in 1..MaxSlices /\ c <= spec[p].slices /\ c # 0 /\ c \in 1..spec[p].slices
      BY <1>1, <2>3, SliceTypes DEF CallInvOf
    <3>2. QuantityOf(<<p, c>>) = SliceQuantity(spec[p], c)
      BY <3>1 DEF QuantityOf
    <3>3. Filled(p)' = Filled(p) + d
      <4> DEFINE f == SliceFills(p)
                 g == [i \in 1..MaxSlices |-> filledQuantity'[<<p, i>>]]
      <4>1. /\ f \in [1..MaxSlices -> Nat] /\ g \in [1..MaxSlices -> Nat]
            /\ g[c] = f[c] + d /\ \A i \in 1..MaxSlices : i # c => g[i] = f[i]
        <5>1. f \in [1..MaxSlices -> Nat]
          BY SliceTypes
        <5>2. \A i \in 1..MaxSlices : i \in 0..MaxSlices
          BY SliceTypes
        <5>3. \A i \in 1..MaxSlices :
                f[i] = filledQuantity[<<p, i>>] /\ g[i] = IF i = c THEN d ELSE filledQuantity[<<p, i>>]
          BY <2>1, <5>2 DEF SliceFills
        <5>4. f[c] = 0 /\ g[c] = d
          BY <1>5, <3>1, <5>3
        <5>5. \A i \in 1..MaxSlices : g[i] \in Nat
          BY <1>2, <5>1, <5>3
        <5> QED BY <1>2, <5>1, <5>3, <5>4, <5>5
      <4>2. spec[p].slices \in 0..MaxSlices
        BY SliceTypes
      <4> HIDE DEF f, g, d, c
      <4>3. PartialSums(g)[spec[p].slices] = PartialSums(f)[spec[p].slices] + d
        BY <1>2, <3>1, <4>1, <4>2, PartialSumsGain, ZenonT(30)
      <4> QED BY <1>3, <4>3 DEF Filled, SliceFills, f, g
    <3>4. pc'[p] = "returned" /\ lastFill'[p] \in Nat /\ lastFill'[p] <= d
      BY <1>1, <1>2, <3>1 DEF Settle, Current
    <3>5. Reported(p) = totalFill[p] /\ Reported(p)' = totalFill[p] + lastFill'[p]
      BY <1>1, <1>3, <3>4, SliceTypes DEF Reported
    <3>6. Reported(p) <= Filled(p) /\ filledQuantity[<<p, 0>>] <= Filled(p)
      BY <1>1, <2>3 DEF SliceInv, SliceInvOf
    <3>7. d <= SliceQuantity(spec[p], c) /\ 0 \in 0..MaxSlices
      BY <1>2, <3>2, SliceTypes
    <3>8. \A i \in 1..spec[p].slices :
             filledQuantity'[<<p, i>>] <= SliceQuantity(spec[p], i)
      <4>1. 1..spec[p].slices \subseteq 0..MaxSlices
        BY SliceTypes
      <4>2. \A i \in 1..spec[p].slices : filledQuantity[<<p, i>>] <= SliceQuantity(spec[p], i)
        BY <2>3 DEF SliceInv, SliceInvOf
      <4> HIDE DEF d, c
      <4> QED BY <2>1, <3>7, <4>1, <4>2
    <3>9. filledQuantity'[<<p, 0>>] = filledQuantity[<<p, 0>>] /\ filledQuantity[<<p, 0>>] \in Nat
      BY <2>1, <3>1, <3>7, SliceTypes
    <3> HIDE DEF d, c
    <3>10. /\ Filled(p) \in Nat /\ totalFill[p] \in Nat /\ d \in Nat
      BY <1>2, SliceTypes
    <3>11. filledQuantity'[<<p, 0>>] <= Filled(p)'
      BY <3>3, <3>6, <3>9, <3>10
    <3>12. Reported(p)' <= Filled(p)'
      BY <3>3, <3>4, <3>5, <3>6, <3>10
    <3> QED BY <3>4, <3>8, <3>11, <3>12
  <2>4. \A i : SliceQuantity(spec[p], i)' = SliceQuantity(spec[p], i)
    BY <1>3 DEF SliceQuantity
  <2> QED BY <1>3, <1>8, <2>2, <2>3, <2>4 DEF SliceInvOf, IsSliced
<1> QED BY <1>7, <1>8
\* No step reports an amount of which no slice was filled.
LEMMA SliceInvStep ==
  ASSUME IInv, SliceInv, [Next]_vars
  PROVE  SliceInv'
<1>1. /\ pc \in [Plans -> PCs] /\ cur \in [Plans -> 0..MaxSlices]
      /\ totalFill \in [Plans -> Nat] /\ lastFill \in [Plans -> Nat]
      /\ status \in [Orders -> Statuses] /\ filledQuantity \in [Orders -> Nat]
      /\ MaxSlices \in Nat
  BY ConstantsAssumption DEF IInv, TypeOK
<1>2. ASSUME NEW p \in Plans, NEW x \in Plans, x # p,
             \/ ExecuteOrder(p) \/ ExecuteOrderThrows(p) \/ StartSlice(p)
             \/ FinishParent(p) \/ Resumes(p)
      PROVE  SliceInvOf(x)'
  <2>1. /\ spec' = spec /\ pc'[x] = pc[x]
        /\ totalFill'[x] = totalFill[x] /\ lastFill'[x] = lastFill[x]
    BY <1>1, <1>2 DEF ExecuteOrder, ExecuteOrderThrows, StartSlice, SendSlice, FinishParent,
                      Resumes, SliceReturned
  <2>2. \A i \in 0..MaxSlices :
          /\ filledQuantity'[<<x, i>>] = filledQuantity[<<x, i>>]
          /\ status'[<<x, i>>] = status[<<x, i>>]
    <3>1. \A i \in 0..MaxSlices : <<x, i>> \in Orders
      BY DEF Orders
    <3> QED BY <1>1, <1>2, <3>1 DEF ExecuteOrder, CreateOrders, ExecuteOrderThrows, StartSlice,
                                    SendSlice, FinishParent, ToHistory, Resumes, orderVars
  <2> QED BY <2>1, <2>2, OtherSliceInv
<1>3. ASSUME NEW p \in Plans, ExecuteOrder(p) \/ ExecuteOrderThrows(p)
      PROVE  SliceInvOf(p)'
  <2>1. /\ spec' = spec /\ filledQuantity' = filledQuantity /\ totalFill' = totalFill
        /\ pc[p] = "none" /\ pc'[p] # "none" /\ pc'[p] # "returned" /\ CallInvOf(p)
    <3>1. Entry(spec[p].venue) \in InSingle
      BY EntryType DEF IInv
    <3> QED BY <1>1, <1>3, <3>1 DEF ExecuteOrder, ExecuteOrderThrows, IInv, CallInv, InSingle, Suspended
  <2>2. \A i \in 0..MaxSlices : status[<<p, i>>] = "absent"
    <3>1. cur[p] = 0 /\ \A i \in 0..MaxSlices : i = 0 \/ i \in 1..MaxSlices
      BY <1>1, <2>1 DEF CallInvOf
    <3> QED BY <2>1, <3>1 DEF CallInvOf
  <2>3. \A i \in 0..MaxSlices : filledQuantity'[<<p, i>>] = 0
    BY <2>1, <2>2 DEF SliceInv, SliceInvOf
  <2>4. Filled(p)' = Filled(p) /\ Filled(p) \in Nat
    BY <2>1, FilledUnchanged, SliceTypes
  <2>5. IsSliced(p) => Reported(p)' = 0 /\ 0 <= Filled(p)'
    <3>1. IsSliced(p) => totalFill[p] = 0
      BY <2>1 DEF SliceInv, SliceInvOf
    <3>2. Reported(p)' = totalFill[p] + 0
      BY <2>1 DEF Reported
    <3> QED BY <2>4, <3>1, <3>2
  <2>6. IsSliced(p) =>
          /\ \A i \in 1..spec[p].slices : filledQuantity'[<<p, i>>] <= SliceQuantity(spec[p], i)
          /\ filledQuantity'[<<p, 0>>] <= Filled(p)'
    BY <2>1, <2>4 DEF SliceInv, SliceInvOf
  <2>7. \A i : SliceQuantity(spec[p], i)' = SliceQuantity(spec[p], i)
    BY <2>1 DEF SliceQuantity
  <2> QED BY <2>1, <2>3, <2>5, <2>6, <2>7 DEF SliceInvOf, IsSliced
<1>4. ASSUME NEW p \in Plans, StartSlice(p) \/ Resumes(p)
      PROVE  SliceInvOf(p)'
  <2>1. /\ spec' = spec /\ filledQuantity' = filledQuantity /\ status' = status
        /\ pc[p] \in Suspended /\ pc'[p] # "none"
    <3>1. Entry(spec[p].venue) \in InSingle
      BY EntryType DEF IInv
    <3> QED BY <1>1, <1>4, <3>1 DEF StartSlice, SendSlice, Resumes, InSingle, Suspended, orderVars
  <2>2. Reported(p)' = Reported(p)
    <3>1. CASE StartSlice(p)
      <4>1. Entry(spec[p].venue) # "returned"
        BY EntryType DEF IInv, InSingle
      <4> QED BY <1>1, <3>1, <4>1 DEF StartSlice, SendSlice, Reported
    <3>2. CASE SliceReturned(p)
      BY <1>1, <3>2 DEF SliceReturned, Reported
    <3>3. CASE /\ pc[p] # "returned" /\ pc'[p] # "returned"
               /\ UNCHANGED <<lastFill, totalFill>>
      BY <3>3 DEF Reported
    <3> QED BY <1>4, <3>1, <3>2, <3>3 DEF Resumes
  <2>3. Filled(p)' = Filled(p)
    BY <2>1, FilledUnchanged
  <2>4. \A i : SliceQuantity(spec[p], i)' = SliceQuantity(spec[p], i)
    BY <2>1 DEF SliceQuantity
  <2>5. SliceInvOf(p)
    BY DEF SliceInv
  <2> QED BY <2>1, <2>2, <2>3, <2>4, <2>5 DEF SliceInvOf, IsSliced
<1>5. ASSUME NEW p \in Plans, FinishParent(p) PROVE SliceInvOf(p)'
  <2>1. /\ spec' = spec /\ pc[p] = "returned" /\ pc'[p] = "done"
        /\ filledQuantity' = [filledQuantity EXCEPT ![<<p, 0>>] = Reported(p)]
        /\ cur[p] = spec[p].slices /\ CallInvOf(p)
    BY <1>1, <1>5 DEF FinishParent, Reported, IInv, CallInv
  <2>2. PICK st \in {"filled", "rejected"} : ToHistory({<<p, 0>>}, st)
    BY <1>5 DEF FinishParent
  <2>3. \A i \in 0..MaxSlices :
          /\ filledQuantity'[<<p, i>>] = IF i = 0 THEN Reported(p) ELSE filledQuantity[<<p, i>>]
          /\ status'[<<p, i>>] = IF i = 0 THEN st ELSE status[<<p, i>>]
    BY <1>1, <2>1, <2>2, SliceTypes DEF ToHistory
  <2>4. Filled(p)' = Filled(p)
    BY <1>1, <2>1, <2>3, FilledUnchanged
  <2>5. IsSliced(p) => Reported(p) <= Filled(p)
    BY <2>1 DEF SliceInv, SliceInvOf, Suspended
  <2>6. IsSliced(p) => filledQuantity'[<<p, 0>>] <= Filled(p)'
    BY <1>1, <2>3, <2>4, <2>5
  <2>7. \A i \in 0..MaxSlices :
          status'[<<p, i>>] \in Interim \cup {"absent"} => filledQuantity'[<<p, i>>] = 0
    BY <2>3 DEF SliceInv, SliceInvOf, Interim
  <2>8. IsSliced(p) => \A i \in 1..spec[p].slices :
                         filledQuantity'[<<p, i>>] <= SliceQuantity(spec[p], i)
    <3>1. \A i \in 1..spec[p].slices : i \in 0..MaxSlices /\ i # 0
      BY SliceTypes
    <3> QED BY <2>3, <3>1 DEF SliceInv, SliceInvOf
  <2>9. \A i : SliceQuantity(spec[p], i)' = SliceQuantity(spec[p], i)
    BY <2>1 DEF SliceQuantity
  <2> QED BY <2>1, <2>6, <2>7, <2>8, <2>9 DEF SliceInvOf, IsSliced, Suspended
<1>6. ASSUME NEW p \in Plans, Settles(p) PROVE SliceInv'
  <2>1. QuantityOf(Current(p)) \in Nat
    BY <1>1, QuantityType DEF Current, IInv
  <2>2. PICK success \in BOOLEAN, fill \in 0..QuantityOf(Current(p)) : Settle(p, success, fill)
    BY <1>6 DEF Settles
  <2>3. fill \in Nat /\ fill <= QuantityOf(Current(p))
    BY <2>1
  <2> QED BY <1>6, <2>2, <2>3, SettleSliceInv DEF Settles
<1>7. ASSUME NEW x \in Plans,
             \/ Retires
             \/ UNCHANGED <<spec, pc, cur, lastFill, totalFill, orderVars, orderSliceManagers, metrics>>
      PROVE  SliceInvOf(x)'
  <2>1. /\ spec' = spec /\ pc' = pc /\ totalFill' = totalFill /\ lastFill' = lastFill
        /\ filledQuantity' = filledQuantity
    BY <1>7 DEF Retires, execVars, orderVars
  <2>2. \A id \in Orders : status'[id] = status[id] \/ status[id] = "pending"
    <3>1. \A id \in activeOrders : id \in Orders /\ status[id] = "pending"
      BY DEF IInv, OneHome, TypeOK
    <3> QED BY <1>7, <3>1 DEF Retires, ToHistory, orderVars
  <2>3. \A i \in 0..MaxSlices : <<x, i>> \in Orders
    BY DEF Orders
  <2> QED BY <2>1, <2>2, <2>3, OtherSliceInv DEF Interim
<1> QED BY <1>2, <1>3, <1>4, <1>5, <1>6, <1>7, StepKinds DEF SliceInv

\* The parent reports no more than its slices got, and the slices get no more
\* than the plan asked for, for every quantity and number of slices.
THEOREM SlicesAddUpAlways == Spec => []SlicesAddUp
<1>1. Init => SliceInv
  <2> SUFFICES ASSUME Init, NEW p \in Plans PROVE SliceInvOf(p)
    BY DEF SliceInv
  <2>1. /\ \A i \in 0..MaxSlices : filledQuantity[<<p, i>>] = 0
        /\ pc[p] = "none" /\ totalFill[p] = 0
    BY DEF Init, Orders
  <2>2. IInv
    BY InitIInv
  <2>3. \A i \in 1..spec[p].slices : SliceQuantity(spec[p], i) \in Nat
    <3>1. \A i \in 1..spec[p].slices : i \in 0..MaxSlices /\ i # 0
      BY <2>2, SliceTypes
    <3> QED BY <2>2, <3>1, QuantityType DEF IInv, QuantityOf
  <2>4. /\ Filled(p) \in Nat
        /\ \A i \in 1..spec[p].slices : i \in 0..MaxSlices
        /\ 0 \in 0..MaxSlices
    BY <2>2, SliceTypes
  <2> QED BY <2>1, <2>3, <2>4 DEF SliceInvOf, Suspended
<1>2. IInv /\ SliceInv /\ [Next]_vars => SliceInv'
  BY SliceInvStep
<1>3. IInv /\ SliceInv => SlicesAddUp
  <2> SUFFICES ASSUME IInv, SliceInv, NEW p \in Plans, IsSliced(p)
               PROVE  filledQuantity[<<p, 0>>] <= Filled(p) /\ Filled(p) <= spec[p].quantity
    BY DEF SlicesAddUp, Filled
  <2>1. \A i \in 1..spec[p].slices : SliceFills(p)[i] <= SliceQuantity(spec[p], i)
    <3>1. \A i \in 1..spec[p].slices :
            i \in 1..MaxSlices /\ filledQuantity[<<p, i>>] <= SliceQuantity(spec[p], i)
      BY SliceTypes DEF SliceInv, SliceInvOf
    <3> QED BY <3>1 DEF SliceFills
  <2>2. Filled(p) <= spec[p].quantity
    BY <2>1, SliceTypes, PartialSumsBound DEF Filled
  <2> QED BY <2>2 DEF SliceInv, SliceInvOf
<1> QED BY <1>1, <1>2, <1>3, Invariance, PTL DEF Spec
=============================================================================

----------------------- MODULE HotReloadManagerProofs -----------------------
(***************************************************************************)
(* Proofs about HotReloadManager on top of StrategyLoader, for every set   *)
(* of strategies, handlers and requests and every limit of reloads.        *)
(* Inductive is the conjunction IInv of three parts, each with a lemma of  *)
(* its own: the types of the loader, the queue of reloads with the limit   *)
(* of active ones, and who accounts for a strategy that is not loaded.       *)
(***************************************************************************)
EXTENDS HotReloadManager, SequenceTheorems, FiniteSetTheorems,
        WellFoundedInduction, TLAPS

\* The loader's state is well formed, every task that is under way has its
\* strategy, and no record is of a version that was not written yet.
LoaderInv ==
  /\ disk \in [Strategies -> Versions \cup {None}]
  /\ strategyFiles \in [Strategies -> Versions \cup {None}]
  /\ loadedStrategies \in [Strategies -> Versions \cup {None}]
  /\ changeTimeout \in Strategies \cup {NoStrategy} /\ overtaken \subseteq Strategies
  /\ changes \in 0..MaxChanges
  /\ loadingQueue \in Seq(Strategies) /\ beingLoaded \in Strategies \cup {NoStrategy}
  /\ loadScheduled \in BOOLEAN
  /\ step \in [Tasks -> Steps] /\ target \in [Tasks -> Strategies \cup {NoStrategy}]
  /\ reported \subseteq Strategies
  /\ \A t \in Tasks : step[t] # "idle" => target[t] \in Strategies
  /\ \A s \in Strategies : disk[s] \in (0..changes) \cup {None}
  /\ \A s \in Strategies : strategyFiles[s] \in (0..changes) \cup {None}

\* A queue of requests, urgent ones first, none of them twice.
Ordered(q) ==
  /\ q \in Seq(Requests)
  /\ IsInjective(q)
  /\ \A i, j \in 1..Len(q) : i < j => PriorityOf(q[i]) >= PriorityOf(q[j])

\* The pending requests are in order, and the limit of active reloads holds.
QueueInv ==
  /\ Ordered(reloadQueue)
  /\ ToSet(reloadQueue) = {r \in Requests : step[r] = "queued"}
  /\ scheduled \in Nat
  /\ IsFiniteSet(ActiveReloads)
  /\ Cardinality(ActiveReloads) <= MaxConcurrentReloads

\* Somebody who will not look at the record again is at work on s.
BeingLoaded(s) ==
  \/ \E t \in Tasks : target[t] = s /\ step[t] \in {"queueing", "waiting", "unloading", "loading"}
  \/ s \in ToSet(loadingQueue) \cup {beingLoaded}

\* The watcher or a handler has yet to see that the record of s is out of date.
YetToBeSeen(s) ==
  /\ strategyFiles[s] # disk[s]
  /\ s = changeTimeout \/ \E t \in Tasks : target[t] = s /\ step[t] = "analyzing"

\* A handler gives up on a file whose record is up to date, so that one that
\* is on its way is of use to s only as long as the record is out of date.
Accounted(s) ==
  disk[s] # None /\ loadedStrategies[s] = None
    => BeingLoaded(s) \/ YetToBeSeen(s) \/ s \in reported \cup overtaken

IInv == LoaderInv /\ QueueInv /\ \A s \in Strategies : Accounted(s)

-----------------------------------------------------------------------------
\* Every set of natural numbers that is not empty has a least element.
LEMMA Least ==
  ASSUME NEW T \in SUBSET Nat, T # {}
  PROVE  \E m \in T : \A n \in T : m <= n
<1>1. ASSUME NEW R, R = OpToRel(<, Nat)
      PROVE  \E m \in T : \A y \in T : ~(<<y, m>> \in R)
  BY <1>1, NatLessThanWellFounded, WFMin
<1>2. \A x, y \in Nat : x < y => <<x, y>> \in OpToRel(<, Nat)
  BY DEF OpToRel
<1>3. \E m \in T : \A y \in T : ~(y < m)
  BY <1>1, <1>2, Zenon
<1> QED BY <1>3

\* The elements of a sequence.
LEMMA ToSetElements ==
  ASSUME NEW S, NEW s \in Seq(S)
  PROVE  /\ ToSet(s) = {s[i] : i \in 1..Len(s)}
         /\ ToSet(s) \subseteq S
         /\ Len(s) \in Nat /\ DOMAIN s = 1..Len(s)
BY DEF ToSet

\* A part of a sequence.
LEMMA PartElements ==
  ASSUME NEW S, NEW q \in Seq(S), NEW a \in Nat, NEW b \in Nat,
         1 <= a, a <= b + 1, b <= Len(q)
  PROVE  /\ SubSeq(q, a, b) \in Seq(S)
         /\ Len(SubSeq(q, a, b)) = b - a + 1
         /\ \A i \in 1..(b - a + 1) : SubSeq(q, a, b)[i] = q[a + i - 1]
<1>1. \A i \in a..b : q[i] \in S
  BY ElementOfSeq
<1>2. /\ SubSeq(q, a, b) \in Seq(S)
      /\ Len(SubSeq(q, a, b)) = IF a <= b THEN b - a + 1 ELSE 0
      /\ \A i \in 1..(b - a + 1) : SubSeq(q, a, b)[i] = q[a + i - 1]
  BY <1>1, SubSeqProperties
<1> QED BY <1>2

\* Sorting r into the queue after its first k: the others move up.
LEMMA InsertAtElements ==
  ASSUME NEW S, NEW q \in Seq(S), NEW r \in S, NEW k \in 0..Len(q)
  PROVE  /\ InsertAt(q, k + 1, r) \in Seq(S)
         /\ Len(InsertAt(q, k + 1, r)) = Len(q) + 1
         /\ \A j \in 1..(Len(q) + 1) :
              InsertAt(q, k + 1, r)[j] =
                IF j <= k THEN q[j] ELSE IF j = k + 1 THEN r ELSE q[j - 1]
<1> DEFINE n == Len(q)
           u == SubSeq(q, 1, k)
           v == SubSeq(q, k + 1, n)
           w == u \o <<r>> \o v
<1>1. n \in Nat /\ k \in Nat /\ k <= n /\ (k + 1) - 1 = k
  OBVIOUS
<1>2. u \in Seq(S) /\ Len(u) = k /\ \A i \in 1..k : u[i] = q[i]
  <2>1. /\ u \in Seq(S) /\ Len(u) = k - 1 + 1
        /\ \A i \in 1..(k - 1 + 1) : u[i] = q[1 + i - 1]
    BY <1>1, PartElements
  <2> HIDE DEF u
  <2> QED BY <1>1, <2>1
<1>3. v \in Seq(S) /\ Len(v) = n - k /\ \A i \in 1..(n - k) : v[i] = q[k + i]
  <2>1. /\ v \in Seq(S) /\ Len(v) = n - (k + 1) + 1
        /\ \A i \in 1..(n - (k + 1) + 1) : v[i] = q[(k + 1) + i - 1]
    BY <1>1, PartElements
  <2> HIDE DEF v, n
  <2>2. n - (k + 1) + 1 = n - k /\ \A i \in 1..(n - k) : (k + 1) + i - 1 = k + i
    BY <1>1
  <2> QED BY <2>1, <2>2
<1>4. InsertAt(q, k + 1, r) = w
  BY <1>1 DEF InsertAt
<1> HIDE DEF u, v, n
<1>5. /\ u \o <<r>> \in Seq(S) /\ Len(u \o <<r>>) = k + 1
      /\ \A i \in 1..(k + 1) : (u \o <<r>>)[i] = IF i <= k THEN u[i] ELSE r
  <2>1. <<r>> \in Seq(S) /\ Len(<<r>>) = 1 /\ <<r>>[1] = r
    OBVIOUS
  <2>2. /\ u \o <<r>> \in Seq(S) /\ Len(u \o <<r>>) = k + 1
        /\ \A i \in 1..(k + 1) : (u \o <<r>>)[i] = IF i <= k THEN u[i] ELSE <<r>>[i - k]
    BY <1>2, <2>1, ConcatProperties
  <2>3. \A i \in 1..(k + 1) : i <= k \/ i - k = 1
    BY <1>1
  <2> QED BY <2>1, <2>2, <2>3
<1>6. /\ w \in Seq(S) /\ Len(w) = n + 1
      /\ \A i \in 1..(n + 1) : w[i] = IF i <= k + 1 THEN (u \o <<r>>)[i] ELSE v[i - (k + 1)]
  BY <1>1, <1>3, <1>5, ConcatProperties
<1> HIDE DEF w
<1>7. ASSUME NEW j \in 1..(n + 1)
      PROVE  w[j] = IF j <= k THEN q[j] ELSE IF j = k + 1 THEN r ELSE q[j - 1]
  <2>1. CASE j <= k + 1
    BY <1>1, <1>2, <1>5, <1>6, <2>1
  <2>2. CASE ~(j <= k + 1)
    <3>1. j - (k + 1) \in 1..(n - k) /\ k + (j - (k + 1)) = j - 1
      BY <1>1, <2>2
    <3>2. v[j - (k + 1)] = q[k + (j - (k + 1))]
      BY <1>3, <3>1
    <3>3. w[j] = v[j - (k + 1)]
      BY <1>6, <2>2
    <3>4. ~(j <= k) /\ j # k + 1
      BY <1>1, <2>2
    <3> QED BY <3>1, <3>2, <3>3, <3>4
  <2> QED BY <2>1, <2>2
<1> QED BY <1>4, <1>6, <1>7 DEF n

\* splice(k, 1): the later ones move down.
LEMMA RemoveAtElements ==
  ASSUME NEW S, NEW q \in Seq(S), NEW k \in 1..Len(q)
  PROVE  /\ RemoveAt(q, k) \in Seq(S)
         /\ Len(RemoveAt(q, k)) = Len(q) - 1
         /\ \A j \in 1..(Len(q) - 1) : RemoveAt(q, k)[j] = IF j < k THEN q[j] ELSE q[j + 1]
<1> DEFINE n == Len(q)
           u == SubSeq(q, 1, k - 1)
           v == SubSeq(q, k + 1, n)
           w == u \o v
<1>1. n \in Nat /\ k \in Nat /\ k - 1 \in Nat /\ k <= n
  OBVIOUS
<1>2. u \in Seq(S) /\ Len(u) = k - 1 /\ \A i \in 1..(k - 1) : u[i] = q[i]
  <2>1. /\ u \in Seq(S) /\ Len(u) = (k - 1) - 1 + 1
        /\ \A i \in 1..((k - 1) - 1 + 1) : u[i] = q[1 + i - 1]
    BY <1>1, PartElements
  <2> HIDE DEF u
  <2> QED BY <1>1, <2>1
<1>3. v \in Seq(S) /\ Len(v) = n - k /\ \A i \in 1..(n - k) : v[i] = q[k + i]
  <2>1. /\ v \in Seq(S) /\ Len(v) = n - (k + 1) + 1
        /\ \A i \in 1..(n - (k + 1) + 1) : v[i] = q[(k + 1) + i - 1]
    BY <1>1, PartElements
  <2> HIDE DEF v, n
  <2>2. n - (k + 1) + 1 = n - k /\ \A i \in 1..(n - k) : (k + 1) + i - 1 = k + i
    BY <1>1
  <2> QED BY <2>1, <2>2
<1>4. RemoveAt(q, k) = w
  BY DEF RemoveAt
<1> HIDE DEF u, v, n
<1>5. /\ w \in Seq(S) /\ Len(w) = n - 1
      /\ \A i \in 1..(n - 1) : w[i] = IF i <= k - 1 THEN u[i] ELSE v[i - (k - 1)]
  <2>1. /\ w \in Seq(S) /\ Len(w) = Len(u) + Len(v)
        /\ \A i \in 1..(Len(u) + Len(v)) : w[i] = IF i <= Len(u) THEN u[i] ELSE v[i - Len(u)]
    BY <1>2, <1>3, ConcatProperties
  <2>2. (k - 1) + (n - k) = n - 1
    BY <1>1
  <2> HIDE DEF w
  <2> QED BY <1>2, <1>3, <2>1, <2>2
<1> HIDE DEF w
<1>6. ASSUME NEW j \in 1..(n - 1)
      PROVE  w[j] = IF j < k THEN q[j] ELSE q[j + 1]
  <2>1. CASE j < k
    <3>1. j <= k - 1 /\ j \in 1..(k - 1)
      BY <1>1, <2>1
    <3> QED BY <1>2, <1>5, <2>1, <3>1
  <2>2. CASE ~(j < k)
    <3>1. ~(j <= k - 1) /\ j - (k - 1) \in 1..(n - k) /\ k + (j - (k - 1)) = j + 1
      BY <1>1, <2>2
    <3> QED BY <1>3, <1>5, <2>2, <3>1
  <2> QED BY <2>1, <2>2
<1> QED BY <1>4, <1>5, <1>6 DEF n

-----------------------------------------------------------------------------
\* What Ordered says of the elements.
LEMMA OrderedElements ==
  ASSUME NEW q, Ordered(q)
  PROVE  /\ q \in Seq(Requests) /\ Len(q) \in Nat
         /\ ToSet(q) = {q[i] : i \in 1..Len(q)}
         /\ \A i \in 1..Len(q) : q[i] \in Requests /\ PriorityOf(q[i]) \in Nat
         /\ \A i, j \in 1..Len(q) : q[i] = q[j] => i = j
<1>1. q \in Seq(Requests) /\ Len(q) \in Nat /\ ToSet(q) = {q[i] : i \in 1..Len(q)}
      /\ DOMAIN q = 1..Len(q)
  BY ToSetElements DEF Ordered
<1>2. \A i \in 1..Len(q) : q[i] \in Requests
  BY <1>1, ElementOfSeq
<1>3. \A r \in Requests : PriorityOf(r) \in Nat
  BY HotReloadAssumption DEF PriorityOf
<1>4. \A i, j \in 1..Len(q) : q[i] = q[j] => i = j
  BY <1>1 DEF Ordered, IsInjective
<1> QED BY <1>1, <1>2, <1>3, <1>4

\* In an ordered queue those that stay before a new request are a prefix.
LEMMA BeforeIsPrefix ==
  ASSUME NEW q, Ordered(q), NEW r \in Requests
  PROVE  \E k \in 0..Len(q) :
           /\ Cardinality({i \in 1..Len(q) : PriorityOf(q[i]) >= PriorityOf(r)}) = k
           /\ \A i \in 1..Len(q) : i <= k <=> PriorityOf(q[i]) >= PriorityOf(r)
<1> DEFINE n == Len(q)
           B == {i \in 1..n : PriorityOf(q[i]) >= PriorityOf(r)}
           T == {m \in 0..n : \A i \in 1..n : i > m => i \notin B}
<1>1. /\ n \in Nat /\ PriorityOf(r) \in Nat
      /\ \A i \in 1..n : PriorityOf(q[i]) \in Nat
      /\ \A i, j \in 1..n : i < j => PriorityOf(q[i]) >= PriorityOf(q[j])
  BY OrderedElements, HotReloadAssumption DEF Ordered, PriorityOf
<1> HIDE DEF n
<1>2. PICK k \in T : \A m \in T : k <= m
  <2>1. T \in SUBSET Nat
    BY <1>1
  <2>2. n \in T
    BY <1>1
  <2> HIDE DEF T
  <2> QED BY <2>1, <2>2, Least
<1>3. k \in 0..n /\ k \in Nat /\ \A i \in 1..n : i > k => i \notin B
  BY <1>1, <1>2
<1>4. ASSUME NEW i \in 1..n, i <= k PROVE i \in B
  <2>1. k - 1 \in 0..n /\ k - 1 \notin T
    <3>1. k - 1 \in 0..n /\ ~(k <= k - 1)
      BY <1>1, <1>3, <1>4
    <3> HIDE DEF T
    <3> QED BY <1>2, <3>1
  <2>2. PICK j \in 1..n : j > k - 1 /\ j \in B
    BY <2>1
  <2>3. j = k
    BY <1>1, <1>3, <2>2
  <2>4. i = k \/ PriorityOf(q[i]) >= PriorityOf(q[k])
    BY <1>1, <1>3, <1>4, <2>3
  <2> QED BY <1>1, <2>2, <2>3, <2>4
<1>5. B = 1..k
  BY <1>1, <1>3, <1>4
<1>6. Cardinality(B) = k
  <2>1. Cardinality(1..k) = IF 1 > k THEN 0 ELSE k - 1 + 1
    BY <1>3, FS_Interval
  <2> HIDE DEF B
  <2> QED BY <1>3, <1>5, <2>1
<1>7. \A i \in 1..n : i <= k <=> PriorityOf(q[i]) >= PriorityOf(r)
  BY <1>3, <1>4
<1> QED BY <1>3, <1>6, <1>7 DEF n

\* A new request leaves the queue in order and nobody out.
LEMMA EnqueueOrdered ==
  ASSUME NEW q, Ordered(q), NEW r \in Requests, r \notin ToSet(q)
  PROVE  Ordered(Enqueue(q, r)) /\ ToSet(Enqueue(q, r)) = ToSet(q) \cup {r}
<1> DEFINE n == Len(q)
           t == Enqueue(q, r)
<1>1. /\ q \in Seq(Requests) /\ n \in Nat /\ ToSet(q) = {q[i] : i \in 1..n}
      /\ \A i \in 1..n : q[i] \in Requests /\ PriorityOf(q[i]) \in Nat /\ q[i] # r
      /\ \A i, j \in 1..n : q[i] = q[j] => i = j
      /\ \A i, j \in 1..n : i < j => PriorityOf(q[i]) >= PriorityOf(q[j])
      /\ PriorityOf(r) \in Nat
  BY OrderedElements, HotReloadAssumption DEF Ordered, PriorityOf
<1>2. PICK k \in 0..n :
        /\ Cardinality({i \in 1..Len(q) : PriorityOf(q[i]) >= PriorityOf(r)}) = k
        /\ \A i \in 1..n : i <= k <=> PriorityOf(q[i]) >= PriorityOf(r)
  BY BeforeIsPrefix
<1>3. /\ t \in Seq(Requests) /\ Len(t) = n + 1
      /\ \A j \in 1..(n + 1) : t[j] = IF j <= k THEN q[j] ELSE IF j = k + 1 THEN r ELSE q[j - 1]
  <2>1. t = InsertAt(q, k + 1, r)
    BY <1>2 DEF Enqueue
  <2>2. q \in Seq(Requests) /\ k \in 0..Len(q)
    BY <1>1, <1>2
  <2>3. /\ InsertAt(q, k + 1, r) \in Seq(Requests)
        /\ Len(InsertAt(q, k + 1, r)) = Len(q) + 1
        /\ \A j \in 1..(Len(q) + 1) :
             InsertAt(q, k + 1, r)[j] =
               IF j <= k THEN q[j] ELSE IF j = k + 1 THEN r ELSE q[j - 1]
    BY ONLY <2>2, r \in Requests, InsertAtElements
  <2> HIDE DEF t
  <2> QED BY <2>1, <2>3
<1> HIDE DEF t, n
<1>4. ToSet(t) = {t[j] : j \in 1..(n + 1)} /\ DOMAIN t = 1..(n + 1)
  BY <1>1, <1>3, ToSetElements
<1>5. ASSUME NEW j \in 1..(n + 1)
      PROVE  \/ j <= k /\ j \in 1..n /\ t[j] = q[j]
             \/ j = k + 1 /\ t[j] = r
             \/ j > k + 1 /\ j - 1 \in 1..n /\ t[j] = q[j - 1]
  BY <1>1, <1>2, <1>3
<1>6. ToSet(t) = ToSet(q) \cup {r}
  <2>1. ASSUME NEW i \in 1..n PROVE q[i] \in ToSet(t)
    <3>1. CASE i <= k
      BY <1>1, <1>3, <1>4, <3>1
    <3>2. CASE ~(i <= k)
      <4>1. i + 1 \in 1..(n + 1) /\ ~(i + 1 <= k) /\ i + 1 # k + 1 /\ (i + 1) - 1 = i
        BY <1>1, <1>2, <3>2
      <4>2. t[i + 1] = q[i]
        BY <1>3, <4>1
      <4> QED BY <1>4, <4>1, <4>2
    <3> QED BY <3>1, <3>2
  <2>2. k + 1 \in 1..(n + 1) /\ t[k + 1] = r
    BY <1>1, <1>2, <1>3
  <2>3. \A j \in 1..(n + 1) : t[j] \in ToSet(q) \cup {r}
    BY <1>1, <1>5
  <2>4. ToSet(q) \cup {r} \subseteq ToSet(t)
    BY <1>1, <1>4, <2>1, <2>2
  <2> QED BY <1>4, <2>3, <2>4
<1>7. ASSUME NEW i \in 1..(n + 1), NEW j \in 1..(n + 1), i < j
      PROVE  PriorityOf(t[i]) >= PriorityOf(t[j]) /\ t[i] # t[j]
  <2>1. CASE j <= k
    <3>1. i \in 1..n /\ j \in 1..n /\ t[i] = q[i] /\ t[j] = q[j]
      BY <1>1, <1>2, <1>3, <1>7, <2>1
    <3>2. PriorityOf(q[i]) >= PriorityOf(q[j]) /\ q[i] # q[j]
      BY <1>1, <1>7, <3>1
    <3> QED BY <3>1, <3>2
  <2>2. CASE j = k + 1
    <3>1. i \in 1..n /\ i <= k /\ t[i] = q[i] /\ t[j] = r
      BY <1>1, <1>2, <1>3, <1>7, <2>2
    <3> QED BY <1>1, <1>2, <3>1
  <2>3. CASE j > k + 1
    <3>1. j - 1 \in 1..n /\ t[j] = q[j - 1] /\ ~(j - 1 <= k)
      BY <1>1, <1>2, <1>3, <2>3
    <3>2. PriorityOf(q[j - 1]) < PriorityOf(r)
      BY <1>1, <1>2, <3>1
    <3>3. CASE i <= k
      <4>1. i \in 1..n /\ i < j - 1 /\ t[i] = q[i]
        BY <1>1, <1>2, <1>3, <1>7, <2>3, <3>3
      <4> QED BY <1>1, <3>1, <4>1
    <3>4. CASE i = k + 1
      BY <1>1, <1>2, <1>3, <3>1, <3>2, <3>4
    <3>5. CASE i > k + 1
      <4>1. i - 1 \in 1..n /\ i - 1 < j - 1 /\ t[i] = q[i - 1]
        BY <1>1, <1>2, <1>3, <1>7, <3>5
      <4> QED BY <1>1, <3>1, <4>1, SMTT(30)
    <3> QED BY <1>2, <3>3, <3>4, <3>5
  <2> QED BY <1>2, <2>1, <2>2, <2>3
<1>8. IsInjective(t)
  <2>1. ASSUME NEW i \in 1..(n + 1), NEW j \in 1..(n + 1), t[i] = t[j] PROVE i = j
    <3>1. ~(i < j) /\ ~(j < i)
      BY <1>7, <2>1
    <3> QED BY <1>1, <3>1
  <2> QED BY <1>4, <2>1 DEF IsInjective
<1>9. Ordered(t)
  BY <1>1, <1>3, <1>7, <1>8 DEF Ordered
<1> QED BY <1>6, <1>9 DEF t

\* A request that is taken out leaves the others in order.
LEMMA RemoveAtOrdered ==
  ASSUME NEW q, Ordered(q), NEW k \in 1..Len(q)
  PROVE  Ordered(RemoveAt(q, k)) /\ ToSet(RemoveAt(q, k)) = ToSet(q) \ {q[k]}
<1> DEFINE n == Len(q)
           t == RemoveAt(q, k)
<1>1. /\ q \in Seq(Requests) /\ n \in Nat /\ ToSet(q) = {q[i] : i \in 1..n}
      /\ \A i, j \in 1..n : q[i] = q[j] => i = j
      /\ \A i, j \in 1..n : i < j => PriorityOf(q[i]) >= PriorityOf(q[j])
  BY OrderedElements DEF Ordered
<1>2. /\ t \in Seq(Requests) /\ Len(t) = n - 1
      /\ \A j \in 1..(n - 1) : t[j] = IF j < k THEN q[j] ELSE q[j + 1]
  BY <1>1, RemoveAtElements
<1> HIDE DEF t, n
<1>3. ToSet(t) = {t[j] : j \in 1..(n - 1)} /\ DOMAIN t = 1..(n - 1)
  BY <1>1, <1>2, ToSetElements
<1> DEFINE x(j) == IF j < k THEN j ELSE j + 1
<1>4. k \in 1..n /\ \A j \in 1..(n - 1) : x(j) \in 1..n /\ x(j) # k /\ t[j] = q[x(j)]
  BY <1>1, <1>2 DEF n
<1>5. \A i, j \in 1..(n - 1) : i < j => x(i) < x(j)
  BY <1>1, <1>4
<1>6. \A i \in 1..n : i # k => \E j \in 1..(n - 1) : x(j) = i
  <2>1. ASSUME NEW i \in 1..n, i # k PROVE \E j \in 1..(n - 1) : x(j) = i
    <3>1. CASE i < k
      <4>1. i \in 1..(n - 1) /\ x(i) = i
        BY <1>1, <1>4, <3>1
      <4> QED BY <4>1, Zenon
    <3>2. CASE i > k
      <4>1. i - 1 \in 1..(n - 1) /\ x(i - 1) = i
        BY <1>1, <1>4, <3>2
      <4> QED BY <4>1, Zenon
    <3> QED BY <1>4, <2>1, <3>1, <3>2
  <2> QED BY <2>1
<1> HIDE DEF x
<1>7. ToSet(t) = ToSet(q) \ {q[k]}
  <2>1. \A j \in 1..(n - 1) : t[j] \in ToSet(q) \ {q[k]}
    BY <1>1, <1>4
  <2>2. ASSUME NEW i \in 1..n, i # k PROVE q[i] \in ToSet(t)
    <3>1. PICK j \in 1..(n - 1) : x(j) = i
      BY <1>6, <2>2
    <3>2. t[j] = q[i]
      BY <1>4, <3>1
    <3> QED BY <1>3, <3>1, <3>2
  <2>3. ToSet(q) \ {q[k]} \subseteq ToSet(t)
    BY <1>1, <2>2
  <2> QED BY <1>3, <2>1, <2>3
<1>8. \A i, j \in 1..(n - 1) : i < j => PriorityOf(t[i]) >= PriorityOf(t[j])
  BY <1>1, <1>4, <1>5
<1>9. IsInjective(t)
  <2>1. ASSUME NEW i \in 1..(n - 1), NEW j \in 1..(n - 1), t[i] = t[j] PROVE i = j
    <3>1. x(i) = x(j)
      BY <1>1, <1>4, <2>1
    <3>2. ~(x(i) < x(j)) /\ ~(x(j) < x(i))
      BY <1>4, <3>1
    <3> QED BY <1>1, <1>5, <3>2
  <2> QED BY <1>3, <2>1 DEF IsInjective
<1>10. Ordered(t)
  BY <1>2, <1>8, <1>9 DEF Ordered
<1> QED BY <1>7, <1>10 DEF t

\* What is left when the first k are taken.
LEMMA SuffixOrdered ==
  ASSUME NEW q, Ordered(q), NEW k \in 0..Len(q)
  PROVE  /\ Ordered(SubSeq(q, k + 1, Len(q)))
         /\ ToSet(SubSeq(q, k + 1, Len(q))) = ToSet(q) \ {q[i] : i \in 1..k}
<1> DEFINE n == Len(q)
           t == SubSeq(q, k + 1, n)
<1>1. /\ q \in Seq(Requests) /\ n \in Nat /\ ToSet(q) = {q[i] : i \in 1..n}
      /\ \A i, j \in 1..n : q[i] = q[j] => i = j
      /\ \A i, j \in 1..n : i < j => PriorityOf(q[i]) >= PriorityOf(q[j])
  BY OrderedElements DEF Ordered
<1>2. t \in Seq(Requests) /\ Len(t) = n - k /\ \A j \in 1..(n - k) : t[j] = q[k + j]
  <2>1. /\ t \in Seq(Requests) /\ Len(t) = n - (k + 1) + 1
        /\ \A i \in 1..(n - (k + 1) + 1) : t[i] = q[(k + 1) + i - 1]
    BY <1>1, PartElements
  <2>2. k \in Nat /\ n - (k + 1) + 1 = n - k /\ \A i \in 1..(n - k) : (k + 1) + i - 1 = k + i
    BY <1>1
  <2> HIDE DEF t, n
  <2> QED BY <2>1, <2>2
<1>3. k \in 0..n
  OBVIOUS
<1> HIDE DEF t, n
<1>4. ToSet(t) = {t[j] : j \in 1..(n - k)} /\ DOMAIN t = 1..(n - k)
  BY <1>1, <1>2, <1>3, ToSetElements
<1>5. \A i \in 1..n : i \in 1..k \/ \E j \in 1..(n - k) : k + j = i
  <2>1. ASSUME NEW i \in 1..n, i \notin 1..k PROVE i - k \in 1..(n - k) /\ k + (i - k) = i
    BY <1>1, <1>3, <2>1
  <2> QED BY <2>1
<1>6. \A j \in 1..(n - k) : k + j \in 1..n /\ k + j \notin 1..k
  BY <1>1, <1>3
<1>7. ToSet(t) = ToSet(q) \ {q[i] : i \in 1..k}
  <2>1. 1..k \subseteq 1..n
    BY <1>1, <1>3
  <2>2. \A j \in 1..(n - k) : t[j] = q[k + j] /\ k + j \in 1..n /\ k + j \notin 1..k
    BY <1>2, <1>6
  <2>3. \A j \in 1..(n - k), i \in 1..k : t[j] # q[i]
    BY <1>1, <2>1, <2>2
  <2>4. ToSet(t) \subseteq ToSet(q) \ {q[i] : i \in 1..k}
    BY <1>1, <1>4, <2>2, <2>3
  <2>5. ASSUME NEW i \in 1..n, i \notin 1..k PROVE q[i] \in ToSet(t)
    BY <1>4, <1>5, <2>2, <2>5
  <2> QED BY <1>1, <2>4, <2>5
<1>8. \A i, j \in 1..(n - k) : i < j => PriorityOf(t[i]) >= PriorityOf(t[j])
  <2>1. \A i, j \in 1..(n - k) : i < j => k + i < k + j
    BY <1>1, <1>3
  <2> QED BY <1>1, <1>2, <1>6, <2>1
<1>9. IsInjective(t)
  <2>1. \A i, j \in 1..(n - k) : k + i = k + j => i = j
    BY <1>1, <1>3
  <2> QED BY <1>1, <1>2, <1>4, <1>6, <2>1 DEF IsInjective
<1> QED BY <1>2, <1>7, <1>8, <1>9 DEF Ordered, n, t

-----------------------------------------------------------------------------
\* A task's new step, and the strategy it has unless it is through.
LEMMA GotoTypes ==
  ASSUME LoaderInv, NEW t \in Tasks, NEW st \in Steps, Goto(t, st),
         step[t] # "idle"
  PROVE  /\ step' \in [Tasks -> Steps] /\ target' \in [Tasks -> Strategies \cup {NoStrategy}]
         /\ \A u \in Tasks : step'[u] # "idle" => target'[u] \in Strategies
BY DEF LoaderInv, Goto, NoStrategy

\* What is imported is what is on disk.
LEMMA LoadFromFileTypes ==
  ASSUME LoaderInv, NEW s \in Strategies, LoadFromFile(s)
  PROVE  /\ loadedStrategies' \in [Strategies -> Versions \cup {None}]
         /\ reported' \subseteq Strategies
BY DEF LoaderInv, LoadFromFile, Importable

\* The first of the loading queue.
LEMMA NextOfQueueTypes ==
  ASSUME LoaderInv, NextOfQueue
  PROVE  /\ loadingQueue' \in Seq(Strategies)
         /\ beingLoaded' \in Strategies \cup {NoStrategy}
<1>1. CASE loadingQueue = <<>>
  BY <1>1 DEF LoaderInv, NextOfQueue
<1>2. CASE loadingQueue # <<>>
  <2>1. loadingQueue \in Seq(Strategies)
    BY DEF LoaderInv
  <2>2. Head(loadingQueue) \in Strategies /\ Tail(loadingQueue) \in Seq(Strategies)
    BY <1>2, <2>1, HeadTailProperties
  <2> QED BY <1>2, <2>2 DEF NextOfQueue
<1> QED BY <1>1, <1>2

\* The loader's part of the invariant is kept by every step.
LEMMA LoaderStep ==
  LoaderInv /\ QueueInv /\ [Next]_vars => LoaderInv'
<1> SUFFICES ASSUME LoaderInv, QueueInv, [Next]_vars
             PROVE  LoaderInv'
  OBVIOUS
<1> USE DEF files, watcher, loading, managerVars
<1>t. /\ Requests \subseteq Tasks /\ Handlers \subseteq Tasks
      /\ \A st \in {"idle", "analyzing", "queueing", "waiting", "queued", "stranded", "starting",
                    "validating", "draining", "reloading", "unloading", "loading", "restoring",
                    "failing", "completed", "failed", "cancelled", "refused"} : st \in Steps
  BY DEF Tasks, Steps, ActiveSteps, Settled
<1>1. ASSUME NEW r \in Requests, RequestReload(r) PROVE LoaderInv'
  <2>1. StrategyOf(r) \in Strategies
    BY HotReloadAssumption DEF StrategyOf
  <2> QED BY <1>t, <1>1, <2>1 DEF LoaderInv, RequestReload
<1>2. ASSUME NEW r \in Requests, CancelReload(r) PROVE LoaderInv'
  <2>1. r \in ToSet(reloadQueue)
    BY <1>2, ToSetElements DEF CancelReload, QueueInv, Ordered
  <2>2. step[r] = "queued"
    BY <2>1 DEF QueueInv
  <2>3. Goto(r, "cancelled")
    BY <1>2 DEF CancelReload
  <2> QED BY <1>t, <1>2, <2>2, <2>3, GotoTypes DEF LoaderInv, CancelReload
<1>3. ASSUME NEW r \in Requests, Prepare(r) PROVE LoaderInv'
  <2>1. PICK st \in Steps : Goto(r, st)
    BY <1>t, <1>3 DEF Prepare, AfterValidation
  <2> QED BY <1>t, <1>3, <2>1, GotoTypes DEF LoaderInv, Prepare
<1>4. ASSUME NEW r \in Requests, Validated(r) PROVE LoaderInv'
  <2>1. PICK st \in Steps : Goto(r, st)
    BY <1>t, <1>4 DEF Validated, AfterValidation
  <2> QED BY <1>t, <1>4, <2>1, GotoTypes DEF LoaderInv, Validated
<1>5. ASSUME NEW r \in Requests, Drained(r) PROVE LoaderInv'
  BY <1>t, <1>5, GotoTypes DEF LoaderInv, Drained
<1>6. ASSUME NEW r \in Requests, Reload(r) PROVE LoaderInv'
  <2>1. PICK st \in Steps : Goto(r, st)
    BY <1>t, <1>6 DEF Reload, ReloadStrategy
  <2>2. reported' \subseteq Strategies
    BY <1>t, <1>6 DEF Reload, ReloadStrategy, LoaderInv
  <2> QED BY <1>t, <1>6, <2>1, <2>2, GotoTypes DEF LoaderInv, Reload
<1>7. ASSUME NEW r \in Requests, Restore(r) PROVE LoaderInv'
  <2>1. PICK st \in Steps : Goto(r, st)
    BY <1>t, <1>7 DEF Restore
  <2> QED BY <1>t, <1>7, <2>1, GotoTypes DEF LoaderInv, Restore
<1>8. ASSUME NEW r \in Requests, Fail(r) PROVE LoaderInv'
  <2>1. reported' \subseteq Strategies
    BY <1>t, <1>8 DEF Fail, LoaderInv
  <2> QED BY <1>t, <1>8, <2>1, GotoTypes DEF LoaderInv, Fail
<1>9. ASSUME NEW t \in Tasks, Unload(t) PROVE LoaderInv'
  <2>1. target[t] \in Strategies
    BY <1>9 DEF Unload, LoaderInv
  <2> QED BY <1>t, <1>9, <2>1, GotoTypes DEF LoaderInv, Unload, UnloadStrategy
<1>10. ASSUME NEW t \in Tasks, NEW ok \in Steps, NEW failed \in Steps, Load(t, ok, failed)
       PROVE  LoaderInv'
  <2>1. target[t] \in Strategies
    BY <1>10 DEF Load, LoaderInv
  <2>2. PICK st \in Steps : Goto(t, st)
    BY <1>10 DEF Load
  <2> QED BY <1>t, <1>10, <2>1, <2>2, GotoTypes, LoadFromFileTypes DEF LoaderInv, Load
<1>11. ASSUME ProcessReloadQueue PROVE LoaderInv'
  <2>1. \A i \in 1..StartableCount : reloadQueue[i] \in Requests /\ step[reloadQueue[i]] = "queued"
    <3>1. StartableCount \in Int /\ StartableCount <= Len(reloadQueue)
      BY HotReloadAssumption, FS_CardinalityType DEF StartableCount, QueueInv, Ordered
    <3>2. \A i \in 1..Len(reloadQueue) : reloadQueue[i] \in ToSet(reloadQueue)
      BY ToSetElements DEF QueueInv, Ordered
    <3> QED BY <3>1, <3>2 DEF QueueInv
  <2>2. /\ step' \in [Tasks -> Steps]
        /\ \A u \in Tasks : step'[u] # "idle" => step[u] # "idle"
    <3>1. PICK stranded \in SUBSET {reloadQueue[i] : i \in 1..StartableCount} :
            step' = [u \in Tasks |->
                       IF u \in stranded THEN "stranded"
                       ELSE IF u \in {reloadQueue[i] : i \in 1..StartableCount}
                       THEN "starting" ELSE step[u]]
      BY <1>11 DEF ProcessReloadQueue
    <3>2. \A u \in {reloadQueue[i] : i \in 1..StartableCount} : step[u] = "queued"
      BY <2>1
    <3> QED BY <1>t, <3>1, <3>2 DEF LoaderInv
  <2> QED BY <1>11, <2>2 DEF LoaderInv, ProcessReloadQueue
<1>12. ASSUME NEW s \in Strategies, Write(s) PROVE LoaderInv'
  <2>1. changes' \in 0..MaxChanges /\ changes' = changes + 1 /\ changes \in Nat
    BY <1>12, LoaderAssumption DEF Write, LoaderInv
  <2>2. /\ disk' \in [Strategies -> Versions \cup {None}]
        /\ \A u \in Strategies : disk'[u] \in (0..changes') \cup {None}
    BY <1>12, <2>1 DEF Write, LoaderInv, Versions
  <2>3. \A u \in Strategies : strategyFiles[u] \in (0..changes') \cup {None}
    BY <2>1 DEF LoaderInv
  <2> QED BY <1>12, <2>1, <2>2, <2>3 DEF LoaderInv, Write
<1>13. ASSUME NEW s \in Strategies, Unlink(s) PROVE LoaderInv'
  <2>1. changes' \in 0..MaxChanges /\ changes' = changes + 1 /\ changes \in Nat
    BY <1>13, LoaderAssumption DEF Unlink, LoaderInv
  <2>2. /\ strategyFiles' \in [Strategies -> Versions \cup {None}]
        /\ \A u \in Strategies : strategyFiles'[u] \in (0..changes) \cup {None}
        /\ loadedStrategies' \in [Strategies -> Versions \cup {None}]
    BY <1>13 DEF Unlink, UnloadStrategy, LoaderInv
  <2>3. /\ disk' \in [Strategies -> Versions \cup {None}]
        /\ \A u \in Strategies : disk'[u] \in (0..changes) \cup {None}
    BY <1>13 DEF Unlink, LoaderInv
  <2>4. (0..changes) \subseteq (0..changes')
    BY <2>1
  <2> QED BY <1>13, <2>1, <2>2, <2>3, <2>4 DEF LoaderInv, Unlink
<1>14. ASSUME NEW h \in Handlers, HandleFileChange(h) PROVE LoaderInv'
  BY <1>t, <1>14 DEF LoaderInv, HandleFileChange, NoStrategy
<1>15. ASSUME NEW h \in Handlers, Analyzed(h) PROVE LoaderInv'
  <2>1. PICK st \in Steps : Goto(h, st)
    BY <1>t, <1>15 DEF Analyzed
  <2>2. target[h] \in Strategies
    BY <1>t, <1>15 DEF Analyzed, LoaderInv
  <2>3. /\ strategyFiles' \in [Strategies -> Versions \cup {None}]
        /\ \A u \in Strategies : strategyFiles'[u] \in (0..changes) \cup {None}
    BY <1>15, <2>2 DEF Analyzed, LoaderInv
  <2> QED BY <1>t, <1>15, <2>1, <2>3, GotoTypes DEF LoaderInv, Analyzed
<1>16. ASSUME NEW h \in Handlers, QueueLoad(h) PROVE LoaderInv'
  <2>1. PICK st \in Steps : Goto(h, st)
    BY <1>t, <1>16 DEF QueueLoad
  <2>2. target[h] \in Strategies
    BY <1>t, <1>16 DEF QueueLoad, LoaderInv
  <2>3. loadingQueue' \in Seq(Strategies)
    BY <1>16, <2>2, AppendProperties DEF QueueLoad, LoaderInv
  <2>4. loadScheduled' \in BOOLEAN /\ beingLoaded' = beingLoaded
    <3>1. CASE disk[target[h]] = None
      BY <1>16, <3>1 DEF QueueLoad, LoaderInv
    <3>2. CASE disk[target[h]] # None
      BY <1>16, <3>2 DEF QueueLoad, LoaderInv
    <3> QED BY <3>1, <3>2
  <2> QED BY <1>t, <1>16, <2>1, <2>3, <2>4, GotoTypes DEF LoaderInv, QueueLoad
<1>17. ASSUME NEW h \in Handlers, WaitEnds(h) PROVE LoaderInv'
  <2>1. target[h] \in Strategies
    BY <1>t, <1>17 DEF WaitEnds, LoaderInv
  <2> QED BY <1>t, <1>17, <2>1, GotoTypes DEF LoaderInv, WaitEnds
<1>18. ASSUME ProcessLoadingQueue PROVE LoaderInv'
  <2>1. /\ loadingQueue' \in Seq(Strategies)
        /\ beingLoaded' \in Strategies \cup {NoStrategy}
    BY <1>18, NextOfQueueTypes DEF ProcessLoadingQueue, LoaderInv
  <2> QED BY <1>18, <2>1 DEF LoaderInv, ProcessLoadingQueue
<1>19. ASSUME LoadOfQueue PROVE LoaderInv'
  <2>1. beingLoaded \in Strategies
    BY <1>19 DEF LoadOfQueue, LoaderInv
  <2>2. LoadFromFile(beingLoaded) /\ NextOfQueue
    BY <1>19 DEF LoadOfQueue
  <2> QED BY <1>19, <2>1, <2>2, NextOfQueueTypes, LoadFromFileTypes DEF LoaderInv, LoadOfQueue
<1>20. ASSUME UNCHANGED vars PROVE LoaderInv'
  BY <1>20 DEF vars, loaderVars, LoaderInv
<1> QED BY <1>t, <1>1, <1>2, <1>3, <1>4, <1>5, <1>6, <1>7, <1>8, <1>9, <1>10, <1>11, <1>12,
           <1>13, <1>14, <1>15, <1>16, <1>17, <1>18, <1>19, <1>20
        DEF Next, ReloadStep, LoaderNext, Environment, HandlerStep

-----------------------------------------------------------------------------
\* Fewer active reloads are within the limit as well.
LEMMA FewerActive ==
  ASSUME QueueInv, ActiveReloads' \subseteq ActiveReloads
  PROVE  IsFiniteSet(ActiveReloads)' /\ (Cardinality(ActiveReloads) <= MaxConcurrentReloads)'
<1>1. /\ IsFiniteSet(ActiveReloads') /\ Cardinality(ActiveReloads') <= Cardinality(ActiveReloads)
      /\ Cardinality(ActiveReloads') \in Nat /\ Cardinality(ActiveReloads) \in Nat
  BY FS_Subset, FS_CardinalityType DEF QueueInv
<1>2. Cardinality(ActiveReloads) <= MaxConcurrentReloads /\ MaxConcurrentReloads \in Nat
  BY HotReloadAssumption DEF QueueInv
<1> QED BY <1>1, <1>2

\* A step of one task, of the loader or an active reload, that neither is pending
\* nor becomes it.
LEMMA MoveKeepsQueue ==
  ASSUME LoaderInv, QueueInv, UNCHANGED managerVars,
         NEW t \in Tasks, NEW st, Goto(t, st), step[t] # "queued", st # "queued",
         t \in Handlers \/ step[t] \in ActiveSteps
  PROVE  QueueInv'
<1>1. /\ step \in [Tasks -> Steps] /\ step' = [step EXCEPT ![t] = st]
      /\ Requests \subseteq Tasks /\ (t \in Handlers => t \notin Requests)
  BY HotReloadAssumption DEF LoaderInv, Goto, Tasks
<1>2. {r \in Requests : step'[r] = "queued"} = {r \in Requests : step[r] = "queued"}
  BY <1>1
<1>3. ActiveReloads' \subseteq ActiveReloads
  BY <1>1 DEF ActiveReloads
<1> QED BY <1>2, <1>3, FewerActive DEF QueueInv, managerVars

\* processReloadQueue starts no more than there is room for.
LEMMA ProcessKeepsQueue ==
  ASSUME LoaderInv, QueueInv, ProcessReloadQueue
  PROVE  QueueInv'
<1> DEFINE k == StartableCount
           started == {reloadQueue[i] : i \in 1..k}
           n == Len(reloadQueue)
           room == MaxConcurrentReloads - Cardinality(ActiveReloads)
<1>1. /\ Ordered(reloadQueue) /\ n \in Nat
      /\ ToSet(reloadQueue) = {r \in Requests : step[r] = "queued"}
      /\ ToSet(reloadQueue) = {reloadQueue[i] : i \in 1..n}
  BY OrderedElements DEF QueueInv
<1>2. room \in Nat /\ Cardinality(ActiveReloads) \in Nat /\ MaxConcurrentReloads \in Nat
  BY HotReloadAssumption, FS_CardinalityType DEF QueueInv
<1>3. k \in 0..n /\ k \in Nat /\ k <= room
  <2>1. k = IF room < n THEN room ELSE n
    BY DEF StartableCount
  <2> HIDE DEF k, room, n
  <2> QED BY <1>1, <1>2, <2>1
<1>4. /\ reloadQueue' = SubSeq(reloadQueue, k + 1, n)
      /\ \E stranded \in SUBSET started :
           step' = [t \in Tasks |-> IF t \in stranded THEN "stranded"
                                    ELSE IF t \in started THEN "starting" ELSE step[t]]
      /\ scheduled > 0 /\ scheduled' = scheduled - 1
  BY DEF ProcessReloadQueue
<1>5. Ordered(reloadQueue') /\ ToSet(reloadQueue') = ToSet(reloadQueue) \ started
  <2> HIDE DEF k
  <2> QED BY <1>1, <1>3, <1>4, SuffixOrdered
<1>6. started \subseteq ToSet(reloadQueue)
  <2>1. 1..k \subseteq 1..n
    BY <1>1, <1>3
  <2> HIDE DEF k, n
  <2> QED BY <1>1, <2>1
<1>7. IsFiniteSet(started) /\ Cardinality(started) <= k /\ Cardinality(started) \in Nat
  <2> DEFINE f == [i \in 1..k |-> reloadQueue[i]]
  <2> HIDE DEF k
  <2>1. f \in Surjection(1..k, started)
    BY DEF Surjection
  <2>2. IsFiniteSet(1..k) /\ Cardinality(1..k) = k
    <3>1. IsFiniteSet(1..k) /\ Cardinality(1..k) = IF 1 > k THEN 0 ELSE k - 1 + 1
      BY <1>3, FS_Interval
    <3> QED BY <1>3, <3>1
  <2> HIDE DEF f, started
  <2>3. IsFiniteSet(started) /\ Cardinality(started) <= k
    BY <2>1, <2>2, FS_Surjection
  <2> QED BY <2>3, FS_CardinalityType
<1> HIDE DEF k, n, started, room
<1>8. step \in [Tasks -> Steps] /\ Requests \subseteq Tasks
  BY DEF LoaderInv, Tasks
<1>9. ToSet(reloadQueue') = {r \in Requests : step'[r] = "queued"}
  BY <1>1, <1>4, <1>5, <1>6, <1>8
<1>10. ActiveReloads' = ActiveReloads \cup started
  <2>1. "starting" \in ActiveSteps /\ "queued" \notin ActiveSteps
    BY DEF ActiveSteps
  <2>2. /\ \A q \in started : q \in Requests /\ step'[q] \in {"starting", "stranded"}
        /\ \A q \in Requests \ started : step'[q] = step[q]
    BY <1>1, <1>4, <1>6, <1>8
  <2> QED BY <2>1, <2>2 DEF ActiveReloads
<1>11. IsFiniteSet(ActiveReloads') /\ Cardinality(ActiveReloads') <= MaxConcurrentReloads
  <2>1. IsFiniteSet(ActiveReloads)
    BY DEF QueueInv
  <2>2. ActiveReloads \cap started = {}
    <3>1. \A r \in started : step[r] = "queued" /\ "queued" \notin ActiveSteps
      BY <1>1, <1>6 DEF ActiveSteps
    <3> QED BY <3>1 DEF ActiveReloads
  <2>3. /\ IsFiniteSet(ActiveReloads \cup started)
        /\ Cardinality(ActiveReloads \cup started) =
             Cardinality(ActiveReloads) + Cardinality(started) - Cardinality({})
    <3>1. /\ IsFiniteSet(ActiveReloads \cup started)
          /\ Cardinality(ActiveReloads \cup started) =
               Cardinality(ActiveReloads) + Cardinality(started)
                 - Cardinality(ActiveReloads \cap started)
      BY <1>7, <2>1, FS_Union
    <3> QED BY <2>2, <3>1
  <2>4. Cardinality({}) = 0
    BY FS_EmptySet
  <2>5. Cardinality(started) <= room /\ room = MaxConcurrentReloads - Cardinality(ActiveReloads)
    BY <1>2, <1>3, <1>7 DEF room
  <2>6. Cardinality(ActiveReloads \cup started) <= MaxConcurrentReloads
    BY <1>2, <1>7, <2>3, <2>4, <2>5
  <2> QED BY <1>10, <2>3, <2>6
<1> QED BY <1>4, <1>5, <1>9, <1>11 DEF QueueInv

\* The queue and the limit are kept by every step.
LEMMA QueueStep ==
  LoaderInv /\ QueueInv /\ [Next]_vars => QueueInv'
<1> SUFFICES ASSUME LoaderInv, QueueInv, [Next]_vars
             PROVE  QueueInv'
  OBVIOUS
<1>t. /\ Requests \subseteq Tasks /\ Handlers \subseteq Tasks
      /\ \A h \in Handlers : h \notin Requests
      /\ step \in [Tasks -> Steps]
  BY HotReloadAssumption DEF Tasks, LoaderInv
<1>a. /\ \A st \in {"starting", "validating", "draining", "reloading", "unloading", "loading",
                    "restoring", "failing"} : st \in ActiveSteps /\ st # "queued"
      /\ \A st \in {"idle", "queued", "completed", "failed", "cancelled", "refused"} :
           st \notin ActiveSteps \cup {"stranded"}
  BY DEF ActiveSteps
<1>1. ASSUME NEW r \in Requests, RequestReload(r) PROVE QueueInv'
  <2>1. CASE step' = [step EXCEPT ![r] = "refused"] /\ UNCHANGED managerVars
    <3>1. {q \in Requests : step'[q] = "queued"} = {q \in Requests : step[q] = "queued"}
      BY <1>t, <1>1, <2>1 DEF RequestReload
    <3>2. ActiveReloads' \subseteq ActiveReloads
      BY <1>t, <1>a, <2>1 DEF ActiveReloads
    <3> QED BY <2>1, <3>1, <3>2, FewerActive DEF QueueInv, managerVars
  <2>2. CASE /\ step' = [step EXCEPT ![r] = "queued"]
             /\ reloadQueue' = Enqueue(reloadQueue, r)
             /\ scheduled' = scheduled + 1 \/ scheduled' = scheduled
    <3>1. step[r] = "idle" /\ r \notin ToSet(reloadQueue)
      BY <1>1 DEF RequestReload, QueueInv
    <3>2. Ordered(reloadQueue') /\ ToSet(reloadQueue') = ToSet(reloadQueue) \cup {r}
      BY <2>2, <3>1, EnqueueOrdered DEF QueueInv
    <3>3. ToSet(reloadQueue') = {q \in Requests : step'[q] = "queued"}
      BY <1>t, <2>2, <3>1, <3>2 DEF QueueInv
    <3>4. ActiveReloads' \subseteq ActiveReloads
      BY <1>t, <1>a, <2>2 DEF ActiveReloads
    <3> QED BY <2>2, <3>2, <3>3, <3>4, FewerActive DEF QueueInv
  <2> QED BY <1>1, <2>1, <2>2 DEF RequestReload
<1>2. ASSUME NEW r \in Requests, CancelReload(r) PROVE QueueInv'
  <2>1. PICK i \in 1..Len(reloadQueue) :
          reloadQueue[i] = r /\ reloadQueue' = RemoveAt(reloadQueue, i)
    BY <1>2 DEF CancelReload
  <2>2. Ordered(reloadQueue') /\ ToSet(reloadQueue') = ToSet(reloadQueue) \ {r}
    BY <2>1, RemoveAtOrdered DEF QueueInv
  <2>3. step' = [step EXCEPT ![r] = "cancelled"] /\ scheduled' = scheduled
    BY <1>2 DEF CancelReload, Goto
  <2>4. ToSet(reloadQueue') = {q \in Requests : step'[q] = "queued"}
    BY <1>t, <2>2, <2>3 DEF QueueInv
  <2>5. ActiveReloads' \subseteq ActiveReloads
    BY <1>t, <1>a, <2>3 DEF ActiveReloads
  <2> QED BY <2>2, <2>3, <2>4, <2>5, FewerActive DEF QueueInv
<1>3. ASSUME NEW r \in Requests,
             Prepare(r) \/ Validated(r) \/ Drained(r) \/ Reload(r) \/ Restore(r) \/ Fail(r)
      PROVE  QueueInv'
  <2>1. UNCHANGED managerVars /\ step[r] \in ActiveSteps /\ step[r] # "queued"
    BY <1>a, <1>3 DEF Prepare, Validated, Drained, Reload, Restore, Fail
  <2>2. PICK st : Goto(r, st) /\ st # "queued"
    <3>1. CASE Prepare(r) \/ Validated(r)
      BY <3>1 DEF Prepare, Validated, AfterValidation
    <3>2. CASE Drained(r) \/ Restore(r) \/ Fail(r)
      BY <3>2 DEF Drained, Restore, Fail
    <3>3. CASE Reload(r)
      BY <3>3 DEF Reload, ReloadStrategy
    <3> QED BY <1>3, <3>1, <3>2, <3>3
  <2> QED BY <1>t, <2>1, <2>2, MoveKeepsQueue
<1>4. ASSUME NEW t \in Tasks, Unload(t), UNCHANGED managerVars PROVE QueueInv'
  BY <1>a, <1>4, MoveKeepsQueue DEF Unload
<1>5. ASSUME NEW t \in Tasks, NEW ok, NEW failed, ok # "queued", failed # "queued",
             Load(t, ok, failed), UNCHANGED managerVars
      PROVE  QueueInv'
  <2>1. PICK st : Goto(t, st) /\ st # "queued"
    BY <1>5 DEF Load
  <2>2. step[t] \in ActiveSteps /\ step[t] # "queued"
    BY <1>a, <1>5 DEF Load
  <2> QED BY <1>5, <2>1, <2>2, MoveKeepsQueue
<1>6. ASSUME NEW h \in Handlers, UNCHANGED managerVars,
             Analyzed(h) \/ QueueLoad(h) \/ WaitEnds(h)
      PROVE  QueueInv'
  <2>1. step[h] # "queued"
    BY <1>6 DEF Analyzed, QueueLoad, WaitEnds
  <2>2. PICK st : Goto(h, st) /\ st # "queued"
    BY <1>6 DEF Analyzed, QueueLoad, WaitEnds
  <2> QED BY <1>t, <1>6, <2>1, <2>2, MoveKeepsQueue
<1>7. ASSUME NEW h \in Handlers, UNCHANGED managerVars, HandleFileChange(h) PROVE QueueInv'
  <2>1. \A r \in Requests : step'[r] = step[r]
    BY <1>t, <1>7 DEF HandleFileChange
  <2>2. ActiveReloads' \subseteq ActiveReloads
    BY <2>1 DEF ActiveReloads
  <2> QED BY <1>7, <2>1, <2>2, FewerActive DEF QueueInv, managerVars
<1>8. ASSUME UNCHANGED managerVars, UNCHANGED step PROVE QueueInv'
  BY <1>8, FewerActive DEF QueueInv, managerVars, ActiveReloads
<1>9. ASSUME UNCHANGED managerVars,
             Environment \/ ProcessLoadingQueue \/ LoadOfQueue \/ UNCHANGED vars
      PROVE  QueueInv'
  <2>1. UNCHANGED step
    BY <1>9 DEF Environment, Write, Unlink, ProcessLoadingQueue, LoadOfQueue, vars, loaderVars
  <2> QED BY <1>8, <1>9, <2>1
<1>10. ASSUME NEW r \in Requests, ReloadStep(r) PROVE QueueInv'
  BY <1>t, <1>3, <1>4, <1>5, <1>10 DEF ReloadStep
<1>11. ASSUME NEW h \in Handlers, HandlerStep(h), UNCHANGED managerVars PROVE QueueInv'
  BY <1>t, <1>4, <1>5, <1>6, <1>7, <1>11 DEF HandlerStep
<1> QED BY <1>1, <1>2, <1>9, <1>10, <1>11, ProcessKeepsQueue DEF Next, LoaderNext, vars

-----------------------------------------------------------------------------
\* The loading queue as a set, when a file is added and when one is taken.
LEMMA LoadingQueueElements ==
  ASSUME NEW S, NEW q \in Seq(S), NEW e \in S
  PROVE  /\ ToSet(Append(q, e)) = ToSet(q) \cup {e}
         /\ q # <<>> => ToSet(q) = {Head(q)} \cup ToSet(Tail(q))
<1>1. q \in Seq(S) /\ Len(q) \in Nat /\ ToSet(q) = {q[i] : i \in 1..Len(q)}
  BY ToSetElements
<1>2. ToSet(Append(q, e)) = ToSet(q) \cup {e}
  <2> DEFINE t == Append(q, e)
  <2>1. /\ t \in Seq(S) /\ Len(t) = Len(q) + 1
        /\ \A i \in 1..(Len(q) + 1) : t[i] = IF i = Len(q) + 1 THEN e ELSE q[i]
    BY <1>1, AppendProperties
  <2> HIDE DEF t
  <2>2. ToSet(t) = {t[i] : i \in 1..(Len(q) + 1)}
    BY <2>1, ToSetElements
  <2>3. \A i \in 1..Len(q) : i \in 1..(Len(q) + 1) /\ t[i] = q[i]
    BY <1>1, <2>1
  <2>4. Len(q) + 1 \in 1..(Len(q) + 1) /\ t[Len(q) + 1] = e
    BY <1>1, <2>1
  <2>5. \A i \in 1..(Len(q) + 1) : i = Len(q) + 1 \/ i \in 1..Len(q)
    BY <1>1
  <2>6. ToSet(t) = ToSet(q) \cup {e}
    BY <1>1, <2>2, <2>3, <2>4, <2>5
  <2> QED BY <2>6 DEF t
<1>3. ASSUME q # <<>> PROVE ToSet(q) = {Head(q)} \cup ToSet(Tail(q))
  <2> DEFINE t == Tail(q)
  <2>1. /\ t \in Seq(S) /\ Len(t) = Len(q) - 1 /\ Len(q) >= 1 /\ Head(q) = q[1]
        /\ \A i \in 1..Len(t) : t[i] = q[i + 1]
    BY <1>1, <1>3, HeadTailProperties
  <2> HIDE DEF t
  <2>2. ToSet(t) = {t[i] : i \in 1..(Len(q) - 1)}
    BY <2>1, ToSetElements
  <2>3. \A i \in 1..(Len(q) - 1) : i + 1 \in 1..Len(q) /\ t[i] = q[i + 1]
    BY <1>1, <2>1
  <2>4. \A i \in 1..Len(q) : i = 1 \/ (i - 1 \in 1..(Len(q) - 1) /\ t[i - 1] = q[i])
    BY <1>1, <2>1
  <2>5. 1 \in 1..Len(q)
    BY <1>1, <2>1
  <2>6. ToSet(q) = {q[1]} \cup ToSet(t)
    BY <1>1, <2>2, <2>3, <2>4, <2>5
  <2> QED BY <2>1, <2>6 DEF t
<1> QED BY <1>2, <1>3

\* The steps at which a task of the loader is at work on its strategy.
AtWork == {"analyzing", "queueing", "waiting", "unloading", "loading"}

\* A task that is not at work on s moves on: the account of s stays.
LEMMA MoveKeepsAccount ==
  ASSUME LoaderInv, NEW s \in Strategies, Accounted(s), NEW t \in Tasks,
         \A u \in Tasks \ {t} : step'[u] = step[u] /\ target'[u] = target[u],
         target[t] # s \/ step[t] \notin AtWork,
         disk'[s] = disk[s], strategyFiles'[s] = strategyFiles[s],
         loadedStrategies'[s] = loadedStrategies[s],
         s = changeTimeout => s = changeTimeout',
         s \in ToSet(loadingQueue) \cup {beingLoaded}
           => s \in ToSet(loadingQueue') \cup {beingLoaded'},
         s \in reported \cup overtaken => s \in reported' \cup overtaken'
  PROVE  Accounted(s)'
<1> SUFFICES ASSUME disk[s] # None, loadedStrategies[s] = None
             PROVE  (BeingLoaded(s) \/ YetToBeSeen(s) \/ s \in reported \cup overtaken)'
  BY DEF Accounted
<1>1. CASE BeingLoaded(s)
  BY <1>1 DEF BeingLoaded, AtWork
<1>2. CASE YetToBeSeen(s)
  BY <1>2 DEF YetToBeSeen, AtWork
<1>3. CASE s \in reported \cup overtaken
  BY <1>3
<1> QED BY <1>1, <1>2, <1>3 DEF Accounted

\* A load leaves a strategy loaded, or reports the failure.
LEMMA LoadAccounts ==
  ASSUME LoaderInv, NEW s \in Strategies, LoadFromFile(s), disk' = disk
  PROVE  Accounted(s)'
BY DEF LoadFromFile, Importable, Accounted, LoaderInv

\* Every step accounts for the strategies that are not loaded.
LEMMA AccountStep ==
  ASSUME LoaderInv, QueueInv, [Next]_vars, NEW s \in Strategies, Accounted(s)
  PROVE  Accounted(s)'
<1> USE DEF files, watcher, loading, managerVars
<1>t. /\ Requests \subseteq Tasks /\ Handlers \subseteq Tasks
      /\ step \in [Tasks -> Steps] /\ target \in [Tasks -> Strategies \cup {NoStrategy}]
      /\ s # NoStrategy
  BY LoaderAssumption DEF Tasks, LoaderInv, NoStrategy
<1>g. ASSUME NEW t \in Tasks, NEW st, Goto(t, st)
      PROVE  /\ \A u \in Tasks \ {t} : step'[u] = step[u] /\ target'[u] = target[u]
             /\ step'[t] = st /\ (st # "idle" => target'[t] = target[t])
  BY <1>t, <1>g DEF Goto
<1>1. ASSUME NEW r \in Requests, RequestReload(r) PROVE Accounted(s)'
  <2>1. /\ \A u \in Tasks \ {r} : step'[u] = step[u] /\ target'[u] = target[u]
        /\ step[r] \notin AtWork
    BY <1>t, <1>1 DEF RequestReload, AtWork
  <2> QED BY <1>t, <1>1, <2>1, MoveKeepsAccount DEF RequestReload
<1>2. ASSUME NEW r \in Requests, CancelReload(r) PROVE Accounted(s)'
  <2>1. r \in ToSet(reloadQueue)
    BY <1>2, ToSetElements DEF CancelReload, QueueInv, Ordered
  <2>2. step[r] \notin AtWork
    BY <2>1 DEF QueueInv, AtWork
  <2> QED BY <1>t, <1>g, <1>2, <2>2, MoveKeepsAccount DEF CancelReload
<1>3. ASSUME NEW r \in Requests,
             Prepare(r) \/ Validated(r) \/ Drained(r) \/ Reload(r) \/ Restore(r) \/ Fail(r)
      PROVE  Accounted(s)'
  <2>1. step[r] \notin AtWork
    BY <1>3 DEF Prepare, Validated, Drained, Reload, Restore, Fail, AtWork
  <2>2. /\ UNCHANGED <<files, watcher, loading>>
        /\ reported \subseteq reported'
    BY <1>3 DEF Prepare, Validated, Drained, Reload, ReloadStrategy, Restore, Fail
  <2>3. \E st : Goto(r, st)
    <3>1. CASE Prepare(r) \/ Validated(r)
      BY <3>1 DEF Prepare, Validated, AfterValidation
    <3>2. CASE Drained(r) \/ Restore(r) \/ Fail(r)
      BY <3>2 DEF Drained, Restore, Fail
    <3>3. CASE Reload(r)
      BY <3>3 DEF Reload, ReloadStrategy
    <3> QED BY <1>3, <3>1, <3>2, <3>3
  <2>4. \A u \in Tasks \ {r} : step'[u] = step[u] /\ target'[u] = target[u]
    BY <1>t, <1>g, <2>3
  <2> QED BY <1>t, <2>1, <2>2, <2>4, MoveKeepsAccount
<1>4. ASSUME NEW t \in Tasks, Unload(t) PROVE Accounted(s)'
  <2>1. Goto(t, "loading") /\ step[t] = "unloading"
    BY <1>4 DEF Unload
  <2>2. CASE target[t] = s
    <3>1. target'[t] = s /\ step'[t] = "loading"
      BY <1>g, <2>1, <2>2
    <3>2. BeingLoaded(s)'
      BY <3>1 DEF BeingLoaded
    <3> QED BY <3>2 DEF Accounted
  <2>3. CASE target[t] # s
    <3>1. strategyFiles'[s] = strategyFiles[s] /\ loadedStrategies'[s] = loadedStrategies[s]
      BY <1>4, <2>3 DEF Unload, UnloadStrategy, LoaderInv
    <3> QED BY <1>g, <1>4, <2>1, <2>3, <3>1, MoveKeepsAccount DEF Unload
  <2> QED BY <2>2, <2>3
<1>5. ASSUME NEW t \in Tasks, NEW ok, NEW failed, Load(t, ok, failed) PROVE Accounted(s)'
  <2>1. step[t] = "loading" /\ target[t] \in Strategies /\ LoadFromFile(target[t])
    BY <1>5 DEF Load, LoaderInv
  <2>2. CASE target[t] = s
    BY <1>5, <2>1, <2>2, LoadAccounts DEF Load
  <2>3. CASE target[t] # s
    <3>1. \A u \in Tasks \ {t} : step'[u] = step[u] /\ target'[u] = target[u]
      BY <1>g, <1>5 DEF Load
    <3>2. loadedStrategies'[s] = loadedStrategies[s] /\ (s \in reported => s \in reported')
      BY <2>1, <2>3 DEF LoadFromFile, LoaderInv
    <3> QED BY <1>5, <2>3, <3>1, <3>2, MoveKeepsAccount DEF Load
  <2> QED BY <2>2, <2>3
<1>6. ASSUME ProcessReloadQueue PROVE Accounted(s)'
  <2>1. \A t \in Tasks : step[t] # "queued" => step'[t] = step[t]
    <3>1. StartableCount \in Int /\ StartableCount <= Len(reloadQueue)
      BY HotReloadAssumption, FS_CardinalityType DEF StartableCount, QueueInv, Ordered
    <3>2. \A i \in 1..Len(reloadQueue) : reloadQueue[i] \in ToSet(reloadQueue)
      BY ToSetElements DEF QueueInv, Ordered
    <3>3. \A i \in 1..StartableCount : step[reloadQueue[i]] = "queued"
      BY <3>1, <3>2 DEF QueueInv
    <3> QED BY <1>6, <3>3 DEF ProcessReloadQueue
  <2> QED BY <1>6, <2>1 DEF ProcessReloadQueue, Accounted, BeingLoaded, YetToBeSeen
<1>7. ASSUME NEW w \in Strategies, Write(w) PROVE Accounted(s)'
  <2>1. changes \in Nat
    BY LoaderAssumption DEF LoaderInv
  <2>2. CASE w = s
    <3>1. changeTimeout' = s /\ disk'[s] = changes + 1 /\ strategyFiles' = strategyFiles
      BY <1>7, <2>2 DEF Write, LoaderInv
    <3>2. disk'[s] # None => strategyFiles'[s] # disk'[s]
      BY <2>1, <3>1 DEF LoaderInv
    <3> QED BY <3>1, <3>2 DEF Accounted, YetToBeSeen
  <2>3. CASE w # s
    <3>1. /\ disk'[s] = disk[s] /\ strategyFiles'[s] = strategyFiles[s]
          /\ loadedStrategies'[s] = loadedStrategies[s] /\ step' = step /\ target' = target
          /\ ToSet(loadingQueue)' = ToSet(loadingQueue) /\ beingLoaded' = beingLoaded
          /\ reported' = reported
      BY <1>7, <2>3 DEF Write, LoaderInv
    <3>2. (s \in overtaken => s \in overtaken') /\ (s = changeTimeout => s \in overtaken')
      BY <1>t, <1>7, <2>3 DEF Write
    <3> QED BY <3>1, <3>2 DEF Accounted, BeingLoaded, YetToBeSeen
  <2> QED BY <2>2, <2>3
<1>8. ASSUME NEW w \in Strategies, Unlink(w) PROVE Accounted(s)'
  <2>1. CASE w = s
    BY <1>8, <2>1 DEF Unlink, Accounted, LoaderInv
  <2>2. CASE w # s
    <3>1. /\ disk'[s] = disk[s] /\ strategyFiles'[s] = strategyFiles[s]
          /\ loadedStrategies'[s] = loadedStrategies[s]
      BY <1>8, <2>2 DEF Unlink, UnloadStrategy, LoaderInv
    <3> QED BY <1>8, <3>1 DEF Unlink, Accounted, BeingLoaded, YetToBeSeen
  <2> QED BY <2>1, <2>2
<1>9. ASSUME NEW h \in Handlers, HandleFileChange(h) PROVE Accounted(s)'
  <2>1. /\ target' = [target EXCEPT ![h] = changeTimeout] /\ step' = [step EXCEPT ![h] = "analyzing"]
        /\ UNCHANGED <<files, loading, overtaken, reported>> /\ step[h] = "idle"
    BY <1>9 DEF HandleFileChange
  <2>2. \A u \in Tasks : step[u] # "idle" => step'[u] = step[u] /\ target'[u] = target[u]
    BY <1>t, <2>1
  <2>3. s = changeTimeout => target'[h] = s /\ step'[h] = "analyzing"
    BY <1>t, <2>1
  <2>4. BeingLoaded(s) => BeingLoaded(s)'
    BY <2>1, <2>2 DEF BeingLoaded
  <2>5. YetToBeSeen(s) => YetToBeSeen(s)'
    BY <1>t, <2>1, <2>2, <2>3 DEF YetToBeSeen
  <2> QED BY <2>1, <2>4, <2>5 DEF Accounted
<1>10. ASSUME NEW h \in Handlers, Analyzed(h) PROVE Accounted(s)'
  <2>1. /\ step[h] = "analyzing" /\ UNCHANGED <<disk, loadedStrategies, watcher, loading, reported>>
        /\ \A u \in Tasks \ {h} : step'[u] = step[u] /\ target'[u] = target[u]
    BY <1>t, <1>g, <1>10 DEF Analyzed
  <2>2. CASE target[h] # s
    <3>1. strategyFiles'[s] = strategyFiles[s]
      BY <1>10, <2>2 DEF Analyzed, LoaderInv
    <3> QED BY <1>t, <2>1, <2>2, <3>1, MoveKeepsAccount
  <2>3. CASE target[h] = s /\ disk[s] # None /\ disk[s] # strategyFiles[s]
    <3>1. target'[h] = s /\ step'[h] \in {"unloading", "queueing"}
      BY <1>t, <1>g, <1>10, <2>3 DEF Analyzed
    <3>2. BeingLoaded(s)'
      BY <1>t, <3>1 DEF BeingLoaded
    <3> QED BY <3>2 DEF Accounted
  <2>4. CASE target[h] = s /\ disk[s] = None
    BY <2>1, <2>4 DEF Accounted
  <2>5. CASE target[h] = s /\ disk[s] = strategyFiles[s]
    <3>1. ~YetToBeSeen(s)
      BY <2>5 DEF YetToBeSeen
    <3>2. BeingLoaded(s) => BeingLoaded(s)'
      BY <2>1 DEF BeingLoaded
    <3> QED BY <2>1, <3>1, <3>2 DEF Accounted
  <2> QED BY <2>2, <2>3, <2>4, <2>5
<1>11. ASSUME NEW h \in Handlers, QueueLoad(h) PROVE Accounted(s)'
  <2>1. /\ step[h] = "queueing" /\ UNCHANGED <<files, watcher, reported>>
        /\ target[h] \in Strategies /\ beingLoaded' = beingLoaded
        /\ \A u \in Tasks \ {h} : step'[u] = step[u] /\ target'[u] = target[u]
    BY <1>t, <1>g, <1>11 DEF QueueLoad, LoaderInv
  <2>2. CASE disk[target[h]] = None
    <3>1. CASE target[h] = s
      BY <2>1, <2>2, <3>1 DEF Accounted
    <3>2. CASE target[h] # s
      BY <1>t, <1>11, <2>1, <2>2, <3>2, MoveKeepsAccount DEF QueueLoad
    <3> QED BY <3>1, <3>2
  <2>3. CASE disk[target[h]] # None
    <3>1. ToSet(loadingQueue') = ToSet(loadingQueue) \cup {target[h]}
      <4>1. loadingQueue' = Append(loadingQueue, target[h]) /\ loadingQueue \in Seq(Strategies)
        BY <1>11, <2>3 DEF QueueLoad, LoaderInv
      <4> QED BY <2>1, <4>1, LoadingQueueElements
    <3>2. CASE target[h] = s
      BY <3>1, <3>2 DEF Accounted, BeingLoaded
    <3>3. CASE target[h] # s
      BY <1>t, <2>1, <3>1, <3>3, MoveKeepsAccount
    <3> QED BY <3>2, <3>3
  <2> QED BY <2>2, <2>3
<1>12. ASSUME NEW h \in Handlers, WaitEnds(h) PROVE Accounted(s)'
  <2>1. /\ step[h] = "waiting" /\ UNCHANGED <<files, watcher, loading>> /\ reported \subseteq reported'
        /\ \A u \in Tasks \ {h} : step'[u] = step[u] /\ target'[u] = target[u]
    BY <1>t, <1>g, <1>12 DEF WaitEnds
  <2>2. CASE target[h] = s
    BY <1>12, <2>1, <2>2 DEF WaitEnds, Accounted
  <2>3. CASE target[h] # s
    BY <1>t, <2>1, <2>3, MoveKeepsAccount
  <2> QED BY <2>2, <2>3
<1>n. ASSUME NextOfQueue, s \in ToSet(loadingQueue)
      PROVE  s \in ToSet(loadingQueue') \cup {beingLoaded'}
  <2>1. loadingQueue \in Seq(Strategies)
    BY DEF LoaderInv
  <2>2. loadingQueue # <<>>
    BY <1>n DEF ToSet
  <2>3. ToSet(loadingQueue) = {Head(loadingQueue)} \cup ToSet(Tail(loadingQueue))
    BY <2>1, <2>2, LoadingQueueElements
  <2> QED BY <1>n, <2>2, <2>3 DEF NextOfQueue
<1>13. ASSUME ProcessLoadingQueue PROVE Accounted(s)'
  <2>1. s \in ToSet(loadingQueue) \cup {beingLoaded}
          => s \in ToSet(loadingQueue') \cup {beingLoaded'}
    BY <1>t, <1>n, <1>13 DEF ProcessLoadingQueue
  <2> QED BY <1>13, <2>1 DEF ProcessLoadingQueue, Accounted, BeingLoaded, YetToBeSeen
<1>14. ASSUME LoadOfQueue PROVE Accounted(s)'
  <2>1. LoadFromFile(beingLoaded) /\ NextOfQueue /\ beingLoaded \in Strategies
    BY <1>14 DEF LoadOfQueue, LoaderInv
  <2>2. CASE beingLoaded = s
    BY <1>14, <2>1, <2>2, LoadAccounts DEF LoadOfQueue
  <2>3. CASE beingLoaded # s
    <3>1. loadedStrategies'[s] = loadedStrategies[s] /\ (s \in reported => s \in reported')
      BY <2>1, <2>3 DEF LoadFromFile, LoaderInv
    <3>2. s \in ToSet(loadingQueue) \cup {beingLoaded}
            => s \in ToSet(loadingQueue') \cup {beingLoaded'}
      BY <1>n, <2>1, <2>3
    <3> QED BY <1>14, <3>1, <3>2 DEF LoadOfQueue, Accounted, BeingLoaded, YetToBeSeen
  <2> QED BY <2>2, <2>3
<1>15. ASSUME UNCHANGED vars PROVE Accounted(s)'
  BY <1>15 DEF vars, loaderVars, Accounted, BeingLoaded, YetToBeSeen
<1>16. ASSUME NEW r \in Requests, ReloadStep(r) PROVE Accounted(s)'
  BY <1>t, <1>3, <1>4, <1>5, <1>16 DEF ReloadStep
<1>17. ASSUME NEW h \in Handlers, HandlerStep(h) PROVE Accounted(s)'
  BY <1>t, <1>4, <1>5, <1>9, <1>10, <1>11, <1>12, <1>17 DEF HandlerStep
<1> QED BY <1>1, <1>2, <1>6, <1>7, <1>8, <1>13, <1>14, <1>15, <1>16, <1>17
        DEF Next, LoaderNext, Environment

-----------------------------------------------------------------------------
\* At first every strategy is loaded, nothing is queued, nobody is active.
LEMMA InitIInv == Init => IInv
<1> SUFFICES ASSUME Init PROVE IInv
  OBVIOUS
<1>1. LoaderInv
  <2>1. 0 \in 0..MaxChanges /\ 0 \in 0..0 /\ "idle" \in Steps
    BY LoaderAssumption DEF Steps
  <2>2. <<>> \in Seq(Strategies)
    OBVIOUS
  <2> QED BY <2>1, <2>2 DEF Init, LoaderInit, LoaderInv, Versions, NoStrategy
<1>2. QueueInv
  <2>1. Len(reloadQueue) = 0 /\ DOMAIN reloadQueue = {} /\ reloadQueue \in Seq(Requests) /\ 1..0 = {}
    BY DEF Init
  <2>2. Ordered(reloadQueue) /\ ToSet(reloadQueue) = {}
    BY <2>1 DEF Ordered, IsInjective, ToSet
  <2>3. \A r \in Requests : step[r] = "idle"
    BY DEF Init, LoaderInit, Tasks
  <2>4. ActiveReloads = {}
    BY <2>3 DEF ActiveReloads, ActiveSteps
  <2>5. IsFiniteSet(ActiveReloads) /\ Cardinality(ActiveReloads) <= MaxConcurrentReloads
    BY <2>4, FS_EmptySet, HotReloadAssumption
  <2> QED BY <2>2, <2>3, <2>5 DEF QueueInv, Init
<1>3. \A s \in Strategies : Accounted(s)
  BY DEF Init, LoaderInit, Accounted
<1> QED BY <1>1, <1>2, <1>3 DEF IInv

\* IInv is an invariant of HotReloadManager.
THEOREM Invariance == Spec => []IInv
<1>1. IInv /\ [Next]_vars => IInv'
  <2> SUFFICES ASSUME IInv, [Next]_vars PROVE IInv'
    OBVIOUS
  <2>1. LoaderInv /\ QueueInv /\ \A s \in Strategies : Accounted(s)
    BY DEF IInv
  <2>2. LoaderInv' /\ QueueInv'
    BY <2>1, LoaderStep, QueueStep
  <2>3. \A s \in Strategies : Accounted(s)'
    BY <2>1, AccountStep
  <2> QED BY <2>2, <2>3 DEF IInv
<1> QED BY InitIInv, <1>1, PTL DEF Spec

\* The types hold, the active reloads never exceed maxConcurrentReloads, and a
\* request is in reloadQueue, once, exactly while it is pending.
THEOREM TypeCorrectness == Spec => []TypeOK
<1>1. IInv => TypeOK
  BY DEF IInv, LoaderInv, QueueInv, Ordered, TypeOK
<1> QED BY Invariance, <1>1, PTL

\* The reload queue is by descending priority at all times, which is what lets
\* processReloadQueue take the next request from its head.
THEOREM UrgentFirst ==
  Spec => [](\A i, j \in 1..Len(reloadQueue) :
               i < j => PriorityOf(reloadQueue[i]) >= PriorityOf(reloadQueue[j]))
<1>1. IInv => \A i, j \in 1..Len(reloadQueue) :
                i < j => PriorityOf(reloadQueue[i]) >= PriorityOf(reloadQueue[j])
  BY DEF IInv, QueueInv, Ordered
<1> QED BY Invariance, <1>1, PTL

\* No strategy disappears silently.
THEOREM NoSilentUnloadAlways == Spec => []NoSilentUnload
<1>1. IInv => NoSilentUnload
  BY DEF IInv, Accounted, BeingLoaded, YetToBeSeen, NoSilentUnload, UnderWay
<1> QED BY Invariance, <1>1, PTL
=============================================================================

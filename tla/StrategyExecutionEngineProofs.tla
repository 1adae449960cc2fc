-------------------- MODULE StrategyExecutionEngineProofs --------------------
(***************************************************************************)
(* Proofs about StrategyExecutionEngine for every number of requests, size *)
(* of the queue and limit of concurrent executions.  What addToQueue makes *)
(* of a queue in order is proved first, for one request and, by a least    *)
(* counterexample, for any number of them; the inductive invariant IInv    *)
(* then says that the queue is in order and that nobody is in it twice.    *)
(***************************************************************************)
EXTENDS StrategyExecutionEngine, SequenceTheorems, FiniteSetTheorems,
        WellFoundedInduction, TLAPS

\* r was admitted before s, in the arrivals a.
Earlier(a, r, s) ==
  \E i, j \in 1..Len(a) : i < j /\ a[i] = r /\ a[j] = s

\* r starts before s.
Precedes(a, r, s) ==
  \/ Priority[r] > Priority[s]
  \/ Priority[r] = Priority[s] /\ Earlier(a, r, s)

\* A queue in order, without repetition.
InOrder(a, q) ==
  /\ q \in Seq(Requests)
  /\ IsInjective(q)
  /\ \A i, j \in 1..Len(q) : i < j => Precedes(a, q[i], q[j])

-----------------------------------------------------------------------------
\* Every set of natural numbers that is not empty has a least element.
LEMMA Least ==
  ASSUME NEW T \in SUBSET Nat, T # {}
  PROVE  \E m \in T : \A n \in T : m <= n
<1>1. ASSUME NEW R, R = OpToRel(<, Nat)
      PROVE  \E m \in T : \A y \in T : ~(<<y, m>> \in R)
  BY <1>1, NatLessThanWellFounded, WFMin
<1>2. \A x, y \in Nat : x < y => <<x, y>> \in OpToRel(<, Nat)
  BY DEF OpToRel
<1>3. \E m \in T : \A y \in T : ~(y < m)
  BY <1>1, <1>2, Zenon
<1> QED BY <1>3

\* The elements of a sequence.
LEMMA ToSetElements ==
  ASSUME NEW S, NEW s \in Seq(S)
  PROVE  /\ ToSet(s) = {s[i] : i \in 1..Len(s)}
         /\ ToSet(s) \subseteq S
         /\ Len(s) \in Nat /\ DOMAIN s = 1..Len(s)
BY DEF ToSet

\* t is q with r behind its first k elements.
IsInsertion(t, q, k, r) ==
  /\ Len(t) = Len(q) + 1
  /\ \A j \in 1..(Len(q) + 1) : t[j] = IF j <= k THEN q[j] ELSE IF j = k + 1 THEN r ELSE q[j - 1]

\* splice(k, 0, r): the first k stay, the others move up.
LEMMA InsertAtElements ==
  ASSUME NEW S, NEW q \in Seq(S), NEW r \in S, NEW k \in 0..Len(q)
  PROVE  InsertAt(q, k + 1, r) \in Seq(S) /\ IsInsertion(InsertAt(q, k + 1, r), q, k, r)
<1> DEFINE n == Len(q)
           u == SubSeq(q, 1, k)
           v == SubSeq(q, k + 1, n)
<1>1. n \in Nat /\ k \in Nat /\ k <= n /\ (k + 1) - 1 = k
  OBVIOUS
<1>2. u \in Seq(S) /\ Len(u) = k /\ \A i \in 1..k : u[i] = q[i]
  <2>1. \A i \in 1..k : q[i] \in S
    BY <1>1, ElementOfSeq
  <2>2. /\ u \in Seq(S) /\ Len(u) = IF 1 <= k THEN k - 1 + 1 ELSE 0
        /\ \A i \in 1..(k - 1 + 1) : u[i] = q[1 + i - 1]
    BY <1>1, <2>1, SubSeqProperties
  <2> QED BY <1>1, <2>2
<1>3. v \in Seq(S) /\ Len(v) = n - k /\ \A i \in 1..(n - k) : v[i] = q[k + i]
  <2>1. \A i \in (k + 1)..n : q[i] \in S
    BY <1>1, ElementOfSeq
  <2>2. /\ v \in Seq(S) /\ Len(v) = IF k + 1 <= n THEN n - (k + 1) + 1 ELSE 0
        /\ \A i \in 1..(n - (k + 1) + 1) : v[i] = q[(k + 1) + i - 1]
    BY <1>1, <2>1, SubSeqProperties
  <2> HIDE DEF v, n
  <2>3. n - (k + 1) + 1 = n - k /\ \A i \in 1..(n - k) : (k + 1) + i - 1 = k + i
    BY <1>1
  <2>4. Len(v) = n - k
    BY <1>1, <2>2
  <2>5. \A i \in 1..(n - k) : v[i] = q[k + i]
    BY <2>2, <2>3
  <2> QED BY <2>2, <2>4, <2>5
<1>4. InsertAt(q, k + 1, r) = u \o <<r>> \o v
  BY <1>1 DEF InsertAt
<1> HIDE DEF u, v, n
<1>5. /\ u \o <<r>> \in Seq(S) /\ Len(u \o <<r>>) = k + 1
      /\ \A i \in 1..(k + 1) : (u \o <<r>>)[i] = IF i <= k THEN u[i] ELSE r
  <2>1. <<r>> \in Seq(S) /\ Len(<<r>>) = 1 /\ <<r>>[1] = r
    OBVIOUS
  <2>2. /\ u \o <<r>> \in Seq(S) /\ Len(u \o <<r>>) = k + 1
        /\ \A i \in 1..(k + 1) : (u \o <<r>>)[i] = IF i <= k THEN u[i] ELSE <<r>>[i - k]
    BY <1>2, <2>1, ConcatProperties
  <2>3. \A i \in 1..(k + 1) : i <= k \/ i - k = 1
    BY <1>1
  <2> QED BY <2>1, <2>2, <2>3
<1>6. /\ u \o <<r>> \o v \in Seq(S) /\ Len(u \o <<r>> \o v) = n + 1
      /\ \A i \in 1..(n + 1) :
           (u \o <<r>> \o v)[i] = IF i <= k + 1 THEN (u \o <<r>>)[i] ELSE v[i - (k + 1)]
  BY <1>1, <1>3, <1>5, ConcatProperties
<1>7. ASSUME NEW j \in 1..(n + 1)
      PROVE  (u \o <<r>> \o v)[j] = IF j <= k THEN q[j] ELSE IF j = k + 1 THEN r ELSE q[j - 1]
  <2>1. CASE j <= k + 1
    BY <1>1, <1>2, <1>5, <1>6, <2>1
  <2>2. CASE ~(j <= k + 1)
    <3>1. j - (k + 1) \in 1..(n - k) /\ k + (j - (k + 1)) = j - 1
      BY <1>1, <2>2
    <3> QED BY <1>1, <1>3, <1>6, <2>2, <3>1, SMTT(30)
  <2> QED BY <2>1, <2>2
<1> DEFINE w == u \o <<r>> \o v
<1>8. /\ w \in Seq(S) /\ Len(w) = Len(q) + 1
      /\ \A j \in 1..(Len(q) + 1) :
           w[j] = IF j <= k THEN q[j] ELSE IF j = k + 1 THEN r ELSE q[j - 1]
  <2> HIDE DEF w
  <2>1. w \in Seq(S) /\ Len(w) = n + 1
    BY <1>6 DEF w
  <2>2. \A j \in 1..(n + 1) :
          w[j] = IF j <= k THEN q[j] ELSE IF j = k + 1 THEN r ELSE q[j - 1]
    BY <1>7 DEF w
  <2> QED BY <2>1, <2>2 DEF n
<1>9. InsertAt(q, k + 1, r) = w
  BY <1>4
<1> HIDE DEF w
<1> QED BY <1>8, <1>9 DEF IsInsertion

\* addToQueue walks past the first k items, whose priorities are high enough,
\* and stops at the end or at a lower priority.
LEMMA AheadIsPrefix ==
  ASSUME NEW q \in Seq(Requests), NEW r \in Requests
  PROVE  \E k \in 0..Len(q) :
           /\ Cardinality(Ahead(q, r)) = k
           /\ \A i \in 1..k : Priority[q[i]] >= Priority[r]
           /\ k < Len(q) => Priority[q[k + 1]] < Priority[r]
<1> DEFINE T == {n \in 0..Len(q) : n = Len(q) \/ Priority[q[n + 1]] < Priority[r]}
<1>1. /\ Len(q) \in Nat
      /\ Priority[r] \in Int /\ \A i \in 1..Len(q) : Priority[q[i]] \in Int
  BY EngineAssumption, ElementOfSeq
<1>2. PICK k \in T : \A n \in T : k <= n
  <2>1. T \in SUBSET Nat /\ Len(q) \in T
    BY <1>1
  <2> QED BY <2>1, Least
<1>3. k \in 0..Len(q) /\ (k < Len(q) => Priority[q[k + 1]] < Priority[r])
  BY <1>1, <1>2
<1>4. ASSUME NEW i \in 1..k PROVE Priority[q[i]] >= Priority[r]
  <2>1. i - 1 \in 0..Len(q) /\ i - 1 # Len(q) /\ ~(k <= i - 1) /\ (i - 1) + 1 = i /\ i \in 1..Len(q)
    BY <1>1, <1>3
  <2>2. i - 1 \notin T
    BY <1>2, <2>1
  <2>3. ~(Priority[q[i]] < Priority[r])
    BY <2>1, <2>2
  <2> QED BY <1>1, <2>1, <2>3
<1>5. Ahead(q, r) = 1..k
  <2>1. ASSUME NEW i \in 1..Len(q), \A j \in 1..i : Priority[q[j]] >= Priority[r]
        PROVE  i \in 1..k
    <3>1. CASE i > k
      <4>1. k + 1 \in 1..i /\ k < Len(q) /\ k + 1 \in 1..Len(q)
        BY <1>1, <1>3, <3>1
      <4> QED BY <1>1, <1>3, <2>1, <4>1
    <3> QED BY <1>1, <1>3, <3>1
  <2>2. ASSUME NEW i \in 1..k
        PROVE  i \in 1..Len(q) /\ \A j \in 1..i : Priority[q[j]] >= Priority[r]
    BY <1>1, <1>3, <1>4
  <2> QED BY <2>1, <2>2 DEF Ahead
<1>6. Cardinality(Ahead(q, r)) = k
  <2>1. Cardinality(1..k) = IF 1 > k THEN 0 ELSE k - 1 + 1
    BY <1>1, <1>3, FS_Interval
  <2> QED BY <1>1, <1>3, <1>5, <2>1
<1> QED BY <1>3, <1>4, <1>6

-----------------------------------------------------------------------------
\* addToQueue keeps a queue in order if the new request arrived last.
LEMMA AddToQueueInOrder ==
  ASSUME NEW a, NEW q, InOrder(a, q), NEW r \in Requests, r \notin ToSet(q),
         \A s \in ToSet(q) : Earlier(a, s, r)
  PROVE  /\ InOrder(a, AddToQueue(q, r))
         /\ Len(AddToQueue(q, r)) = Len(q) + 1
         /\ ToSet(AddToQueue(q, r)) = ToSet(q) \cup {r}
<1> DEFINE t == AddToQueue(q, r)
           n == Len(q)
<1>1. q \in Seq(Requests) /\ n \in Nat /\ DOMAIN q = 1..n /\ ToSet(q) = {q[i] : i \in 1..n}
  BY ToSetElements DEF InOrder
<1>2. PICK k \in 0..n : /\ Cardinality(Ahead(q, r)) = k
                        /\ \A i \in 1..k : Priority[q[i]] >= Priority[r]
                        /\ k < n => Priority[q[k + 1]] < Priority[r]
  BY <1>1, AheadIsPrefix
<1>3. /\ t \in Seq(Requests) /\ Len(t) = n + 1
      /\ \A j \in 1..(n + 1) : t[j] = IF j <= k THEN q[j] ELSE IF j = k + 1 THEN r ELSE q[j - 1]
  <2>1. t = InsertAt(q, k + 1, r)
    BY <1>2 DEF AddToQueue
  <2>2. InsertAt(q, k + 1, r) \in Seq(Requests) /\ IsInsertion(InsertAt(q, k + 1, r), q, k, r)
    <3>1. q \in Seq(Requests) /\ k \in 0..Len(q)
      BY <1>1, <1>2
    <3> QED BY ONLY <3>1, r \in Requests, InsertAtElements
  <2> HIDE DEF t
  <2>3. t \in Seq(Requests) /\ IsInsertion(t, q, k, r)
    BY <2>1, <2>2
  <2> QED BY <2>3 DEF IsInsertion
<1> HIDE DEF t, n
<1>4. /\ Priority[r] \in Int /\ \A i \in 1..n : Priority[q[i]] \in Int /\ q[i] # r /\ Earlier(a, q[i], r)
      /\ k \in Nat /\ k <= n
  BY <1>1, <1>2, EngineAssumption, ElementOfSeq DEF n
<1>5. \A i, j \in 1..n : q[i] = q[j] => i = j
  BY <1>1 DEF InOrder, IsInjective
<1>6. \A i, j \in 1..n : i < j => Precedes(a, q[i], q[j])
  BY DEF InOrder, n
<1>7. ToSet(t) = ToSet(q) \cup {r}
  <2>1. ToSet(t) = {t[i] : i \in 1..(n + 1)}
    BY <1>3, ToSetElements
  <2>2. ASSUME NEW i \in 1..n PROVE q[i] \in ToSet(t)
    <3>1. CASE i <= k
      <4>1. i \in 1..(n + 1) /\ t[i] = q[i]
        BY <1>1, <1>3, <3>1
      <4> QED BY <2>1, <4>1
    <3>2. CASE ~(i <= k)
      <4>1. i + 1 \in 1..(n + 1) /\ ~(i + 1 <= k) /\ i + 1 # k + 1 /\ (i + 1) - 1 = i
        BY <1>1, <1>4, <3>2
      <4>2. t[i + 1] = q[i]
        BY <1>3, <4>1
      <4> QED BY <2>1, <4>1, <4>2
    <3> QED BY <3>1, <3>2
  <2>3. r \in ToSet(t)
    <3>1. k + 1 \in 1..(n + 1) /\ t[k + 1] = r
      BY <1>1, <1>3, <1>4
    <3> QED BY <2>1, <3>1
  <2>4. ASSUME NEW j \in 1..(n + 1) PROVE t[j] \in ToSet(q) \cup {r}
    <3>1. CASE j <= k
      <4>1. j \in 1..n /\ t[j] = q[j]
        BY <1>1, <1>3, <1>4, <3>1
      <4> QED BY <1>1, <4>1
    <3>2. CASE j = k + 1
      BY <1>3, <1>4, <3>2
    <3>3. CASE ~(j <= k) /\ j # k + 1
      <4>1. j - 1 \in 1..n /\ t[j] = q[j - 1]
        BY <1>1, <1>3, <1>4, <3>3
      <4> QED BY <1>1, <4>1
    <3> QED BY <3>1, <3>2, <3>3
  <2> QED BY <1>1, <2>1, <2>2, <2>3, <2>4
<1>8. ASSUME NEW i \in 1..n
      PROVE  IF i <= k THEN Precedes(a, q[i], r) ELSE Precedes(a, r, q[i])
  <2>1. CASE i <= k
    <3>1. Priority[q[i]] >= Priority[r]
      BY <1>2, <2>1, <1>4
    <3> QED BY <1>4, <2>1, <3>1 DEF Precedes
  <2>2. CASE ~(i <= k)
    <3>1. k < n /\ k + 1 \in 1..n
      BY <1>1, <1>4, <2>2
    <3>2. Priority[q[k + 1]] < Priority[r]
      BY <1>2, <3>1
    <3>3. i = k + 1 \/ Precedes(a, q[k + 1], q[i])
      BY <1>4, <1>6, <2>2, <3>1
    <3>4. Priority[q[i]] <= Priority[q[k + 1]]
      BY <1>4, <3>1, <3>3 DEF Precedes
    <3>5. Priority[r] > Priority[q[i]]
      BY <1>4, <3>1, <3>2, <3>4
    <3> QED BY <2>2, <3>5 DEF Precedes
  <2> QED BY <2>1, <2>2
<1>9. ASSUME NEW i \in 1..(n + 1), NEW j \in 1..(n + 1), i < j
      PROVE  Precedes(a, t[i], t[j]) /\ t[i] # t[j]
  <2> DEFINE x == IF i <= k THEN i ELSE i - 1
             y == IF j <= k THEN j ELSE j - 1
  <2>1. CASE i # k + 1 /\ j # k + 1
    <3>1. x \in 1..n /\ y \in 1..n /\ x < y
      BY <1>1, <1>4, <1>9, <2>1
    <3>2. t[i] = q[x] /\ t[j] = q[y]
      BY <1>3, <2>1
    <3> QED BY <1>5, <1>6, <3>1, <3>2
  <2>2. CASE i = k + 1
    <3>1. j - 1 \in 1..n /\ ~(j - 1 <= k) /\ t[i] = r /\ t[j] = q[j - 1]
      BY <1>1, <1>3, <1>4, <1>9, <2>2
    <3> QED BY <1>4, <1>8, <3>1
  <2>3. CASE j = k + 1
    <3>1. i \in 1..n /\ i <= k /\ t[i] = q[i] /\ t[j] = r
      BY <1>1, <1>3, <1>4, <1>9, <2>3
    <3> QED BY <1>4, <1>8, <3>1
  <2> QED BY <2>1, <2>2, <2>3
<1>10. InOrder(a, t)
  <2>1. DOMAIN t = 1..(n + 1)
    BY <1>3
  <2>2. \A i, j \in 1..(n + 1) : i < j \/ j < i \/ i = j
    BY <1>1
  <2> QED BY <1>3, <1>9, <2>1, <2>2 DEF InOrder, IsInjective
<1> QED BY <1>3, <1>7, <1>10 DEF t, n

\* The recursive definition of Queued has a solution, built up to each n.
LEMMA QueuedEquation ==
  ASSUME NEW q, NEW rs \in Seq(Requests)
  PROVE  Queued(q, rs) =
           [i \in 0..Len(rs) |-> IF i = 0 THEN q ELSE AddToQueue(Queued(q, rs)[i - 1], rs[i])]
<1> DEFINE Solves(g, n) == g = [i \in 0..n |-> IF i = 0 THEN q ELSE AddToQueue(g[i - 1], rs[i])]
           T == {n \in Nat : ~ \E g : Solves(g, n)}
<1>1. T = {}
  <2> SUFFICES ASSUME T # {} PROVE FALSE
    OBVIOUS
  <2>1. PICK m \in T : \A n \in T : m <= n
    BY Least
  <2>2. CASE m = 0
    <3>1. Solves([i \in 0..0 |-> q], 0)
      OBVIOUS
    <3> QED BY <2>1, <2>2, <3>1
  <2>3. CASE m # 0
    <3>1. m - 1 \in Nat /\ m - 1 \notin T
      <4>1. m \in Nat
        BY <2>1
      <4>2. m - 1 \in Nat /\ ~(m <= m - 1)
        BY <2>3, <4>1
      <4> QED BY <2>1, <4>2, Zenon
    <3>2. PICK g : Solves(g, m - 1)
      BY <3>1
    <3> DEFINE h == [i \in 0..m |-> IF i = m THEN AddToQueue(g[m - 1], rs[m]) ELSE g[i]]
    <3>3. ASSUME NEW i \in 0..m
          PROVE  h[i] = IF i = 0 THEN q ELSE AddToQueue(h[i - 1], rs[i])
      <4>1. CASE i = m
        <5>1. h[m] = AddToQueue(g[m - 1], rs[m]) /\ h[m - 1] = g[m - 1]
          BY <2>3, <3>1
        <5> QED BY <2>3, <4>1, <5>1
      <4>2. CASE i # m
        <5>1. i \in 0..(m - 1) /\ h[i] = g[i]
          BY <3>1, <4>2
        <5>2. i # 0 => h[i - 1] = g[i - 1]
          BY <3>1, <4>2
        <5>3. g[i] = IF i = 0 THEN q ELSE AddToQueue(g[i - 1], rs[i])
          BY <3>2, <5>1
        <5> QED BY <5>1, <5>2, <5>3
      <4> QED BY <4>1, <4>2
    <3>4. Solves(h, m)
      BY <3>3
    <3> QED BY <2>1, <3>4
  <2> QED BY <2>2, <2>3
<1>2. \E g : Solves(g, Len(rs))
  <2>1. Len(rs) \in Nat
    OBVIOUS
  <2> QED BY <1>1, <2>1
<1>3. Queued(q, rs) = CHOOSE g : Solves(g, Len(rs))
  BY DEF Queued
<1>4. Solves(CHOOSE g : Solves(g, Len(rs)), Len(rs))
  BY <1>2
<1> QED BY <1>3, <1>4

\* Submitting several new requests keeps the queue in order, and adds them all.
LEMMA QueuedInOrder ==
  ASSUME NEW a \in Seq(Requests), NEW q, InOrder(a, q), ToSet(q) \subseteq ToSet(a),
         NEW rs \in Seq(Requests), IsInjective(rs), ToSet(a) \cap ToSet(rs) = {}
  PROVE  /\ InOrder(a \o rs, Queued(q, rs)[Len(rs)])
         /\ Len(Queued(q, rs)[Len(rs)]) = Len(q) + Len(rs)
         /\ ToSet(Queued(q, rs)[Len(rs)]) = ToSet(q) \cup ToSet(rs)
<1> DEFINE b == a \o rs
           Q(i) == Queued(q, rs)[i]
           Good(i) == /\ InOrder(b, Q(i))
                      /\ Len(Q(i)) = Len(q) + i
                      /\ ToSet(Q(i)) = ToSet(q) \cup {rs[j] : j \in 1..i}
           T == {i \in 0..Len(rs) : ~Good(i)}
<1>1. /\ q \in Seq(Requests) /\ Len(q) \in Nat /\ Len(rs) \in Nat /\ Len(a) \in Nat
      /\ ToSet(q) = {q[i] : i \in 1..Len(q)} /\ ToSet(a) = {a[i] : i \in 1..Len(a)}
      /\ ToSet(rs) = {rs[i] : i \in 1..Len(rs)}
      /\ \A i, j \in 1..Len(rs) : rs[i] = rs[j] => i = j
      /\ \A i \in 1..Len(rs) : rs[i] \in Requests
  <2>1. q \in Seq(Requests)
    BY DEF InOrder
  <2>2. \A i, j \in 1..Len(rs) : rs[i] = rs[j] => i = j
    BY ToSetElements DEF IsInjective
  <2> QED BY <2>1, <2>2, ToSetElements, ElementOfSeq
<1>2. /\ b \in Seq(Requests) /\ Len(b) = Len(a) + Len(rs)
      /\ \A i \in 1..Len(a) : b[i] = a[i]
      /\ \A i \in 1..Len(rs) : b[Len(a) + i] = rs[i]
  <2>1. /\ b \in Seq(Requests) /\ Len(b) = Len(a) + Len(rs)
        /\ \A i \in 1..(Len(a) + Len(rs)) : b[i] = IF i <= Len(a) THEN a[i] ELSE rs[i - Len(a)]
    BY ConcatProperties
  <2> HIDE DEF b
  <2>2. \A i \in 1..Len(a) : i \in 1..(Len(a) + Len(rs)) /\ i <= Len(a)
    BY <1>1
  <2>3. \A i \in 1..Len(rs) : /\ Len(a) + i \in 1..(Len(a) + Len(rs))
                              /\ ~(Len(a) + i <= Len(a)) /\ (Len(a) + i) - Len(a) = i
    BY <1>1
  <2> QED BY <2>1, <2>2, <2>3
<1> HIDE DEF b
<1>3. \A r, s : Precedes(a, r, s) => Precedes(b, r, s)
  <2>1. 1..Len(a) \subseteq 1..Len(b)
    BY <1>1, <1>2
  <2>2. \A r, s : Earlier(a, r, s) => Earlier(b, r, s)
    BY <1>2, <2>1 DEF Earlier
  <2> QED BY <2>2 DEF Precedes
<1>4. InOrder(b, q)
  BY <1>3 DEF InOrder
<1>5. ASSUME NEW i \in 1..Len(rs), NEW s \in ToSet(q) \cup {rs[j] : j \in 1..(i - 1)}
      PROVE  Earlier(b, s, rs[i]) /\ s # rs[i]
  <2>1. Len(a) + i \in 1..Len(b) /\ b[Len(a) + i] = rs[i]
    BY <1>1, <1>2
  <2>2. CASE s \in ToSet(q)
    <3>1. PICK x \in 1..Len(a) : a[x] = s
      <4>1. s \in {a[i_1] : i_1 \in 1..Len(a)}
        BY <1>1, <2>2, Zenon
      <4> QED BY <4>1
    <3>2. x \in 1..Len(b) /\ x < Len(a) + i /\ b[x] = s
      BY <1>1, <1>2, <3>1
    <3>3. s \in ToSet(a) /\ rs[i] \in ToSet(rs)
      BY <1>1, <2>2
    <3> QED BY <2>1, <3>2, <3>3 DEF Earlier
  <2>3. CASE s \in {rs[j] : j \in 1..(i - 1)}
    <3>1. PICK j \in 1..(i - 1) : rs[j] = s
      BY <2>3
    <3>2. j \in 1..Len(rs) /\ j # i /\ Len(a) + j < Len(a) + i
      BY <1>1
    <3>3. Len(a) + j \in 1..Len(b) /\ b[Len(a) + j] = s
      BY <1>1, <1>2, <3>1, <3>2
    <3> QED BY <1>1, <2>1, <3>1, <3>2, <3>3 DEF Earlier
  <2> QED BY <2>2, <2>3
<1>6. \A i \in 0..Len(rs) : Q(i) = IF i = 0 THEN q ELSE AddToQueue(Q(i - 1), rs[i])
  <2> DEFINE g == Queued(q, rs)
  <2>1. g = [i \in 0..Len(rs) |-> IF i = 0 THEN q ELSE AddToQueue(g[i - 1], rs[i])]
    BY QueuedEquation
  <2> HIDE DEF g
  <2>2. \A i \in 0..Len(rs) : g[i] = IF i = 0 THEN q ELSE AddToQueue(g[i - 1], rs[i])
    BY <2>1, Zenon
  <2> QED BY <2>2 DEF g
<1>7. T = {}
  <2> SUFFICES ASSUME T # {} PROVE FALSE
    OBVIOUS
  <2>1. PICK m \in T : \A n \in T : m <= n
    <3>1. T \in SUBSET Nat
      BY <1>1
    <3> QED BY <3>1, Least
  <2>2. m \in 0..Len(rs) /\ ~Good(m)
    BY <2>1
  <2>3. CASE m = 0
    <3>1. Q(0) = q /\ {rs[j] : j \in 1..0} = {}
      BY <1>1, <1>6
    <3>2. Good(0)
      BY <1>1, <1>4, <3>1
    <3> QED BY <2>2, <2>3, <3>2
  <2>4. CASE m # 0
    <3>1. m \in 1..Len(rs) /\ m - 1 \in 0..Len(rs) /\ m - 1 \notin T
      <4>1. m \in 1..Len(rs) /\ m - 1 \in 0..Len(rs) /\ ~(m <= m - 1)
        BY <1>1, <2>2, <2>4
      <4> QED BY <2>1, <4>1, Zenon
    <3>2. Good(m - 1) /\ Q(m) = AddToQueue(Q(m - 1), rs[m])
      BY <1>6, <2>4, <3>1
    <3>3. rs[m] \in Requests /\ \A s \in ToSet(Q(m - 1)) : Earlier(b, s, rs[m]) /\ s # rs[m]
      BY <1>1, <1>5, <3>1, <3>2
    <3> HIDE DEF Q
    <3>4. /\ InOrder(b, Q(m)) /\ Len(Q(m)) = Len(Q(m - 1)) + 1
          /\ ToSet(Q(m)) = ToSet(Q(m - 1)) \cup {rs[m]}
      <4>1. InOrder(b, Q(m - 1)) /\ rs[m] \notin ToSet(Q(m - 1))
        BY <3>2, <3>3
      <4> QED BY <3>2, <3>3, <4>1, AddToQueueInOrder
    <3>5. {rs[j] : j \in 1..m} = {rs[j] : j \in 1..(m - 1)} \cup {rs[m]}
      <4>1. \A j \in 1..m : j \in 1..(m - 1) \/ j = m
        BY <3>1
      <4>2. m \in 1..m /\ \A j \in 1..(m - 1) : j \in 1..m
        BY <3>1
      <4> QED BY <4>1, <4>2
    <3>6. Len(Q(m)) = Len(q) + m
      BY <1>1, <3>1, <3>2, <3>4
    <3>7. Good(m)
      BY <3>2, <3>4, <3>5, <3>6
    <3> QED BY <2>2, <3>7
  <2> QED BY <2>3, <2>4
<1>8. Good(Len(rs))
  <2>1. Len(rs) \in 0..Len(rs) /\ Len(rs) \notin T
    <3>1. Len(rs) \in 0..Len(rs)
      BY <1>1
    <3> QED BY <1>7, <3>1, Zenon
  <2> QED BY <2>1
<1> QED BY <1>1, <1>8 DEF b

\* shift(): who leaves the queue precedes everyone who stays in it.
LEMMA TailInOrder ==
  ASSUME NEW a, NEW q, InOrder(a, q), q # <<>>
  PROVE  /\ InOrder(a, Tail(q))
         /\ Head(q) \in Requests /\ Head(q) \in ToSet(q)
         /\ ToSet(Tail(q)) = ToSet(q) \ {Head(q)}
         /\ Len(Tail(q)) < Len(q)
         /\ \A s \in ToSet(Tail(q)) : Precedes(a, Head(q), s)
<1> DEFINE t == Tail(q)
<1>1. /\ q \in Seq(Requests) /\ Len(q) \in Nat \ {0} /\ t \in Seq(Requests)
      /\ Len(t) = Len(q) - 1 /\ \A i \in 1..(Len(q) - 1) : t[i] = q[i + 1]
      /\ Head(q) = q[1] /\ Head(q) \in Requests
  BY HeadTailProperties, EmptySeq DEF InOrder
<1>2. /\ ToSet(q) = {q[i] : i \in 1..Len(q)} /\ DOMAIN q = 1..Len(q)
      /\ ToSet(t) = {t[i] : i \in 1..(Len(q) - 1)} /\ DOMAIN t = 1..(Len(q) - 1)
  BY <1>1, ToSetElements
<1> HIDE DEF t
<1>3. /\ \A i, j \in 1..Len(q) : q[i] = q[j] => i = j
      /\ \A i, j \in 1..Len(q) : i < j => Precedes(a, q[i], q[j])
  BY <1>2 DEF InOrder, IsInjective
<1>4. \A i \in 1..(Len(q) - 1) : i + 1 \in 1..Len(q) /\ 1 < i + 1 /\ 1 \in 1..Len(q)
  BY <1>1
<1>5. InOrder(a, t)
  <2>1. \A i, j \in 1..(Len(q) - 1) : t[i] = t[j] => i = j
    <3>1. \A i, j \in 1..(Len(q) - 1) : i + 1 = j + 1 => i = j
      BY <1>1
    <3> QED BY <1>1, <1>3, <1>4, <3>1
  <2>2. \A i, j \in 1..(Len(q) - 1) : i < j => Precedes(a, t[i], t[j])
    <3>1. \A i, j \in 1..(Len(q) - 1) : i < j => i + 1 < j + 1
      BY <1>1
    <3> QED BY <1>1, <1>3, <1>4, <3>1
  <2> QED BY <1>1, <1>2, <2>1, <2>2 DEF InOrder, IsInjective
<1>6. ToSet(t) = ToSet(q) \ {Head(q)}
  <2>1. \A i \in 1..(Len(q) - 1) : t[i] \in ToSet(q) /\ t[i] # q[1]
    BY <1>1, <1>2, <1>3, <1>4
  <2>2. ASSUME NEW i \in 1..Len(q), q[i] # q[1] PROVE q[i] \in ToSet(t)
    <3>1. i - 1 \in 1..(Len(q) - 1) /\ (i - 1) + 1 = i
      BY <1>1, <2>2
    <3> QED BY <1>1, <1>2, <3>1
  <2> QED BY <1>1, <1>2, <2>1, <2>2
<1>7. \A s \in ToSet(t) : Precedes(a, Head(q), s)
  BY <1>1, <1>2, <1>3, <1>4
<1>8. Len(t) < Len(q) /\ Head(q) \in ToSet(q)
  BY <1>1, <1>2
<1> QED BY <1>1, <1>5, <1>6, <1>7, <1>8 DEF t

-----------------------------------------------------------------------------
\* Who is queued was admitted, and who was admitted is not new any more.
ArrivalInv ==
  /\ ToSet(executionQueue) \subseteq ToSet(arrivals)
  /\ \A r \in ToSet(arrivals) : fate[r] # "new"

\* What executeBatch has not reached yet is new.
BatchInv == \A i \in 1..Len(Batch) : i > batched => fate[Batch[i]] = "new"

\* The intervals of the suspended calls of initialize() are still to be counted,
\* next to the one that start() may have added.
InitializingInv == queueProcessor + initializing <= MaxInits + 1

IInv ==
  /\ TypeOK
  /\ NoLostPromise
  /\ BreakerMatchesFailures
  /\ InOrder(arrivals, executionQueue)
  /\ ArrivalInv
  /\ BatchInv
  /\ InitializingInv

\* A new engine: nothing is queued, nothing was admitted.
LEMMA InitIInv == Init => IInv
<1> SUFFICES ASSUME Init PROVE IInv
  OBVIOUS
<1> USE DEF Init
<1>1. /\ Len(<<>>) = 0 /\ ToSet(<<>>) = {} /\ <<>> \in Seq(Requests)
      /\ IsInjective(<<>>)
  BY EmptySeq DEF ToSet, IsInjective
<1>2. /\ Cardinality({}) = 0 /\ Len(Batch) \in Nat /\ Batch \in Seq(Requests)
      /\ MaxQueueSize \in Nat /\ MaxConcurrent \in Nat /\ Threshold \in Nat /\ 0 < Threshold
      /\ MaxInits \in Nat /\ MaxStops \in Nat
  BY FS_EmptySet, EngineAssumption
<1>3. TypeOK
  <2>1. /\ status \in EngineStatuses /\ fate \in [Requests -> Fates]
        /\ executionQueue \in Seq(Requests) /\ Len(executionQueue) <= MaxQueueSize
        /\ arrivals \in Seq(Requests)
    BY <1>1, <1>2 DEF EngineStatuses, Fates
  <2>2. /\ activeExecutions \subseteq Requests /\ Cardinality(activeExecutions) <= MaxConcurrent
        /\ executionResults \subseteq Requests /\ overdue \subseteq Requests
        /\ batched \in 0..Len(Batch)
    BY <1>2
  <2>3. breaker \in [state : {"closed", "open", "half-open"}, failures : 0..Threshold]
    BY <1>2
  <2>4. processors \subseteq 1..(MaxInits + 1) /\ queueProcessor \in 0..(MaxInits + 1)
    BY <1>2
  <2>5. stops \in 0..MaxStops /\ initializing \in 0..MaxInits
        /\ stopWaits \in [1..MaxStops -> (SUBSET Requests) \cup {NotStopping}]
    BY <1>2
  <2>6. retryDue \in BOOLEAN
    BY Zenon
  <2> QED BY <2>1, <2>2, <2>3, <2>4, <2>5, <2>6 DEF TypeOK
<1>4. NoLostPromise /\ BreakerMatchesFailures
  BY <1>1, <1>2 DEF NoLostPromise, BreakerMatchesFailures
<1>5. InOrder(arrivals, executionQueue) /\ ArrivalInv
  BY <1>1 DEF InOrder, ArrivalInv
<1>6. BatchInv /\ InitializingInv
  <2>1. \A i \in 1..Len(Batch) : Batch[i] \in Requests
    BY <1>2, ElementOfSeq
  <2> QED BY <1>2, <2>1 DEF BatchInv, InitializingInv
<1> QED BY <1>3, <1>4, <1>5, <1>6 DEF IInv

-----------------------------------------------------------------------------
\* canExecute() leaves closed exactly the breaker with few failures.
LEMMA BreakerAskedStep ==
  ASSUME IInv, BreakerAsked
  PROVE  /\ breaker' \in [state : {"closed", "open", "half-open"}, failures : 0..Threshold]
         /\ BreakerMatchesFailures'
BY DEF IInv, TypeOK, BreakerAsked, BreakerMatchesFailures

\* So does the result of an execution, however late it comes.
LEMMA BreakerResultStep ==
  ASSUME IInv, OnSuccess \/ OnFailure
  PROVE  /\ breaker' \in [state : {"closed", "open", "half-open"}, failures : 0..Threshold]
         /\ BreakerMatchesFailures'
<1>1. /\ Threshold \in Nat \ {0}
      /\ breaker \in [state : {"closed", "open", "half-open"}, failures : 0..Threshold]
      /\ breaker.state = "closed" <=> breaker.failures < Threshold
  BY EngineAssumption DEF IInv, TypeOK, BreakerMatchesFailures
<1>2. CASE OnSuccess
  <2>1. CASE breaker.state = "half-open"
    <3>1. breaker' = [state |-> "closed", failures |-> 0]
      BY <1>2, <2>1 DEF OnSuccess
    <3> QED BY <1>1, <3>1 DEF BreakerMatchesFailures
  <2>2. CASE breaker.state # "half-open"
    BY <1>1, <1>2, <2>2 DEF OnSuccess, BreakerMatchesFailures
  <2> QED BY <2>1, <2>2
<1>3. CASE OnFailure
  <2>1. PICK n : /\ n = IF breaker.failures < Threshold THEN breaker.failures + 1 ELSE Threshold
                 /\ breaker' = [state |-> IF n >= Threshold THEN "open" ELSE breaker.state,
                                failures |-> n]
    BY <1>3 DEF OnFailure
  <2>2. n \in 0..Threshold /\ (~(n >= Threshold) => breaker.failures < Threshold /\ n < Threshold)
    BY <1>1, <2>1
  <2>3. breaker'.state = (IF n >= Threshold THEN "open" ELSE breaker.state) /\ breaker'.failures = n
    BY <2>1
  <2>4. breaker'.state \in {"closed", "open", "half-open"}
    BY <1>1, <2>3
  <2>5. breaker' \in [state : {"closed", "open", "half-open"}, failures : 0..Threshold]
    BY <2>1, <2>2, <2>3, <2>4
  <2>6. breaker'.state = "closed" <=> breaker'.failures < Threshold
    BY <1>1, <2>2, <2>3
  <2> QED BY <2>5, <2>6 DEF BreakerMatchesFailures
<1> QED BY <1>2, <1>3

\* New requests are refused or queued; no other promise is touched.
LEMMA SubmitStep ==
  ASSUME IInv, NEW rs \in Seq(Requests), IsInjective(rs),
         \A r \in ToSet(rs) : fate[r] = "new",
         Submit(rs), activeExecutions' = activeExecutions
  PROVE  /\ executionQueue' \in Seq(Requests) /\ Len(executionQueue') <= MaxQueueSize
         /\ fate' \in [Requests -> Fates]
         /\ arrivals' \in Seq(Requests)
         /\ breaker' \in [state : {"closed", "open", "half-open"}, failures : 0..Threshold]
         /\ NoLostPromise' /\ BreakerMatchesFailures' /\ ArrivalInv'
         /\ InOrder(arrivals, executionQueue)'
         /\ \A r \in Requests : r \notin ToSet(rs) => fate'[r] = fate[r]
         /\ \A r \in ToSet(rs) : fate'[r] \in {"pending", "refused"}
<1> DEFINE free == IF MaxQueueSize > Len(executionQueue)
                   THEN MaxQueueSize - Len(executionQueue) ELSE 0
           n    == IF Admits THEN (IF free < Len(rs) THEN free ELSE Len(rs)) ELSE 0
<1>1. /\ executionQueue \in Seq(Requests) /\ Len(executionQueue) \in Nat
      /\ Len(executionQueue) <= MaxQueueSize /\ MaxQueueSize \in Nat
      /\ arrivals \in Seq(Requests) /\ fate \in [Requests -> Fates]
      /\ Len(rs) \in Nat /\ ToSet(rs) = {rs[i] : i \in 1..Len(rs)} /\ ToSet(rs) \subseteq Requests
      /\ ToSet(executionQueue) \subseteq Requests /\ ToSet(arrivals) \subseteq Requests
  BY EngineAssumption, ToSetElements DEF IInv, TypeOK
<1>2. n \in 0..Len(rs) /\ Len(executionQueue) + n <= MaxQueueSize
  BY <1>1
<1>3. PICK ad \in Seq(Requests) :
        /\ executionQueue' = Queued(executionQueue, ad)[Len(ad)]
        /\ arrivals' = arrivals \o ad
        /\ fate' = [r \in Requests |-> IF r \in ToSet(ad) THEN "pending"
                                       ELSE IF r \in ToSet(rs) THEN "refused" ELSE fate[r]]
        /\ Len(ad) = n /\ \A i \in 1..n : ad[i] = rs[i]
  <2>1. CASE Admits
    <3> DEFINE ad == SubSeq(rs, 1, n)
    <3>1. /\ ad \in Seq(Requests) /\ Len(ad) = (IF 1 <= n THEN n - 1 + 1 ELSE 0)
          /\ \A i \in 1..(n - 1 + 1) : ad[i] = rs[1 + i - 1]
      <4>1. \A i \in 1..n : rs[i] \in Requests
        BY <1>1, <1>2, ElementOfSeq
      <4>2. 1 \in Int /\ n \in Int
        BY <1>2
      <4> HIDE DEF n
      <4> QED BY <4>1, <4>2, SubSeqProperties
    <3>2. Len(ad) = n /\ \A i \in 1..n : ad[i] = rs[i]
      <4> HIDE DEF n, ad
      <4> QED BY <1>1, <1>2, <3>1
    <3>3. /\ executionQueue' = Queued(executionQueue, ad)[Len(ad)]
          /\ arrivals' = arrivals \o ad
          /\ fate' = [r \in Requests |-> IF r \in ToSet(ad) THEN "pending"
                                         ELSE IF r \in ToSet(rs) THEN "refused" ELSE fate[r]]
      BY <2>1 DEF Submit
    <3> QED BY <3>1, <3>2, <3>3
  <2>2. CASE ~Admits
    <3>1. /\ executionQueue' = Queued(executionQueue, <<>>)[Len(<<>>)]
          /\ arrivals' = arrivals \o <<>>
          /\ fate' = [r \in Requests |-> IF r \in ToSet(<<>>) THEN "pending"
                                         ELSE IF r \in ToSet(rs) THEN "refused" ELSE fate[r]]
      BY <2>2 DEF Submit
    <3>2. n = 0 /\ Len(<<>>) = 0 /\ <<>> \in Seq(Requests)
      BY <2>2, EmptySeq
    <3> DEFINE ad == <<>>
    <3>3. Len(ad) = n /\ \A i \in 1..n : ad[i] = rs[i]
      BY <3>2
    <3> HIDE DEF n
    <3> QED BY <3>1, <3>2, <3>3, Zenon
  <2> QED BY <2>1, <2>2
<1> HIDE DEF n, free
<1>4. ToSet(ad) = {ad[i] : i \in 1..n} /\ ToSet(ad) \subseteq ToSet(rs) /\ DOMAIN ad = 1..n
      /\ ToSet(ad) \subseteq Requests
  <2>1. ToSet(ad) = {ad[i] : i \in 1..n} /\ DOMAIN ad = 1..n
    BY <1>3, ToSetElements
  <2>2. \A i \in 1..n : ad[i] \in ToSet(rs)
    <3>1. \A i \in 1..n : i \in 1..Len(rs)
      BY <1>1, <1>2
    <3> QED BY <1>1, <1>3, <3>1
  <2> QED BY <1>1, <2>1, <2>2
<1>5. IsInjective(ad) /\ ToSet(arrivals) \cap ToSet(ad) = {}
  <2>1. \A i, j \in 1..Len(rs) : rs[i] = rs[j] => i = j
    BY ToSetElements DEF IsInjective
  <2>2. \A i \in 1..n : i \in 1..Len(rs)
    BY <1>1, <1>2
  <2>3. \A i, j \in 1..n : ad[i] = ad[j] => i = j
    BY <1>3, <2>1, <2>2
  <2>4. ToSet(arrivals) \cap ToSet(ad) = {}
    BY <1>4 DEF IInv, ArrivalInv
  <2> QED BY <1>4, <2>3, <2>4 DEF IsInjective
<1>6. /\ InOrder(arrivals', executionQueue')
      /\ Len(executionQueue') = Len(executionQueue) + n
      /\ ToSet(executionQueue') = ToSet(executionQueue) \cup ToSet(ad)
  <2>1. /\ InOrder(arrivals, executionQueue)
        /\ ToSet(executionQueue) \subseteq ToSet(arrivals)
    BY DEF IInv, ArrivalInv
  <2>2. /\ InOrder(arrivals \o ad, Queued(executionQueue, ad)[Len(ad)])
        /\ Len(Queued(executionQueue, ad)[Len(ad)]) = Len(executionQueue) + Len(ad)
        /\ ToSet(Queued(executionQueue, ad)[Len(ad)]) = ToSet(executionQueue) \cup ToSet(ad)
    BY ONLY <1>1, <1>5, <2>1, ad \in Seq(Requests), QueuedInOrder
  <2> QED BY <1>3, <2>2
<1>7. arrivals' \in Seq(Requests) /\ ToSet(arrivals') = ToSet(arrivals) \cup ToSet(ad)
  <2> DEFINE b == arrivals \o ad
  <2>1. /\ b \in Seq(Requests) /\ Len(b) = Len(arrivals) + n
        /\ \A i \in 1..(Len(arrivals) + n) :
             b[i] = IF i <= Len(arrivals) THEN arrivals[i] ELSE ad[i - Len(arrivals)]
    BY <1>1, <1>3, ConcatProperties
  <2> HIDE DEF b
  <2>2. Len(arrivals) \in Nat /\ n \in Nat
    BY <1>1, <1>2
  <2>3. /\ ToSet(b) = {b[i] : i \in 1..(Len(arrivals) + n)}
        /\ ToSet(arrivals) = {arrivals[i] : i \in 1..Len(arrivals)}
    BY <1>1, <2>1, ToSetElements
  <2>4. ASSUME NEW i \in 1..(Len(arrivals) + n) PROVE b[i] \in ToSet(arrivals) \cup ToSet(ad)
    <3>1. CASE i <= Len(arrivals)
      <4>1. i \in 1..Len(arrivals) /\ b[i] = arrivals[i]
        BY <2>1, <2>2, <3>1
      <4> QED BY <2>3, <4>1
    <3>2. CASE ~(i <= Len(arrivals))
      <4>1. i - Len(arrivals) \in 1..n /\ b[i] = ad[i - Len(arrivals)]
        BY <2>1, <2>2, <3>2
      <4> QED BY <1>4, <4>1
    <3> QED BY <3>1, <3>2
  <2>5. ASSUME NEW i \in 1..Len(arrivals) PROVE arrivals[i] \in ToSet(b)
    <3>1. i \in 1..(Len(arrivals) + n) /\ b[i] = arrivals[i]
      BY <2>1, <2>2
    <3> QED BY <2>3, <3>1
  <2>6. ASSUME NEW i \in 1..n PROVE ad[i] \in ToSet(b)
    <3>1. /\ Len(arrivals) + i \in 1..(Len(arrivals) + n)
          /\ ~(Len(arrivals) + i <= Len(arrivals)) /\ (Len(arrivals) + i) - Len(arrivals) = i
      BY <2>2
    <3>2. b[Len(arrivals) + i] = ad[i]
      BY <2>1, <3>1
    <3> QED BY <2>3, <3>1, <3>2
  <2>7. ToSet(b) = ToSet(arrivals) \cup ToSet(ad)
    BY <1>4, <2>3, <2>4, <2>5, <2>6
  <2> QED BY <1>3, <2>1, <2>7 DEF b
<1>8. \A r \in Requests : fate'[r] = IF r \in ToSet(ad) THEN "pending"
                                     ELSE IF r \in ToSet(rs) THEN "refused" ELSE fate[r]
  BY <1>3
<1>9. executionQueue' \in Seq(Requests) /\ Len(executionQueue') <= MaxQueueSize
  BY <1>2, <1>6 DEF InOrder
<1>10. fate' \in [Requests -> Fates]
  BY <1>1, <1>3 DEF Fates
<1>11. NoLostPromise'
  <2>1. IsInjective(executionQueue')
    BY <1>6 DEF InOrder
  <2>2. /\ ToSet(executionQueue) \cap activeExecutions = {}
        /\ ToSet(executionQueue) \cup activeExecutions = {r \in Requests : fate[r] = "pending"}
    BY DEF IInv, NoLostPromise
  <2>3. \A r \in ToSet(rs) : fate[r] # "pending"
    OBVIOUS
  <2>4. ToSet(executionQueue') \cap activeExecutions = {}
    BY <1>4, <1>6, <2>2, <2>3
  <2>5. ToSet(executionQueue') \cup activeExecutions = {r \in Requests : fate'[r] = "pending"}
    BY <1>4, <1>6, <1>8, <2>2, <2>3
  <2> QED BY <2>1, <2>4, <2>5 DEF NoLostPromise
<1>12. ArrivalInv'
  <2>1. \A r \in ToSet(arrivals) : fate'[r] # "new"
    BY <1>1, <1>8 DEF IInv, ArrivalInv
  <2>2. \A r \in ToSet(ad) : fate'[r] # "new"
    BY <1>4, <1>8
  <2> QED BY <1>6, <1>7, <2>1, <2>2 DEF IInv, ArrivalInv
<1>13. /\ breaker' \in [state : {"closed", "open", "half-open"}, failures : 0..Threshold]
       /\ BreakerMatchesFailures'
  BY BreakerAskedStep DEF Submit
<1>14. /\ \A r \in Requests : r \notin ToSet(rs) => fate'[r] = fate[r]
       /\ \A r \in ToSet(rs) : fate'[r] \in {"pending", "refused"}
  BY <1>1, <1>4, <1>8
<1> QED BY <1>6, <1>7, <1>9, <1>10, <1>11, <1>12, <1>13, <1>14

-----------------------------------------------------------------------------
\* Steps after which the same promises are pending, in the same queue.
LEMMA RequestsKept ==
  ASSUME IInv, UNCHANGED <<executionQueue, activeExecutions, fate, arrivals, batched>>
  PROVE  NoLostPromise' /\ InOrder(arrivals, executionQueue)' /\ ArrivalInv' /\ BatchInv'
BY DEF IInv, NoLostPromise, ArrivalInv, BatchInv, InOrder

\* Steps that only settle pending promises.
OnlyPendingSettle ==
  \A r \in Requests : /\ fate[r] # "pending" => fate'[r] = fate[r]
                      /\ fate[r] = "pending" => fate'[r] # "new"

LEMMA PendingStep ==
  ASSUME IInv, OnlyPendingSettle, UNCHANGED <<arrivals, batched>>,
         ToSet(executionQueue') \subseteq ToSet(executionQueue)
  PROVE  ArrivalInv' /\ BatchInv'
<1>1. \A r \in ToSet(arrivals) : r \in Requests
  BY ToSetElements DEF IInv, TypeOK
<1>2. \A i \in 1..Len(Batch) : Batch[i] \in Requests
  BY EngineAssumption, ElementOfSeq
<1>3. ArrivalInv'
  BY <1>1 DEF IInv, ArrivalInv, OnlyPendingSettle
<1>4. BatchInv'
  BY <1>2 DEF IInv, BatchInv, OnlyPendingSettle
<1> QED BY <1>3, <1>4

\* A batch submits the requests from the first new one on.
LEMMA BatchSlice ==
  ASSUME IInv, NEW last \in batched..Len(Batch)
  PROVE  /\ SubSeq(Batch, batched + 1, last) \in Seq(Requests)
         /\ IsInjective(SubSeq(Batch, batched + 1, last))
         /\ ToSet(SubSeq(Batch, batched + 1, last)) = {Batch[i] : i \in (batched + 1)..last}
         /\ \A r \in ToSet(SubSeq(Batch, batched + 1, last)) : fate[r] = "new"
<1> DEFINE s == SubSeq(Batch, batched + 1, last)
<1>1. /\ Batch \in Seq(Requests) /\ Len(Batch) \in Nat /\ batched \in 0..Len(Batch)
      /\ \A i, j \in 1..Len(Batch) : Batch[i] = Batch[j] => i = j
      /\ \A i \in 1..Len(Batch) : Batch[i] \in Requests
  BY EngineAssumption, ToSetElements, ElementOfSeq DEF IInv, TypeOK, IsInjective
<1>2. /\ s \in Seq(Requests)
      /\ Len(s) = last - batched
      /\ \A i \in 1..(last - batched) : s[i] = Batch[batched + i]
  <2>1. \A i \in (batched + 1)..last : Batch[i] \in Requests
    BY <1>1
  <2>2. batched + 1 \in Int /\ last \in Int
    BY <1>1
  <2>3. /\ s \in Seq(Requests)
        /\ Len(s) = IF batched + 1 <= last THEN last - (batched + 1) + 1 ELSE 0
        /\ \A i \in 1..(last - (batched + 1) + 1) : s[i] = Batch[(batched + 1) + i - 1]
    BY <2>1, <2>2, SubSeqProperties
  <2> HIDE DEF s
  <2>4. \A i \in 1..(last - batched) :
          i \in 1..(last - (batched + 1) + 1) /\ (batched + 1) + i - 1 = batched + i
    BY <1>1
  <2>5. Len(s) = last - batched
    BY <1>1, <2>3
  <2> QED BY <2>3, <2>4, <2>5
<1> HIDE DEF s
<1>3. last - batched \in Nat /\ \A i \in 1..(last - batched) : batched + i \in 1..Len(Batch)
  BY <1>1
<1>4. /\ DOMAIN s = 1..(last - batched)
      /\ ToSet(s) = {s[i] : i \in 1..(last - batched)}
  BY <1>2, ToSetElements
<1>5. IsInjective(s)
  <2>1. \A i, j \in 1..(last - batched) : batched + i = batched + j => i = j
    BY <1>1
  <2>2. ASSUME NEW i \in 1..(last - batched), NEW j \in 1..(last - batched), s[i] = s[j]
        PROVE  i = j
    <3>1. Batch[batched + i] = Batch[batched + j]
      BY <1>2, <2>2
    <3>2. batched + i = batched + j
      BY <1>1, <1>3, <3>1
    <3> QED BY <2>1, <3>2
  <2> QED BY <1>4, <2>2 DEF IsInjective
<1>6. ToSet(s) = {Batch[i] : i \in (batched + 1)..last}
  <2>1. \A i \in 1..(last - batched) : batched + i \in (batched + 1)..last
    BY <1>1
  <2>2. \A i \in (batched + 1)..last : i - batched \in 1..(last - batched) /\ batched + (i - batched) = i
    BY <1>1
  <2>3. ASSUME NEW i \in (batched + 1)..last PROVE Batch[i] \in ToSet(s)
    <3>1. s[i - batched] = Batch[i]
      BY <1>2, <2>2
    <3> QED BY <1>4, <2>2, <3>1
  <2>4. ASSUME NEW i \in 1..(last - batched) PROVE s[i] \in {Batch[j] : j \in (batched + 1)..last}
    BY <1>2, <2>1
  <2> QED BY <1>4, <2>3, <2>4
<1>7. \A i \in (batched + 1)..last : fate[Batch[i]] = "new"
  <2>1. \A i \in (batched + 1)..last : i \in 1..Len(Batch) /\ i > batched
    BY <1>1
  <2> QED BY <2>1 DEF IInv, BatchInv
<1> QED BY <1>2, <1>5, <1>6, <1>7 DEF s

LEMMA ExecuteTradeDecisionStep ==
  ASSUME IInv, NEW r \in Requests, ExecuteTradeDecision(r)
  PROVE  IInv'
<1>1. /\ <<r>> \in Seq(Requests) /\ IsInjective(<<r>>) /\ ToSet(<<r>>) = {r}
      /\ fate[r] = "new" /\ r \notin ToSet(Batch)
  BY DEF ExecuteTradeDecision, IsInjective, ToSet
<1>2. Submit(<<r>>) /\ UNCHANGED <<activeExecutions, executionResults, batched, retryDue, controlVars, overdue>>
  BY DEF ExecuteTradeDecision
<1>3. /\ executionQueue' \in Seq(Requests) /\ Len(executionQueue') <= MaxQueueSize
      /\ fate' \in [Requests -> Fates]
      /\ arrivals' \in Seq(Requests)
      /\ breaker' \in [state : {"closed", "open", "half-open"}, failures : 0..Threshold]
      /\ NoLostPromise' /\ BreakerMatchesFailures' /\ ArrivalInv'
      /\ InOrder(arrivals, executionQueue)'
      /\ \A x \in Requests : x # r => fate'[x] = fate[x]
  BY <1>1, <1>2, SubmitStep
<1>4. TypeOK'
  BY <1>2, <1>3 DEF IInv, TypeOK, controlVars
<1>5. BatchInv'
  <2>1. \A i \in 1..Len(Batch) : Batch[i] \in Requests /\ Batch[i] # r
    BY <1>1, EngineAssumption, ToSetElements, ElementOfSeq
  <2> QED BY <1>2, <1>3, <2>1 DEF IInv, BatchInv
<1>6. InitializingInv'
  BY <1>2 DEF IInv, InitializingInv, controlVars
<1> QED BY <1>3, <1>4, <1>5, <1>6 DEF IInv

LEMMA ExecuteBatchStep ==
  ASSUME IInv, ExecuteBatch
  PROVE  IInv'
<1> DEFINE last == IF batched + MaxConcurrent < Len(Batch)
                   THEN batched + MaxConcurrent ELSE Len(Batch)
           rs   == SubSeq(Batch, batched + 1, last)
<1>1. /\ Submit(rs) /\ batched' = last
      /\ UNCHANGED <<activeExecutions, executionResults, retryDue, controlVars, overdue>>
  BY DEF ExecuteBatch
<1>2. last \in batched..Len(Batch) /\ batched \in 0..Len(Batch) /\ Len(Batch) \in Nat
  BY EngineAssumption DEF IInv, TypeOK
<1> HIDE DEF last
<1>3. /\ rs \in Seq(Requests) /\ IsInjective(rs)
      /\ ToSet(rs) = {Batch[i] : i \in (batched + 1)..last}
      /\ \A r \in ToSet(rs) : fate[r] = "new"
  BY <1>2, BatchSlice
<1> HIDE DEF rs
<1>4. /\ executionQueue' \in Seq(Requests) /\ Len(executionQueue') <= MaxQueueSize
      /\ fate' \in [Requests -> Fates]
      /\ arrivals' \in Seq(Requests)
      /\ breaker' \in [state : {"closed", "open", "half-open"}, failures : 0..Threshold]
      /\ NoLostPromise' /\ BreakerMatchesFailures' /\ ArrivalInv'
      /\ InOrder(arrivals, executionQueue)'
      /\ \A x \in Requests : x \notin ToSet(rs) => fate'[x] = fate[x]
  BY <1>1, <1>3, SubmitStep
<1>5. TypeOK'
  <2>1. batched' \in 0..Len(Batch)
    BY <1>1, <1>2
  <2> QED BY <1>1, <1>4, <2>1 DEF IInv, TypeOK, controlVars
<1>6. BatchInv'
  <2>1. /\ \A i \in 1..Len(Batch) : Batch[i] \in Requests
        /\ \A i, j \in 1..Len(Batch) : Batch[i] = Batch[j] => i = j
    BY EngineAssumption, ToSetElements, ElementOfSeq DEF IsInjective
  <2>2. ASSUME NEW i \in 1..Len(Batch), i > last PROVE fate'[Batch[i]] = "new"
    <3>1. i > batched /\ \A j \in (batched + 1)..last : j \in 1..Len(Batch) /\ j # i
      BY <1>2, <2>2
    <3>2. Batch[i] \notin ToSet(rs)
      BY <1>3, <2>1, <3>1
    <3>3. fate[Batch[i]] = "new"
      BY <3>1 DEF IInv, BatchInv
    <3> QED BY <1>4, <2>1, <3>2, <3>3
  <2> QED BY <1>1, <2>2 DEF BatchInv
<1>7. InitializingInv'
  BY <1>1 DEF IInv, InitializingInv, controlVars
<1> QED BY <1>4, <1>5, <1>6, <1>7 DEF IInv

\* The facts about the head of the queue when a tick takes it.
LEMMA HeadOfQueue ==
  ASSUME IInv, executionQueue # <<>>, executionQueue' = Tail(executionQueue), arrivals' = arrivals
  PROVE  /\ executionQueue' \in Seq(Requests) /\ Len(executionQueue') <= MaxQueueSize
         /\ InOrder(arrivals, executionQueue)'
         /\ Head(executionQueue) \in ToSet(executionQueue)
         /\ Head(executionQueue) \in Requests
         /\ ToSet(executionQueue') = ToSet(executionQueue) \ {Head(executionQueue)}
<1>1. /\ InOrder(arrivals, executionQueue) /\ Len(executionQueue) <= MaxQueueSize
      /\ Len(executionQueue) \in Nat /\ MaxQueueSize \in Nat
  BY EngineAssumption DEF IInv, TypeOK
<1>2. /\ InOrder(arrivals, Tail(executionQueue))
      /\ Head(executionQueue) \in Requests /\ Head(executionQueue) \in ToSet(executionQueue)
      /\ ToSet(Tail(executionQueue)) = ToSet(executionQueue) \ {Head(executionQueue)}
      /\ Len(Tail(executionQueue)) < Len(executionQueue)
  BY <1>1, TailInOrder
<1>3. executionQueue' \in Seq(Requests) /\ Len(executionQueue') \in Nat
  BY <1>2 DEF InOrder
<1> QED BY <1>1, <1>2, <1>3

LEMMA ProcessQueueStep ==
  ASSUME IInv, ProcessQueue
  PROVE  IInv'
<1> DEFINE h == Head(executionQueue)
<1>1. /\ executionQueue # <<>> /\ Cardinality(activeExecutions) < MaxConcurrent
      /\ executionQueue' = Tail(executionQueue) /\ activeExecutions' = activeExecutions \cup {h}
      /\ UNCHANGED <<executionResults, fate, arrivals, batched, breaker, retryDue, controlVars, overdue>>
  BY DEF ProcessQueue, CanProcess, breakerVars
<1>2. /\ executionQueue' \in Seq(Requests) /\ Len(executionQueue') <= MaxQueueSize
      /\ InOrder(arrivals, executionQueue)'
      /\ h \in ToSet(executionQueue) /\ h \in Requests
      /\ ToSet(executionQueue') = ToSet(executionQueue) \ {h}
  BY <1>1, HeadOfQueue
<1> HIDE DEF h
<1>3. /\ ToSet(executionQueue) \cap activeExecutions = {}
      /\ ToSet(executionQueue) \cup activeExecutions = {r \in Requests : fate[r] = "pending"}
  BY DEF IInv, NoLostPromise
<1>4. activeExecutions' \subseteq Requests /\ Cardinality(activeExecutions') <= MaxConcurrent
  <2>1. IsFiniteSet(activeExecutions) /\ activeExecutions \subseteq Requests
    BY FS_Subset, EngineAssumption DEF IInv, TypeOK
  <2>2. h \notin activeExecutions
    BY <1>2, <1>3
  <2>3. /\ Cardinality(activeExecutions') = Cardinality(activeExecutions) + 1
        /\ Cardinality(activeExecutions) \in Nat /\ MaxConcurrent \in Nat
    BY <1>1, <2>1, <2>2, FS_AddElement, FS_CardinalityType, EngineAssumption
  <2> QED BY <1>1, <1>2, <2>1, <2>3
<1>5. TypeOK'
  BY <1>1, <1>2, <1>4 DEF IInv, TypeOK, controlVars
<1>6. NoLostPromise'
  <2>1. ToSet(executionQueue') \cap activeExecutions' = {}
    BY <1>1, <1>2, <1>3
  <2>2. ToSet(executionQueue') \cup activeExecutions' = {r \in Requests : fate[r] = "pending"}
    BY <1>1, <1>2, <1>3
  <2> QED BY <1>1, <1>2, <2>1, <2>2 DEF NoLostPromise, InOrder
<1>7. ArrivalInv' /\ BatchInv' /\ BreakerMatchesFailures' /\ InitializingInv'
  BY <1>1, <1>2 DEF IInv, ArrivalInv, BatchInv, BreakerMatchesFailures, InitializingInv, controlVars
<1> QED BY <1>2, <1>5, <1>6, <1>7 DEF IInv

LEMMA ProcessQueueTimeoutStep ==
  ASSUME IInv, ProcessQueueTimeout
  PROVE  IInv'
<1> DEFINE h == Head(executionQueue)
<1>1. /\ executionQueue # <<>>
      /\ executionQueue' = Tail(executionQueue) /\ fate' = [fate EXCEPT ![h] = "rejected"]
      /\ UNCHANGED <<activeExecutions, executionResults, arrivals, batched, breaker, retryDue,
                     controlVars, overdue>>
  BY DEF ProcessQueueTimeout, CanProcess, breakerVars
<1>2. /\ executionQueue' \in Seq(Requests) /\ Len(executionQueue') <= MaxQueueSize
      /\ InOrder(arrivals, executionQueue)'
      /\ h \in ToSet(executionQueue) /\ h \in Requests
      /\ ToSet(executionQueue') = ToSet(executionQueue) \ {h}
  BY <1>1, HeadOfQueue
<1> HIDE DEF h
<1>3. /\ ToSet(executionQueue) \cap activeExecutions = {}
      /\ ToSet(executionQueue) \cup activeExecutions = {r \in Requests : fate[r] = "pending"}
      /\ fate \in [Requests -> Fates]
  BY DEF IInv, NoLostPromise, TypeOK
<1>4. /\ fate' \in [Requests -> Fates]
      /\ \A r \in Requests : fate'[r] = IF r = h THEN "rejected" ELSE fate[r]
  BY <1>1, <1>2, <1>3 DEF Fates
<1>5. TypeOK'
  BY <1>1, <1>2, <1>4 DEF IInv, TypeOK, controlVars
<1>6. NoLostPromise'
  <2>1. ToSet(executionQueue') \cap activeExecutions' = {}
    BY <1>1, <1>2, <1>3
  <2>2. ToSet(executionQueue') \cup activeExecutions' = {r \in Requests : fate'[r] = "pending"}
    BY <1>1, <1>2, <1>3, <1>4
  <2> QED BY <1>2, <2>1, <2>2 DEF NoLostPromise, InOrder
<1>7. ArrivalInv' /\ BatchInv'
  <2>1. OnlyPendingSettle
    BY <1>2, <1>3, <1>4 DEF OnlyPendingSettle
  <2> QED BY <1>1, <1>2, <2>1, PendingStep
<1>8. BreakerMatchesFailures' /\ InitializingInv'
  BY <1>1 DEF IInv, BreakerMatchesFailures, InitializingInv, controlVars
<1> QED BY <1>2, <1>5, <1>6, <1>7, <1>8 DEF IInv

LEMMA CompleteStep ==
  ASSUME IInv, NEW r \in Requests, NEW success \in BOOLEAN, Complete(r, success)
  PROVE  IInv'
<1>1. /\ r \in activeExecutions
      /\ fate' = [fate EXCEPT ![r] = IF success THEN "ok" ELSE "failed"]
      /\ activeExecutions' = activeExecutions \ {r}
      /\ executionResults' = executionResults \cup {r}
      /\ OnSuccess \/ OnFailure
      /\ StopsGoOn(r)
      /\ UNCHANGED <<executionQueue, arrivals, batched, overdue, status, processors, queueProcessor,
                     initializing, stops>>
  BY DEF Complete
<1>2. /\ breaker' \in [state : {"closed", "open", "half-open"}, failures : 0..Threshold]
      /\ BreakerMatchesFailures'
  BY <1>1, BreakerResultStep
<1>3. retryDue' \in BOOLEAN
  <2>1. retryDue \in BOOLEAN
    BY DEF IInv, TypeOK
  <2>2. retryDue' = FALSE \/ retryDue' = retryDue
    BY DEF Complete
  <2> QED BY <2>1, <2>2, Zenon
<1>4. /\ ToSet(executionQueue) \cap activeExecutions = {}
      /\ ToSet(executionQueue) \cup activeExecutions = {x \in Requests : fate[x] = "pending"}
      /\ fate \in [Requests -> Fates] /\ IsInjective(executionQueue)
  BY DEF IInv, NoLostPromise, TypeOK
<1>5. PICK st \in {"ok", "failed"} :
        /\ fate' \in [Requests -> Fates]
        /\ \A x \in Requests : fate'[x] = IF x = r THEN st ELSE fate[x]
  BY <1>1, <1>4 DEF Fates
<1>6. activeExecutions' \subseteq Requests /\ Cardinality(activeExecutions') <= MaxConcurrent
  <2>1. IsFiniteSet(activeExecutions) /\ activeExecutions \subseteq Requests
        /\ Cardinality(activeExecutions) <= MaxConcurrent /\ MaxConcurrent \in Nat
    BY FS_Subset, EngineAssumption DEF IInv, TypeOK
  <2>2. /\ Cardinality(activeExecutions') <= Cardinality(activeExecutions)
        /\ Cardinality(activeExecutions') \in Nat /\ Cardinality(activeExecutions) \in Nat
    BY <1>1, <2>1, FS_Subset, FS_CardinalityType
  <2> QED BY <1>1, <2>1, <2>2
<1>w. stopWaits' \in [1..MaxStops -> (SUBSET Requests) \cup {NotStopping}]
  <2>1. stopWaits \in [1..MaxStops -> (SUBSET Requests) \cup {NotStopping}]
    BY DEF IInv, TypeOK
  <2> QED BY <1>1, <2>1 DEF StopsGoOn
<1>7. TypeOK'
  BY <1>1, <1>2, <1>3, <1>5, <1>6, <1>w DEF IInv, TypeOK
<1>8. NoLostPromise'
  <2>1. ToSet(executionQueue) \cap activeExecutions' = {}
    BY <1>1, <1>4
  <2>2. ToSet(executionQueue) \cup activeExecutions' = {x \in Requests : fate'[x] = "pending"}
    BY <1>1, <1>4, <1>5
  <2> QED BY <1>1, <1>4, <2>1, <2>2 DEF NoLostPromise
<1>9. ArrivalInv' /\ BatchInv'
  <2>1. OnlyPendingSettle
    BY <1>1, <1>4, <1>5 DEF OnlyPendingSettle
  <2> QED BY <1>1, <2>1, PendingStep
<1>10. InOrder(arrivals, executionQueue)' /\ InitializingInv'
  BY <1>1 DEF IInv, InOrder, InitializingInv
<1> QED BY <1>2, <1>7, <1>8, <1>9, <1>10 DEF IInv

LEMMA StopEndStep ==
  ASSUME IInv, NEW k \in 1..MaxStops, StopEnd(k)
  PROVE  IInv'
<1>1. /\ executionQueue' = <<>>
      /\ fate' = [r \in Requests |-> IF r \in ToSet(executionQueue) THEN "rejected" ELSE fate[r]]
      /\ stopWaits' = [stopWaits EXCEPT ![k] = NotStopping]
      /\ UNCHANGED <<activeExecutions, executionResults, arrivals, batched, breaker, retryDue, overdue,
                     status, processors, queueProcessor, initializing, stops>>
  BY DEF StopEnd, RejectQueued, breakerVars
<1>2. /\ ToSet(executionQueue) \cap activeExecutions = {}
      /\ ToSet(executionQueue) \cup activeExecutions = {r \in Requests : fate[r] = "pending"}
      /\ fate \in [Requests -> Fates]
  BY DEF IInv, NoLostPromise, TypeOK
<1>3. /\ <<>> \in Seq(Requests) /\ Len(<<>>) = 0 /\ ToSet(<<>>) = {} /\ IsInjective(<<>>)
      /\ MaxQueueSize \in Nat
  BY EmptySeq, EngineAssumption DEF ToSet, IsInjective
<1>4. /\ fate' \in [Requests -> Fates]
      /\ \A r \in Requests : fate'[r] = IF r \in ToSet(executionQueue) THEN "rejected" ELSE fate[r]
  BY <1>1, <1>2 DEF Fates
<1>5. TypeOK'
  <2>1. executionQueue' \in Seq(Requests) /\ Len(executionQueue') <= MaxQueueSize
    BY <1>1, <1>3
  <2>2. stopWaits' \in [1..MaxStops -> (SUBSET Requests) \cup {NotStopping}]
    BY <1>1 DEF IInv, TypeOK
  <2> QED BY <1>1, <1>4, <2>1, <2>2 DEF IInv, TypeOK
<1>6. NoLostPromise'
  <2>1. activeExecutions = {r \in Requests : fate'[r] = "pending"}
    BY <1>2, <1>4
  <2> QED BY <1>1, <1>3, <2>1 DEF NoLostPromise
<1>7. ArrivalInv' /\ BatchInv'
  <2>1. OnlyPendingSettle
    BY <1>2, <1>4 DEF OnlyPendingSettle
  <2> QED BY <1>1, <1>3, <2>1, PendingStep
<1>8. InOrder(arrivals, executionQueue)'
  BY <1>1, <1>3 DEF InOrder
<1>9. BreakerMatchesFailures' /\ InitializingInv'
  BY <1>1 DEF IInv, BreakerMatchesFailures, InitializingInv
<1> QED BY <1>5, <1>6, <1>7, <1>8, <1>9 DEF IInv

\* initialize(), start(), pause(), resume() and the begin of stop().
LEMMA ControlStep ==
  ASSUME IInv,
         \/ InitializeBegin \/ InitializeEnd \/ InitializeFails
         \/ Start \/ Pause \/ Resume \/ StopBegin
  PROVE  IInv'
<1>1. UNCHANGED <<executionQueue, activeExecutions, executionResults, fate, arrivals, batched,
                  breaker, retryDue, overdue>>
  BY DEF InitializeBegin, InitializeEnd, InitializeFails, Start, Pause, Resume, StopBegin,
         requestVars, breakerVars
<1>2. /\ status \in EngineStatuses /\ processors \subseteq 1..(MaxInits + 1)
      /\ queueProcessor \in 0..(MaxInits + 1) /\ initializing \in 0..MaxInits
      /\ queueProcessor + initializing <= MaxInits + 1
      /\ stops \in 0..MaxStops /\ activeExecutions \subseteq Requests
      /\ stopWaits \in [1..MaxStops -> (SUBSET Requests) \cup {NotStopping}]
      /\ MaxInits \in Nat /\ MaxStops \in Nat
  BY EngineAssumption DEF IInv, TypeOK, InitializingInv
<1>3. status' \in EngineStatuses
  BY <1>2 DEF EngineStatuses, InitializeBegin, InitializeEnd, InitializeFails, Start, Pause, Resume,
              StopBegin
<1>4. stops' \in 0..MaxStops /\ stopWaits' \in [1..MaxStops -> (SUBSET Requests) \cup {NotStopping}]
  <2>1. CASE StopBegin
    BY <1>2, <2>1 DEF StopBegin
  <2>2. CASE ~StopBegin
    BY <1>2, <2>2 DEF InitializeBegin, InitializeEnd, InitializeFails, Start, Pause, Resume
  <2> QED BY <2>1, <2>2
<1>5. /\ processors' \subseteq 1..(MaxInits + 1) /\ queueProcessor' \in 0..(MaxInits + 1)
      /\ initializing' \in 0..MaxInits /\ queueProcessor' + initializing' <= MaxInits + 1
  <2>1. CASE InitializeBegin
    BY <1>2, <2>1 DEF InitializeBegin
  <2>2. CASE InitializeEnd
    BY <1>2, <2>2 DEF InitializeEnd
  <2>3. CASE InitializeFails
    BY <1>2, <2>3 DEF InitializeFails
  <2>4. CASE Start
    <3>1. CASE queueProcessor = 0
      <4>1. queueProcessor' = 1 /\ processors' = processors \cup {1} /\ initializing' = initializing
        BY <2>4, <3>1 DEF Start
      <4>2. 1 \in 1..(MaxInits + 1) /\ 1 \in 0..(MaxInits + 1) /\ 1 + initializing <= MaxInits + 1
        BY <1>2
      <4> QED BY <1>2, <4>1, <4>2
    <3>2. CASE queueProcessor # 0
      BY <1>2, <2>4, <3>2 DEF Start
    <3> QED BY <3>1, <3>2
  <2>5. CASE Pause \/ Resume \/ StopBegin
    BY <1>2, <2>5 DEF Pause, Resume, StopBegin
  <2> QED BY <2>1, <2>2, <2>3, <2>4, <2>5
<1>6. TypeOK'
  BY <1>1, <1>3, <1>4, <1>5 DEF IInv, TypeOK
<1>7. BreakerMatchesFailures' /\ InitializingInv'
  BY <1>1, <1>5 DEF IInv, BreakerMatchesFailures, InitializingInv
<1> QED BY <1>1, <1>6, <1>7, RequestsKept DEF IInv

\* Results are forgotten, and time passes.
LEMMA QuietStep ==
  ASSUME IInv,
         \/ ClearResults \/ RecoveryElapses \/ \E r \in Requests : QueueTimeoutElapses(r)
         \/ UNCHANGED vars
  PROVE  IInv'
<1>1. UNCHANGED <<executionQueue, activeExecutions, fate, arrivals, batched, breaker, controlVars>>
  BY DEF ClearResults, RecoveryElapses, QueueTimeoutElapses, vars, requestVars, breakerVars
<1>2. executionResults' \subseteq Requests /\ overdue' \subseteq Requests
  BY DEF ClearResults, RecoveryElapses, QueueTimeoutElapses, vars, requestVars, breakerVars, IInv, TypeOK
<1>3. retryDue' \in BOOLEAN
  <2>1. retryDue' = TRUE \/ retryDue' = retryDue
    BY DEF ClearResults, RecoveryElapses, QueueTimeoutElapses, vars, requestVars, breakerVars
  <2>2. retryDue \in BOOLEAN
    BY DEF IInv, TypeOK
  <2> QED BY <2>1, <2>2, Zenon
<1>4. TypeOK'
  BY <1>1, <1>2, <1>3 DEF IInv, TypeOK, controlVars
<1>5. BreakerMatchesFailures' /\ InitializingInv'
  BY <1>1 DEF IInv, BreakerMatchesFailures, InitializingInv, controlVars
<1> QED BY <1>1, <1>4, <1>5, RequestsKept DEF IInv

LEMMA StepIInv == IInv /\ [Next]_vars => IInv'
BY ExecuteTradeDecisionStep, ExecuteBatchStep, ProcessQueueStep, ProcessQueueTimeoutStep,
   CompleteStep, StopEndStep, ControlStep, QuietStep DEF Next

-----------------------------------------------------------------------------
\* The inductive invariant holds in every reachable state.
THEOREM Invariance == Spec => []IInv
BY InitIInv, StepIInv, PTL DEF Spec

\* The engine's state has its types, and neither the queue nor the executions
\* exceed their limits, whatever intervals, stops and batches overlap.
THEOREM TypeCorrectness == Spec => []TypeOK
<1>1. IInv => TypeOK
  BY DEF IInv
<1> QED BY <1>1, Invariance, PTL

\* A request is unsettled exactly while it is queued once or executing.
THEOREM NoLostPromiseAlways == Spec => []NoLostPromise
<1>1. IInv => NoLostPromise
  BY DEF IInv
<1> QED BY <1>1, Invariance, PTL

\* Late results of earlier executions cannot leave the breaker open with few
\* failures or closed with many.
THEOREM BreakerMatchesFailuresAlways == Spec => []BreakerMatchesFailures
<1>1. IInv => BreakerMatchesFailures
  BY DEF IInv
<1> QED BY <1>1, Invariance, PTL

-----------------------------------------------------------------------------
\* No step touches a promise that has settled, and a result reaches a promise
\* only from an execution that is running.
StepSettlesOnce ==
  \A r \in Requests :
    /\ fate[r] \in Settled => fate'[r] = fate[r]
    /\ fate'[r] \in {"ok", "failed"} /\ fate'[r] # fate[r] => r \in activeExecutions

LEMMA EveryStepSettlesOnce == IInv /\ [Next]_vars => StepSettlesOnce
<1> SUFFICES ASSUME IInv, [Next]_vars PROVE StepSettlesOnce
  OBVIOUS
<1>1. /\ fate \in [Requests -> Fates]
      /\ ToSet(executionQueue) \cup activeExecutions = {r \in Requests : fate[r] = "pending"}
  BY DEF IInv, TypeOK, NoLostPromise
<1>2. CASE fate' = fate
  BY <1>2 DEF StepSettlesOnce
<1>3. ASSUME NEW r \in Requests, ExecuteTradeDecision(r) PROVE StepSettlesOnce
  <2>1. /\ <<r>> \in Seq(Requests) /\ IsInjective(<<r>>) /\ ToSet(<<r>>) = {r}
        /\ fate[r] = "new" /\ Submit(<<r>>) /\ activeExecutions' = activeExecutions
    BY <1>3 DEF ExecuteTradeDecision, IsInjective, ToSet
  <2>2. /\ \A x \in Requests : x # r => fate'[x] = fate[x]
        /\ fate'[r] \in {"pending", "refused"}
    BY <2>1, SubmitStep
  <2> QED BY <2>1, <2>2 DEF StepSettlesOnce, Settled
<1>4. CASE ExecuteBatch
  <2>1. PICK rs \in Seq(Requests) :
          /\ IsInjective(rs) /\ \A r \in ToSet(rs) : fate[r] = "new"
          /\ Submit(rs) /\ activeExecutions' = activeExecutions
    <3>1. PICK last \in batched..Len(Batch) :
            Submit(SubSeq(Batch, batched + 1, last)) /\ activeExecutions' = activeExecutions
      <4> DEFINE last == IF batched + MaxConcurrent < Len(Batch)
                         THEN batched + MaxConcurrent ELSE Len(Batch)
      <4>1. Submit(SubSeq(Batch, batched + 1, last)) /\ activeExecutions' = activeExecutions
        BY <1>4 DEF ExecuteBatch
      <4>2. last \in batched..Len(Batch)
        BY EngineAssumption DEF IInv, TypeOK
      <4> HIDE DEF last
      <4> QED BY <4>1, <4>2
    <3> QED BY <3>1, BatchSlice
  <2>2. /\ \A x \in Requests : x \notin ToSet(rs) => fate'[x] = fate[x]
        /\ \A r \in ToSet(rs) : fate'[r] \in {"pending", "refused"}
    BY <2>1, SubmitStep
  <2> QED BY <2>1, <2>2 DEF StepSettlesOnce, Settled
<1>5. CASE ProcessQueueTimeout
  <2>1. executionQueue # <<>> /\ InOrder(arrivals, executionQueue)
    BY <1>5 DEF ProcessQueueTimeout, CanProcess, IInv
  <2>2. Head(executionQueue) \in ToSet(executionQueue)
    BY <2>1, TailInOrder
  <2> QED BY <1>1, <1>5, <2>2 DEF ProcessQueueTimeout, StepSettlesOnce, Settled
<1>6. ASSUME NEW r \in Requests, NEW success \in BOOLEAN, Complete(r, success)
      PROVE  StepSettlesOnce
  BY <1>1, <1>6 DEF Complete, StepSettlesOnce, Settled
<1>7. ASSUME NEW k \in 1..MaxStops, StopEnd(k) PROVE StepSettlesOnce
  BY <1>1, <1>7 DEF StopEnd, RejectQueued, StepSettlesOnce, Settled
<1>8. CASE \/ InitializeBegin \/ InitializeEnd \/ InitializeFails
           \/ Start \/ Pause \/ Resume \/ StopBegin
           \/ ProcessQueue \/ ClearResults \/ RecoveryElapses
           \/ (\E r \in Requests : QueueTimeoutElapses(r)) \/ UNCHANGED vars
  BY <1>2, <1>8 DEF InitializeBegin, InitializeEnd, InitializeFails, Start, Pause, Resume, StopBegin,
     ProcessQueue, ClearResults, RecoveryElapses, QueueTimeoutElapses, vars, requestVars
<1> QED BY <1>3, <1>4, <1>5, <1>6, <1>7, <1>8 DEF Next

\* A promise settles once, and only a pending one is resolved with a result.
THEOREM SettlesOnceAlways == Spec => SettlesOnce
<1>1. IInv /\ [Next]_vars =>
        [\A r \in Requests :
           /\ fate[r] \in Settled => fate'[r] = fate[r]
           /\ fate'[r] \in {"ok", "failed"} /\ fate'[r] # fate[r] => r \in activeExecutions]_vars
  BY EveryStepSettlesOnce DEF StepSettlesOnce
<1> QED BY <1>1, Invariance, PTL DEF Spec, SettlesOnce

-----------------------------------------------------------------------------
\* What a step starts precedes everybody who is waiting.
StepStartsInOrder ==
  \A r \in activeExecutions' \ activeExecutions :
    \A s \in ToSet(executionQueue) \ {r} : Precedes(arrivals, r, s)

LEMMA EveryStepStartsInOrder == IInv /\ [Next]_vars => StepStartsInOrder
<1> SUFFICES ASSUME IInv, [Next]_vars PROVE StepStartsInOrder
  OBVIOUS
<1>1. CASE activeExecutions' \subseteq activeExecutions
  BY <1>1 DEF StepStartsInOrder
<1>2. CASE ProcessQueue
  <2>1. /\ executionQueue # <<>> /\ InOrder(arrivals, executionQueue)
        /\ activeExecutions' = activeExecutions \cup {Head(executionQueue)}
    BY <1>2 DEF ProcessQueue, CanProcess, IInv
  <2>2. /\ ToSet(Tail(executionQueue)) = ToSet(executionQueue) \ {Head(executionQueue)}
        /\ \A s \in ToSet(Tail(executionQueue)) : Precedes(arrivals, Head(executionQueue), s)
    BY <2>1, TailInOrder
  <2> QED BY <2>1, <2>2 DEF StepStartsInOrder
<1>3. CASE ~ProcessQueue
  <2>1. activeExecutions' \subseteq activeExecutions
    BY <1>3 DEF Next, InitializeBegin, InitializeEnd, InitializeFails, Start, Pause, Resume,
       StopBegin, StopEnd, ExecuteBatch, ProcessQueueTimeout, ClearResults, RecoveryElapses,
       ExecuteTradeDecision, QueueTimeoutElapses, Complete, vars, requestVars
  <2> QED BY <1>1, <2>1
<1> QED BY <1>2, <1>3

\* Whatever starts has waited behind nobody of its priority or a higher one who
\* came earlier, however submissions, timeouts and stops interleave.
THEOREM StartsInOrderAlways == Spec => StartsInOrder
<1>1. \A r, s : Precedes(arrivals, r, s) <=>
        Priority[r] > Priority[s] \/ (Priority[r] = Priority[s] /\ Before(r, s))
  BY DEF Precedes, Earlier, Before
<1>2. IInv /\ [Next]_vars =>
        [\A r \in activeExecutions' \ activeExecutions :
           \A s \in ToSet(executionQueue) \ {r} :
             \/ Priority[r] > Priority[s]
             \/ Priority[r] = Priority[s] /\ Before(r, s)]_vars
  BY <1>1, EveryStepStartsInOrder DEF StepStartsInOrder
<1> QED BY <1>2, Invariance, PTL DEF Spec, StartsInOrder
=============================================================================

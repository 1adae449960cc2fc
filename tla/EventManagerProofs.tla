------------------------- MODULE EventManagerProofs -------------------------
(***************************************************************************)
(* Proofs about EventManager for every set of events and handlers, every   *)
(* size of a batch and every limit.  Where an event is, is a matter of     *)
(* counting: its places in the queue, in the calls of processEvent and in  *)
(* the dead letter queue, and its retry timers.  Lemmas about what each    *)
(* operation on a sequence does to such a count come first; the inductive  *)
(* invariant IInv then counts the places of every event.                   *)
(***************************************************************************)
EXTENDS EventManager, SequenceTheorems, FiniteSetTheorems,
        WellFoundedInduction, TLAPS

\* How many elements of q are in S.
Count(q, S) == Cardinality({i \in DOMAIN q : q[i] \in S})

CallStates == {"none", "running", "done", "failed"}
Calling == [event : Events, calls : [Handlers -> CallStates]]
CallsOf(e) == {p \in Calling : p.event = e}
RunningFor(h) == {p \in Calling : p.calls[h] = "running"}

-----------------------------------------------------------------------------
\* Every set of natural numbers that is not empty has a least element.
LEMMA Least ==
  ASSUME NEW T \in SUBSET Nat, T # {}
  PROVE  \E m \in T : \A n \in T : m <= n
<1>1. ASSUME NEW R, R = OpToRel(<, Nat)
      PROVE  \E m \in T : \A y \in T : ~(<<y, m>> \in R)
  BY <1>1, NatLessThanWellFounded, WFMin
<1>2. \A x, y \in Nat : x < y => <<x, y>> \in OpToRel(<, Nat)
  BY DEF OpToRel
<1>3. \E m \in T : \A y \in T : ~(y < m)
  BY <1>1, <1>2, Zenon
<1> QED BY <1>3

\* A part of a sequence.
LEMMA PartElements ==
  ASSUME NEW X, NEW q \in Seq(X), NEW a \in Nat, NEW b \in Nat,
         1 <= a, a <= b + 1, b <= Len(q)
  PROVE  /\ SubSeq(q, a, b) \in Seq(X)
         /\ Len(SubSeq(q, a, b)) = b - a + 1
         /\ \A i \in 1..(b - a + 1) : SubSeq(q, a, b)[i] = q[a + i - 1]
<1>1. \A i \in a..b : q[i] \in X
  BY ElementOfSeq
<1>2. /\ SubSeq(q, a, b) \in Seq(X)
      /\ Len(SubSeq(q, a, b)) = IF a <= b THEN b - a + 1 ELSE 0
      /\ \A i \in 1..(b - a + 1) : SubSeq(q, a, b)[i] = q[a + i - 1]
  BY <1>1, SubSeqProperties
<1> QED BY <1>2

\* A count is a number, and zero only if nothing is counted.
LEMMA CountType ==
  ASSUME NEW X, NEW q \in Seq(X), NEW S
  PROVE  /\ DOMAIN q = 1..Len(q) /\ Len(q) \in Nat
         /\ IsFiniteSet({i \in DOMAIN q : q[i] \in S})
         /\ Count(q, S) \in Nat
         /\ Count(q, S) > 0 <=> \E i \in 1..Len(q) : q[i] \in S
<1> DEFINE C == {i \in DOMAIN q : q[i] \in S}
<1>1. DOMAIN q = 1..Len(q) /\ Len(q) \in Nat
  OBVIOUS
<1>2. IsFiniteSet(C)
  <2>1. IsFiniteSet(1..Len(q)) /\ C \in SUBSET (1..Len(q))
    BY <1>1, FS_Interval
  <2> QED BY <2>1, FS_Subset
<1> HIDE DEF C
<1>3. Cardinality(C) \in Nat /\ (Cardinality(C) = 0 <=> C = {})
  BY <1>2, FS_CardinalityType, FS_EmptySet
<1>4. Cardinality(C) > 0 <=> C # {}
  BY <1>3
<1> QED BY <1>1, <1>2, <1>3, <1>4 DEF Count, C

\* Nothing is counted in the empty sequence.
LEMMA CountEmpty ==
  ASSUME NEW S
  PROVE  Count(<<>>, S) = 0
<1>1. {i \in DOMAIN <<>> : <<>>[i] \in S} = {}
  OBVIOUS
<1> QED BY <1>1, FS_EmptySet DEF Count

\* push(): the new element counts if it is in S.
LEMMA CountAppend ==
  ASSUME NEW X, NEW q \in Seq(X), NEW x \in X, NEW S
  PROVE  /\ Append(q, x) \in Seq(X)
         /\ Count(Append(q, x), S) = Count(q, S) + (IF x \in S THEN 1 ELSE 0)
<1> DEFINE t == Append(q, x)
           n == Len(q)
           C == {i \in DOMAIN q : q[i] \in S}
           D == {i \in DOMAIN t : t[i] \in S}
<1>1. /\ t \in Seq(X) /\ Len(t) = n + 1 /\ DOMAIN t = 1..(n + 1)
      /\ \A i \in 1..n : t[i] = q[i]
      /\ t[n + 1] = x
  <2>1. /\ t \in Seq(X) /\ Len(t) = n + 1
        /\ \A i \in 1..(n + 1) : t[i] = IF i = n + 1 THEN x ELSE q[i]
    BY AppendProperties
  <2>2. n \in Nat
    OBVIOUS
  <2> HIDE DEF t, n
  <2>3. DOMAIN t = 1..(n + 1)
    BY <2>1
  <2> QED BY <2>1, <2>2, <2>3
<1>2. DOMAIN q = 1..n /\ n \in Nat /\ IsFiniteSet(C)
  BY CountType
<1> HIDE DEF t, n
<1>3. D = IF x \in S THEN C \cup {n + 1} ELSE C
  BY <1>1, <1>2
<1>4. n + 1 \notin C
  BY <1>2
<1> HIDE DEF C, D
<1>5. Cardinality(C \cup {n + 1}) = Cardinality(C) + 1
  BY <1>2, <1>4, FS_AddElement
<1>6. Cardinality(C) \in Nat
  BY <1>2, FS_CardinalityType
<1>7. Cardinality(D) = Cardinality(C) + (IF x \in S THEN 1 ELSE 0)
  BY <1>3, <1>5, <1>6
<1> QED BY <1>1, <1>7 DEF Count, t, C, D

\* Two sequences one after the other.
LEMMA CountConcat ==
  ASSUME NEW X, NEW q \in Seq(X), NEW r \in Seq(X), NEW S
  PROVE  q \o r \in Seq(X) /\ Count(q \o r, S) = Count(q, S) + Count(r, S)
<1> DEFINE t == q \o r
           n == Len(q)
           m == Len(r)
           A == {i \in DOMAIN q : q[i] \in S}
           B == {i \in DOMAIN r : r[i] \in S}
           M == {n + j : j \in B}
           D == {i \in DOMAIN t : t[i] \in S}
<1>1. /\ n \in Nat /\ m \in Nat /\ DOMAIN q = 1..n /\ DOMAIN r = 1..m
      /\ IsFiniteSet(A) /\ IsFiniteSet(B)
  BY CountType
<1>2. /\ t \in Seq(X) /\ Len(t) = n + m /\ DOMAIN t = 1..(n + m)
      /\ \A i \in 1..n : t[i] = q[i]
      /\ \A j \in 1..m : t[n + j] = r[j]
  <2>1. /\ t \in Seq(X) /\ Len(t) = n + m
        /\ \A i \in 1..(n + m) : t[i] = IF i <= n THEN q[i] ELSE r[i - n]
    BY ConcatProperties
  <2> HIDE DEF t, n, m
  <2>2. DOMAIN t = 1..(n + m)
    BY <2>1
  <2>3. \A j \in 1..m : n + j \in 1..(n + m) /\ ~(n + j <= n) /\ (n + j) - n = j
    BY <1>1
  <2>4. \A j \in 1..m : t[n + j] = r[j]
    BY <2>1, <2>3
  <2>5. \A i \in 1..n : i \in 1..(n + m) /\ i <= n
    BY <1>1
  <2> QED BY <2>1, <2>2, <2>4, <2>5
<1> HIDE DEF t, n, m
<1>3. D = A \cup M
  <2>1. \A i \in 1..(n + m) : i \in 1..n \/ (i - n \in 1..m /\ n + (i - n) = i)
    BY <1>1
  <2>2. D \subseteq A \cup M
    <3>1. ASSUME NEW i \in 1..(n + m), t[i] \in S PROVE i \in A \cup M
      <4>1. CASE i \in 1..n
        BY <1>1, <1>2, <3>1, <4>1
      <4>2. CASE i - n \in 1..m /\ n + (i - n) = i
        <5>1. t[i] = r[i - n]
          BY <1>2, <4>2
        <5>2. i - n \in B
          BY <1>1, <3>1, <4>2, <5>1
        <5> QED BY <4>2, <5>2
      <4> QED BY <2>1, <4>1, <4>2
    <3> QED BY <1>2, <3>1
  <2>3. A \subseteq D
    BY <1>1, <1>2
  <2>4. M \subseteq D
    BY <1>1, <1>2
  <2> QED BY <2>2, <2>3, <2>4
<1>4. A \cap M = {}
  BY <1>1
<1>5. IsFiniteSet(M) /\ Cardinality(M) = Cardinality(B)
  <2> DEFINE f == [j \in B |-> n + j]
  <2>1. \A i, j \in B : n + i = n + j => i = j
    BY <1>1
  <2>2. f \in Bijection(B, M)
    BY <2>1 DEF Bijection, Injection, Surjection, IsInjective
  <2>3. ExistsBijection(B, M)
    BY <2>2 DEF ExistsBijection
  <2> HIDE DEF B, M
  <2> QED BY <1>1, <2>3, FS_Bijection
<1> HIDE DEF A, B, M, D
<1>6. Cardinality(A \cup M) = Cardinality(A) + Cardinality(M) - Cardinality(A \cap M)
  BY <1>1, <1>5, FS_Union
<1>7. Cardinality({}) = 0 /\ Cardinality(A) \in Nat /\ Cardinality(B) \in Nat
  BY <1>1, FS_EmptySet, FS_CardinalityType
<1>8. Cardinality(D) = Cardinality(A) + Cardinality(B)
  <2>1. Cardinality(A \cap M) = 0
    BY <1>4, <1>7
  <2>2. Cardinality(D) = Cardinality(A) + Cardinality(B) - 0
    BY <1>3, <1>5, <1>6, <2>1
  <2> QED BY <1>7, <2>2
<1> QED BY <1>2, <1>8 DEF Count, t, A, B, D

\* A sequence that is cut in two.
LEMMA CountSplit ==
  ASSUME NEW X, NEW q \in Seq(X), NEW k \in 0..Len(q), NEW S
  PROVE  /\ SubSeq(q, 1, k) \in Seq(X) /\ SubSeq(q, k + 1, Len(q)) \in Seq(X)
         /\ Count(q, S) = Count(SubSeq(q, 1, k), S) + Count(SubSeq(q, k + 1, Len(q)), S)
<1> DEFINE n == Len(q)
           u == SubSeq(q, 1, k)
           v == SubSeq(q, k + 1, n)
<1>1. n \in Nat /\ k \in Nat /\ k <= n
  OBVIOUS
<1>2. u \in Seq(X) /\ Len(u) = k /\ \A i \in 1..k : u[i] = q[i]
  <2>1. /\ u \in Seq(X) /\ Len(u) = k - 1 + 1
        /\ \A i \in 1..(k - 1 + 1) : u[i] = q[1 + i - 1]
    BY <1>1, PartElements
  <2> HIDE DEF u
  <2> QED BY <1>1, <2>1
<1>3. v \in Seq(X) /\ Len(v) = n - k /\ \A i \in 1..(n - k) : v[i] = q[k + i]
  <2>1. /\ v \in Seq(X) /\ Len(v) = n - (k + 1) + 1
        /\ \A i \in 1..(n - (k + 1) + 1) : v[i] = q[(k + 1) + i - 1]
    BY <1>1, PartElements
  <2> HIDE DEF v, n
  <2>2. n - (k + 1) + 1 = n - k /\ \A i \in 1..(n - k) : (k + 1) + i - 1 = k + i
    BY <1>1
  <2> QED BY <2>1, <2>2
<1> HIDE DEF u, v
<1>4. q = u \o v
  <2> DEFINE w == u \o v
  <2>1. /\ w \in Seq(X) /\ Len(w) = Len(u) + Len(v)
        /\ \A i \in 1..(Len(u) + Len(v)) : w[i] = IF i <= Len(u) THEN u[i] ELSE v[i - Len(u)]
    BY <1>2, <1>3, ConcatProperties
  <2> HIDE DEF w
  <2>2. Len(w) = Len(q) /\ Len(u) + Len(v) = n
    BY <1>1, <1>2, <1>3, <2>1
  <2>3. ASSUME NEW i \in 1..Len(q) PROVE w[i] = q[i]
    <3>1. CASE i <= k
      <4>1. i \in 1..k /\ i \in 1..n
        BY <1>1, <3>1
      <4> QED BY <1>2, <2>1, <2>2, <3>1, <4>1
    <3>2. CASE ~(i <= k)
      <4>1. i - k \in 1..(n - k) /\ k + (i - k) = i /\ i \in 1..n
        BY <1>1, <3>2
      <4>2. w[i] = v[i - k]
        BY <1>2, <2>1, <2>2, <3>2, <4>1
      <4> QED BY <1>3, <4>1, <4>2
    <3> QED BY <3>1, <3>2
  <2>4. w = q
    BY <2>1, <2>2, <2>3, SeqEqual
  <2> QED BY <2>4 DEF w
<1>5. Count(u \o v, S) = Count(u, S) + Count(v, S)
  BY <1>2, <1>3, CountConcat
<1> QED BY <1>2, <1>3, <1>4, <1>5 DEF u, v

\* The first k elements are counted by their places.
LEMMA CountPrefix ==
  ASSUME NEW X, NEW q \in Seq(X), NEW k \in 1..Len(q), NEW S
  PROVE  Count(SubSeq(q, 1, k), S) =
           Count(SubSeq(q, 1, k - 1), S) + (IF q[k] \in S THEN 1 ELSE 0)
<1> DEFINE u == SubSeq(q, 1, k)
           w == SubSeq(q, 1, k - 1)
<1>1. Len(q) \in Nat /\ k \in Nat /\ k - 1 \in Nat /\ k <= Len(q) /\ q[k] \in X
  BY ElementOfSeq
<1>2. u \in Seq(X) /\ Len(u) = k /\ \A i \in 1..k : u[i] = q[i]
  <2>1. /\ u \in Seq(X) /\ Len(u) = k - 1 + 1
        /\ \A i \in 1..(k - 1 + 1) : u[i] = q[1 + i - 1]
    BY <1>1, PartElements
  <2> HIDE DEF u
  <2> QED BY <1>1, <2>1
<1>3. w \in Seq(X) /\ Len(w) = k - 1 /\ \A i \in 1..(k - 1) : w[i] = q[i]
  <2>1. /\ w \in Seq(X) /\ Len(w) = (k - 1) - 1 + 1
        /\ \A i \in 1..((k - 1) - 1 + 1) : w[i] = q[1 + i - 1]
    BY <1>1, PartElements
  <2> HIDE DEF w
  <2> QED BY <1>1, <2>1
<1> HIDE DEF u, w
<1>4. u = Append(w, q[k])
  <2> DEFINE t == Append(w, q[k])
  <2>1. /\ t \in Seq(X) /\ Len(t) = Len(w) + 1
        /\ \A i \in 1..(Len(w) + 1) : t[i] = IF i = Len(w) + 1 THEN q[k] ELSE w[i]
    BY <1>1, <1>3, AppendProperties
  <2> HIDE DEF t
  <2>2. Len(t) = Len(u) /\ \A i \in 1..Len(u) : t[i] = u[i]
    BY <1>1, <1>2, <1>3, <2>1
  <2>3. t = u
    BY <1>2, <2>1, <2>2, SeqEqual
  <2> QED BY <2>3 DEF t
<1>5. Count(Append(w, q[k]), S) = Count(w, S) + (IF q[k] \in S THEN 1 ELSE 0)
  BY <1>1, <1>3, CountAppend
<1> QED BY <1>4, <1>5 DEF u, w

\* splice(k, 1).
LEMMA CountRemoveAt ==
  ASSUME NEW X, NEW q \in Seq(X), NEW k \in 1..Len(q), NEW S
  PROVE  /\ RemoveAt(q, k) \in Seq(X)
         /\ Count(RemoveAt(q, k), S) = Count(q, S) - (IF q[k] \in S THEN 1 ELSE 0)
<1>1. Len(q) \in Nat /\ k \in Nat /\ k - 1 \in 0..Len(q) /\ k \in 0..Len(q)
  OBVIOUS
<1>2. /\ SubSeq(q, 1, k) \in Seq(X) /\ SubSeq(q, k + 1, Len(q)) \in Seq(X)
      /\ Count(q, S) = Count(SubSeq(q, 1, k), S) + Count(SubSeq(q, k + 1, Len(q)), S)
  BY <1>1, CountSplit
<1>3. SubSeq(q, 1, k - 1) \in Seq(X)
  BY <1>1, CountSplit
<1>4. Count(SubSeq(q, 1, k), S) = Count(SubSeq(q, 1, k - 1), S) + (IF q[k] \in S THEN 1 ELSE 0)
  BY CountPrefix
<1> DEFINE u == SubSeq(q, 1, k - 1)
           v == SubSeq(q, k + 1, Len(q))
<1>5. u \in Seq(X) /\ v \in Seq(X)
  BY <1>2, <1>3
<1>6. RemoveAt(q, k) = u \o v
  BY DEF RemoveAt
<1> HIDE DEF u, v
<1>7. u \o v \in Seq(X) /\ Count(u \o v, S) = Count(u, S) + Count(v, S)
  BY <1>5, CountConcat
<1>8. Count(u, S) \in Nat /\ Count(v, S) \in Nat
  BY <1>5, CountType
<1>9. Count(q, S) = Count(u, S) + (IF q[k] \in S THEN 1 ELSE 0) + Count(v, S)
  BY <1>2, <1>4 DEF u, v
<1> QED BY <1>6, <1>7, <1>8, <1>9

\* An element that is overwritten.
LEMMA CountReplace ==
  ASSUME NEW X, NEW q \in Seq(X), NEW k \in 1..Len(q), NEW y \in X, NEW S
  PROVE  /\ [q EXCEPT ![k] = y] \in Seq(X)
         /\ Count([q EXCEPT ![k] = y], S) =
              Count(q, S) - (IF q[k] \in S THEN 1 ELSE 0) + (IF y \in S THEN 1 ELSE 0)
<1> DEFINE t == [q EXCEPT ![k] = y]
           n == Len(q)
           C == {i \in DOMAIN q : q[i] \in S}
           D == {i \in DOMAIN t : t[i] \in S}
<1>1. n \in Nat /\ DOMAIN q = 1..n /\ IsFiniteSet(C) /\ \A i \in 1..n : q[i] \in X
  BY CountType, ElementOfSeq
<1>2. /\ t \in Seq(X) /\ DOMAIN t = 1..n /\ t[k] = y
      /\ \A i \in 1..n : i # k => t[i] = q[i]
  <2>1. t \in [1..n -> X]
    BY <1>1
  <2>2. t \in Seq(X)
    BY <1>1, <2>1
  <2> QED BY <1>1, <2>1, <2>2
<1> HIDE DEF t
<1>3. D = (C \ {k}) \cup (IF y \in S THEN {k} ELSE {})
  BY <1>1, <1>2 DEF n
<1>4. k \in C <=> q[k] \in S
  BY <1>1 DEF n
<1> HIDE DEF n, C, D
<1>5. /\ IsFiniteSet(C \ {k})
      /\ Cardinality(C \ {k}) = IF k \in C THEN Cardinality(C) - 1 ELSE Cardinality(C)
  BY <1>1, FS_RemoveElement
<1>6. Cardinality((C \ {k}) \cup {k}) = Cardinality(C \ {k}) + 1
  BY <1>5, FS_AddElement
<1>7. Cardinality(C) \in Nat /\ Cardinality(C \ {k}) \in Nat
  BY <1>1, <1>5, FS_CardinalityType
<1>8. Cardinality(D) = Cardinality(C \ {k}) + (IF y \in S THEN 1 ELSE 0)
  <2>1. CASE y \in S
    BY <1>3, <1>6, <2>1
  <2>2. CASE y \notin S
    BY <1>3, <1>7, <2>2
  <2> QED BY <2>1, <2>2
<1>9. Cardinality(D) = Cardinality(C) - (IF q[k] \in S THEN 1 ELSE 0) + (IF y \in S THEN 1 ELSE 0)
  BY <1>4, <1>5, <1>7, <1>8
<1> QED BY <1>2, <1>9 DEF Count, t, C, D

\* Occurrences and processings are counts.
LEMMA CountsOf ==
  ASSUME NEW e \in Events, NEW q \in Seq(Events)
  PROVE  /\ Occurrences(e, q) = Count(q, {e}) /\ Count(q, {e}) \in Nat
         /\ Count(q, {e}) > 0 <=> e \in ToSet(q)
<1>1. DOMAIN q = 1..Len(q) /\ Count(q, {e}) \in Nat
      /\ (Count(q, {e}) > 0 <=> \E i \in 1..Len(q) : q[i] \in {e})
  BY CountType
<1>2. {i \in DOMAIN q : q[i] = e} = {i \in DOMAIN q : q[i] \in {e}}
  OBVIOUS
<1> QED BY <1>1, <1>2 DEF Occurrences, Count, ToSet

\* The recursion of filter().
LEMMA FilteredEquation ==
  ASSUME NEW q \in Seq(Events), NEW S
  PROVE  Filtered(q, S) =
           [n \in 0..Len(q) |->
              IF n = 0 THEN <<>>
              ELSE IF q[n] \in S THEN Append(Filtered(q, S)[n - 1], q[n])
                                 ELSE Filtered(q, S)[n - 1]]
<1> DEFINE Next1(x, n) == IF q[n] \in S THEN Append(x, q[n]) ELSE x
           Solves(g, n) == g = [i \in 0..n |-> IF i = 0 THEN <<>> ELSE Next1(g[i - 1], i)]
           T == {n \in Nat : ~ \E g : Solves(g, n)}
<1>1. T = {}
  <2> SUFFICES ASSUME T # {} PROVE FALSE
    OBVIOUS
  <2>0. T \in SUBSET Nat
    OBVIOUS
  <2>1. PICK m \in T : \A n \in T : m <= n
    BY <2>0, Least
  <2>2. CASE m = 0
    <3>1. Solves([i \in 0..0 |-> <<>>], 0)
      OBVIOUS
    <3> QED BY <2>1, <2>2, <3>1
  <2>3. CASE m # 0
    <3>1. m - 1 \in Nat /\ m - 1 \notin T
      <4>1. m - 1 \in Nat /\ ~(m <= m - 1)
        BY <2>1, <2>3
      <4> QED BY <2>1, <4>1, Zenon
    <3>2. PICK g : Solves(g, m - 1)
      BY <3>1
    <3> DEFINE h == [i \in 0..m |-> IF i = m THEN Next1(g[m - 1], m) ELSE g[i]]
    <3> HIDE DEF Next1
    <3>3. ASSUME NEW i \in 0..m
          PROVE  h[i] = IF i = 0 THEN <<>> ELSE Next1(h[i - 1], i)
      <4>1. CASE i = m
        <5>1. h[m] = Next1(g[m - 1], m) /\ h[m - 1] = g[m - 1]
          BY <2>3, <3>1
        <5> QED BY <2>3, <4>1, <5>1
      <4>2. CASE i # m
        <5>1. i \in 0..(m - 1) /\ h[i] = g[i]
          BY <3>1, <4>2
        <5>2. i # 0 => h[i - 1] = g[i - 1]
          BY <3>1, <4>2
        <5>3. g[i] = IF i = 0 THEN <<>> ELSE Next1(g[i - 1], i)
          BY <3>2, <5>1
        <5> QED BY <5>1, <5>2, <5>3
      <4> QED BY <4>1, <4>2
    <3>4. Solves(h, m)
      BY <3>3
    <3> QED BY <2>1, <3>4
  <2> QED BY <2>2, <2>3
<1>2. \E g : Solves(g, Len(q))
  <2>1. Len(q) \in Nat
    OBVIOUS
  <2> QED BY <1>1, <2>1
<1>3. Filtered(q, S) = CHOOSE g : Solves(g, Len(q))
  BY DEF Filtered
<1>4. Solves(CHOOSE g : Solves(g, Len(q)), Len(q))
  BY <1>2
<1> QED BY <1>3, <1>4

\* filter() keeps exactly the events of the set, as often as they were there.
LEMMA CountFiltered ==
  ASSUME NEW q \in Seq(Events), NEW S
  PROVE  /\ Filtered(q, S)[Len(q)] \in Seq(Events)
         /\ \A e \in Events : Count(Filtered(q, S)[Len(q)], {e}) =
                                IF e \in S THEN Count(q, {e}) ELSE 0
<1> DEFINE F(n) == Filtered(q, S)[n]
           Pre(n) == SubSeq(q, 1, n)
           Good(n) == /\ F(n) \in Seq(Events)
                      /\ \A e \in Events : Count(F(n), {e}) = IF e \in S THEN Count(Pre(n), {e}) ELSE 0
           T == {n \in 0..Len(q) : ~Good(n)}
<1>1. Len(q) \in Nat /\ \A n \in 1..Len(q) : q[n] \in Events
  BY ElementOfSeq
<1>2. /\ F(0) = <<>>
      /\ \A n \in 1..Len(q) : F(n) = IF q[n] \in S THEN Append(F(n - 1), q[n]) ELSE F(n - 1)
  <2> DEFINE G == Filtered(q, S)
  <2>1. G = [n \in 0..Len(q) |->
              IF n = 0 THEN <<>>
              ELSE IF q[n] \in S THEN Append(G[n - 1], q[n]) ELSE G[n - 1]]
    BY FilteredEquation
  <2> HIDE DEF G
  <2>2. G[0] = <<>>
    BY <1>1, <2>1
  <2>3. \A n \in 1..Len(q) : G[n] = IF q[n] \in S THEN Append(G[n - 1], q[n]) ELSE G[n - 1]
    <3>1. \A n \in 1..Len(q) : n \in 0..Len(q) /\ n # 0
      BY <1>1
    <3> QED BY <2>1, <3>1
  <2> QED BY <2>2, <2>3 DEF G
<1>3. Pre(0) = <<>> /\ Pre(Len(q)) = q
  <2>1. Len(Pre(0)) = 0 /\ Pre(0) \in Seq(Events)
    BY <1>1, PartElements
  <2>2. Pre(Len(q)) = q
    <3>1. /\ Pre(Len(q)) \in Seq(Events) /\ Len(Pre(Len(q))) = Len(q) - 1 + 1
          /\ \A i \in 1..(Len(q) - 1 + 1) : Pre(Len(q))[i] = q[1 + i - 1]
      BY <1>1, PartElements
    <3> HIDE DEF Pre
    <3>2. Len(Pre(Len(q))) = Len(q) /\ \A i \in 1..Len(q) : Pre(Len(q))[i] = q[i]
      BY <1>1, <3>1
    <3> QED BY <3>1, <3>2, SeqEqual
  <2> HIDE DEF Pre
  <2>3. Pre(0) = <<>>
    BY <2>1, EmptySeq
  <2> QED BY <2>2, <2>3
<1>4. \A n \in 1..Len(q), e \in Events :
        Count(Pre(n), {e}) = Count(Pre(n - 1), {e}) + (IF q[n] \in {e} THEN 1 ELSE 0)
  BY CountPrefix
<1>5. \A n \in 0..Len(q), e \in Events : Count(Pre(n), {e}) \in Nat
  <2>1. \A n \in 0..Len(q) : Pre(n) \in Seq(Events)
    BY CountSplit
  <2> HIDE DEF Pre
  <2> QED BY <2>1, CountType
<1> HIDE DEF F, Pre
<1>6. T = {}
  <2> SUFFICES ASSUME T # {} PROVE FALSE
    OBVIOUS
  <2>1. T \in SUBSET Nat
    BY <1>1
  <2>2. PICK m \in T : \A n \in T : m <= n
    BY <2>1, Least
  <2>3. m \in 0..Len(q) /\ ~Good(m)
    BY <2>2
  <2>4. m # 0
    <3>1. Good(0)
      <4>1. \A e \in Events : Count(<<>>, {e}) = 0
        BY CountEmpty
      <4>2. <<>> \in Seq(Events)
        OBVIOUS
      <4> QED BY <1>2, <1>3, <4>1, <4>2
    <3> QED BY <2>3, <3>1
  <2>5. m \in 1..Len(q) /\ m - 1 \in 0..Len(q) /\ ~(m <= m - 1)
    BY <1>1, <2>3, <2>4
  <2>6. m - 1 \notin T
    BY <2>2, <2>5, Zenon
  <2>7. Good(m - 1)
    BY <2>5, <2>6
  <2>8. Good(m)
    <3>1. q[m] \in Events /\ F(m - 1) \in Seq(Events)
      BY <1>1, <2>5, <2>7
    <3>2. CASE q[m] \in S
      <4>1. F(m) = Append(F(m - 1), q[m])
        BY <1>2, <2>5, <3>2
      <4>2. F(m) \in Seq(Events)
        <5>1. Append(F(m - 1), q[m]) \in Seq(Events)
          BY <3>1, AppendProperties
        <5> QED BY <4>1, <5>1
      <4>3. \A e \in Events : Count(F(m), {e}) = Count(F(m - 1), {e}) + (IF q[m] \in {e} THEN 1 ELSE 0)
        <5>1. ASSUME NEW e \in Events, NEW E, E = {e}
              PROVE  Count(Append(F(m - 1), q[m]), E) = Count(F(m - 1), E) + (IF q[m] \in E THEN 1 ELSE 0)
          BY <3>1, CountAppend
        <5> QED BY <4>1, <5>1
      <4>4. ASSUME NEW e \in Events
            PROVE  Count(F(m), {e}) = IF e \in S THEN Count(Pre(m), {e}) ELSE 0
        <5>1. CASE e \in S
          BY <1>4, <2>5, <2>7, <4>3, <5>1
        <5>2. CASE e \notin S
          BY <2>7, <3>2, <4>3, <5>2
        <5> QED BY <5>1, <5>2
      <4> QED BY <4>2, <4>4
    <3>3. CASE q[m] \notin S
      <4>1. F(m) = F(m - 1)
        BY <1>2, <2>5, <3>3
      <4>2. ASSUME NEW e \in Events, e \in S PROVE Count(Pre(m), {e}) = Count(Pre(m - 1), {e})
        BY <1>4, <1>5, <2>5, <3>3, <4>2
      <4> QED BY <2>7, <3>1, <4>1, <4>2
    <3> QED BY <3>2, <3>3
  <2> QED BY <2>3, <2>8
<1>7. Good(Len(q))
  BY <1>1, <1>6
<1> QED BY <1>3, <1>7 DEF F

-----------------------------------------------------------------------------
\* What holds of the calls of processEvent and of the counts of the handlers.
SlotsInv(active, begun) ==
  /\ begun \in Seq(Calling)
  /\ active \in [Handlers -> Nat]
  /\ \A h \in Handlers : active[h] <= Count(begun, RunningFor(h))

\* One call of processEvent: a handler that is admitted is counted and runs,
\* one at its limit is taken off a count it never added to and does not run.
LEMMA StartProcessingStep ==
  ASSUME NEW at, SlotsInv(at.active, at.begun), NEW e \in Events
  PROVE  /\ SlotsInv(StartProcessing(at, e).active, StartProcessing(at, e).begun)
         /\ \A d \in Events : Count(StartProcessing(at, e).begun, CallsOf(d)) =
                                Count(at.begun, CallsOf(d)) + (IF d = e THEN 1 ELSE 0)
<1> DEFINE Amount(h) == CASE h \notin handlers -> at.active[h]
                          [] Admitted(at.active, h) -> at.active[h] + 1
                          [] OTHER -> Released(at.active[h])
           Call(h) == CASE h \notin handlers -> "none"
                        [] Admitted(at.active, h) -> "running"
                        [] OTHER -> "failed"
           p == [event |-> e, calls |-> [h \in Handlers |-> Call(h)]]
           counts == [h \in Handlers |-> Amount(h)]
           calls == Append(at.begun, p)
<1>1. StartProcessing(at, e).active = counts /\ StartProcessing(at, e).begun = calls
  BY DEF StartProcessing
<1>2. at.begun \in Seq(Calling) /\ at.active \in [Handlers -> Nat]
      /\ \A h \in Handlers : at.active[h] <= Count(at.begun, RunningFor(h))
      /\ \A S : Count(at.begun, S) \in Nat
  BY CountType DEF SlotsInv
<1>3. \A h \in Handlers : Call(h) \in CallStates
  BY DEF CallStates
<1>4. p \in Calling /\ p.event = e /\ \A h \in Handlers : p.calls[h] = Call(h)
  BY <1>3 DEF Calling
<1>5. ASSUME NEW h \in Handlers
      PROVE  /\ Amount(h) \in Nat
             /\ \/ Call(h) = "running" /\ Amount(h) = at.active[h] + 1
                \/ Call(h) # "running" /\ Amount(h) <= at.active[h]
  BY <1>2 DEF Released
<1> HIDE DEF Amount, Call, p
<1>6. calls \in Seq(Calling)
      /\ \A S : Count(calls, S) = Count(at.begun, S) + (IF p \in S THEN 1 ELSE 0)
  BY <1>2, <1>4, CountAppend
<1>7. counts \in [Handlers -> Nat] /\ \A h \in Handlers : counts[h] = Amount(h)
  BY <1>5
<1> HIDE DEF counts, calls
<1>8. ASSUME NEW h \in Handlers
      PROVE  counts[h] <= Count(calls, RunningFor(h))
  <2>1. p \in RunningFor(h) <=> Call(h) = "running"
    BY <1>4 DEF RunningFor
  <2>2. Count(calls, RunningFor(h)) =
          Count(at.begun, RunningFor(h)) + (IF p \in RunningFor(h) THEN 1 ELSE 0)
    BY <1>6
  <2>3. at.active[h] \in Nat /\ at.active[h] <= Count(at.begun, RunningFor(h))
        /\ Count(at.begun, RunningFor(h)) \in Nat
    BY <1>2
  <2> QED BY <1>5, <1>7, <2>1, <2>2, <2>3
<1>9. ASSUME NEW d \in Events
      PROVE  Count(calls, CallsOf(d)) = Count(at.begun, CallsOf(d)) + (IF d = e THEN 1 ELSE 0)
  <2>1. p \in CallsOf(d) <=> d = e
    BY <1>4 DEF CallsOf
  <2>2. Count(calls, CallsOf(d)) =
          Count(at.begun, CallsOf(d)) + (IF p \in CallsOf(d) THEN 1 ELSE 0)
    BY <1>6
  <2> QED BY <2>1, <2>2
<1> QED BY <1>1, <1>6, <1>7, <1>8, <1>9 DEF SlotsInv

\* The recursion over a batch.
LEMMA StartedEquation ==
  ASSUME NEW batch \in Seq(Events)
  PROVE  Started(batch) =
           [n \in 0..Len(batch) |->
              IF n = 0 THEN [active |-> activeHandlers, begun |-> processings]
              ELSE StartProcessing(Started(batch)[n - 1], batch[n])]
<1> DEFINE first == [active |-> activeHandlers, begun |-> processings]
           After(x, n) == StartProcessing(x, batch[n])
           Solves(g, n) == g = [i \in 0..n |-> IF i = 0 THEN first ELSE After(g[i - 1], i)]
           T == {n \in Nat : ~ \E g : Solves(g, n)}
<1> HIDE DEF After, first
<1>1. T = {}
  <2> SUFFICES ASSUME T # {} PROVE FALSE
    OBVIOUS
  <2>0. T \in SUBSET Nat
    OBVIOUS
  <2>1. PICK m \in T : \A n \in T : m <= n
    BY <2>0, Least
  <2>2. CASE m = 0
    <3>1. Solves([i \in 0..0 |-> first], 0)
      OBVIOUS
    <3> QED BY <2>1, <2>2, <3>1
  <2>3. CASE m # 0
    <3>1. m - 1 \in Nat /\ m - 1 \notin T
      <4>1. m - 1 \in Nat /\ ~(m <= m - 1)
        BY <2>1, <2>3
      <4> QED BY <2>1, <4>1, Zenon
    <3>2. PICK g : Solves(g, m - 1)
      BY <3>1
    <3> DEFINE h == [i \in 0..m |-> IF i = m THEN After(g[m - 1], m) ELSE g[i]]
    <3>3. ASSUME NEW i \in 0..m
          PROVE  h[i] = IF i = 0 THEN first ELSE After(h[i - 1], i)
      <4>1. CASE i = m
        <5>1. h[m] = After(g[m - 1], m) /\ h[m - 1] = g[m - 1]
          BY <2>3, <3>1
        <5> QED BY <2>3, <4>1, <5>1
      <4>2. CASE i # m
        <5>1. i \in 0..(m - 1) /\ h[i] = g[i]
          BY <3>1, <4>2
        <5>2. i # 0 => h[i - 1] = g[i - 1]
          BY <3>1, <4>2
        <5>3. g[i] = IF i = 0 THEN first ELSE After(g[i - 1], i)
          BY <3>2, <5>1
        <5> QED BY <5>1, <5>2, <5>3
      <4> QED BY <4>1, <4>2
    <3>4. Solves(h, m)
      BY <3>3
    <3> QED BY <2>1, <3>4
  <2> QED BY <2>2, <2>3
<1>2. \E g : Solves(g, Len(batch))
  <2>1. Len(batch) \in Nat
    OBVIOUS
  <2> QED BY <1>1, <2>1
<1>3. Started(batch) = CHOOSE g : Solves(g, Len(batch))
  BY DEF Started, After, first
<1>4. Solves(CHOOSE g : Solves(g, Len(batch)), Len(batch))
  BY <1>2
<1> QED BY <1>3, <1>4 DEF After, first

\* A batch begins: each of its events has one processing more, and no handler
\* is counted more often than it runs.
LEMMA ProcessCounts ==
  ASSUME SlotsInv(activeHandlers, processings), NEW batch \in Seq(Events), Process(batch)
  PROVE  /\ SlotsInv(activeHandlers', processings')
         /\ \A e \in Events : Count(processings', CallsOf(e)) =
                                Count(processings, CallsOf(e)) + Count(batch, {e})
<1> DEFINE R(n) == Started(batch)[n]
           Pre(n) == SubSeq(batch, 1, n)
           Good(n) == /\ SlotsInv(R(n).active, R(n).begun)
                      /\ \A e \in Events : Count(R(n).begun, CallsOf(e)) =
                                             Count(processings, CallsOf(e)) + Count(Pre(n), {e})
           T == {n \in 0..Len(batch) : ~Good(n)}
<1>1. Len(batch) \in Nat /\ \A n \in 1..Len(batch) : batch[n] \in Events
  BY ElementOfSeq
<1>2. /\ R(0) = [active |-> activeHandlers, begun |-> processings]
      /\ \A n \in 1..Len(batch) : R(n) = StartProcessing(R(n - 1), batch[n])
  <2> DEFINE G == Started(batch)
             first == [active |-> activeHandlers, begun |-> processings]
  <2>1. G = [n \in 0..Len(batch) |-> IF n = 0 THEN first ELSE StartProcessing(G[n - 1], batch[n])]
    BY StartedEquation
  <2> HIDE DEF G, first
  <2>2. G[0] = first
    BY <1>1, <2>1
  <2>3. \A n \in 1..Len(batch) : G[n] = StartProcessing(G[n - 1], batch[n])
    <3>1. \A n \in 1..Len(batch) : n \in 0..Len(batch) /\ n # 0
      BY <1>1
    <3> QED BY <2>1, <3>1
  <2> QED BY <2>2, <2>3 DEF G, first
<1>3. Pre(0) = <<>> /\ Pre(Len(batch)) = batch
  <2>1. Len(Pre(0)) = 0 /\ Pre(0) \in Seq(Events)
    BY <1>1, PartElements
  <2>2. Pre(Len(batch)) = batch
    <3>1. /\ Pre(Len(batch)) \in Seq(Events) /\ Len(Pre(Len(batch))) = Len(batch) - 1 + 1
          /\ \A i \in 1..(Len(batch) - 1 + 1) : Pre(Len(batch))[i] = batch[1 + i - 1]
      BY <1>1, PartElements
    <3> HIDE DEF Pre
    <3>2. /\ Len(Pre(Len(batch))) = Len(batch)
          /\ \A i \in 1..Len(batch) : Pre(Len(batch))[i] = batch[i]
      BY <1>1, <3>1
    <3> QED BY <3>1, <3>2, SeqEqual
  <2> HIDE DEF Pre
  <2>3. Pre(0) = <<>>
    BY <2>1, EmptySeq
  <2> QED BY <2>2, <2>3
<1>4. \A n \in 1..Len(batch), e \in Events :
        Count(Pre(n), {e}) = Count(Pre(n - 1), {e}) + (IF batch[n] \in {e} THEN 1 ELSE 0)
  BY CountPrefix
<1>5. \A n \in 0..Len(batch), e \in Events : Count(Pre(n), {e}) \in Nat
  <2>1. \A n \in 0..Len(batch) : Pre(n) \in Seq(Events)
    BY CountSplit
  <2> HIDE DEF Pre
  <2> QED BY <2>1, CountType
<1>6. \A e \in Events : Count(processings, CallsOf(e)) \in Nat
  BY CountType DEF SlotsInv
<1> HIDE DEF R, Pre
<1>7. T = {}
  <2> SUFFICES ASSUME T # {} PROVE FALSE
    OBVIOUS
  <2>1. T \in SUBSET Nat
    BY <1>1
  <2>2. PICK m \in T : \A n \in T : m <= n
    BY <2>1, Least
  <2>3. m \in 0..Len(batch) /\ ~Good(m)
    BY <2>2
  <2>4. m # 0
    <3>1. Good(0)
      <4>1. \A e \in Events : Count(<<>>, {e}) = 0
        BY CountEmpty
      <4> QED BY <1>2, <1>3, <1>6, <4>1, SMTT(30)
    <3> QED BY <2>3, <3>1
  <2>5. m \in 1..Len(batch) /\ m - 1 \in 0..Len(batch) /\ ~(m <= m - 1)
    BY <1>1, <2>3, <2>4
  <2>6. m - 1 \notin T
    BY <2>2, <2>5, Zenon
  <2>7. Good(m - 1)
    BY <2>5, <2>6
  <2>8. Good(m)
    <3>1. R(m) = StartProcessing(R(m - 1), batch[m]) /\ batch[m] \in Events
      BY <1>1, <1>2, <2>5
    <3>2. /\ SlotsInv(R(m).active, R(m).begun)
          /\ \A d \in Events : Count(R(m).begun, CallsOf(d)) =
                                 Count(R(m - 1).begun, CallsOf(d)) + (IF d = batch[m] THEN 1 ELSE 0)
      <4>1. PICK at : at = R(m - 1)
        OBVIOUS
      <4>2. PICK e \in Events : e = batch[m]
        BY <3>1
      <4>3. SlotsInv(at.active, at.begun)
        BY <2>7, <4>1
      <4>4. /\ SlotsInv(StartProcessing(at, e).active, StartProcessing(at, e).begun)
            /\ \A d \in Events : Count(StartProcessing(at, e).begun, CallsOf(d)) =
                                   Count(at.begun, CallsOf(d)) + (IF d = e THEN 1 ELSE 0)
        BY ONLY <4>3, e \in Events, StartProcessingStep
      <4>5. R(m) = StartProcessing(at, e)
        BY <3>1, <4>1, <4>2
      <4> QED BY <4>1, <4>2, <4>4, <4>5
    <3>3. ASSUME NEW e \in Events
          PROVE  Count(R(m).begun, CallsOf(e)) =
                   Count(processings, CallsOf(e)) + Count(Pre(m), {e})
      <4>1. /\ Count(R(m - 1).begun, CallsOf(e)) =
                 Count(processings, CallsOf(e)) + Count(Pre(m - 1), {e})
            /\ Count(Pre(m), {e}) = Count(Pre(m - 1), {e}) + (IF e = batch[m] THEN 1 ELSE 0)
            /\ Count(Pre(m - 1), {e}) \in Nat /\ Count(processings, CallsOf(e)) \in Nat
        BY <1>4, <1>5, <1>6, <2>5, <2>7
      <4> QED BY <3>2, <4>1
    <3> QED BY <3>2, <3>3
  <2> QED BY <2>3, <2>8
<1>8. Good(Len(batch))
  BY <1>1, <1>7
<1>9. processings' = R(Len(batch)).begun /\ activeHandlers' = R(Len(batch)).active
  BY DEF Process, R
<1> QED BY <1>3, <1>8, <1>9

-----------------------------------------------------------------------------
\* The types of the state, without the places of the events.
TypesInv ==
  /\ isRunning \in BOOLEAN /\ cleaning \in BOOLEAN /\ handlers \subseteq Handlers
  /\ status \in [Events -> Statuses] /\ retryCount \in [Events -> Nat]
  /\ processingQueue \in Seq(Events) /\ deadLetterQueue \in Seq(Events)
  /\ retryTimers \in [Events -> Nat]
  /\ dropped \subseteq Events
  /\ SlotsInv(activeHandlers, processings)

Queued(e) == Count(processingQueue, {e})
Handled(e) == Count(processings, CallsOf(e))
Dead(e) == Count(deadLetterQueue, {e})
Places(e) == Queued(e) + Handled(e) + retryTimers[e] + Dead(e)

\* How many places an event has, and that its status is that of one of them.
EventInv(e) ==
  /\ Places(e) <= IF e \in Critical THEN 2 ELSE 1
  /\ status[e] = "none" \/ (status[e] = "completed" /\ e \notin Critical) => Places(e) = 0
  /\ status[e] = "pending" => Queued(e) > 0
  /\ status[e] = "processing" => Handled(e) > 0
  /\ status[e] = "retrying" => retryTimers[e] > 0
  /\ status[e] = "dead_letter" => Dead(e) > 0 \/ e \in dropped

IInv == TypesInv /\ \A e \in Events : EventInv(e)

\* An event that is handled is not taken up again.
Stays(e) == e \notin Critical /\ status[e] = "completed" => status'[e] = "completed"

\* The places of an event are numbers.
LEMMA PlacesType ==
  ASSUME TypesInv, NEW e \in Events
  PROVE  /\ Queued(e) \in Nat /\ Handled(e) \in Nat /\ retryTimers[e] \in Nat /\ Dead(e) \in Nat
         /\ Queued(e) > 0 <=> e \in ToSet(processingQueue)
         /\ Dead(e) > 0 <=> e \in ToSet(deadLetterQueue)
         /\ Queued(e) = Occurrences(e, processingQueue) /\ Dead(e) = Occurrences(e, deadLetterQueue)
         /\ Handled(e) = Processing(e)
<1>1. /\ processingQueue \in Seq(Events) /\ deadLetterQueue \in Seq(Events)
      /\ processings \in Seq(Calling) /\ retryTimers[e] \in Nat
  BY DEF TypesInv, SlotsInv
<1>2. Handled(e) \in Nat
  BY <1>1, CountType DEF Handled
<1>3. Handled(e) = Processing(e)
  <2>1. DOMAIN processings = 1..Len(processings) /\ \A i \in 1..Len(processings) : processings[i] \in Calling
    BY <1>1, CountType, ElementOfSeq
  <2>2. {i \in DOMAIN processings : processings[i].event = e}
          = {i \in DOMAIN processings : processings[i] \in CallsOf(e)}
    BY <2>1 DEF CallsOf
  <2> QED BY <2>2 DEF Handled, Processing, Count
<1> QED BY <1>1, <1>2, <1>3, CountsOf DEF Queued, Dead

\* The numbers of an event after a step that leaves all its places alone.
LEMMA Untouched ==
  ASSUME NEW e \in Events, EventInv(e), status'[e] = status[e],
         Queued(e)' = Queued(e), Handled(e)' = Handled(e), retryTimers'[e] = retryTimers[e],
         Dead(e)' = Dead(e), e \in dropped => e \in dropped'
  PROVE  EventInv(e)' /\ Stays(e)
<1>1. Places(e)' = Places(e)
  BY DEF Places
<1> QED BY <1>1 DEF EventInv, Stays

\* A batch leaves the front of the queue and is handled.
LEMMA TakeBatchStep ==
  ASSUME TypesInv, \A e \in Events : EventInv(e), TakeBatch,
         UNCHANGED <<retrying, deadLetters>>
  PROVE  /\ processingQueue' \in Seq(Events) /\ status' \in [Events -> Statuses]
         /\ SlotsInv(activeHandlers, processings)'
         /\ \A e \in Events : EventInv(e)' /\ Stays(e)
<1> DEFINE n == IF BatchSize < Len(processingQueue) THEN BatchSize ELSE Len(processingQueue)
           batch == SubSeq(processingQueue, 1, n)
           rest == SubSeq(processingQueue, n + 1, Len(processingQueue))
<1>1. processingQueue \in Seq(Events) /\ n \in 0..Len(processingQueue)
  BY EventManagerAssumption DEF TypesInv
<1>2. /\ Process(batch) /\ processingQueue' = rest
      /\ status' = [e \in Events |-> IF e \in ToSet(batch) THEN "processing" ELSE status[e]]
  BY DEF TakeBatch
<1> HIDE DEF n
<1>3. /\ batch \in Seq(Events) /\ rest \in Seq(Events)
      /\ \A e \in Events : Count(processingQueue, {e}) = Count(batch, {e}) + Count(rest, {e})
  BY <1>1, CountSplit
<1> HIDE DEF batch, rest
<1>4. /\ SlotsInv(activeHandlers, processings)'
      /\ \A e \in Events : Count(processings', CallsOf(e)) =
                             Count(processings, CallsOf(e)) + Count(batch, {e})
  BY <1>2, <1>3, ProcessCounts DEF TypesInv
<1>5. status' \in [Events -> Statuses]
  BY <1>2 DEF TypesInv, Statuses
<1>6. ASSUME NEW e \in Events PROVE EventInv(e)' /\ Stays(e)
  <2>1. /\ Queued(e)' = Queued(e) - Count(batch, {e})
        /\ Handled(e)' = Handled(e) + Count(batch, {e})
        /\ retryTimers'[e] = retryTimers[e] /\ Dead(e)' = Dead(e) /\ dropped' = dropped
        /\ Count(batch, {e}) \in Nat /\ Count(rest, {e}) \in Nat
        /\ Queued(e) = Count(batch, {e}) + Count(rest, {e})
        /\ Count(batch, {e}) > 0 <=> e \in ToSet(batch)
    <3>1. /\ Count(batch, {e}) \in Nat /\ Count(rest, {e}) \in Nat
          /\ Count(batch, {e}) > 0 <=> e \in ToSet(batch)
      BY <1>3, CountsOf
    <3>2. Queued(e) = Count(batch, {e}) + Count(rest, {e}) /\ Queued(e)' = Count(rest, {e})
      BY <1>2, <1>3 DEF Queued
    <3>3. Queued(e)' = Queued(e) - Count(batch, {e})
      BY <3>1, <3>2
    <3>4. Handled(e)' = Handled(e) + Count(batch, {e})
      BY <1>4 DEF Handled
    <3>5. retryTimers'[e] = retryTimers[e] /\ Dead(e)' = Dead(e) /\ dropped' = dropped
      BY DEF retrying, deadLetters, Dead
    <3> QED BY <3>1, <3>2, <3>3, <3>4, <3>5
  <2>2. Queued(e) \in Nat /\ Handled(e) \in Nat /\ retryTimers[e] \in Nat /\ Dead(e) \in Nat
    BY PlacesType
  <2>3. Places(e)' = Places(e)
    BY <2>1, <2>2 DEF Places
  <2>4. CASE e \in ToSet(batch)
    <3>1. Places(e) > 0 /\ Count(batch, {e}) > 0
      BY <2>1, <2>2, <2>4 DEF Places
    <3>2. status'[e] = "processing" /\ ~(status[e] = "completed" /\ e \notin Critical)
      BY <1>2, <2>2, <2>4, <3>1 DEF EventInv
    <3> QED BY <2>1, <2>2, <2>3, <3>1, <3>2 DEF EventInv, Stays
  <2>5. CASE e \notin ToSet(batch)
    <3>1. Count(batch, {e}) = 0 /\ status'[e] = status[e]
      BY <1>2, <2>1, <2>5
    <3> QED BY <2>1, <2>2, <3>1, Untouched
  <2> QED BY <2>4, <2>5
<1> QED BY <1>2, <1>3, <1>4, <1>5, <1>6

\* An event is handled or queued for the first time: it was nowhere before.
LEMMA EmitEventStep ==
  ASSUME TypesInv, \A e \in Events : EventInv(e), NEW d \in Events, EmitEvent(d)
  PROVE  TypesInv' /\ \A e \in Events : EventInv(e)' /\ Stays(e)
<1>1. processingQueue \in Seq(Events) /\ processings \in Seq(Calling) /\ status \in [Events -> Statuses]
  BY DEF TypesInv, SlotsInv
<1>2. /\ status[d] = "none" /\ processingQueue' = Append(processingQueue, d)
      /\ UNCHANGED <<lifecycle, retrying, deadLetters>>
  BY DEF EmitEvent
<1>3. /\ processingQueue' \in Seq(Events)
      /\ \A e \in Events : Queued(e)' = Queued(e) + (IF e = d THEN 1 ELSE 0)
  <2>1. ASSUME NEW e \in Events, NEW E, E = {e}
        PROVE  Count(Append(processingQueue, d), E) = Count(processingQueue, E) + (IF d \in E THEN 1 ELSE 0)
    BY <1>1, CountAppend
  <2> QED BY <1>1, <1>2, <2>1, AppendProperties DEF Queued
<1>4. /\ SlotsInv(activeHandlers, processings)'
      /\ \A e \in Events : Handled(e)' = Handled(e) + (IF e = d /\ d \in Critical THEN 1 ELSE 0)
  <2>1. CASE d \in Critical
    <3>1. Process(<<d>>)
      BY <2>1 DEF EmitEvent
    <3>2. <<d>> \in Seq(Events) /\ \A e \in Events : Count(<<d>>, {e}) = IF e = d THEN 1 ELSE 0
      <4>1. ASSUME NEW e \in Events, NEW E, E = {e}
            PROVE  Count(Append(<<>>, d), E) = Count(<<>>, E) + (IF d \in E THEN 1 ELSE 0)
        <5>1. <<>> \in Seq(Events)
          OBVIOUS
        <5> QED BY <5>1, CountAppend, ZenonT(30)
      <4>2. Append(<<>>, d) = <<d>>
        OBVIOUS
      <4>3. \A e \in Events : Count(<<>>, {e}) = 0
        BY CountEmpty
      <4> QED BY <4>1, <4>2, <4>3
    <3> QED BY <2>1, <3>1, <3>2, ProcessCounts DEF TypesInv, Handled
  <2>2. CASE d \notin Critical
    <3>1. UNCHANGED <<processings, activeHandlers>>
      BY <2>2 DEF EmitEvent, work
    <3>2. \A e \in Events : Handled(e) \in Nat /\ Handled(e)' = Handled(e)
      BY <3>1, PlacesType DEF Handled
    <3> QED BY <2>2, <3>1, <3>2 DEF TypesInv
  <2> QED BY <2>1, <2>2
<1>5. status' = [status EXCEPT ![d] = IF d \in Critical THEN "processing" ELSE "pending"]
  BY DEF EmitEvent
<1>6. TypesInv'
  BY <1>1, <1>2, <1>3, <1>4, <1>5 DEF TypesInv, Statuses, lifecycle, retrying, deadLetters
<1>7. ASSUME NEW e \in Events PROVE EventInv(e)' /\ Stays(e)
  <2>1. /\ Queued(e) \in Nat /\ Handled(e) \in Nat /\ retryTimers[e] \in Nat /\ Dead(e) \in Nat
        /\ retryTimers'[e] = retryTimers[e] /\ Dead(e)' = Dead(e) /\ dropped' = dropped
    BY <1>2, PlacesType DEF Dead, retrying, deadLetters
  <2>2. CASE e = d
    <3>1. Queued(e) = 0 /\ Handled(e) = 0 /\ retryTimers[e] = 0 /\ Dead(e) = 0
      BY <1>2, <2>1, <2>2 DEF EventInv, Places
    <3>2. /\ Queued(e)' = 1 /\ Handled(e)' = IF e \in Critical THEN 1 ELSE 0
          /\ status'[e] = IF e \in Critical THEN "processing" ELSE "pending"
      BY <1>1, <1>3, <1>4, <1>5, <2>2, <3>1
    <3>3. Places(e)' = IF e \in Critical THEN 2 ELSE 1
      BY <2>1, <3>1, <3>2 DEF Places
    <3> QED BY <1>2, <2>2, <3>2, <3>3 DEF EventInv, Stays
  <2>3. CASE e # d
    <3>1. Queued(e)' = Queued(e) /\ Handled(e)' = Handled(e) /\ status'[e] = status[e]
      BY <1>1, <1>3, <1>4, <1>5, <2>1, <2>3
    <3> QED BY <2>1, <3>1, Untouched
  <2> QED BY <2>2, <2>3
<1> QED BY <1>6, <1>7

\* A call of a handler ends: it was running, so it may be taken off the count.
LEMMA CallEndsStep ==
  ASSUME TypesInv, \A e \in Events : EventInv(e),
         NEW i \in DOMAIN processings, NEW h \in Handlers, NEW outcome \in {"done", "failed"},
         CallEnds(i, h, outcome)
  PROVE  TypesInv' /\ \A e \in Events : EventInv(e)' /\ Stays(e)
<1> DEFINE p == processings[i]
           y == [p EXCEPT !.calls = [p.calls EXCEPT ![h] = outcome]]
<1>1. /\ processings \in Seq(Calling) /\ i \in 1..Len(processings) /\ p \in Calling
      /\ activeHandlers \in [Handlers -> Nat]
      /\ \A g \in Handlers : activeHandlers[g] <= Count(processings, RunningFor(g))
  BY ElementOfSeq DEF TypesInv, SlotsInv
<1>2. /\ p.calls[h] = "running" /\ processings' = [processings EXCEPT ![i] = y]
      /\ activeHandlers' = [activeHandlers EXCEPT ![h] = Released(activeHandlers[h])]
      /\ UNCHANGED <<lifecycle, status, processingQueue, retrying, deadLetters>>
  BY <1>1 DEF CallEnds, Calling
<1>3. /\ y \in Calling /\ y.event = p.event /\ y.calls[h] = outcome
      /\ \A g \in Handlers : g # h => y.calls[g] = p.calls[g]
  BY <1>1 DEF Calling, CallStates
<1> HIDE DEF y, p
<1>4. /\ processings' \in Seq(Calling)
      /\ \A S : Count(processings', S) =
                  Count(processings, S) - (IF p \in S THEN 1 ELSE 0) + (IF y \in S THEN 1 ELSE 0)
  <2>1. [processings EXCEPT ![i] = y] \in Seq(Calling)
    BY <1>1, <1>3, CountReplace
  <2>2. ASSUME NEW S
        PROVE  Count([processings EXCEPT ![i] = y], S) =
                 Count(processings, S) - (IF processings[i] \in S THEN 1 ELSE 0)
                                       + (IF y \in S THEN 1 ELSE 0)
    BY <1>1, <1>3, CountReplace
  <2> QED BY <1>2, <2>1, <2>2 DEF p
<1>5. \A S : Count(processings, S) \in Nat
  BY <1>1, CountType
<1>6. ASSUME NEW g \in Handlers
      PROVE  activeHandlers'[g] \in Nat /\ activeHandlers'[g] <= Count(processings', RunningFor(g))
  <2>1. CASE g = h
    <3>1. p \in RunningFor(g) /\ y \notin RunningFor(g)
      BY <1>1, <1>2, <1>3, <2>1 DEF RunningFor
    <3>2. Count(processings, RunningFor(g)) > 0
      BY <1>1, <3>1, CountType DEF p
    <3>3. Count(processings', RunningFor(g)) = Count(processings, RunningFor(g)) - 1
      BY <1>4, <1>5, <3>1
    <3>4. activeHandlers'[g] = Released(activeHandlers[g])
      BY <1>1, <1>2, <2>1
    <3> QED BY <1>1, <1>5, <3>2, <3>3, <3>4 DEF Released
  <2>2. CASE g # h
    <3>1. p \in RunningFor(g) <=> y \in RunningFor(g)
      BY <1>1, <1>3, <2>2 DEF RunningFor
    <3>2. Count(processings', RunningFor(g)) = Count(processings, RunningFor(g))
      BY <1>4, <1>5, <3>1
    <3>3. activeHandlers'[g] = activeHandlers[g]
      BY <1>1, <1>2, <2>2
    <3> QED BY <1>1, <3>2, <3>3
  <2> QED BY <2>1, <2>2
<1>7. activeHandlers' \in [Handlers -> Nat]
  BY <1>1, <1>2, <1>6
<1>8. SlotsInv(activeHandlers, processings)'
  BY <1>4, <1>6, <1>7 DEF SlotsInv
<1>9. TypesInv'
  BY <1>2, <1>8 DEF TypesInv, lifecycle, retrying, deadLetters
<1>10. ASSUME NEW e \in Events PROVE EventInv(e)' /\ Stays(e)
  <2>1. p \in CallsOf(e) <=> y \in CallsOf(e)
    BY <1>1, <1>3 DEF CallsOf
  <2>2. Handled(e)' = Handled(e)
    BY <1>4, <1>5, <2>1 DEF Handled
  <2> QED BY <1>2, <2>2, Untouched DEF Queued, Dead, retrying, deadLetters
<1> QED BY <1>9, <1>10

\* processEvent ends: the event leaves its processing, and if a handler failed
\* it goes to a retry timer or to the dead letter queue.
LEMMA SettleStep ==
  ASSUME TypesInv, \A e \in Events : EventInv(e), NEW i \in DOMAIN processings, Settle(i)
  PROVE  TypesInv' /\ \A e \in Events : EventInv(e)' /\ Stays(e)
<1> DEFINE p == processings[i]
           d == p.event
<1>1. /\ processings \in Seq(Calling) /\ i \in 1..Len(processings) /\ p \in Calling
      /\ activeHandlers \in [Handlers -> Nat]
      /\ \A g \in Handlers : activeHandlers[g] <= Count(processings, RunningFor(g))
      /\ deadLetterQueue \in Seq(Events) /\ status \in [Events -> Statuses]
      /\ retryCount \in [Events -> Nat] /\ retryTimers \in [Events -> Nat]
  BY ElementOfSeq DEF TypesInv, SlotsInv
<1>2. /\ "running" \notin Calls(i) /\ processings' = RemoveAt(processings, i)
      /\ Retried(d) \/ DeadLettered(d) \/ Completed(d)
      /\ UNCHANGED <<lifecycle, processingQueue, activeHandlers>>
  BY DEF Settle
<1>3. d \in Events /\ \A h \in Handlers : p \notin RunningFor(h)
  BY <1>1, <1>2 DEF Calling, Calls, RunningFor
<1> HIDE DEF p
<1>4. /\ processings' \in Seq(Calling)
      /\ \A S : Count(processings', S) = Count(processings, S) - (IF p \in S THEN 1 ELSE 0)
      /\ \A S : Count(processings, S) \in Nat
      /\ \A S : p \in S => Count(processings, S) > 0
  <2>1. RemoveAt(processings, i) \in Seq(Calling)
    BY <1>1, CountRemoveAt
  <2>2. \A S : Count(RemoveAt(processings, i), S) =
                 Count(processings, S) - (IF processings[i] \in S THEN 1 ELSE 0)
    BY <1>1, CountRemoveAt
  <2>3. \A S : Count(processings, S) \in Nat /\ (processings[i] \in S => Count(processings, S) > 0)
    BY <1>1, CountType
  <2> QED BY <1>2, <2>1, <2>2, <2>3 DEF p
<1>5. SlotsInv(activeHandlers, processings)'
  <2>1. ASSUME NEW h \in Handlers
        PROVE  activeHandlers'[h] <= Count(processings', RunningFor(h))
    BY <1>1, <1>2, <1>3, <1>4
  <2> QED BY <1>1, <1>2, <1>4, <2>1 DEF SlotsInv
<1>6. \A e \in Events : Handled(e)' = Handled(e) - (IF e = d THEN 1 ELSE 0) /\ Handled(d) > 0
  <2>1. \A e \in Events : p \in CallsOf(e) <=> e = d
    BY <1>1 DEF CallsOf, p
  <2> QED BY <1>3, <1>4, <2>1 DEF Handled
<1>7. \A e \in Events : /\ Queued(e) \in Nat /\ Handled(e) \in Nat /\ retryTimers[e] \in Nat
                        /\ Dead(e) \in Nat /\ Queued(e)' = Queued(e)
  BY <1>2, PlacesType DEF Queued
<1>8. ~(d \notin Critical /\ status[d] = "completed") /\ d \in Events
  BY <1>3, <1>6, <1>7 DEF EventInv, Places
<1> HIDE DEF d
<1>9. CASE Completed(d)
  <2>1. status' = [status EXCEPT ![d] = "completed"] /\ UNCHANGED <<retrying, deadLetters>>
    BY <1>9 DEF Completed
  <2>2. TypesInv'
    BY <1>1, <1>2, <1>5, <1>8, <2>1 DEF TypesInv, Statuses, lifecycle, retrying, deadLetters
  <2>3. ASSUME NEW e \in Events PROVE EventInv(e)' /\ Stays(e)
    <3>1. retryTimers'[e] = retryTimers[e] /\ Dead(e)' = Dead(e) /\ dropped' = dropped
      BY <2>1 DEF Dead, retrying, deadLetters
    <3>2. CASE e = d
      <4>1. status'[e] = "completed" /\ Handled(e)' = Handled(e) - 1 /\ Handled(e) > 0
        BY <1>1, <1>6, <2>1, <3>2
      <4>2. Places(e)' = Places(e) - 1 /\ Places(e) \in Nat
        BY <1>7, <3>1, <4>1 DEF Places
      <4>3. Places(e)' \in Int
        BY <4>2
      <4>4. CASE e \in Critical
        <5>1. Places(e) <= 2
          BY <4>4 DEF EventInv
        <5>2. Places(e)' <= 2
          BY <4>2, <5>1
        <5> QED BY <4>1, <4>3, <4>4, <5>2 DEF EventInv, Stays
      <4>5. CASE e \notin Critical
        <5>1. Places(e) <= 1
          BY <4>5 DEF EventInv
        <5>2. Places(e) > 0
          BY <1>7, <3>1, <4>1 DEF Places
        <5>3. Places(e)' = 0
          BY <4>2, <5>1, <5>2
        <5> QED BY <4>1, <4>5, <5>3 DEF EventInv, Stays
      <4> QED BY <4>4, <4>5
    <3>3. CASE e # d
      <4>1. status'[e] = status[e] /\ Handled(e)' = Handled(e)
        BY <1>1, <1>6, <1>7, <2>1, <3>3
      <4> QED BY <1>7, <3>1, <4>1, Untouched
    <3> QED BY <3>2, <3>3
  <2> QED BY <2>2, <2>3
<1>10. CASE Retried(d)
  <2>1. /\ status' = [status EXCEPT ![d] = "retrying"]
        /\ retryCount' = [retryCount EXCEPT ![d] = @ + 1]
        /\ retryTimers' = [retryTimers EXCEPT ![d] = @ + 1]
        /\ UNCHANGED deadLetters
    BY <1>10 DEF Retried
  <2>2. TypesInv'
    BY <1>1, <1>2, <1>5, <1>8, <2>1 DEF TypesInv, Statuses, lifecycle, deadLetters
  <2>3. ASSUME NEW e \in Events PROVE EventInv(e)' /\ Stays(e)
    <3>1. Dead(e)' = Dead(e) /\ dropped' = dropped
      BY <2>1 DEF Dead, deadLetters
    <3>2. CASE e = d
      <4>1. /\ status'[e] = "retrying" /\ Handled(e)' = Handled(e) - 1
            /\ retryTimers'[e] = retryTimers[e] + 1
        BY <1>1, <1>6, <2>1, <3>2
      <4>2. Places(e)' = Places(e)
        BY <1>7, <3>1, <4>1 DEF Places
      <4> QED BY <1>7, <1>8, <3>2, <4>1, <4>2 DEF EventInv, Stays
    <3>3. CASE e # d
      <4>1. status'[e] = status[e] /\ Handled(e)' = Handled(e) /\ retryTimers'[e] = retryTimers[e]
        BY <1>1, <1>6, <1>7, <2>1, <3>3
      <4> QED BY <1>7, <3>1, <4>1, Untouched
    <3> QED BY <3>2, <3>3
  <2> QED BY <2>2, <2>3
<1>11. CASE DeadLettered(d)
  <2> DEFINE longer == Append(deadLetterQueue, d)
             n == Len(longer)
             kept == IF n <= DeadLetterLimit THEN longer
                     ELSE SubSeq(longer, n - DeadLetterKept + 1, n)
  <2>1. /\ status' = [status EXCEPT ![d] = "dead_letter"]
        /\ retryCount' = [retryCount EXCEPT ![d] = @ + 1]
        /\ deadLetterQueue' = kept
        /\ dropped' = dropped \cup (ToSet(longer) \ ToSet(kept))
        /\ UNCHANGED retryTimers
    BY <1>11 DEF DeadLettered
  <2>2. longer \in Seq(Events) /\ n \in Nat
        /\ \A e \in Events : Count(longer, {e}) = Dead(e) + (IF e = d THEN 1 ELSE 0)
    <3>1. ASSUME NEW e \in Events, NEW E, E = {e}
          PROVE  Count(Append(deadLetterQueue, d), E) = Count(deadLetterQueue, E) + (IF d \in E THEN 1 ELSE 0)
      BY <1>1, <1>8, CountAppend
    <3>2. Append(deadLetterQueue, d) \in Seq(Events)
      BY <1>1, <1>8, AppendProperties
    <3> QED BY <3>1, <3>2 DEF Dead
  <2> HIDE DEF longer
  <2>3. kept \in Seq(Events) /\ \A e \in Events : Count(kept, {e}) <= Count(longer, {e})
    <3>1. CASE n <= DeadLetterLimit
      <4>1. kept = longer
        BY <3>1
      <4>2. \A e \in Events : Count(longer, {e}) \in Nat
        BY <2>2, CountsOf
      <4>3. longer \in Seq(Events)
        BY <2>2
      <4> HIDE DEF kept
      <4>4. \A e \in Events : Count(kept, {e}) <= Count(longer, {e})
        BY <4>1, <4>2
      <4> QED BY <4>1, <4>3, <4>4
    <3>2. CASE ~(n <= DeadLetterLimit)
      <4>1. n - DeadLetterKept \in 0..n /\ kept = SubSeq(longer, n - DeadLetterKept + 1, n)
        BY <2>2, <3>2, EventManagerAssumption, SMTT(30)
      <4>2. /\ SubSeq(longer, 1, n - DeadLetterKept) \in Seq(Events) /\ kept \in Seq(Events)
            /\ \A e \in Events : Count(longer, {e}) =
                                   Count(SubSeq(longer, 1, n - DeadLetterKept), {e}) + Count(kept, {e})
        BY <2>2, <4>1, CountSplit, ZenonT(30)
      <4>3. \A e \in Events : /\ Count(SubSeq(longer, 1, n - DeadLetterKept), {e}) \in Nat
                              /\ Count(kept, {e}) \in Nat
        BY <4>2, CountsOf
      <4> QED BY <4>2, <4>3
    <3> QED BY <3>1, <3>2
  <2> HIDE DEF kept
  <2>4. \A e \in Events : /\ Count(kept, {e}) \in Nat /\ Count(longer, {e}) \in Nat
                          /\ Count(longer, {e}) > 0 => Count(kept, {e}) > 0 \/ e \in dropped'
    BY <2>1, <2>2, <2>3, CountsOf
  <2>5. ToSet(longer) \subseteq Events
    BY <2>2 DEF ToSet
  <2>6. TypesInv'
    BY <1>1, <1>2, <1>5, <1>8, <2>1, <2>3, <2>5 DEF TypesInv, Statuses, lifecycle
  <2>7. ASSUME NEW e \in Events PROVE EventInv(e)' /\ Stays(e)
    <3>1. /\ Dead(e)' = Count(kept, {e}) /\ Dead(e)' \in Nat
          /\ Dead(e)' <= Dead(e) + (IF e = d THEN 1 ELSE 0)
          /\ Dead(e) + (IF e = d THEN 1 ELSE 0) > 0 => Dead(e)' > 0 \/ e \in dropped'
          /\ retryTimers'[e] = retryTimers[e] /\ (e \in dropped => e \in dropped')
      BY <2>1, <2>2, <2>3, <2>4 DEF Dead
    <3>2. CASE e = d
      <4>1. status'[e] = "dead_letter" /\ Handled(e)' = Handled(e) - 1
        BY <1>1, <1>6, <2>1, <3>2
      <4>2. Places(e)' <= Places(e) /\ Places(e)' \in Nat /\ Places(e) \in Nat
        BY <1>6, <1>7, <3>1, <3>2, <4>1 DEF Places
      <4>3. Dead(e)' > 0 \/ e \in dropped'
        BY <1>7, <3>1, <3>2
      <4> QED BY <1>8, <3>2, <4>1, <4>2, <4>3 DEF EventInv, Stays
    <3>3. CASE e # d
      <4>1. status'[e] = status[e] /\ Handled(e)' = Handled(e)
        BY <1>1, <1>6, <1>7, <2>1, <3>3
      <4>2. Places(e)' <= Places(e) /\ Places(e)' \in Nat /\ Places(e) \in Nat
        BY <1>7, <3>1, <3>3, <4>1 DEF Places
      <4>3. Dead(e) > 0 => Dead(e)' > 0 \/ e \in dropped'
        BY <1>7, <3>1, <3>3
      <4> QED BY <1>7, <3>1, <4>1, <4>2, <4>3 DEF EventInv, Stays
    <3> QED BY <3>2, <3>3
  <2> QED BY <2>6, <2>7
<1> QED BY <1>2, <1>9, <1>10, <1>11 DEF d

\* The timer of a retry fires: the event is queued again.
LEMMA RetryTimerStep ==
  ASSUME TypesInv, \A e \in Events : EventInv(e), NEW d \in Events, RetryTimer(d)
  PROVE  TypesInv' /\ \A e \in Events : EventInv(e)' /\ Stays(e)
<1>1. /\ processingQueue \in Seq(Events) /\ status \in [Events -> Statuses]
      /\ retryTimers \in [Events -> Nat]
  BY DEF TypesInv
<1>2. /\ retryTimers[d] > 0 /\ retryTimers' = [retryTimers EXCEPT ![d] = @ - 1]
      /\ status' = [status EXCEPT ![d] = "pending"]
      /\ processingQueue' = Append(processingQueue, d)
      /\ UNCHANGED <<lifecycle, work, retryCount, deadLetters>>
  BY DEF RetryTimer
<1>3. /\ processingQueue' \in Seq(Events)
      /\ \A e \in Events : Queued(e)' = Queued(e) + (IF e = d THEN 1 ELSE 0)
  <2>1. ASSUME NEW e \in Events, NEW E, E = {e}
        PROVE  Count(Append(processingQueue, d), E) = Count(processingQueue, E) + (IF d \in E THEN 1 ELSE 0)
    BY <1>1, CountAppend
  <2> QED BY <1>1, <1>2, <2>1, AppendProperties DEF Queued
<1>4. TypesInv'
  BY <1>1, <1>2, <1>3 DEF TypesInv, Statuses, lifecycle, work, deadLetters, SlotsInv
<1>5. ASSUME NEW e \in Events PROVE EventInv(e)' /\ Stays(e)
  <2>1. /\ Queued(e) \in Nat /\ Handled(e) \in Nat /\ retryTimers[e] \in Nat /\ Dead(e) \in Nat
        /\ Handled(e)' = Handled(e) /\ Dead(e)' = Dead(e) /\ dropped' = dropped
    BY <1>2, PlacesType DEF Handled, Dead, work, deadLetters
  <2>2. CASE e = d
    <3>1. Queued(e)' = Queued(e) + 1 /\ retryTimers'[e] = retryTimers[e] - 1 /\ status'[e] = "pending"
      BY <1>1, <1>2, <1>3, <2>2
    <3>2. Places(e)' = Places(e) /\ Places(e) > 0
      BY <1>2, <2>1, <2>2, <3>1, SMTT(30) DEF Places
    <3> QED BY <2>1, <3>1, <3>2 DEF EventInv, Stays
  <2>3. CASE e # d
    <3>1. Queued(e)' = Queued(e) /\ retryTimers'[e] = retryTimers[e] /\ status'[e] = status[e]
      BY <1>1, <1>2, <1>3, <2>1, <2>3
    <3> QED BY <2>1, <3>1, Untouched
  <2> QED BY <2>2, <2>3
<1> QED BY <1>4, <1>5

\* Dead letters that are retried go to the queue, all their copies.
LEMMA RetryDeadLetterEventsStep ==
  ASSUME TypesInv, \A e \in Events : EventInv(e),
         NEW ids \in SUBSET ToSet(deadLetterQueue), RetryDeadLetterEvents(ids)
  PROVE  TypesInv' /\ \A e \in Events : EventInv(e)' /\ Stays(e)
<1> DEFINE Picked(set) == Filtered(deadLetterQueue, set)[Len(deadLetterQueue)]
<1>1. /\ processingQueue \in Seq(Events) /\ status \in [Events -> Statuses]
      /\ deadLetterQueue \in Seq(Events) /\ retryCount \in [Events -> Nat]
  BY DEF TypesInv
<1>2. /\ processingQueue' = processingQueue \o Picked(ids)
      /\ deadLetterQueue' = Picked(Events \ ids)
      /\ status' = [e \in Events |-> IF e \in ids THEN "pending" ELSE status[e]]
      /\ retryCount' = [e \in Events |-> IF e \in ids THEN 0 ELSE retryCount[e]]
      /\ UNCHANGED <<lifecycle, work, retryTimers, dropped>>
  BY DEF RetryDeadLetterEvents
<1>3. \A set : /\ Picked(set) \in Seq(Events)
               /\ \A e \in Events : Count(Picked(set), {e}) = IF e \in set THEN Dead(e) ELSE 0
  BY <1>1, CountFiltered DEF Dead
<1> HIDE DEF Picked
<1>4. /\ processingQueue' \in Seq(Events) /\ deadLetterQueue' \in Seq(Events)
      /\ \A e \in Events : /\ Queued(e)' = Queued(e) + (IF e \in ids THEN Dead(e) ELSE 0)
                           /\ Dead(e)' = IF e \in ids THEN 0 ELSE Dead(e)
  <2>1. processingQueue \o Picked(ids) \in Seq(Events)
    BY <1>1, <1>3, ConcatProperties
  <2>2. ASSUME NEW E
        PROVE  Count(processingQueue \o Picked(ids), E) = Count(processingQueue, E) + Count(Picked(ids), E)
    BY <1>1, <1>3, CountConcat
  <2>3. \A e \in Events : Queued(e)' = Queued(e) + (IF e \in ids THEN Dead(e) ELSE 0)
    BY <1>2, <1>3, <2>2 DEF Queued
  <2>4. \A e \in Events : Dead(e)' = IF e \in ids THEN 0 ELSE Dead(e)
    BY <1>2, <1>3 DEF Dead
  <2> QED BY <1>2, <1>3, <2>1, <2>3, <2>4
<1>5. TypesInv'
  BY <1>1, <1>2, <1>4 DEF TypesInv, Statuses, lifecycle, work, SlotsInv
<1>6. ASSUME NEW e \in Events PROVE EventInv(e)' /\ Stays(e)
  <2>1. /\ Queued(e) \in Nat /\ Handled(e) \in Nat /\ retryTimers[e] \in Nat /\ Dead(e) \in Nat
        /\ Handled(e)' = Handled(e) /\ retryTimers'[e] = retryTimers[e] /\ dropped' = dropped
        /\ Dead(e) > 0 <=> e \in ToSet(deadLetterQueue)
    BY <1>2, PlacesType DEF Handled, work
  <2>2. CASE e \in ids
    <3>1. Queued(e)' = Queued(e) + Dead(e) /\ Dead(e)' = 0 /\ Dead(e) > 0 /\ status'[e] = "pending"
      BY <1>1, <1>2, <1>4, <2>1, <2>2
    <3>2. Places(e)' = Places(e) /\ Places(e) > 0
      BY <2>1, <3>1 DEF Places
    <3> QED BY <2>1, <3>1, <3>2 DEF EventInv, Stays
  <2>3. CASE e \notin ids
    <3>1. Queued(e)' = Queued(e) /\ Dead(e)' = Dead(e) /\ status'[e] = status[e]
      BY <1>2, <1>4, <2>1, <2>3
    <3> QED BY <2>1, <3>1, Untouched
  <2> QED BY <2>2, <2>3
<1> QED BY <1>5, <1>6

-----------------------------------------------------------------------------
\* Every step keeps the invariant, and no event that is handled is taken up.
LEMMA NextStep ==
  ASSUME IInv, [Next]_vars
  PROVE  IInv' /\ \A e \in Events : Stays(e)
<1> USE DEF IInv
<1>1. ASSUME UNCHANGED <<status, processingQueue, work, retrying, deadLetters>>,
             isRunning' \in BOOLEAN, cleaning' \in BOOLEAN, handlers' \subseteq Handlers
      PROVE  IInv' /\ \A e \in Events : Stays(e)
  <2>1. TypesInv'
    BY <1>1 DEF TypesInv, SlotsInv, work, retrying, deadLetters
  <2>2. ASSUME NEW e \in Events PROVE EventInv(e)' /\ Stays(e)
    BY <1>1, Untouched DEF Queued, Handled, Dead, work, retrying, deadLetters
  <2> QED BY <2>1, <2>2
<1>2. CASE Initialize
  BY <1>1, <1>2 DEF Initialize, TypesInv
<1>3. CASE Cleanup
  BY <1>1, <1>3 DEF Cleanup, TypesInv
<1>4. ASSUME NEW h \in Handlers, RegisterHandler(h) \/ UnregisterHandler(h)
      PROVE  IInv' /\ \A e \in Events : Stays(e)
  BY <1>1, <1>4 DEF RegisterHandler, UnregisterHandler, TypesInv
<1>5. ASSUME TakeBatch, UNCHANGED <<retrying, deadLetters>>,
             isRunning' \in BOOLEAN, cleaning' \in BOOLEAN, UNCHANGED handlers
      PROVE  IInv' /\ \A e \in Events : Stays(e)
  <2>1. /\ processingQueue' \in Seq(Events) /\ status' \in [Events -> Statuses]
        /\ SlotsInv(activeHandlers, processings)'
        /\ \A e \in Events : EventInv(e)' /\ Stays(e)
    BY <1>5, TakeBatchStep
  <2>2. TypesInv'
    BY <1>5, <2>1 DEF TypesInv, retrying, deadLetters
  <2> QED BY <2>1, <2>2
<1>6. CASE ProcessEventBatch
  <2>1. TakeBatch /\ UNCHANGED <<lifecycle, retrying, deadLetters>>
    BY <1>6 DEF ProcessEventBatch
  <2> QED BY <1>5, <2>1 DEF TypesInv, lifecycle
<1>7. CASE ProcessRemainingEvents
  <2>1. /\ cleaning' = FALSE /\ UNCHANGED <<isRunning, handlers, retrying, deadLetters>>
        /\ TakeBatch \/ UNCHANGED <<processingQueue, status, work>>
    BY <1>7 DEF ProcessRemainingEvents
  <2>2. isRunning' \in BOOLEAN /\ cleaning' \in BOOLEAN /\ handlers' \subseteq Handlers
    BY <2>1 DEF TypesInv
  <2> QED BY <1>1, <1>5, <2>1, <2>2
<1>8. ASSUME NEW e \in Events, EmitEvent(e) \/ RetryTimer(e)
      PROVE  IInv' /\ \A d \in Events : Stays(d)
  BY <1>8, EmitEventStep, RetryTimerStep
<1>9. ASSUME NEW i \in DOMAIN processings, ProcessingStep(i)
      PROVE  IInv' /\ \A e \in Events : Stays(e)
  BY <1>9, CallEndsStep, SettleStep DEF ProcessingStep
<1>10. ASSUME NEW ids \in SUBSET ToSet(deadLetterQueue), RetryDeadLetterEvents(ids)
       PROVE  IInv' /\ \A e \in Events : Stays(e)
  BY <1>10, RetryDeadLetterEventsStep
<1>11. CASE UNCHANGED vars
  BY <1>1, <1>11 DEF vars, lifecycle, TypesInv
<1> QED BY <1>2, <1>3, <1>4, <1>6, <1>7, <1>8, <1>9, <1>10, <1>11 DEF Next

\* At first no event is anywhere.
LEMMA InitIInv == Init => IInv
<1> SUFFICES ASSUME Init PROVE IInv
  OBVIOUS
<1>1. /\ processingQueue = <<>> /\ processings = <<>> /\ deadLetterQueue = <<>>
      /\ activeHandlers = [h \in Handlers |-> 0] /\ retryTimers = [e \in Events |-> 0]
      /\ status = [e \in Events |-> "none"] /\ retryCount = [e \in Events |-> 0]
      /\ isRunning = FALSE /\ cleaning = FALSE /\ handlers = Handlers /\ dropped = {}
  BY DEF Init
<1>2. \A S : Count(<<>>, S) = 0
  BY CountEmpty
<1>3. SlotsInv(activeHandlers, processings)
  BY <1>1, <1>2 DEF SlotsInv
<1>4. TypesInv
  <2>1. <<>> \in Seq(Events) /\ <<>> \in Seq(Calling)
    BY EmptySeq
  <2>2. status \in [Events -> Statuses] /\ retryCount \in [Events -> Nat]
        /\ activeHandlers \in [Handlers -> Nat] /\ retryTimers \in [Events -> Nat]
    BY <1>1 DEF Statuses
  <2> QED BY <1>1, <1>3, <2>1, <2>2 DEF TypesInv
<1>5. ASSUME NEW e \in Events PROVE EventInv(e)
  <2>1. Queued(e) = 0 /\ Handled(e) = 0 /\ Dead(e) = 0 /\ retryTimers[e] = 0
    BY <1>1, <1>2 DEF Queued, Handled, Dead
  <2>2. Places(e) = 0
    BY <2>1 DEF Places
  <2> QED BY <1>1, <2>2 DEF EventInv
<1> QED BY <1>4, <1>5 DEF IInv

\* IInv is an invariant of EventManager.
THEOREM Invariance == Spec => []IInv
BY InitIInv, NextStep, PTL DEF Spec

\* The types hold; an event is in one place at a time, through failures, retries
\* and dead letters, and a critical one in two at most.
THEOREM TypeCorrectness == Spec => []TypeOK
<1>1. IInv => TypeOK
  <2> SUFFICES ASSUME IInv PROVE TypeOK
    OBVIOUS
  <2>1. \A e \in Events : Copies(e) <= IF e \in Critical THEN 2 ELSE 1
    BY PlacesType DEF IInv, EventInv, Places, Copies
  <2> QED BY <2>1 DEF IInv, TypesInv, SlotsInv, Calling, CallStates, TypeOK
<1> QED BY Invariance, <1>1, PTL

\* Whatever the status of an event says, somebody holds it who goes on with it.
THEOREM NoEventLostAlways == Spec => []NoEventLost
<1>1. IInv => NoEventLost
  BY PlacesType DEF IInv, EventInv, NoEventLost
<1> QED BY Invariance, <1>1, PTL

\* The count of a handler never exceeds its calls under way: no slot leaks.
THEOREM NoSlotLeaksAlways == Spec => []NoSlotLeaks
<1>1. IInv => NoSlotLeaks
  <2> SUFFICES ASSUME IInv, NEW h \in Handlers
               PROVE  activeHandlers[h] <= Cardinality(Running(h))
    BY DEF NoSlotLeaks
  <2>1. processings \in Seq(Calling) /\ activeHandlers[h] <= Count(processings, RunningFor(h))
    BY DEF IInv, TypesInv, SlotsInv
  <2>2. DOMAIN processings = 1..Len(processings) /\ \A i \in 1..Len(processings) : processings[i] \in Calling
    BY <2>1, CountType, ElementOfSeq
  <2>3. Running(h) = {i \in DOMAIN processings : processings[i] \in RunningFor(h)}
    BY <2>2 DEF Running, RunningFor
  <2> QED BY <2>1, <2>3 DEF Count
<1> QED BY Invariance, <1>1, PTL

\* An event that all handlers have handled is not handled again, unless it is
\* a critical one.
THEOREM CompletedStaysAlways == Spec => CompletedStays
<1>1. IInv /\ [Next]_vars =>
        [\A e \in Events \ Critical : status[e] = "completed" => status'[e] = "completed"]_vars
  BY NextStep DEF Stays
<1> QED BY Invariance, <1>1, PTL DEF Spec, CompletedStays
=============================================================================

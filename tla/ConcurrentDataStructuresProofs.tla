-------------------- MODULE ConcurrentDataStructuresProofs --------------------
(***************************************************************************)
(* The circular buffer, for every capacity and every set of items: the     *)
(* positions, the cells and the size counter agree (TypeOK, SizeIsCount),  *)
(* and the buffer implements BoundedQueue.  The read-write lock, for every *)
(* set of tasks: no wake-up is lost.  The priority queue, for every set of *)
(* tasks and of priorities: the heap is ordered and implements PriorityBag.*)
(***************************************************************************)
EXTENDS ConcurrentDataStructures, Integers, FiniteSets, SequencesExt,
        SequenceTheorems, FiniteSetTheorems, WellFoundedInduction, TLAPS

\* Positions wrap around once, whatever the capacity.
LEMMA Wrap ==
  ASSUME NEW x \in 0..(2 * Capacity - 1)
  PROVE  x % Capacity = IF x < Capacity THEN x ELSE x - Capacity
<1>1. Capacity \in Nat \ {0}
  BY BufferAssumption
<1>2. CASE x < Capacity
  BY <1>1, <1>2, SMT
<1>3. CASE x >= Capacity
  <2>1. PICK y \in 0..(Capacity - 1) : x = y + Capacity
    BY <1>1, <1>3, SMT
  <2>2. (y + Capacity) % Capacity = y
    BY <1>1, <2>1, SMT
  <2> QED
    BY <2>1, <2>2, <1>1, SMT
<1> QED
  BY <1>1, <1>2, <1>3

LEMMA FollowingPosition ==
  ASSUME NEW p \in Positions
  PROVE  /\ Following(p) = IF p = Capacity - 1 THEN 0 ELSE p + 1
         /\ Following(p) \in Positions
<1>1. (p + 1) \in 0..(2 * Capacity - 1) /\ p \in 0..(Capacity - 1) /\ Capacity \in Nat \ {0}
  BY BufferAssumption DEF Positions
<1>2. (p + 1) % Capacity = IF p + 1 < Capacity THEN p + 1 ELSE p + 1 - Capacity
  BY <1>1, Wrap
<1> QED
  BY <1>1, <1>2 DEF Following, Positions

-----------------------------------------------------------------------------
\* The types of the variables, without what TypeOK says of the cells.
Types ==
  /\ buffer \in [Positions -> Items \cup {Undefined}]
  /\ head \in Positions /\ tail \in Positions
  /\ size \in Nat

\* The i-th item lies i - 1 positions behind the read position.
CellAt(i) == IF tail + i - 1 < Capacity THEN tail + i - 1 ELSE tail + i - 1 - Capacity

\* The positions from the read position up to the write position.
Used(p) == IF tail <= head THEN tail <= p /\ p < head ELSE tail <= p \/ p < head

CellsMatch == \A p \in Positions : buffer[p] # Undefined <=> Used(p)

IInv == Types /\ CellsMatch /\ SizeIsCount

LEMMA CountBounds ==
  ASSUME Types
  PROVE  /\ Count \in 0..(Capacity - 1)
         /\ Count = 0 <=> tail = head
         /\ Full <=> Count = Capacity - 1
<1>1. head \in 0..(Capacity - 1) /\ tail \in 0..(Capacity - 1) /\ Capacity \in Nat \ {0}
  BY BufferAssumption DEF Types, Positions
<1>2. Following(head) = IF head = Capacity - 1 THEN 0 ELSE head + 1
  BY FollowingPosition DEF Types
<1> QED
  BY <1>1, <1>2 DEF Count, Full

LEMMA CellPosition ==
  ASSUME Types, NEW i \in 1..Capacity
  PROVE  Cell(i) = CellAt(i) /\ Cell(i) \in Positions
<1>1. tail \in 0..(Capacity - 1) /\ Capacity \in Nat \ {0}
  BY BufferAssumption DEF Types, Positions
<1> DEFINE x == tail + i - 1
<1>2. x \in 0..(2 * Capacity - 1)
  BY <1>1
<1>3. x % Capacity = IF x < Capacity THEN x ELSE x - Capacity
  <2> HIDE DEF x
  <2> QED
    BY <1>2, Wrap
<1>4. Cell(i) = CellAt(i)
  BY <1>1, <1>3, SMT DEF Cell, CellAt
<1> QED
  BY <1>1, <1>4 DEF CellAt, Positions

\* The cells of TypeOK are the used positions.
LEMMA CellsAreUsed ==
  ASSUME Types, NEW p \in Positions
  PROVE  (\E i \in 1..Count : p = Cell(i)) <=> Used(p)
<1>1. head \in 0..(Capacity - 1) /\ tail \in 0..(Capacity - 1) /\ p \in 0..(Capacity - 1)
  BY DEF Types, Positions
<1>2. Capacity \in Nat \ {0} /\ Count \in 0..(Capacity - 1)
  BY BufferAssumption, CountBounds
<1>3. \A i \in 1..Count : Cell(i) = CellAt(i)
  BY <1>2, CellPosition
<1>4. ASSUME NEW i \in 1..Count, p = Cell(i) PROVE Used(p)
  <2>1. p = CellAt(i)
    BY <1>3, <1>4
  <2> QED
    BY <2>1, <1>1, <1>2 DEF CellAt, Used, Count
<1>5. ASSUME Used(p) PROVE \E i \in 1..Count : p = Cell(i)
  <2> DEFINE i == IF tail <= p THEN p - tail + 1 ELSE p + Capacity - tail + 1
  <2>1. i \in 1..Count /\ p = CellAt(i)
    BY <1>1, <1>2, <1>5 DEF CellAt, Used, Count
  <2> QED
    BY <2>1, <1>3
<1> QED
  BY <1>4, <1>5

LEMMA IInvImpliesTypeOK == IInv => TypeOK
  BY CellsAreUsed DEF IInv, Types, CellsMatch, TypeOK

-----------------------------------------------------------------------------
LEMMA InitEstablishes == Init => IInv
<1> SUFFICES ASSUME Init PROVE IInv
  OBVIOUS
<1>1. 0 \in Positions
  BY BufferAssumption DEF Positions
<1> QED
  BY <1>1 DEF Init, IInv, Types, CellsMatch, Used, SizeIsCount, Count, Positions

\* The positions that a step reads and writes, as numbers.
LEMMA Numbers ==
  ASSUME Types
  PROVE  /\ Capacity \in Nat \ {0} /\ head \in 0..(Capacity - 1) /\ tail \in 0..(Capacity - 1)
         /\ Following(head) = IF head = Capacity - 1 THEN 0 ELSE head + 1
         /\ Following(tail) = IF tail = Capacity - 1 THEN 0 ELSE tail + 1
         /\ Following(head) \in Positions /\ Following(tail) \in Positions
  BY BufferAssumption, FollowingPosition DEF Types, Positions

LEMMA PushPreserves ==
  ASSUME IInv, NEW item \in Items, Push(item)
  PROVE  IInv'
<1>1. Types
  BY DEF IInv
<1>2. CASE Full
  BY <1>2 DEF Push, IInv, Types, CellsMatch, Used, SizeIsCount, Count
<1>3. CASE ~Full
  <2>1. /\ buffer' = [buffer EXCEPT ![head] = item]
        /\ head' = Following(head) /\ tail' = tail /\ size' = Grown
    BY <1>3 DEF Push
  <2>2. Types'
    <3>1. Grown \in Nat
      BY Numbers, <1>1 DEF Grown, Types
    <3> QED
      BY <2>1, <3>1, Numbers, <1>1 DEF Types
  <2>3. CellsMatch'
    <3>1. ASSUME NEW p \in Positions PROVE Used(p)' <=> Used(p) \/ p = head
      BY <2>1, <1>1, <1>3, Numbers DEF Used, Full, Positions
    <3>2. ASSUME NEW p \in Positions PROVE buffer'[p] = IF p = head THEN item ELSE buffer[p]
      BY <2>1, <1>1 DEF Types
    <3> QED
      BY <3>1, <3>2, BufferAssumption DEF IInv, CellsMatch
  <2>4. SizeIsCount'
    BY <2>1, <1>1, <1>3, Numbers DEF IInv, SizeIsCount, Count, Grown, Full
  <2> QED
    BY <2>2, <2>3, <2>4 DEF IInv
<1> QED
  BY <1>2, <1>3

LEMMA PopPreserves ==
  ASSUME IInv, Pop
  PROVE  IInv'
<1>1. Types
  BY DEF IInv
<1>2. CASE tail = head
  BY <1>2 DEF Pop, IInv, Types, CellsMatch, Used, SizeIsCount, Count
<1>3. CASE tail # head
  <2>1. /\ buffer' = [buffer EXCEPT ![tail] = Undefined]
        /\ tail' = Following(tail) /\ head' = head
        /\ size' = IF size > 0 THEN size - 1 ELSE 0
    BY <1>3 DEF Pop
  <2>2. Types'
    <3>1. size' \in Nat
      BY <2>1, <1>1 DEF Types
    <3> QED
      BY <2>1, <3>1, Numbers, <1>1 DEF Types
  <2>3. CellsMatch'
    <3>1. ASSUME NEW p \in Positions PROVE Used(p)' <=> Used(p) /\ p # tail
      BY <2>1, <1>1, <1>3, Numbers DEF Used, Positions
    <3>2. ASSUME NEW p \in Positions PROVE buffer'[p] = IF p = tail THEN Undefined ELSE buffer[p]
      BY <2>1, <1>1 DEF Types
    <3> QED
      BY <3>1, <3>2 DEF IInv, CellsMatch
  <2>4. SizeIsCount'
    BY <2>1, <1>1, <1>3, Numbers DEF IInv, SizeIsCount, Count
  <2> QED
    BY <2>2, <2>3, <2>4 DEF IInv
<1> QED
  BY <1>2, <1>3

LEMMA ClearPreserves ==
  ASSUME IInv, Clear
  PROVE  IInv'
<1>1. 0 \in Positions
  BY BufferAssumption DEF Positions
<1> QED
  BY <1>1 DEF Clear, IInv, Types, CellsMatch, Used, SizeIsCount, Count, Positions

LEMMA StepPreserves == IInv /\ [Next]_vars => IInv'
<1> SUFFICES ASSUME IInv, [Next]_vars PROVE IInv'
  OBVIOUS
<1>1. CASE UNCHANGED vars
  BY <1>1 DEF vars, IInv, Types, CellsMatch, Used, SizeIsCount, Count
<1> QED
  BY <1>1, PushPreserves, PopPreserves, ClearPreserves DEF Next

\* In every reachable state the positions and the size agree with the cells.
THEOREM Invariance == Spec => []IInv
  BY InitEstablishes, StepPreserves, PTL DEF Spec

\* The buffer's variables have their types, and the cells that hold items are
\* those between the two positions, for every capacity.
THEOREM TypeCorrectness == Spec => []TypeOK
  BY Invariance, IInvImpliesTypeOK, PTL

\* size() is the number of items inside, however often the positions wrap.
THEOREM SizeIsCountAlways == Spec => []SizeIsCount
<1>1. IInv => SizeIsCount
  BY DEF IInv
<1> QED
  BY Invariance, <1>1, PTL

-----------------------------------------------------------------------------
(* The refinement: the cells from the read position on are the queue.      *)

ContentFacts ==
  /\ Count \in 0..(Capacity - 1)
  /\ Content \in Seq(Items) /\ Len(Content) = Count
  /\ \A i \in 1..Count : Content[i] = buffer[CellAt(i)]

LEMMA ContentIsSeq == IInv => ContentFacts
<1> SUFFICES ASSUME IInv PROVE ContentFacts
  OBVIOUS
<1>1. Types /\ Count \in 0..(Capacity - 1)
  BY CountBounds DEF IInv
<1>2. Capacity \in Nat \ {0}
  BY BufferAssumption
<1>3. ASSUME NEW i \in 1..Count PROVE buffer[Cell(i)] \in Items /\ Cell(i) = CellAt(i)
  <2>1. Cell(i) \in Positions /\ Cell(i) = CellAt(i)
    BY <1>1, <1>2, CellPosition
  <2>2. Used(Cell(i))
    BY <2>1, <1>1, CellsAreUsed
  <2> QED
    BY <2>1, <2>2, <1>1 DEF IInv, CellsMatch, Types
<1>4. Content \in Seq(Items)
  BY <1>1, <1>3, IsASeq DEF Content
<1> QED
  BY <1>1, <1>3, <1>4, LenProperties DEF Content, ContentFacts

LEMMA NextContentIsSeq == IInv' => ContentFacts'
  BY ContentIsSeq, PTL

LEMMA InitRefines == Init => Queue!Init
<1> SUFFICES ASSUME Init PROVE Content = <<>> /\ returned = Undefined
  BY DEF Queue!Init
<1>1. IInv /\ Count = 0
  BY InitEstablishes DEF Init, Count
<1> QED
  BY <1>1, ContentIsSeq, EmptySeq DEF Init, ContentFacts

LEMMA PushRefines ==
  ASSUME IInv, IInv', NEW item \in Items, Push(item)
  PROVE  Queue!Push(item)
<1>1. Types /\ ContentFacts /\ ContentFacts'
  BY ContentIsSeq, NextContentIsSeq DEF IInv
<1>2. Full <=> Len(Content) = Capacity - 1
  BY <1>1, CountBounds DEF ContentFacts
<1>3. CASE Full
  <2>1. Content' = Content /\ returned' = "refused"
    BY <1>3 DEF Push, Content, Count, Cell
  <2> QED
    BY <1>2, <1>3, <2>1 DEF Queue!Push
<1>4. CASE ~Full
  <2>1. /\ buffer' = [buffer EXCEPT ![head] = item]
        /\ head' = Following(head) /\ tail' = tail /\ returned' = "accepted"
    BY <1>4 DEF Push
  <2>2. Count' = Count + 1
    BY <2>1, <1>1, <1>4, Numbers DEF Count, Full
  <2>3. ASSUME NEW i \in 1..(Count + 1) PROVE CellAt(i)' = CellAt(i) /\ CellAt(i) \in Positions
    <3>1. CellAt(i)' = CellAt(i)
      BY <2>1 DEF CellAt
    <3>2. /\ i \in Nat /\ 1 <= i /\ i <= Capacity /\ tail \in 0..(Capacity - 1)
          /\ Capacity \in Nat \ {0}
      BY <1>1, <1>2, <1>4, Numbers DEF ContentFacts, Types, Positions, Full
    <3>3. CellAt(i) \in 0..(Capacity - 1)
      BY <3>2 DEF CellAt
    <3> QED BY <3>1, <3>3 DEF Positions
  <2>4. ASSUME NEW i \in 1..Count PROVE CellAt(i) # head
    BY <1>1, Numbers DEF CellAt, Count, ContentFacts
  <2>5. CellAt(Count + 1) = head
    BY <1>1, <1>4, Numbers DEF CellAt, Count
  <2>6. ASSUME NEW i \in 1..Count PROVE Content'[i] = Content[i]
    <3>1. Content'[i] = buffer'[CellAt(i)]
      BY <1>1, <2>2, <2>3 DEF ContentFacts
    <3> QED
      BY <3>1, <2>1, <2>3, <2>4, <1>1 DEF ContentFacts, Types
  <2>7. Content'[Count + 1] = item
    <3>1. Content'[Count + 1] = buffer'[head]
      BY <1>1, <2>2, <2>3, <2>5 DEF ContentFacts
    <3> QED
      BY <3>1, <2>1, <1>1 DEF Types
  <2>8. Content' = Append(Content, item)
    <3> DEFINE old == Content
               new == Content'
    <3>1. /\ old \in Seq(Items) /\ new \in Seq(Items)
          /\ Len(new) = Len(old) + 1
          /\ \A i \in 1..Len(old) : new[i] = old[i]
          /\ new[Len(old) + 1] = item
      BY <1>1, <2>2, <2>6, <2>7 DEF ContentFacts
    <3> HIDE DEF old, new
    <3>2. new = Append(old, item)
      BY <3>1, AppendProperties, SeqEqual
    <3> QED
      BY <3>2 DEF old, new
  <2> QED
    BY <1>1, <1>2, <1>4, <2>1, <2>8, CountBounds, BufferAssumption DEF Queue!Push, ContentFacts
<1> QED
  BY <1>3, <1>4

LEMMA PopRefines ==
  ASSUME IInv, IInv', Pop
  PROVE  Queue!Pop
<1>1. Types /\ ContentFacts /\ ContentFacts'
  BY ContentIsSeq, NextContentIsSeq DEF IInv
<1>2. tail = head <=> Content = <<>>
  BY <1>1, CountBounds, EmptySeq DEF ContentFacts
<1>3. CASE tail = head
  <2>1. Content' = Content /\ returned' = Undefined
    BY <1>3 DEF Pop, Content, Count, Cell
  <2> QED
    BY <1>2, <1>3, <2>1 DEF Queue!Pop
<1>4. CASE tail # head
  <2>1. /\ buffer' = [buffer EXCEPT ![tail] = Undefined]
        /\ tail' = Following(tail) /\ head' = head /\ returned' = buffer[tail]
    BY <1>4 DEF Pop
  <2>2. Count' = Count - 1 /\ Count > 0
    BY <2>1, <1>1, <1>4, Numbers DEF Count
  <2>3. ASSUME NEW i \in 1..(Count - 1)
        PROVE  CellAt(i)' = CellAt(i + 1) /\ CellAt(i + 1) \in Positions /\ CellAt(i + 1) # tail
    <3>1. /\ Capacity \in Nat \ {0} /\ tail \in 0..(Capacity - 1)
          /\ tail' = IF tail = Capacity - 1 THEN 0 ELSE tail + 1
      BY <1>1, <2>1, Numbers
    <3>2. i \in Nat \ {0} /\ i + 1 <= Capacity - 1
      BY <1>1, <3>1 DEF ContentFacts
    <3>3. CellAt(i)' = CellAt(i + 1)
      BY <3>1, <3>2 DEF CellAt
    <3> QED
      BY <3>1, <3>2, <3>3 DEF CellAt, Positions
  <2>4. ASSUME NEW i \in 1..(Count - 1) PROVE Content'[i] = Content[i + 1]
    <3>1. Content'[i] = buffer'[CellAt(i + 1)]
      BY <1>1, <2>2, <2>3 DEF ContentFacts
    <3>2. i + 1 \in 1..Count
      BY <1>1, <2>2 DEF ContentFacts
    <3> QED
      BY <3>1, <3>2, <2>1, <2>3, <1>1 DEF ContentFacts, Types
  <2>5. Content[1] = buffer[tail]
    <3>1. CellAt(1) = tail /\ 1 \in 1..Count
      BY <1>1, <2>2, Numbers DEF CellAt, ContentFacts
    <3> QED
      BY <3>1, <1>1 DEF ContentFacts
  <2>6. Content' = Tail(Content)
    <3> DEFINE old == Content
               new == Content'
    <3>1. /\ old \in Seq(Items) /\ new \in Seq(Items) /\ old # <<>>
          /\ Len(new) = Len(old) - 1
          /\ \A i \in 1..Len(new) : new[i] = old[i + 1]
      BY <1>1, <1>2, <1>4, <2>2, <2>4 DEF ContentFacts
    <3> HIDE DEF old, new
    <3>2. new = Tail(old)
      BY <3>1, HeadTailProperties, SeqEqual
    <3> QED
      BY <3>2 DEF old, new
  <2>7. returned' = Head(Content)
    BY <2>1, <2>5, <1>1 DEF ContentFacts
  <2> QED
    BY <1>2, <1>4, <2>6, <2>7 DEF Queue!Pop
<1> QED
  BY <1>3, <1>4

LEMMA ClearRefines ==
  ASSUME IInv', Clear
  PROVE  Queue!Clear
<1>1. ContentFacts' /\ Count' = 0 /\ returned' = Undefined
  BY NextContentIsSeq DEF Clear, Count
<1>2. Content' = <<>>
  BY <1>1, EmptySeq DEF ContentFacts
<1> QED
  BY <1>1, <1>2 DEF Queue!Clear

LEMMA StepRefines == IInv /\ IInv' /\ [Next]_vars => [Queue!Next]_Queue!vars
<1> SUFFICES ASSUME IInv, IInv', [Next]_vars PROVE [Queue!Next]_Queue!vars
  OBVIOUS
<1>1. CASE UNCHANGED vars
  BY <1>1 DEF vars, Queue!vars, Content, Count, Cell
<1> QED
  BY <1>1, PushRefines, PopRefines, ClearRefines DEF Next, Queue!Next

\* The buffer implements a first-in first-out queue of Capacity - 1 items: no
\* item is lost, repeated or overtaken, for every capacity.
THEOREM Refinement == Spec => ImplementsQueue
  BY Invariance, InitRefines, StepRefines, PTL DEF Spec, ImplementsQueue, Queue!Spec

-----------------------------------------------------------------------------
\* No element comes twice.
Once(q) == \A i, j \in 1..Len(q) : q[i] = q[j] => i = j

\* A task that waits stands in one line, and nobody else stands there.
Line(q, S) == q \in Seq(LockTasks) /\ Once(q) /\ ToSet(q) = S

LEMMA EmptyLine == Line(<<>>, {})
BY EmptySeq DEF Line, Once, ToSet

LEMMA ToSetElements ==
  ASSUME NEW q \in Seq(LockTasks)
  PROVE  /\ ToSet(q) = {q[i] : i \in 1..Len(q)} /\ Len(q) \in Nat
         /\ q = <<>> <=> ToSet(q) = {}
<1>1. ToSet(q) = {q[i] : i \in 1..Len(q)} /\ Len(q) \in Nat
  BY DEF ToSet
<1>2. CASE q = <<>>
  BY <1>1, <1>2, EmptySeq
<1>3. CASE q # <<>>
  <2>1. Len(q) > 0 /\ 1 \in 1..Len(q)
    BY <1>1, <1>3, EmptySeq
  <2> QED BY <1>1, <1>3, <2>1
<1> QED BY <1>1, <1>2, <1>3

LEMMA AppendLine ==
  ASSUME NEW q, NEW S, Line(q, S), NEW t \in LockTasks, t \notin S
  PROVE  Line(Append(q, t), S \cup {t}) /\ Append(q, t) # <<>>
<1> DEFINE n == Len(q)
           r == Append(q, t)
<1>1. q \in Seq(LockTasks) /\ n \in Nat /\ S = {q[i] : i \in 1..n} /\ Once(q)
  BY ToSetElements DEF Line
<1>2. /\ r \in Seq(LockTasks) /\ Len(r) = n + 1 /\ r[n + 1] = t
      /\ \A i \in 1..n : r[i] = q[i]
  BY <1>1, AppendProperties
<1> HIDE DEF r
<1>3. ToSet(r) = {r[i] : i \in 1..(n + 1)}
  BY <1>2, ToSetElements
<1>4. Once(r)
  <2> SUFFICES ASSUME NEW i \in 1..(n + 1), NEW j \in 1..(n + 1), r[i] = r[j] PROVE i = j
    BY <1>2 DEF Once
  <2>1. CASE i \in 1..n /\ j \in 1..n
    BY <1>1, <1>2, <2>1 DEF Once
  <2>2. CASE i = n + 1 /\ j \in 1..n
    BY <1>1, <1>2, <2>2
  <2>3. CASE j = n + 1 /\ i \in 1..n
    BY <1>1, <1>2, <2>3
  <2> QED BY <1>1, <2>1, <2>2, <2>3
<1>5. ToSet(r) = S \cup {t}
  <2>1. ASSUME NEW x \in ToSet(r) PROVE x \in S \cup {t}
    BY <1>1, <1>2, <1>3
  <2>2. ASSUME NEW x \in S PROVE x \in ToSet(r)
    BY <1>1, <1>2, <1>3
  <2>3. t \in ToSet(r)
    <3>1. n + 1 \in 1..(n + 1)
      BY <1>1
    <3> QED BY <1>2, <1>3, <3>1
  <2> QED BY <2>1, <2>2, <2>3
<1>6. r # <<>>
  BY <1>1, <1>2, EmptySeq
<1> QED BY <1>2, <1>4, <1>5, <1>6 DEF Line, r

LEMMA TailLine ==
  ASSUME NEW q, NEW S, Line(q, S), q # <<>>
  PROVE  Head(q) \in S /\ Head(q) \in LockTasks /\ Line(Tail(q), S \ {Head(q)})
<1> DEFINE n == Len(q)
           r == Tail(q)
<1>1. q \in Seq(LockTasks) /\ n \in Nat /\ S = {q[i] : i \in 1..n} /\ Once(q)
  BY ToSetElements DEF Line
<1>2. /\ Head(q) = q[1] /\ n > 0
      /\ r \in Seq(LockTasks) /\ Len(r) = n - 1
      /\ \A i \in 1..(n - 1) : r[i] = q[i + 1]
  BY <1>1, HeadTailProperties, EmptySeq
<1> HIDE DEF r
<1>3. ToSet(r) = {r[i] : i \in 1..(n - 1)}
  BY <1>2, ToSetElements
<1>4. q[1] \in LockTasks /\ q[1] \in S
  BY <1>1, <1>2, ElementOfSeq
<1>5. Once(r)
  <2> SUFFICES ASSUME NEW i \in 1..(n - 1), NEW j \in 1..(n - 1), r[i] = r[j] PROVE i = j
    BY <1>2 DEF Once
  <2>1. q[i + 1] = q[j + 1] /\ i + 1 \in 1..n /\ j + 1 \in 1..n
    BY <1>1, <1>2
  <2>2. i + 1 = j + 1
    BY <1>1, <2>1 DEF Once
  <2> QED BY <2>2
<1>6. ToSet(r) = S \ {q[1]}
  <2>1. ASSUME NEW i \in 1..(n - 1) PROVE r[i] \in S \ {q[1]}
    <3>1. r[i] = q[i + 1] /\ i + 1 \in 1..n /\ 1 \in 1..n /\ i + 1 # 1
      BY <1>1, <1>2
    <3> QED BY <1>1, <3>1 DEF Once
  <2>2. ASSUME NEW i \in 1..n, q[i] # q[1] PROVE q[i] \in ToSet(r)
    <3>1. i - 1 \in 1..(n - 1) /\ r[i - 1] = q[(i - 1) + 1] /\ (i - 1) + 1 = i
      BY <1>1, <1>2, <2>2
    <3> QED BY <1>3, <3>1
  <2>3. ToSet(r) \subseteq S \ {q[1]}
    BY <1>3, <2>1
  <2>4. S \ {q[1]} \subseteq ToSet(r)
    BY <1>1, <2>2
  <2> QED BY <2>3, <2>4
<1> QED BY <1>2, <1>4, <1>5, <1>6 DEF Line, r

LEMMA ConcatLine ==
  ASSUME NEW p, NEW q, NEW S, NEW T, Line(p, S), Line(q, T), S \cap T = {}
  PROVE  Line(p \o q, S \cup T) /\ (q # <<>> => p \o q # <<>>)
<1> DEFINE m == Len(p)
           n == Len(q)
           r == p \o q
<1>1. /\ p \in Seq(LockTasks) /\ m \in Nat /\ S = {p[i] : i \in 1..m} /\ Once(p)
      /\ q \in Seq(LockTasks) /\ n \in Nat /\ T = {q[i] : i \in 1..n} /\ Once(q)
  BY ToSetElements DEF Line
<1>2. /\ r \in Seq(LockTasks) /\ Len(r) = m + n
      /\ \A i \in 1..(m + n) : r[i] = IF i <= m THEN p[i] ELSE q[i - m]
  BY <1>1, ConcatProperties
<1> HIDE DEF r
<1>3. ToSet(r) = {r[i] : i \in 1..(m + n)}
  BY <1>2, ToSetElements
<1>4. ASSUME NEW i \in 1..(m + n)
      PROVE  \/ i \in 1..m /\ r[i] = p[i] /\ r[i] \in S
             \/ i - m \in 1..n /\ r[i] = q[i - m] /\ r[i] \in T
  BY <1>1, <1>2
<1>5. Once(r)
  <2> SUFFICES ASSUME NEW i \in 1..(m + n), NEW j \in 1..(m + n), r[i] = r[j] PROVE i = j
    BY <1>2 DEF Once
  <2>1. CASE i \in 1..m /\ j \in 1..m /\ p[i] = p[j]
    BY <1>1, <2>1 DEF Once
  <2>2. CASE i - m \in 1..n /\ j - m \in 1..n /\ q[i - m] = q[j - m]
    <3>1. i - m = j - m
      BY <1>1, <2>2 DEF Once
    <3> QED BY <1>1, <3>1
  <2> QED BY <1>4, <2>1, <2>2
<1>6. ToSet(r) = S \cup T
  <2>1. ToSet(r) \subseteq S \cup T
    BY <1>3, <1>4
  <2>2. ASSUME NEW i \in 1..m PROVE p[i] \in ToSet(r)
    <3>1. i \in 1..(m + n) /\ r[i] = p[i]
      BY <1>1, <1>2
    <3> QED BY <1>3, <3>1
  <2>3. ASSUME NEW i \in 1..n PROVE q[i] \in ToSet(r)
    <3>1. m + i \in 1..(m + n) /\ ~(m + i <= m) /\ (m + i) - m = i
      BY <1>1
    <3>2. r[m + i] = q[i]
      BY <1>2, <3>1
    <3> QED BY <1>3, <3>1, <3>2
  <2>4. S \cup T \subseteq ToSet(r)
    BY <1>1, <2>2, <2>3
  <2> QED BY <2>1, <2>4
<1>7. q # <<>> => r # <<>>
  BY <1>1, <1>2, EmptySeq
<1> QED BY <1>2, <1>5, <1>6, <1>7 DEF Line, r

-----------------------------------------------------------------------------
Reading == Lock!In("reads")
Writing == Lock!In("writes")
ReadersWaiting == Lock!In("readWaits")
WritersWaiting == Lock!In("writeWaits")
Due == ToSet(lockTimers)

LockTypes ==
  /\ lockMode \in [LockTasks -> Lock!Modes]
  /\ writers \in {0, 1} /\ waitingWriters \in Int /\ zeroTimeouts \in Nat

\* A waiting task stands in the queue of its kind or is about to be woken.
LinesInv ==
  /\ Line(lockTimers, Due) /\ Due \subseteq ReadersWaiting \cup WritersWaiting
  /\ Line(readerWaitQueue, ReadersWaiting \ Due)
  /\ Line(writerWaitQueue, WritersWaiting \ Due)

\* What the counters say of the tasks.  Two writers may write at a time, of which
\* the first to end sets writers to 0.
CountersInv ==
  /\ IsFiniteSet(Reading) /\ readers = Cardinality(Reading)
  /\ writers # 0 => Writing # {}
  /\ Lock!Unspoiled => IsFiniteSet(WritersWaiting) /\ waitingWriters = Cardinality(WritersWaiting)

\* A reader only waits for writers.
WaitsForWriter == Lock!Unspoiled /\ readerWaitQueue # <<>> => Writing \cup WritersWaiting # {}

LockInv == LockTypes /\ LinesInv /\ CountersInv /\ WaitsForWriter /\ LockNoLostWakeup

\* A step changes the mode of one task.
SetsMode(t, m) == lockMode' = [lockMode EXCEPT ![t] = m]

LEMMA ModeStep ==
  ASSUME LockTypes, NEW t \in LockTasks, NEW m \in Lock!Modes, SetsMode(t, m)
  PROVE  /\ lockMode' \in [LockTasks -> Lock!Modes]
         /\ Reading' = IF m = "reads" THEN Reading \cup {t} ELSE Reading \ {t}
         /\ Writing' = IF m = "writes" THEN Writing \cup {t} ELSE Writing \ {t}
         /\ ReadersWaiting' = IF m = "readWaits" THEN ReadersWaiting \cup {t} ELSE ReadersWaiting \ {t}
         /\ WritersWaiting' = IF m = "writeWaits" THEN WritersWaiting \cup {t} ELSE WritersWaiting \ {t}
         /\ t \notin Reading => Reading \ {t} = Reading
         /\ t \notin Writing => Writing \ {t} = Writing
         /\ t \notin ReadersWaiting => ReadersWaiting \ {t} = ReadersWaiting
         /\ t \notin WritersWaiting => WritersWaiting \ {t} = WritersWaiting
<1>1. lockMode' \in [LockTasks -> Lock!Modes]
  BY DEF LockTypes, SetsMode
<1>2. ASSUME NEW k \in Lock!Modes
      PROVE  Lock!In(k)' = IF m = k THEN Lock!In(k) \cup {t} ELSE Lock!In(k) \ {t}
  BY DEF LockTypes, Lock!In, SetsMode
<1> QED BY <1>1, <1>2 DEF Reading, Writing, ReadersWaiting, WritersWaiting, Lock!Modes

\* A task is in one mode at a time.
LEMMA OneMode ==
  ASSUME NEW t \in LockTasks
  PROVE  /\ t \in Reading <=> lockMode[t] = "reads"
         /\ t \in Writing <=> lockMode[t] = "writes"
         /\ t \in ReadersWaiting <=> lockMode[t] = "readWaits"
         /\ t \in WritersWaiting <=> lockMode[t] = "writeWaits"
BY DEF Reading, Writing, ReadersWaiting, WritersWaiting, Lock!In

LEMMA ModeNames ==
  /\ "reads" \in Lock!Modes /\ "writes" \in Lock!Modes /\ "idle" \in Lock!Modes
  /\ "readWaits" \in Lock!Modes /\ "writeWaits" \in Lock!Modes
BY DEF Lock!Modes

LEMMA InitLock == Lock!Init => LockInv
<1> SUFFICES ASSUME Lock!Init PROVE LockInv
  OBVIOUS
<1>1. /\ lockMode = [t \in LockTasks |-> "idle"] /\ lockTimers = <<>>
      /\ readers = 0 /\ writers = 0 /\ waitingWriters = 0 /\ zeroTimeouts = 0
      /\ readerWaitQueue = <<>> /\ writerWaitQueue = <<>>
  BY DEF Lock!Init
<1>2. Reading = {} /\ Writing = {} /\ ReadersWaiting = {} /\ WritersWaiting = {} /\ Due = {}
  BY <1>1, EmptyLine DEF Reading, Writing, ReadersWaiting, WritersWaiting, Due, Lock!In, Line
<1>3. LockTypes
  BY <1>1 DEF LockTypes, Lock!Modes
<1>4. LinesInv
  BY <1>1, <1>2, EmptyLine DEF LinesInv
<1>5. CountersInv
  BY <1>1, <1>2, FS_EmptySet DEF CountersInv
<1> QED BY <1>1, <1>3, <1>4, <1>5 DEF LockInv, WaitsForWriter, LockNoLostWakeup, Lock!NoLostWakeup

LEMMA AcquireReadStep ==
  ASSUME LockInv, NEW t \in LockTasks, Lock!AcquireRead(t)
  PROVE  LockInv'
<1>1. LockTypes /\ LinesInv /\ CountersInv /\ WaitsForWriter /\ LockNoLostWakeup
  BY DEF LockInv
<1>2. /\ lockMode[t] = "idle" /\ UNCHANGED <<writers, waitingWriters, writerWaitQueue, lockTimers, zeroTimeouts>>
      /\ t \notin Reading /\ t \notin ReadersWaiting /\ t \notin Writing /\ t \notin WritersWaiting
  BY OneMode DEF Lock!AcquireRead
<1>3. CASE writers = 0 /\ waitingWriters = 0
  <2>1. /\ readers' = readers + 1 /\ readerWaitQueue' = readerWaitQueue
        /\ SetsMode(t, "reads")
    BY <1>3 DEF Lock!AcquireRead, SetsMode
  <2>2. /\ lockMode' \in [LockTasks -> Lock!Modes] /\ Reading' = Reading \cup {t} /\ Writing' = Writing
        /\ ReadersWaiting' = ReadersWaiting /\ WritersWaiting' = WritersWaiting
    BY <1>1, <1>2, <2>1, ModeStep, ModeNames, SMTT(30)
  <2>3. Due' = Due
    BY <1>2 DEF Due
  <2>4. LockTypes' /\ LinesInv' /\ WaitsForWriter'
    BY <1>1, <1>2, <2>1, <2>3, <2>2 DEF LockTypes, LinesInv, WaitsForWriter, Lock!Unspoiled
  <2>5. CountersInv'
    BY <1>1, <1>2, <2>1, <2>3, <2>2, FS_AddElement DEF CountersInv, Lock!Unspoiled
  <2>6. LockNoLostWakeup'
    BY <2>3, <2>2 DEF LockNoLostWakeup, Lock!NoLostWakeup, Reading, Writing
  <2> QED BY <2>4, <2>5, <2>6 DEF LockInv
<1>4. CASE ~(writers = 0 /\ waitingWriters = 0)
  <2>1. /\ readers' = readers /\ readerWaitQueue' = Append(readerWaitQueue, t)
        /\ SetsMode(t, "readWaits")
    BY <1>4 DEF Lock!AcquireRead, SetsMode
  <2>2. /\ lockMode' \in [LockTasks -> Lock!Modes] /\ Reading' = Reading /\ Writing' = Writing
        /\ ReadersWaiting' = ReadersWaiting \cup {t} /\ WritersWaiting' = WritersWaiting
    <3>1. SetsMode(t, "readWaits")
      BY <2>1
    <3> QED BY <1>1, <1>2, <3>1, ModeStep, ModeNames
  <2>3. Due' = Due
    BY <1>2 DEF Due
  <2>4. t \notin Due /\ (ReadersWaiting \ Due) \cup {t} = ReadersWaiting' \ Due'
    BY <1>1, <1>2, <2>3, <2>2 DEF LinesInv
  <2>5. Line(readerWaitQueue', ReadersWaiting' \ Due')
    BY <1>1, <1>2, <2>1, <2>4, AppendLine DEF LinesInv
  <2>6. LockTypes' /\ LinesInv' /\ CountersInv'
    BY <1>1, <1>2, <2>1, <2>3, <2>2, <2>5 DEF LockTypes, LinesInv, CountersInv, Lock!Unspoiled
  <2>7. Lock!Unspoiled => Writing \cup WritersWaiting # {}
    BY <1>1, <1>4, FS_EmptySet DEF CountersInv
  <2>8. WaitsForWriter'
    BY <1>2, <2>3, <2>2, <2>7 DEF WaitsForWriter, Lock!Unspoiled
  <2>9. Lock!Unspoiled /\ Writing = {} => writerWaitQueue # <<>> \/ lockTimers # <<>>
    <3>1. writerWaitQueue = <<>> => WritersWaiting \ Due = {}
      BY <1>1, ToSetElements DEF LinesInv, Line
    <3>2. lockTimers = <<>> => Due = {}
      BY <1>1, ToSetElements DEF LinesInv, Line
    <3> QED BY <2>7, <3>1, <3>2
  <2>10. LockNoLostWakeup'
    BY <1>1, <1>2, <2>3, <2>2, <2>9 DEF LockNoLostWakeup, Lock!NoLostWakeup, Lock!Unspoiled, Reading, Writing
  <2> QED BY <2>6, <2>8, <2>10 DEF LockInv
<1> QED BY <1>3, <1>4

LEMMA AcquireWriteStep ==
  ASSUME LockInv, NEW t \in LockTasks, Lock!AcquireWrite(t)
  PROVE  LockInv'
<1>1. LockTypes /\ LinesInv /\ CountersInv /\ WaitsForWriter /\ LockNoLostWakeup
  BY DEF LockInv
<1>2. /\ lockMode[t] = "idle" /\ UNCHANGED <<readers, readerWaitQueue, lockTimers, zeroTimeouts>>
      /\ t \notin Reading /\ t \notin ReadersWaiting /\ t \notin Writing /\ t \notin WritersWaiting
  BY OneMode DEF Lock!AcquireWrite
<1>3. CASE readers = 0 /\ writers = 0
  <2>1. /\ writers' = 1 /\ UNCHANGED <<waitingWriters, writerWaitQueue>>
        /\ SetsMode(t, "writes")
    BY <1>3 DEF Lock!AcquireWrite, SetsMode
  <2>2. /\ lockMode' \in [LockTasks -> Lock!Modes] /\ Reading' = Reading /\ Writing' = Writing \cup {t}
        /\ ReadersWaiting' = ReadersWaiting /\ WritersWaiting' = WritersWaiting
    BY <1>1, <1>2, <2>1, ModeStep, ModeNames, SMTT(30)
  <2>3. Due' = Due
    BY <1>2 DEF Due
  <2>4. LockTypes' /\ LinesInv' /\ WaitsForWriter' /\ CountersInv'
    BY <1>1, <1>2, <2>1, <2>3, <2>2
    DEF LockTypes, LinesInv, WaitsForWriter, CountersInv, Lock!Unspoiled
  <2>5. LockNoLostWakeup'
    BY <2>3, <2>2 DEF LockNoLostWakeup, Lock!NoLostWakeup, Reading, Writing
  <2> QED BY <2>4, <2>5 DEF LockInv
<1>4. CASE ~(readers = 0 /\ writers = 0)
  <2>1. /\ waitingWriters' = waitingWriters + 1 /\ writerWaitQueue' = Append(writerWaitQueue, t)
        /\ SetsMode(t, "writeWaits") /\ writers' = writers
    BY <1>4 DEF Lock!AcquireWrite, SetsMode
  <2>2. /\ lockMode' \in [LockTasks -> Lock!Modes] /\ Reading' = Reading /\ Writing' = Writing
        /\ ReadersWaiting' = ReadersWaiting /\ WritersWaiting' = WritersWaiting \cup {t}
    <3>1. SetsMode(t, "writeWaits")
      BY <2>1
    <3> QED BY <1>1, <1>2, <3>1, ModeStep, ModeNames
  <2>3. Due' = Due
    BY <1>2 DEF Due
  <2>4. t \notin Due /\ (WritersWaiting \ Due) \cup {t} = WritersWaiting' \ Due'
    BY <1>1, <1>2, <2>3, <2>2 DEF LinesInv
  <2>5. Line(writerWaitQueue', WritersWaiting' \ Due')
    BY <1>1, <1>2, <2>1, <2>4, AppendLine DEF LinesInv
  <2>6. LockTypes' /\ LinesInv' /\ WaitsForWriter'
    BY <1>1, <1>2, <2>1, <2>3, <2>2, <2>5 DEF LockTypes, LinesInv, WaitsForWriter, Lock!Unspoiled
  <2>7. CountersInv'
    BY <1>1, <1>2, <2>1, <2>3, <2>2, FS_AddElement DEF CountersInv, LockTypes, Lock!Unspoiled
  <2>8. Reading \cup Writing # {}
    BY <1>1, <1>4, FS_EmptySet DEF CountersInv
  <2>9. LockNoLostWakeup'
    BY <2>3, <2>2, <2>8 DEF LockNoLostWakeup, Lock!NoLostWakeup, Reading, Writing
  <2> QED BY <2>6, <2>7, <2>9 DEF LockInv
<1> QED BY <1>3, <1>4

LEMMA AcquireWriteNowStep ==
  ASSUME LockInv, NEW t \in LockTasks, Lock!AcquireWriteNow(t)
  PROVE  LockInv'
<1>1. LockTypes /\ LinesInv /\ CountersInv /\ WaitsForWriter /\ LockNoLostWakeup
  BY DEF LockInv
<1>2. /\ zeroTimeouts' = zeroTimeouts + 1
      /\ waitingWriters' = IF waitingWriters > 0 THEN waitingWriters - 1 ELSE 0
      /\ UNCHANGED <<lockMode, readers, writers, readerWaitQueue, writerWaitQueue, lockTimers>>
  BY DEF Lock!AcquireWriteNow, Lock!queues
<1>3. /\ Reading' = Reading /\ Writing' = Writing /\ ReadersWaiting' = ReadersWaiting
      /\ WritersWaiting' = WritersWaiting /\ Due' = Due
  BY <1>2 DEF Reading, Writing, ReadersWaiting, WritersWaiting, Due, Lock!In
<1>4. LockTypes' /\ ~Lock!Unspoiled'
  BY <1>1, <1>2 DEF LockTypes, Lock!Unspoiled
<1>5. LinesInv' /\ CountersInv' /\ WaitsForWriter'
  BY <1>1, <1>2, <1>3, <1>4 DEF LinesInv, CountersInv, WaitsForWriter
<1>6. LockNoLostWakeup'
  BY <1>1, <1>2, <1>3, <1>4 DEF LockNoLostWakeup, Lock!NoLostWakeup, Reading, Writing
<1> QED BY <1>4, <1>5, <1>6 DEF LockInv

\* The first writer in the queue is about to be woken.
LEMMA WriterDue ==
  ASSUME LinesInv, writerWaitQueue # <<>>, lockTimers' = Append(lockTimers, Head(writerWaitQueue)),
         writerWaitQueue' = Tail(writerWaitQueue), readerWaitQueue' = readerWaitQueue,
         ReadersWaiting' = ReadersWaiting, WritersWaiting' = WritersWaiting,
         ReadersWaiting \cap WritersWaiting = {}
  PROVE  LinesInv' /\ lockTimers' # <<>>
<1> DEFINE w == Head(writerWaitQueue)
<1>1. w \in WritersWaiting \ Due /\ w \in LockTasks /\ Line(writerWaitQueue', (WritersWaiting \ Due) \ {w})
  BY TailLine DEF LinesInv
<1>2. Line(lockTimers', Due \cup {w}) /\ lockTimers' # <<>>
  BY <1>1, AppendLine DEF LinesInv
<1>3. Due' = Due \cup {w}
  BY <1>2 DEF Line, Due
<1>4. ReadersWaiting \ (Due \cup {w}) = ReadersWaiting \ Due
      /\ WritersWaiting \ (Due \cup {w}) = (WritersWaiting \ Due) \ {w}
  BY <1>1
<1> HIDE DEF w
<1> QED BY <1>1, <1>2, <1>3, <1>4 DEF LinesInv

LEMMA WaitingDiffer == ReadersWaiting \cap WritersWaiting = {}
BY DEF ReadersWaiting, WritersWaiting, Lock!In

LEMMA ReleaseReadStep ==
  ASSUME LockInv, NEW t \in LockTasks, Lock!ReleaseRead(t)
  PROVE  LockInv'
<1>1. LockTypes /\ LinesInv /\ CountersInv /\ WaitsForWriter /\ LockNoLostWakeup
  BY DEF LockInv
<1>2. /\ lockMode[t] = "reads" /\ UNCHANGED <<writers, waitingWriters, readerWaitQueue, zeroTimeouts>>
      /\ SetsMode(t, "idle")
      /\ readers' = IF readers > 0 THEN readers - 1 ELSE 0
      /\ t \in Reading /\ t \notin ReadersWaiting /\ t \notin Writing /\ t \notin WritersWaiting
  BY OneMode DEF Lock!ReleaseRead, SetsMode
<1>3. /\ lockMode' \in [LockTasks -> Lock!Modes] /\ Reading' = Reading \ {t} /\ Writing' = Writing
      /\ ReadersWaiting' = ReadersWaiting /\ WritersWaiting' = WritersWaiting
  BY <1>1, <1>2, ModeStep, ModeNames
<1>4. IsFiniteSet(Reading') /\ readers' = Cardinality(Reading') /\ readers' \in Nat
  <2>1. IsFiniteSet(Reading) /\ readers = Cardinality(Reading) /\ readers \in Nat
    BY <1>1, FS_CardinalityType DEF CountersInv
  <2>2. /\ IsFiniteSet(Reading \ {t}) /\ Cardinality(Reading \ {t}) = readers - 1
        /\ Cardinality(Reading \ {t}) \in Nat
    BY <1>2, <2>1, FS_RemoveElement, FS_CardinalityType
  <2> QED BY <1>2, <1>3, <2>1, <2>2
<1>5. LockTypes' /\ CountersInv' /\ WaitsForWriter'
  BY <1>1, <1>2, <1>3, <1>4 DEF LockTypes, CountersInv, WaitsForWriter, Lock!Unspoiled
<1>6. CASE readers' = 0 /\ writerWaitQueue # <<>>
  <2>1. lockTimers' = Append(lockTimers, Head(writerWaitQueue)) /\ writerWaitQueue' = Tail(writerWaitQueue)
    BY <1>6 DEF Lock!ReleaseRead
  <2>2. LinesInv' /\ lockTimers' # <<>>
    BY <1>1, <1>2, <1>3, <1>6, <2>1, WriterDue, WaitingDiffer
  <2>3. LockNoLostWakeup'
    BY <2>2 DEF LockNoLostWakeup, Lock!NoLostWakeup
  <2> QED BY <1>5, <2>2, <2>3 DEF LockInv
<1>7. CASE ~(readers' = 0 /\ writerWaitQueue # <<>>)
  <2>1. lockTimers' = lockTimers /\ writerWaitQueue' = writerWaitQueue
    BY <1>7 DEF Lock!ReleaseRead
  <2>2. LinesInv'
    BY <1>1, <1>2, <1>3, <2>1 DEF LinesInv, Due
  <2>3. LockNoLostWakeup'
    <3>1. CASE readers' # 0
      <4>1. Reading' # {}
        BY <1>4, <3>1, FS_EmptySet
      <4> QED BY <4>1 DEF LockNoLostWakeup, Lock!NoLostWakeup, Reading
    <3>2. CASE writerWaitQueue = <<>>
      <4>1. WritersWaiting \ Due = {}
        BY <1>1, <3>2, ToSetElements DEF LinesInv, Line
      <4>2. Due # {} => lockTimers # <<>>
        BY <1>1, ToSetElements DEF LinesInv, Line
      <4>3. Lock!Unspoiled /\ readerWaitQueue # <<>> => Writing # {} \/ lockTimers # <<>>
        BY <1>1, <4>1, <4>2 DEF WaitsForWriter
      <4> QED BY <1>2, <1>3, <2>1, <3>2, <4>3
              DEF LockNoLostWakeup, Lock!NoLostWakeup, Lock!Unspoiled, Writing
    <3> QED BY <1>7, <3>1, <3>2
  <2> QED BY <1>5, <2>2, <2>3 DEF LockInv
<1> QED BY <1>6, <1>7

LEMMA ReleaseWriteStep ==
  ASSUME LockInv, NEW t \in LockTasks, Lock!ReleaseWrite(t)
  PROVE  LockInv'
<1>1. LockTypes /\ LinesInv /\ CountersInv /\ WaitsForWriter /\ LockNoLostWakeup
  BY DEF LockInv
<1>2. /\ lockMode[t] = "writes" /\ writers' = 0 /\ UNCHANGED <<readers, waitingWriters, zeroTimeouts>>
      /\ SetsMode(t, "idle")
      /\ t \notin Reading /\ t \notin ReadersWaiting /\ t \in Writing /\ t \notin WritersWaiting
  BY OneMode DEF Lock!ReleaseWrite, SetsMode
<1>3. /\ lockMode' \in [LockTasks -> Lock!Modes] /\ Reading' = Reading /\ Writing' = Writing \ {t}
      /\ ReadersWaiting' = ReadersWaiting /\ WritersWaiting' = WritersWaiting
  BY <1>1, <1>2, ModeStep, ModeNames
<1>4. LockTypes' /\ CountersInv'
  BY <1>1, <1>2, <1>3 DEF LockTypes, CountersInv, Lock!Unspoiled
<1>5. CASE readerWaitQueue # <<>>
  <2>1. /\ lockTimers' = lockTimers \o readerWaitQueue /\ readerWaitQueue' = <<>>
        /\ writerWaitQueue' = writerWaitQueue
    BY <1>5 DEF Lock!ReleaseWrite
  <2>2. Line(lockTimers', Due \cup (ReadersWaiting \ Due)) /\ lockTimers' # <<>>
    BY <1>1, <1>5, <2>1, ConcatLine DEF LinesInv
  <2>3. Due' = Due \cup (ReadersWaiting \ Due)
    BY <2>2 DEF Line, Due
  <2>4. /\ ReadersWaiting' \ Due' = {} /\ WritersWaiting' \ Due' = WritersWaiting \ Due
        /\ Due' \subseteq ReadersWaiting' \cup WritersWaiting'
    BY <1>1, <1>3, <2>3, WaitingDiffer DEF LinesInv
  <2>5. LinesInv'
    BY <1>1, <2>1, <2>2, <2>3, <2>4, EmptyLine DEF LinesInv
  <2>6. WaitsForWriter' /\ LockNoLostWakeup'
    BY <2>1, <2>2 DEF WaitsForWriter, LockNoLostWakeup, Lock!NoLostWakeup
  <2> QED BY <1>4, <2>5, <2>6 DEF LockInv
<1>6. CASE readerWaitQueue = <<>> /\ writerWaitQueue # <<>>
  <2>1. /\ lockTimers' = Append(lockTimers, Head(writerWaitQueue))
        /\ writerWaitQueue' = Tail(writerWaitQueue) /\ readerWaitQueue' = readerWaitQueue
    BY <1>6 DEF Lock!ReleaseWrite
  <2>2. LinesInv' /\ lockTimers' # <<>>
    BY <1>1, <1>3, <1>6, <2>1, WriterDue, WaitingDiffer
  <2>3. WaitsForWriter' /\ LockNoLostWakeup'
    BY <1>6, <2>1, <2>2 DEF WaitsForWriter, LockNoLostWakeup, Lock!NoLostWakeup
  <2> QED BY <1>4, <2>2, <2>3 DEF LockInv
<1>7. CASE readerWaitQueue = <<>> /\ writerWaitQueue = <<>>
  <2>1. UNCHANGED <<lockTimers, readerWaitQueue, writerWaitQueue>>
    BY <1>7 DEF Lock!ReleaseWrite, Lock!queues
  <2>2. LinesInv'
    BY <1>1, <1>3, <2>1 DEF LinesInv, Due
  <2>3. WaitsForWriter' /\ LockNoLostWakeup'
    BY <1>7, <2>1 DEF WaitsForWriter, LockNoLostWakeup, Lock!NoLostWakeup
  <2> QED BY <1>4, <2>2, <2>3 DEF LockInv
<1> QED BY <1>5, <1>6, <1>7

LEMMA WakeStep ==
  ASSUME LockInv, Lock!Wake
  PROVE  LockInv'
<1> DEFINE t == Head(lockTimers)
<1>1. LockTypes /\ LinesInv /\ CountersInv /\ WaitsForWriter /\ LockNoLostWakeup
  BY DEF LockInv
<1>2. /\ lockTimers # <<>> /\ lockTimers' = Tail(lockTimers)
      /\ UNCHANGED <<readerWaitQueue, writerWaitQueue, zeroTimeouts>>
  BY DEF Lock!Wake, Lock!queues
<1>3. t \in Due /\ t \in LockTasks /\ Line(lockTimers', Due \ {t})
  BY <1>1, <1>2, TailLine DEF LinesInv
<1>4. Due' = Due \ {t}
  BY <1>3 DEF Line, Due
<1>5. CASE lockMode[t] = "readWaits"
  <2>1. /\ readers' = readers + 1 /\ SetsMode(t, "reads")
        /\ UNCHANGED <<writers, waitingWriters>>
    BY <1>5 DEF Lock!Wake, SetsMode
  <2> HIDE DEF t
  <2>2. t \notin Reading /\ t \in ReadersWaiting /\ t \notin Writing /\ t \notin WritersWaiting
    BY <1>3, <1>5, OneMode
  <2>3. /\ lockMode' \in [LockTasks -> Lock!Modes] /\ Reading' = Reading \cup {t} /\ Writing' = Writing
        /\ ReadersWaiting' = ReadersWaiting \ {t} /\ WritersWaiting' = WritersWaiting
    BY <1>1, <1>3, <2>1, <2>2, ModeStep, ModeNames
  <2>4. /\ ReadersWaiting' \ Due' = ReadersWaiting \ Due /\ WritersWaiting' \ Due' = WritersWaiting \ Due
        /\ Due' \subseteq ReadersWaiting' \cup WritersWaiting'
    BY <1>1, <1>3, <1>4, <2>2, <2>3 DEF LinesInv
  <2>5. LockTypes' /\ LinesInv' /\ WaitsForWriter'
    BY <1>1, <1>2, <1>3, <1>4, <2>1, <2>3, <2>4
    DEF LockTypes, LinesInv, WaitsForWriter, Lock!Unspoiled
  <2>6. CountersInv'
    BY <1>1, <1>2, <2>1, <2>2, <2>3, FS_AddElement DEF CountersInv, Lock!Unspoiled
  <2>7. LockNoLostWakeup'
    BY <2>3 DEF LockNoLostWakeup, Lock!NoLostWakeup, Reading, Writing
  <2> QED BY <2>5, <2>6, <2>7 DEF LockInv
<1>6. CASE lockMode[t] # "readWaits"
  <2>1. /\ writers' = 1 /\ waitingWriters' = waitingWriters - 1 /\ readers' = readers
        /\ SetsMode(t, "writes")
    BY <1>6 DEF Lock!Wake, SetsMode
  <2> HIDE DEF t
  <2>2. t \notin Reading /\ t \notin ReadersWaiting /\ t \notin Writing /\ t \in WritersWaiting
    BY <1>1, <1>3, <1>6, OneMode DEF LinesInv
  <2>3. /\ lockMode' \in [LockTasks -> Lock!Modes] /\ Reading' = Reading /\ Writing' = Writing \cup {t}
        /\ ReadersWaiting' = ReadersWaiting /\ WritersWaiting' = WritersWaiting \ {t}
    BY <1>1, <1>3, <2>1, <2>2, ModeStep, ModeNames
  <2>4. /\ ReadersWaiting' \ Due' = ReadersWaiting \ Due /\ WritersWaiting' \ Due' = WritersWaiting \ Due
        /\ Due' \subseteq ReadersWaiting' \cup WritersWaiting'
    BY <1>1, <1>3, <1>4, <2>2, <2>3 DEF LinesInv
  <2>5. LockTypes' /\ LinesInv' /\ WaitsForWriter'
    <3>1. LockTypes'
      BY <1>1, <1>2, <2>1, <2>3 DEF LockTypes
    <3>2. LinesInv'
      BY <1>1, <1>2, <1>3, <1>4, <2>3, <2>4 DEF LinesInv
    <3>3. WaitsForWriter'
      BY <2>3 DEF WaitsForWriter
    <3> QED BY <3>1, <3>2, <3>3
  <2>6. CountersInv'
    BY <1>1, <1>2, <2>1, <2>2, <2>3, FS_RemoveElement DEF CountersInv, Lock!Unspoiled
  <2>7. LockNoLostWakeup'
    BY <2>3 DEF LockNoLostWakeup, Lock!NoLostWakeup, Reading, Writing
  <2> QED BY <2>5, <2>6, <2>7 DEF LockInv
<1> QED BY <1>5, <1>6

LEMMA LockStep == LockInv /\ [Lock!Next]_Lock!vars => LockInv'
<1> SUFFICES ASSUME LockInv, [Lock!Next]_Lock!vars PROVE LockInv'
  OBVIOUS
<1>1. CASE UNCHANGED Lock!vars
  BY <1>1 DEF Lock!vars, Lock!counters, Lock!queues, LockInv, LockTypes, LinesInv, CountersInv,
              WaitsForWriter, LockNoLostWakeup, Lock!NoLostWakeup, Lock!Unspoiled, Lock!In,
              Reading, Writing, ReadersWaiting, WritersWaiting, Due
<1> QED BY <1>1, WakeStep, AcquireReadStep, AcquireWriteStep, AcquireWriteNowStep,
           ReleaseReadStep, ReleaseWriteStep DEF Lock!Next

\* LockInv is an invariant of the lock.
THEOREM LockInvariance == Lock!Spec => []LockInv
BY InitLock, LockStep, PTL DEF Lock!Spec

\* Of the read-write lock: nobody waits without somebody to wait for.
THEOREM LockNoLostWakeupAlways == Lock!Spec => []LockNoLostWakeup
<1>1. LockInv => LockNoLostWakeup
  BY DEF LockInv
<1> QED BY LockInvariance, <1>1, PTL

-----------------------------------------------------------------------------
(***************************************************************************)
(* The priority queue.  heapifyUp() and heapifyDown() call themselves      *)
(* last, so each is a chain of calls that ends: what holds of a call and   *)
(* passes from a call to the next one holds of the last one.               *)
(***************************************************************************)

\* Every set of natural numbers that is not empty has a least element.
LEMMA Least ==
  ASSUME NEW T \in SUBSET Nat, T # {}
  PROVE  \E m \in T : \A n \in T : m <= n
<1>1. ASSUME NEW R, R = OpToRel(<, Nat)
      PROVE  \E m \in T : \A y \in T : ~(<<y, m>> \in R)
  BY <1>1, NatLessThanWellFounded, WFMin
<1>2. \A x, y \in Nat : x < y => <<x, y>> \in OpToRel(<, Nat)
  BY DEF OpToRel
<1>3. \E m \in T : \A y \in T : ~(y < m)
  BY <1>1, <1>2, Zenon
<1> QED BY <1>3

\* A step or a stop of a recursion whose only call comes last.
TailCall(f, C, Go, next, val) == f = [c \in C |-> IF c \in Go THEN f[next[c]] ELSE val[c]]

\* Calls that come closer to a last one define a function.
LEMMA TailRecursion ==
  ASSUME NEW C, NEW n \in Nat, NEW Go \in SUBSET C, NEW next \in [Go -> C], NEW val,
         NEW rank \in [C -> 0..n], \A c \in Go : rank[next[c]] < rank[c]
  PROVE  \E f : TailCall(f, C, Go, next, val)
<1> DEFINE Low(m) == {c \in C : rank[c] <= m}
           Solves(f, m) == f = [c \in Low(m) |-> IF c \in Go THEN f[next[c]] ELSE val[c]]
           T == {m \in Nat : ~ \E f : Solves(f, m)}
<1>1. T = {}
  <2> SUFFICES ASSUME T # {} PROVE FALSE
    OBVIOUS
  <2>1. PICK m \in T : \A k \in T : m <= k
    BY Least
  <2>2. CASE m = 0
    <3>1. Low(0) \cap Go = {}
      OBVIOUS
    <3>2. Solves([c \in Low(0) |-> val[c]], 0)
      BY <3>1
    <3> QED BY <2>1, <2>2, <3>2
  <2>3. CASE m # 0
    <3>1. m - 1 \in Nat /\ m - 1 \notin T
      <4>1. T \subseteq Nat
        OBVIOUS
      <4> HIDE DEF T
      <4> QED BY <4>1, <2>1, <2>3
    <3>2. PICK f : Solves(f, m - 1)
      BY <3>1
    <3> DEFINE g == [c \in Low(m) |-> IF c \in Go THEN f[next[c]] ELSE val[c]]
    <3>3. Low(m - 1) \subseteq Low(m)
      BY <3>1
    <3>4. \A c \in Low(m - 1) : f[c] = IF c \in Go THEN f[next[c]] ELSE val[c]
      <4> HIDE DEF Low
      <4> QED BY <3>2
    <3>5. \A c \in Low(m - 1) : g[c] = f[c]
      <4> HIDE DEF Low
      <4> QED BY <3>3, <3>4
    <3>6. \A c \in Low(m) \cap Go : next[c] \in Low(m - 1)
      BY <2>1, <3>1
    <3>7. g = [c \in Low(m) |-> IF c \in Go THEN g[next[c]] ELSE val[c]]
      <4>1. \A c \in Low(m) : c \in Go => g[next[c]] = f[next[c]]
        BY <3>5, <3>6, Zenon
      <4> HIDE DEF Low
      <4> QED BY <4>1
    <3> QED BY <2>1, <3>7
  <2> QED BY <2>2, <2>3
<1>2. PICK f : Solves(f, n)
  BY <1>1
<1>3. Low(n) = C
  OBVIOUS
<1> HIDE DEF Low
<1>4. TailCall(f, C, Go, next, val)
  BY <1>2, <1>3 DEF TailCall
<1> QED BY <1>4

\* What holds of a call and of the calls it leads to holds of the last one, which
\* gives the result.
LEMMA TailRecursionEnds ==
  ASSUME NEW C, NEW n \in Nat, NEW Go \in SUBSET C, NEW next \in [Go -> C], NEW val,
         NEW rank \in [C -> 0..n], \A c \in Go : rank[next[c]] < rank[c],
         NEW f, TailCall(f, C, Go, next, val),
         NEW I \in SUBSET C, \A c \in I \cap Go : next[c] \in I, NEW c0 \in I
  PROVE  \E d \in I \ Go : f[c0] = val[d]
<1> DEFINE Fine(c) == \E d \in I \ Go : f[c] = val[d]
           T == {m \in Nat : \E c \in I : rank[c] = m /\ ~ Fine(c)}
<1>1. ASSUME NEW c \in I
      PROVE  f[c] = IF c \in Go THEN f[next[c]] ELSE val[c]
  BY DEF TailCall
<1>2. T = {}
  <2> SUFFICES ASSUME T # {} PROVE FALSE
    OBVIOUS
  <2>1. PICK m \in T : \A k \in T : m <= k
    BY Least
  <2>2. PICK c \in I : rank[c] = m /\ ~ Fine(c)
    BY <2>1
  <2>3. CASE c \in Go
    <3>1. next[c] \in I /\ rank[next[c]] \in Nat /\ rank[next[c]] < m
      BY <2>2, <2>3
    <3>2. rank[next[c]] \notin T
      BY <2>1, <3>1
    <3>3. Fine(next[c])
      BY <3>1, <3>2
    <3>4. f[c] = f[next[c]]
      BY <1>1, <2>3
    <3> QED BY <2>2, <3>3, <3>4
  <2>4. CASE c \notin Go
    <3>1. f[c] = val[c]
      BY <1>1, <2>4
    <3> QED BY <2>2, <2>4, <3>1
  <2> QED BY <2>3, <2>4
<1>3. rank[c0] \in Nat
  OBVIOUS
<1> QED BY <1>2, <1>3

\* The calls of heapifyUp() on heaps of n items: those that go on, and with what.
UpCalls(n) == {c \in PQ!HeapCalls(n) : c.at > 1 /\ c.heap[PQ!Parent(c.at)] > c.heap[c.at]}

UpNext(n) ==
  [c \in UpCalls(n) |-> [heap |-> PQ!Swapped(c.heap, PQ!Parent(c.at), c.at), at |-> PQ!Parent(c.at)]]

DownCalls(n) == {c \in PQ!HeapCalls(n) : PQ!Smallest(c.heap, c.at) # c.at}

DownNext(n) ==
  [c \in DownCalls(n) |->
     [heap |-> PQ!Swapped(c.heap, c.at, PQ!Smallest(c.heap, c.at)), at |-> PQ!Smallest(c.heap, c.at)]]

\* What a last call leaves.
Heaps(n) == [c \in PQ!HeapCalls(n) |-> c.heap]

\* The parent of a position and the positions it is the parent of.
LEMMA ParentFacts ==
  ASSUME NEW i \in Nat \ {0}
  PROVE  /\ PQ!Parent(i) \in Nat
         /\ i > 1 => PQ!Parent(i) >= 1 /\ PQ!Parent(i) < i
         /\ \A j \in Nat : PQ!Parent(i) = j <=> i = 2 * j \/ i = 2 * j + 1
  BY DEF PQ!Parent

\* A function on 1..n is a sequence of n items.
LEMMA HeapSequence ==
  ASSUME NEW n \in Nat, NEW g \in [1..n -> Priorities]
  PROVE  g \in Seq(Priorities) /\ Len(g) = n
  BY SeqDef, LenProperties

\* What a swap leaves where.
LEMMA SwapType ==
  ASSUME NEW n \in Nat, NEW g \in [1..n -> Priorities], NEW a \in 1..n, NEW b \in 1..n
  PROVE  /\ PQ!Swapped(g, a, b) \in [1..n -> Priorities]
         /\ \A i \in 1..n : PQ!Swapped(g, a, b)[i] = IF i = a THEN g[b] ELSE IF i = b THEN g[a] ELSE g[i]
<1>1. CASE a = b
  BY <1>1 DEF PQ!Swapped
<1>2. CASE a # b
  BY <1>2 DEF PQ!Swapped
<1> QED BY <1>1, <1>2

\* The smallest of an item and its children, of which it is one.
LEMMA SmallestType ==
  ASSUME NEW n \in Nat, NEW g \in [1..n -> Priorities], NEW i \in 1..n
  PROVE  /\ PQ!Smallest(g, i) \in {i, 2 * i, 2 * i + 1} /\ PQ!Smallest(g, i) \in 1..n
         /\ PQ!Smallest(g, i) = i \/ g[PQ!Smallest(g, i)] < g[i]
         /\ \A j \in 1..n : j = 2 * i \/ j = 2 * i + 1 => g[PQ!Smallest(g, i)] <= g[j]
<1>1. Len(g) = n
  BY HeapSequence
<1>2. \A j \in 1..n : g[j] \in Int
  BY QueueAssumption
<1> DEFINE left == IF 2 * i <= n /\ g[2 * i] < g[i] THEN 2 * i ELSE i
<1>3. PQ!Smallest(g, i) = IF 2 * i + 1 <= n /\ g[2 * i + 1] < g[left] THEN 2 * i + 1 ELSE left
  BY <1>1 DEF PQ!Smallest, PQ!Left, PQ!Right
<1>4. left \in 1..n /\ left \in {i, 2 * i} /\ (left = i \/ g[left] < g[i])
      /\ (2 * i <= n => g[left] <= g[2 * i])
  BY <1>2
<1> HIDE DEF left
<1>5. CASE 2 * i + 1 <= n /\ g[2 * i + 1] < g[left]
  <2>1. PQ!Smallest(g, i) = 2 * i + 1 /\ 2 * i + 1 \in 1..n
    BY <1>3, <1>5
  <2>2. g[2 * i + 1] < g[i]
    BY <1>2, <1>4, <1>5, <2>1
  <2>3. 2 * i \in 1..n /\ g[2 * i + 1] <= g[2 * i]
    BY <1>2, <1>4, <1>5, <2>1
  <2> QED BY <1>2, <2>1, <2>2, <2>3
<1>6. CASE ~ (2 * i + 1 <= n /\ g[2 * i + 1] < g[left])
  <2>1. PQ!Smallest(g, i) = left
    BY <1>3, <1>6
  <2>2. 2 * i + 1 \in 1..n => g[left] <= g[2 * i + 1]
    BY <1>2, <1>4, <1>6
  <2> QED BY <1>4, <2>1, <2>2
<1> QED BY <1>5, <1>6

\* A repair of a heap is the last call of its recursion.
LEMMA HeapifyUpEnds ==
  ASSUME NEW n \in Nat, NEW I \in SUBSET PQ!HeapCalls(n),
         \A c \in I \cap UpCalls(n) : UpNext(n)[c] \in I,
         NEW c0 \in I
  PROVE  \E d \in I \ UpCalls(n) : PQ!HeapifyUp(c0.heap, c0.at) = d.heap
<1> DEFINE C == PQ!HeapCalls(n)
           rank == [c \in C |-> c.at]
<1>1. c0 \in C /\ c0.heap \in [1..n -> Priorities] /\ c0.at \in 1..n /\ Len(c0.heap) = n
  BY HeapSequence DEF PQ!HeapCalls
<1>2. UpNext(n) \in [UpCalls(n) -> C] /\ \A c \in UpCalls(n) : rank[UpNext(n)[c]] < rank[c]
  <2> SUFFICES ASSUME NEW c \in UpCalls(n)
               PROVE  UpNext(n)[c] \in C /\ UpNext(n)[c].at < c.at
    BY DEF UpNext, UpCalls
  <2>1. c.heap \in [1..n -> Priorities] /\ c.at \in 1..n /\ c.at > 1
    BY DEF UpCalls, PQ!HeapCalls
  <2>2. PQ!Parent(c.at) \in 1..n /\ PQ!Parent(c.at) < c.at
    BY <2>1, ParentFacts
  <2>3. PQ!Swapped(c.heap, PQ!Parent(c.at), c.at) \in [1..n -> Priorities]
    BY <2>1, <2>2, SwapType
  <2> QED BY <2>2, <2>3 DEF UpNext, PQ!HeapCalls
<1>3. rank \in [C -> 0..n]
  BY DEF PQ!HeapCalls
<1>4. UpCalls(n) \in SUBSET C
  BY DEF UpCalls
<1>5. \E f : TailCall(f, C, UpCalls(n), UpNext(n), Heaps(n))
  <2> HIDE DEF C, rank
  <2> QED BY <1>2, <1>3, <1>4, TailRecursion
<1> DEFINE Repairs(f) ==
             f = [c \in PQ!HeapCalls(Len(c0.heap)) |->
                    IF c.at > 1 /\ c.heap[PQ!Parent(c.at)] > c.heap[c.at]
                    THEN f[[heap |-> PQ!Swapped(c.heap, PQ!Parent(c.at), c.at),
                            at |-> PQ!Parent(c.at)]]
                    ELSE c.heap]
           up == CHOOSE f : Repairs(f)
<1>6. ASSUME NEW f PROVE TailCall(f, C, UpCalls(n), UpNext(n), Heaps(n)) <=> Repairs(f)
  BY <1>1 DEF TailCall, UpCalls, UpNext, Heaps
<1>7. PQ!HeapifyUp(c0.heap, c0.at) = up[c0]
  <2>1. c0 = [heap |-> c0.heap, at |-> c0.at]
    BY <1>1 DEF PQ!HeapCalls
  <2>2. PQ!HeapifyUp(c0.heap, c0.at) = up[[heap |-> c0.heap, at |-> c0.at]]
    BY DEF PQ!HeapifyUp
  <2> QED BY <2>1, <2>2
<1>8. TailCall(up, C, UpCalls(n), UpNext(n), Heaps(n))
  <2> HIDE DEF Repairs
  <2>1. Repairs(up)
    BY <1>5, <1>6
  <2> QED BY <1>6, <2>1
<1> HIDE DEF up, C, rank
<1>9. I \in SUBSET C
  BY DEF C
<1>10. \E d \in I \ UpCalls(n) : up[c0] = Heaps(n)[d]
  BY <1>2, <1>3, <1>4, <1>8, <1>9, TailRecursionEnds
<1> QED BY <1>7, <1>10 DEF Heaps

\* The same for heapifyDown(), whose calls come closer to the end of the heap.
LEMMA HeapifyDownEnds ==
  ASSUME NEW n \in Nat, NEW I \in SUBSET PQ!HeapCalls(n),
         \A c \in I \cap DownCalls(n) : DownNext(n)[c] \in I,
         NEW c0 \in I
  PROVE  \E d \in I \ DownCalls(n) : PQ!HeapifyDown(c0.heap, c0.at) = d.heap
<1> DEFINE C == PQ!HeapCalls(n)
           rank == [c \in C |-> n - c.at]
<1>1. c0 \in C /\ c0.heap \in [1..n -> Priorities] /\ c0.at \in 1..n /\ Len(c0.heap) = n
  BY HeapSequence DEF PQ!HeapCalls
<1>2. DownNext(n) \in [DownCalls(n) -> C] /\ \A c \in DownCalls(n) : rank[DownNext(n)[c]] < rank[c]
  <2> SUFFICES ASSUME NEW c \in DownCalls(n)
               PROVE  DownNext(n)[c] \in C /\ n - DownNext(n)[c].at < n - c.at
    BY DEF DownNext, DownCalls
  <2> DEFINE s == PQ!Smallest(c.heap, c.at)
  <2>1. c.heap \in [1..n -> Priorities] /\ c.at \in 1..n /\ s # c.at
    BY DEF DownCalls, PQ!HeapCalls
  <2>2. s \in 1..n /\ s \in {c.at, 2 * c.at, 2 * c.at + 1}
    BY <2>1, SmallestType
  <2>3. PQ!Swapped(c.heap, c.at, s) \in [1..n -> Priorities]
    BY <2>1, <2>2, SwapType
  <2>4. n - s < n - c.at
    BY <2>1, <2>2
  <2>5. DownNext(n)[c] = [heap |-> PQ!Swapped(c.heap, c.at, s), at |-> s]
    BY DEF DownNext
  <2> HIDE DEF s
  <2> QED BY <2>2, <2>3, <2>4, <2>5 DEF PQ!HeapCalls
<1>3. rank \in [C -> 0..n]
  BY DEF PQ!HeapCalls
<1>4. DownCalls(n) \in SUBSET C
  BY DEF DownCalls
<1>5. \E f : TailCall(f, C, DownCalls(n), DownNext(n), Heaps(n))
  <2> HIDE DEF C, rank
  <2> QED BY <1>2, <1>3, <1>4, TailRecursion
<1> DEFINE Repairs(f) ==
             f = [c \in PQ!HeapCalls(Len(c0.heap)) |->
                    IF PQ!Smallest(c.heap, c.at) # c.at
                    THEN f[[heap |-> PQ!Swapped(c.heap, c.at, PQ!Smallest(c.heap, c.at)),
                            at |-> PQ!Smallest(c.heap, c.at)]]
                    ELSE c.heap]
           down == CHOOSE f : Repairs(f)
<1>6. ASSUME NEW f PROVE TailCall(f, C, DownCalls(n), DownNext(n), Heaps(n)) <=> Repairs(f)
  BY <1>1 DEF TailCall, DownCalls, DownNext, Heaps
<1>7. PQ!HeapifyDown(c0.heap, c0.at) = down[c0]
  <2>1. c0 = [heap |-> c0.heap, at |-> c0.at]
    BY <1>1 DEF PQ!HeapCalls
  <2>2. PQ!HeapifyDown(c0.heap, c0.at) = down[[heap |-> c0.heap, at |-> c0.at]]
    BY DEF PQ!HeapifyDown
  <2> QED BY <2>1, <2>2
<1>8. TailCall(down, C, DownCalls(n), DownNext(n), Heaps(n))
  <2> HIDE DEF Repairs
  <2>1. Repairs(down)
    BY <1>5, <1>6
  <2> QED BY <1>6, <2>1
<1> HIDE DEF down, C, rank
<1>9. I \in SUBSET C
  BY DEF C
<1>10. \E d \in I \ DownCalls(n) : down[c0] = Heaps(n)[d]
  BY <1>2, <1>3, <1>4, <1>8, <1>9, TailRecursionEnds
<1> QED BY <1>7, <1>10 DEF Heaps

\* No item of the heap g of n items has a higher priority than its parent.
Ordered(g, n) == \A j \in 2..n : g[PQ!Parent(j)] <= g[j]

\* A heap but for the item at i, which is on its way up: its children are in order
\* with its parent.
OrderedAbove(g, n, i) ==
  \A j \in 2..n : /\ j # i => g[PQ!Parent(j)] <= g[j]
                  /\ PQ!Parent(j) = i /\ i > 1 => g[PQ!Parent(i)] <= g[j]

\* The same for an item on its way down.
OrderedBelow(g, n, i) ==
  \A j \in 2..n : /\ PQ!Parent(j) # i => g[PQ!Parent(j)] <= g[j]
                  /\ PQ!Parent(j) = i /\ i > 1 => g[PQ!Parent(i)] <= g[j]

\* An item that goes up one place is still the only one out of order.
LEMMA UpKeepsOrder ==
  ASSUME NEW n \in Nat, NEW g \in [1..n -> Priorities], NEW i \in 2..n,
         OrderedAbove(g, n, i), g[PQ!Parent(i)] > g[i],
         NEW w, w = PQ!Swapped(g, PQ!Parent(i), i)
  PROVE  OrderedAbove(w, n, PQ!Parent(i))
<1> DEFINE p == PQ!Parent(i)
<1>1. p \in 1..n /\ p < i
  BY ParentFacts
<1>2. \A j \in 1..n : w[j] = IF j = p THEN g[i] ELSE IF j = i THEN g[p] ELSE g[j]
  BY <1>1, SwapType
<1>3. \A j \in 1..n : g[j] \in Int
  BY QueueAssumption
<1>4. \A j \in 2..n : PQ!Parent(j) \in 1..n /\ PQ!Parent(j) < j
  BY ParentFacts
<1> SUFFICES ASSUME NEW j \in 2..n
             PROVE  /\ j # p => w[PQ!Parent(j)] <= w[j]
                    /\ PQ!Parent(j) = p /\ p > 1 => w[PQ!Parent(p)] <= w[j]
  BY DEF OrderedAbove
<1>5. /\ j # i => g[PQ!Parent(j)] <= g[j]
      /\ PQ!Parent(j) = i => g[p] <= g[j]
  BY DEF OrderedAbove
<1>6. p > 1 => g[PQ!Parent(p)] <= g[p] /\ PQ!Parent(p) \in 1..n /\ PQ!Parent(p) < p
  BY <1>1, <1>4 DEF OrderedAbove
<1> HIDE DEF p
<1>7. CASE j = i
  <2>1. PQ!Parent(j) = p /\ w[j] = g[p] /\ w[p] = g[i] /\ p # i
    BY <1>1, <1>2, <1>7 DEF p
  <2>2. p > 1 => w[PQ!Parent(p)] = g[PQ!Parent(p)]
    BY <1>1, <1>2, <1>6
  <2> QED BY <1>1, <1>3, <1>6, <2>1, <2>2 DEF p
<1>8. CASE j # i /\ PQ!Parent(j) = p
  <2>1. w[j] = g[j] /\ w[p] = g[i] /\ g[p] <= g[j]
    BY <1>1, <1>2, <1>4, <1>5, <1>8
  <2>2. p > 1 => w[PQ!Parent(p)] = g[PQ!Parent(p)]
    BY <1>1, <1>2, <1>6
  <2> QED BY <1>1, <1>3, <1>6, <1>8, <2>1, <2>2 DEF p
<1>9. CASE j # i /\ PQ!Parent(j) # p /\ j # p
  <2>1. w[j] = g[j] /\ g[PQ!Parent(j)] <= g[j]
    BY <1>1, <1>2, <1>5, <1>9
  <2>2. w[PQ!Parent(j)] = IF PQ!Parent(j) = i THEN g[p] ELSE g[PQ!Parent(j)]
    BY <1>1, <1>2, <1>4, <1>9
  <2>3. PQ!Parent(j) = i => g[p] <= g[j]
    BY <1>5 DEF p
  <2> QED BY <1>9, <2>1, <2>2, <2>3
<1>10. CASE j = p
  BY <1>4, <1>10
<1> QED BY <1>7, <1>8, <1>9, <1>10

\* So is one that goes down to the place of its smaller child.
LEMMA DownKeepsOrder ==
  ASSUME NEW n \in Nat, NEW g \in [1..n -> Priorities], NEW i \in 1..n,
         OrderedBelow(g, n, i), NEW s, s = PQ!Smallest(g, i), s # i,
         NEW w, w = PQ!Swapped(g, i, s)
  PROVE  OrderedBelow(w, n, s)
<1>1. /\ s \in 1..n /\ s > i /\ PQ!Parent(s) = i /\ g[s] < g[i]
      /\ \A j \in 2..n : PQ!Parent(j) = i => g[s] <= g[j]
  <2>1. /\ s \in 1..n /\ s \in {2 * i, 2 * i + 1} /\ g[s] < g[i]
        /\ \A j \in 1..n : j = 2 * i \/ j = 2 * i + 1 => g[s] <= g[j]
    BY SmallestType
  <2>2. \A j \in 1..n : PQ!Parent(j) = i <=> j = 2 * i \/ j = 2 * i + 1
    BY ParentFacts
  <2> QED BY <2>1, <2>2
<1>2. \A j \in 1..n : w[j] = IF j = i THEN g[s] ELSE IF j = s THEN g[i] ELSE g[j]
  BY <1>1, SwapType
<1>3. \A j \in 1..n : g[j] \in Int
  BY QueueAssumption
<1>4. \A j \in 2..n : PQ!Parent(j) \in 1..n /\ PQ!Parent(j) < j
  BY ParentFacts
<1> SUFFICES ASSUME NEW j \in 2..n
             PROVE  /\ PQ!Parent(j) # s => w[PQ!Parent(j)] <= w[j]
                    /\ PQ!Parent(j) = s /\ s > 1 => w[PQ!Parent(s)] <= w[j]
  BY DEF OrderedBelow
<1>5. /\ PQ!Parent(j) # i => g[PQ!Parent(j)] <= g[j]
      /\ PQ!Parent(j) = i /\ i > 1 => g[PQ!Parent(i)] <= g[j]
  BY DEF OrderedBelow
<1>6. i > 1 => g[PQ!Parent(i)] <= g[s]
  BY <1>1 DEF OrderedBelow
<1>7. CASE PQ!Parent(j) = s
  <2>1. w[j] = g[j] /\ PQ!Parent(j) # i /\ w[PQ!Parent(s)] = g[s]
    BY <1>1, <1>2, <1>4, <1>7
  <2> QED BY <1>5, <1>7, <2>1
<1>8. CASE PQ!Parent(j) = i
  <2>1. w[PQ!Parent(j)] = g[s] /\ PQ!Parent(j) # s /\ j # i
    BY <1>1, <1>2, <1>4, <1>8
  <2>2. w[j] = IF j = s THEN g[i] ELSE g[j]
    BY <1>2, <2>1
  <2>3. g[s] <= g[j] /\ g[s] <= g[i]
    BY <1>1, <1>3, <1>8
  <2> QED BY <2>1, <2>2, <2>3
<1>9. CASE PQ!Parent(j) # s /\ PQ!Parent(j) # i
  <2>1. w[PQ!Parent(j)] = g[PQ!Parent(j)] /\ j # s
    BY <1>1, <1>2, <1>4, <1>9
  <2>2. CASE j = i
    BY <1>1, <1>2, <1>6, <2>1, <2>2, <1>9
  <2>3. CASE j # i
    BY <1>2, <1>5, <1>9, <2>1, <2>3
  <2> QED BY <2>2, <2>3
<1> QED BY <1>7, <1>8, <1>9

\* The root of an ordered heap has the highest priority of all.
LEMMA RootIsLeast ==
  ASSUME NEW n \in Nat, NEW g \in [1..n -> Priorities], Ordered(g, n), NEW k \in 1..n
  PROVE  g[1] <= g[k]
<1> DEFINE T == {j \in 1..n : ~ g[1] <= g[j]}
<1> SUFFICES ASSUME T # {} PROVE FALSE
  OBVIOUS
<1>1. \A j \in 1..n : g[j] \in Int
  BY QueueAssumption
<1>2. PICK m \in T : \A j \in T : m <= j
  <2>1. T \in SUBSET Nat
    OBVIOUS
  <2> QED BY <2>1, Least
<1>3. m \in 2..n
  BY <1>1, <1>2
<1>4. PQ!Parent(m) \in 1..n /\ PQ!Parent(m) < m
  BY <1>3, ParentFacts
<1>5. g[1] <= g[PQ!Parent(m)] /\ g[PQ!Parent(m)] <= g[m]
  BY <1>2, <1>3, <1>4 DEF Ordered
<1> QED BY <1>1, <1>2, <1>3, <1>4, <1>5

\* How many of the first n items of g have priority x.
Copies(g, n, x) == Cardinality({i \in 1..n : g[i] = x})

\* Copies are numbers, and there are none of what the heap does not hold.
LEMMA CopiesType ==
  ASSUME NEW g, NEW n \in Nat, NEW x
  PROVE  /\ IsFiniteSet({i \in 1..n : g[i] = x})
         /\ Copies(g, n, x) \in Nat
         /\ Copies(g, n, x) = 0 <=> \A i \in 1..n : g[i] # x
<1> DEFINE S == {i \in 1..n : g[i] = x}
<1>1. IsFiniteSet(S)
  <2>1. IsFiniteSet(1..n)
    BY FS_Interval
  <2>2. S \subseteq 1..n
    OBVIOUS
  <2> QED BY <2>1, <2>2, FS_Subset
<1>2. Cardinality(S) \in Nat /\ (Cardinality(S) = 0 <=> S = {})
  BY <1>1, FS_CardinalityType, FS_EmptySet
<1> QED BY <1>1, <1>2 DEF Copies

\* One item more.
LEMMA CopiesNext ==
  ASSUME NEW g, NEW n \in Nat \ {0}, NEW x
  PROVE  Copies(g, n, x) = Copies(g, n - 1, x) + (IF g[n] = x THEN 1 ELSE 0)
<1> DEFINE S == {i \in 1..n : g[i] = x}
           T == {i \in 1..(n - 1) : g[i] = x}
<1>1. IsFiniteSet(T) /\ Cardinality(T) \in Nat
  <2>1. n - 1 \in Nat
    OBVIOUS
  <2> QED BY <2>1, CopiesType DEF Copies
<1>2. CASE g[n] = x
  <2>1. S = T \cup {n} /\ n \notin T
    BY <1>2
  <2>2. Cardinality(T \cup {n}) = Cardinality(T) + 1
    <3> HIDE DEF T
    <3> QED BY <1>1, <2>1, FS_AddElement
  <2> QED BY <1>2, <2>1, <2>2 DEF Copies
<1>3. CASE g[n] # x
  <2>1. S = T
    BY <1>3
  <2> HIDE DEF S, T
  <2>2. Cardinality(S) = Cardinality(T) + 0
    BY <1>1, <2>1
  <2> QED BY <1>3, <2>2 DEF Copies, S, T
<1> QED BY <1>2, <1>3

\* Heaps that agree on their first n items.
Agree(g, h, n) == \A i \in 1..n : g[i] = h[i]

LEMMA CopiesSame ==
  ASSUME NEW g, NEW h, NEW n, Agree(g, h, n), NEW x
  PROVE  Copies(g, n, x) = Copies(h, n, x)
<1>1. {i \in 1..n : g[i] = x} = {i \in 1..n : h[i] = x}
  BY DEF Agree
<1> QED BY <1>1 DEF Copies

\* Two items that change places.
LEMMA CopiesSwap ==
  ASSUME NEW n \in Nat, NEW g \in [1..n -> Priorities], NEW a \in 1..n, NEW b \in 1..n, NEW x
  PROVE  Copies(PQ!Swapped(g, a, b), n, x) = Copies(g, n, x)
<1> DEFINE w == PQ!Swapped(g, a, b)
           S == {i \in 1..n : g[i] = x}
           T == {i \in 1..n : w[i] = x}
           other(i) == IF i = a THEN b ELSE IF i = b THEN a ELSE i
           f == [i \in S |-> other(i)]
<1>1. \A i \in 1..n : w[i] = g[other(i)]
  <2>1. \A i \in 1..n : w[i] = IF i = a THEN g[b] ELSE IF i = b THEN g[a] ELSE g[i]
    BY SwapType
  <2> QED BY <2>1
<1>2. \A i \in 1..n : other(i) \in 1..n /\ other(other(i)) = i
  OBVIOUS
<1>3. \A i \in S : f[i] \in T
  <2> HIDE DEF w
  <2>1. \A i \in S : other(i) \in 1..n /\ w[other(i)] = g[i]
    <3> HIDE DEF other
    <3> QED BY <1>1, <1>2
  <2> QED BY <2>1
<1>4. \A j \in T : other(j) \in S /\ f[other(j)] = j
  <2> HIDE DEF w, other
  <2> QED BY <1>1, <1>2
<1>5. \A i, j \in S : f[i] = f[j] => i = j
  <2> HIDE DEF w, other
  <2> QED BY <1>2
<1> HIDE DEF w, other
<1>6. f \in Bijection(S, T)
  <2>1. f \in [S -> T]
    BY <1>3
  <2>2. \A j \in T : \E i \in S : f[i] = j
    BY <1>4
  <2> HIDE DEF f, S, T
  <2> QED BY <1>5, <2>1, <2>2 DEF Bijection, Injection, Surjection, IsInjective
<1>7. IsFiniteSet(S)
  BY CopiesType
<1>8. Cardinality(S) = Cardinality(T)
  <2> HIDE DEF f, S, T
  <2>1. ExistsBijection(S, T)
    BY <1>6 DEF ExistsBijection
  <2> QED BY <1>7, <2>1, FS_Bijection
<1> QED BY <1>8 DEF Copies, w

-----------------------------------------------------------------------------
\* g and h are heaps of the same n items in some order.
SameItems(g, h, n) == \A x \in Priorities : Copies(g, n, x) = Copies(h, n, x)

\* heapifyUp() orders a heap in which one item is too low; it loses and repeats none.
LEMMA HeapifyUpRepairs ==
  ASSUME NEW n \in Nat, NEW g \in [1..n -> Priorities], NEW i \in 1..n, OrderedAbove(g, n, i)
  PROVE  /\ PQ!HeapifyUp(g, i) \in [1..n -> Priorities]
         /\ Ordered(PQ!HeapifyUp(g, i), n)
         /\ SameItems(PQ!HeapifyUp(g, i), g, n)
<1> DEFINE c0 == [heap |-> g, at |-> i]
           I == {c \in PQ!HeapCalls(n) :
                   OrderedAbove(c.heap, n, c.at) /\ SameItems(c.heap, g, n)}
<1>1. c0 \in I
  BY DEF SameItems, PQ!HeapCalls
<1>2. ASSUME NEW c \in I \cap UpCalls(n) PROVE UpNext(n)[c] \in I
  <2> DEFINE w == PQ!Swapped(c.heap, PQ!Parent(c.at), c.at)
  <2>1. /\ c.heap \in [1..n -> Priorities] /\ c.at \in 2..n
        /\ c.heap[PQ!Parent(c.at)] > c.heap[c.at]
        /\ OrderedAbove(c.heap, n, c.at) /\ SameItems(c.heap, g, n)
    BY DEF UpCalls, PQ!HeapCalls
  <2>2. PQ!Parent(c.at) \in 1..n /\ c.at \in 1..n
    BY <2>1, ParentFacts
  <2>3. w \in [1..n -> Priorities]
    BY <2>1, <2>2, SwapType
  <2>4. OrderedAbove(w, n, PQ!Parent(c.at))
    BY <2>1, UpKeepsOrder
  <2>5. SameItems(w, g, n)
    <3>1. \A x \in Priorities : Copies(w, n, x) = Copies(c.heap, n, x)
      BY <2>1, <2>2, CopiesSwap
    <3> QED BY <2>1, <3>1 DEF SameItems
  <2>6. UpNext(n)[c] = [heap |-> w, at |-> PQ!Parent(c.at)]
    BY DEF UpNext
  <2> HIDE DEF w
  <2> QED BY <2>2, <2>3, <2>4, <2>5, <2>6 DEF PQ!HeapCalls
<1>3. PICK d \in I \ UpCalls(n) : PQ!HeapifyUp(c0.heap, c0.at) = d.heap
  <2>1. I \in SUBSET PQ!HeapCalls(n)
    OBVIOUS
  <2> HIDE DEF I, c0
  <2> QED BY <1>1, <1>2, <2>1, HeapifyUpEnds
<1>4. /\ d.heap \in [1..n -> Priorities] /\ d.at \in 1..n
      /\ ~ (d.at > 1 /\ d.heap[PQ!Parent(d.at)] > d.heap[d.at])
      /\ OrderedAbove(d.heap, n, d.at) /\ SameItems(d.heap, g, n)
  BY DEF UpCalls, PQ!HeapCalls
<1>5. \A j \in 1..n : d.heap[j] \in Int
  BY <1>4, QueueAssumption
<1>6. Ordered(d.heap, n)
  <2> SUFFICES ASSUME NEW j \in 2..n PROVE d.heap[PQ!Parent(j)] <= d.heap[j]
    BY DEF Ordered
  <2>1. PQ!Parent(j) \in 1..n
    BY ParentFacts
  <2> QED BY <1>4, <1>5, <2>1 DEF OrderedAbove
<1> QED BY <1>3, <1>4, <1>6

\* So does heapifyDown() if one item is too high.
LEMMA HeapifyDownRepairs ==
  ASSUME NEW n \in Nat, NEW g \in [1..n -> Priorities], NEW i \in 1..n, OrderedBelow(g, n, i)
  PROVE  /\ PQ!HeapifyDown(g, i) \in [1..n -> Priorities]
         /\ Ordered(PQ!HeapifyDown(g, i), n)
         /\ SameItems(PQ!HeapifyDown(g, i), g, n)
<1> DEFINE c0 == [heap |-> g, at |-> i]
           I == {c \in PQ!HeapCalls(n) :
                   OrderedBelow(c.heap, n, c.at) /\ SameItems(c.heap, g, n)}
<1>1. c0 \in I
  BY DEF SameItems, PQ!HeapCalls
<1>2. ASSUME NEW c \in I \cap DownCalls(n) PROVE DownNext(n)[c] \in I
  <2> DEFINE s == PQ!Smallest(c.heap, c.at)
             w == PQ!Swapped(c.heap, c.at, s)
  <2>1. /\ c.heap \in [1..n -> Priorities] /\ c.at \in 1..n /\ s # c.at
        /\ OrderedBelow(c.heap, n, c.at) /\ SameItems(c.heap, g, n)
    BY DEF DownCalls, PQ!HeapCalls
  <2>2. s \in 1..n
    BY <2>1, SmallestType
  <2>3. w \in [1..n -> Priorities]
    <3> HIDE DEF s
    <3> QED BY <2>1, <2>2, SwapType
  <2>4. OrderedBelow(w, n, s)
    BY <2>1, DownKeepsOrder
  <2>5. SameItems(w, g, n)
    <3>1. \A x \in Priorities : Copies(w, n, x) = Copies(c.heap, n, x)
      BY <2>1, <2>2, CopiesSwap
    <3> QED BY <2>1, <3>1 DEF SameItems
  <2>6. DownNext(n)[c] = [heap |-> w, at |-> s]
    BY DEF DownNext
  <2> HIDE DEF s, w
  <2> QED BY <2>2, <2>3, <2>4, <2>5, <2>6 DEF PQ!HeapCalls
<1>3. PICK d \in I \ DownCalls(n) : PQ!HeapifyDown(c0.heap, c0.at) = d.heap
  <2>1. I \in SUBSET PQ!HeapCalls(n)
    OBVIOUS
  <2> HIDE DEF I, c0
  <2> QED BY <1>1, <1>2, <2>1, HeapifyDownEnds
<1>4. /\ d.heap \in [1..n -> Priorities] /\ d.at \in 1..n
      /\ PQ!Smallest(d.heap, d.at) = d.at
      /\ OrderedBelow(d.heap, n, d.at) /\ SameItems(d.heap, g, n)
  BY DEF DownCalls, PQ!HeapCalls
<1>5. Ordered(d.heap, n)
  <2> SUFFICES ASSUME NEW j \in 2..n PROVE d.heap[PQ!Parent(j)] <= d.heap[j]
    BY DEF Ordered
  <2>1. PQ!Parent(j) = d.at => j = 2 * d.at \/ j = 2 * d.at + 1
    BY <1>4, ParentFacts
  <2>2. j = 2 * d.at \/ j = 2 * d.at + 1 => d.heap[d.at] <= d.heap[j]
    <3>1. j \in 1..n
      OBVIOUS
    <3>2. \A k \in 1..n : k = 2 * d.at \/ k = 2 * d.at + 1 => d.heap[d.at] <= d.heap[k]
      BY <1>4, SmallestType
    <3> QED BY <3>1, <3>2
  <2> QED BY <1>4, <2>1, <2>2 DEF OrderedBelow
<1> QED BY <1>3, <1>4, <1>5

\* The inductive invariant of the priority queue.
HeapInv == heap \in Seq(Priorities) /\ Ordered(heap, Len(heap))

\* The bag that a heap stands for.
BagOf(g) == [x \in Priorities |-> Copies(g, Len(g), x)]

LEMMA SequenceHeap ==
  ASSUME NEW g \in Seq(Priorities)
  PROVE  Len(g) \in Nat /\ g \in [1..Len(g) -> Priorities]
  BY LenProperties

\* The instance of the module counts as this module does.
LEMMA CardinalityOfQueue == \A S : PQ!Cardinality(S) = Cardinality(S)
  BY DEF PQ!Cardinality, Cardinality

\* The refinement mapping is the bag of the heap, now and after a step.
LEMMA BagIsBagOf ==
  ASSUME heap \in Seq(Priorities)
  PROVE  [x \in Priorities |-> PQ!Count(x)] = BagOf(heap)
<1>1. DOMAIN heap = 1..Len(heap)
  BY SequenceHeap
<1>2. \A x : PQ!Count(x) = Copies(heap, Len(heap), x)
  BY <1>1, CardinalityOfQueue DEF PQ!Count, Copies
<1> QED BY <1>2 DEF BagOf

\* The bag of an ordered heap gives its first item first.
LEMMA FirstIsRoot ==
  ASSUME NEW g \in Seq(Priorities), Ordered(g, Len(g))
  PROVE  LET Held == {x \in Priorities : BagOf(g)[x] > 0}
         IN  /\ g = <<>> => Held = {}
             /\ g # <<>> => Held # {} /\ PQ!Bag!Min(Held) = g[1] /\ Head(g) = g[1]
<1> DEFINE Held == {x \in Priorities : BagOf(g)[x] > 0}
           n == Len(g)
<1>1. n \in Nat /\ g \in [1..n -> Priorities] /\ (g = <<>> <=> n = 0)
  <2>1. g = <<>> <=> Len(g) = 0
    BY EmptySeq
  <2> QED BY <2>1, SequenceHeap
<1>2. \A x \in Priorities : x \in Held <=> \E i \in 1..n : g[i] = x
  <2> SUFFICES ASSUME NEW x \in Priorities
               PROVE  BagOf(g)[x] > 0 <=> \E i \in 1..n : g[i] = x
    OBVIOUS
  <2>1. BagOf(g)[x] = Copies(g, n, x)
    BY DEF BagOf
  <2> HIDE DEF n
  <2>2. Copies(g, n, x) \in Nat /\ (Copies(g, n, x) = 0 <=> \A i \in 1..n : g[i] # x)
    BY <1>1, CopiesType
  <2> QED BY <2>1, <2>2
<1>3. CASE g = <<>>
  BY <1>1, <1>2, <1>3
<1>4. CASE g # <<>>
  <2>1. 1 \in 1..n
    BY <1>1, <1>4
  <2>2. g[1] \in Held
    BY <1>1, <1>2, <2>1
  <2>3. \A x \in Held : g[1] <= x
    BY <1>1, <1>2, RootIsLeast
  <2>4. Held \in SUBSET Int
    BY QueueAssumption
  <2> HIDE DEF Held, n
  <2>5. \A x \in Held : (\A y \in Held : x <= y) => x = g[1]
    <3> SUFFICES ASSUME NEW x \in Held, \A y \in Held : x <= y
                 PROVE  x = g[1]
      OBVIOUS
    <3>1. x <= g[1] /\ g[1] <= x
      BY <2>2, <2>3
    <3>2. x \in Int /\ g[1] \in Int
      BY <2>2, <2>4
    <3> QED BY <3>1, <3>2
  <2>6. PQ!Bag!Min(Held) = g[1]
    BY <2>2, <2>3, <2>5 DEF PQ!Bag!Min
  <2>7. Head(g) = g[1]
    BY <1>4
  <2> QED BY <1>4, <2>2, <2>6, <2>7 DEF Held
<1> QED BY <1>3, <1>4

\* insert() adds one item to the bag.
LEMMA InsertStep ==
  ASSUME NEW g \in Seq(Priorities), Ordered(g, Len(g)), NEW p \in Priorities,
         NEW h, h = PQ!HeapifyUp(Append(g, p), Len(g) + 1)
  PROVE  h \in Seq(Priorities) /\ Ordered(h, Len(h)) /\ BagOf(h) = [BagOf(g) EXCEPT ![p] = @ + 1]
<1> DEFINE n == Len(g) + 1
           a == Append(g, p)
<1>1. n \in Nat \ {0} /\ n - 1 = Len(g) /\ g \in [1..(n - 1) -> Priorities]
  BY SequenceHeap
<1>2. /\ a \in [1..n -> Priorities] /\ a[n] = p
      /\ \A i \in 1..(n - 1) : a[i] = g[i]
  <2>1. a \in Seq(Priorities) /\ Len(a) = n /\ a[n] = p /\ \A i \in 1..Len(g) : a[i] = g[i]
    BY AppendProperties
  <2> HIDE DEF a, n
  <2> QED BY <1>1, <2>1, SequenceHeap
<1> HIDE DEF a, n
<1>3. OrderedAbove(a, n, n)
  <2> SUFFICES ASSUME NEW j \in 2..n
               PROVE  /\ j # n => a[PQ!Parent(j)] <= a[j]
                      /\ PQ!Parent(j) # n
    BY DEF OrderedAbove
  <2>1. PQ!Parent(j) \in 1..n /\ PQ!Parent(j) < j
    BY <1>1, ParentFacts
  <2>2. j # n => g[PQ!Parent(j)] <= g[j]
    BY <1>1 DEF Ordered
  <2> QED BY <1>1, <1>2, <2>1, <2>2
<1>4. /\ h \in [1..n -> Priorities] /\ Ordered(h, n) /\ SameItems(h, a, n)
  <2>1. n \in Nat /\ n \in 1..n
    BY <1>1
  <2>2. h = PQ!HeapifyUp(a, n)
    BY DEF a, n
  <2> QED BY <1>2, <1>3, <2>1, <2>2, HeapifyUpRepairs
<1>5. h \in Seq(Priorities) /\ Len(h) = n
  BY <1>1, <1>4, HeapSequence
<1>6. \A x \in Priorities : Copies(h, n, x) = Copies(g, n - 1, x) + (IF x = p THEN 1 ELSE 0)
  <2> SUFFICES ASSUME NEW x \in Priorities
               PROVE  Copies(h, n, x) = Copies(g, n - 1, x) + (IF x = p THEN 1 ELSE 0)
    OBVIOUS
  <2>1. Copies(h, n, x) = Copies(a, n, x)
    BY <1>4 DEF SameItems
  <2>2. Copies(a, n, x) = Copies(a, n - 1, x) + (IF a[n] = x THEN 1 ELSE 0)
    BY <1>1, CopiesNext
  <2>3. Copies(a, n - 1, x) = Copies(g, n - 1, x)
    <3>1. Agree(a, g, n - 1)
      BY <1>2 DEF Agree
    <3> QED BY <3>1, CopiesSame
  <2> QED BY <1>2, <2>1, <2>2, <2>3
<1>7. BagOf(h) = [BagOf(g) EXCEPT ![p] = @ + 1]
  <2>1. \A x \in Priorities : BagOf(h)[x] = Copies(h, n, x) /\ BagOf(g)[x] = Copies(g, n - 1, x)
    BY <1>1, <1>5 DEF BagOf
  <2>2. ASSUME NEW x \in Priorities PROVE Copies(g, n - 1, x) \in Nat
    <3>1. n - 1 \in Nat
      BY <1>1
    <3> QED BY <3>1, CopiesType
  <2>3. \A x \in Priorities : BagOf(h)[x] = IF x = p THEN BagOf(g)[x] + 1 ELSE BagOf(g)[x]
    BY <1>6, <2>1, <2>2
  <2> QED BY <2>3 DEF BagOf
<1> QED BY <1>4, <1>5, <1>7

\* extractMin() removes the root, whether or not an item is left to take its place.
LEMMA ExtractStep ==
  ASSUME NEW g \in Seq(Priorities), Ordered(g, Len(g)), g # <<>>,
         NEW h, h = PQ!WithoutFirst(g)
  PROVE  h \in Seq(Priorities) /\ Ordered(h, Len(h)) /\ BagOf(h) = [BagOf(g) EXCEPT ![g[1]] = @ - 1]
<1> DEFINE n == Len(g)
           m == n - 1
<1>1. n \in Nat \ {0} /\ g \in [1..n -> Priorities] /\ m \in Nat /\ m = n - 1 /\ 1 \in 1..n
  <2>1. Len(g) # 0
    BY EmptySeq
  <2> QED BY <2>1, SequenceHeap
<1>2. /\ h \in Seq(Priorities) /\ Len(h) = m /\ Ordered(h, m)
      /\ \A x \in Priorities : Copies(g, n, x) = Copies(h, m, x) + (IF g[1] = x THEN 1 ELSE 0)
  <2>1. CASE n = 1
    <3>1. h = <<>>
      BY <2>1 DEF PQ!WithoutFirst
    <3>2. h \in Seq(Priorities) /\ Len(h) = m
      BY <2>1, <3>1, EmptySeq
    <3> HIDE DEF n, m
    <3>3. Ordered(h, m)
      BY <1>1, <2>1 DEF Ordered
    <3>4. ASSUME NEW x \in Priorities
          PROVE  Copies(g, n, x) = Copies(h, m, x) + (IF g[1] = x THEN 1 ELSE 0)
      <4>1. Copies(g, n, x) = Copies(g, m, x) + (IF g[n] = x THEN 1 ELSE 0)
        BY <1>1, CopiesNext
      <4>2. Copies(g, m, x) = Copies(h, m, x)
        <5>1. Agree(g, h, m)
          BY <1>1, <2>1 DEF Agree
        <5> QED BY <5>1, CopiesSame
      <4> QED BY <2>1, <4>1, <4>2
    <3> QED BY <3>2, <3>3, <3>4
  <2>2. CASE n # 1
    <3> DEFINE a == [PQ!Front(g) EXCEPT ![1] = PQ!Last(g)]
               w == PQ!Swapped(g, 1, n)
    <3>1. m \in Nat /\ 1 \in 1..m /\ n \in 1..n /\ m = n - 1
      BY <1>1, <2>2
    <3>2. /\ a \in [1..m -> Priorities] /\ a[1] = g[n]
          /\ \A i \in 2..m : a[i] = g[i]
      <4>1. /\ PQ!Front(g) \in [1..m -> Priorities]
            /\ \A i \in 1..m : PQ!Front(g)[i] = g[i]
        <5>1. PQ!Front(g) = SubSeq(g, 1, m)
          BY DEF PQ!Front
        <5>2. SubSeq(g, 1, m) = [i \in 1..m |-> g[i]]
          <6> HIDE DEF n, m
          <6> QED BY <1>1, <3>1
        <5> HIDE DEF n, m
        <5>3. \A i \in 1..m : g[i] \in Priorities
          BY <1>1
        <5> QED BY <5>1, <5>2, <5>3
      <4>2. PQ!Last(g) = g[n]
        BY DEF PQ!Last
      <4> HIDE DEF n, m
      <4> QED BY <1>1, <3>1, <4>1, <4>2
    <3>3. h = PQ!HeapifyDown(a, 1)
      BY <2>2 DEF PQ!WithoutFirst
    <3> HIDE DEF n, m, a
    <3>4. OrderedBelow(a, m, 1)
      <4> SUFFICES ASSUME NEW j \in 2..m, PQ!Parent(j) # 1
                   PROVE  a[PQ!Parent(j)] <= a[j]
        BY DEF OrderedBelow
      <4>1. PQ!Parent(j) \in 2..m
        BY <3>1, ParentFacts
      <4>2. g[PQ!Parent(j)] <= g[j]
        <5>1. j \in 2..n
          BY <1>1, <3>1
        <5> QED BY <5>1 DEF Ordered, n
      <4> QED BY <3>2, <4>1, <4>2
    <3>5. h \in [1..m -> Priorities] /\ Ordered(h, m) /\ SameItems(h, a, m)
      BY <3>1, <3>2, <3>3, <3>4, HeapifyDownRepairs
    <3>6. h \in Seq(Priorities) /\ Len(h) = m
      BY <3>1, <3>5, HeapSequence
    <3>7. w \in [1..n -> Priorities] /\ w[n] = g[1] /\ \A i \in 1..m : w[i] = a[i]
      <4>1. \A i \in 1..n : w[i] = IF i = 1 THEN g[n] ELSE IF i = n THEN g[1] ELSE g[i]
        BY <1>1, <3>1, SwapType
      <4>2. w \in [1..n -> Priorities]
        BY <1>1, <3>1, SwapType
      <4> HIDE DEF w
      <4>3. w[n] = g[1]
        BY <3>1, <4>1
      <4>4. \A i \in 1..m : w[i] = a[i]
        BY <1>1, <3>1, <3>2, <4>1
      <4> QED BY <4>2, <4>3, <4>4
    <3>8. ASSUME NEW x \in Priorities
          PROVE  Copies(g, n, x) = Copies(h, m, x) + (IF g[1] = x THEN 1 ELSE 0)
      <4>1. Copies(w, n, x) = Copies(g, n, x)
        BY <1>1, <3>1, CopiesSwap
      <4> HIDE DEF w
      <4>2. Copies(w, n, x) = Copies(w, m, x) + (IF w[n] = x THEN 1 ELSE 0)
        BY <1>1, CopiesNext
      <4>3. Copies(w, m, x) = Copies(a, m, x)
        <5>1. Agree(w, a, m)
          BY <3>7 DEF Agree
        <5> QED BY <5>1, CopiesSame
      <4>4. Copies(h, m, x) = Copies(a, m, x)
        BY <3>5 DEF SameItems
      <4> QED BY <3>1, <3>7, <4>1, <4>2, <4>3, <4>4
    <3> QED BY <3>1, <3>5, <3>6, <3>8
  <2> QED BY <2>1, <2>2
<1>3. BagOf(h) = [BagOf(g) EXCEPT ![g[1]] = @ - 1]
  <2> HIDE DEF n, m
  <2>1. \A x \in Priorities : Copies(h, m, x) \in Nat
    BY <1>1, CopiesType
  <2>2. \A x \in Priorities : BagOf(h)[x] = Copies(h, m, x) /\ BagOf(g)[x] = Copies(g, n, x)
    BY <1>2 DEF BagOf, n
  <2>3. \A x \in Priorities : BagOf(h)[x] = IF x = g[1] THEN BagOf(g)[x] - 1 ELSE BagOf(g)[x]
    BY <1>2, <2>1, <2>2
  <2> QED BY <1>1, <2>3 DEF BagOf
<1> QED BY <1>2, <1>3

LEMMA BagIsBagOfNext ==
  ASSUME heap' \in Seq(Priorities)
  PROVE  [x \in Priorities |-> PQ!Count(x)]' = BagOf(heap')
<1>1. DOMAIN heap' = 1..Len(heap')
  BY SequenceHeap
<1>2. \A x : PQ!Count(x)' = Copies(heap', Len(heap'), x)
  BY <1>1, CardinalityOfQueue DEF PQ!Count, Copies
<1> QED BY <1>2 DEF BagOf

\* One lemma per operation: it keeps the invariant and is a step of the bag.
LEMMA HeapInsert ==
  ASSUME HeapInv, NEW t, NEW p \in Priorities, PQ!Insert(t, p)
  PROVE  HeapInv' /\ PQ!Bag!Insert(p)
<1>1. heap \in Seq(Priorities) /\ Ordered(heap, Len(heap))
  BY DEF HeapInv
<1>2. heap' = PQ!HeapifyUp(Append(heap, p), Len(heap) + 1) /\ result' = p
  BY DEF PQ!Insert
<1>3. heap' \in Seq(Priorities) /\ Ordered(heap', Len(heap'))
      /\ BagOf(heap') = [BagOf(heap) EXCEPT ![p] = @ + 1]
  BY <1>1, <1>2, InsertStep
<1>4. [x \in Priorities |-> PQ!Count(x)] = BagOf(heap)
      /\ [x \in Priorities |-> PQ!Count(x)]' = BagOf(heap')
  BY <1>1, <1>3, BagIsBagOf, BagIsBagOfNext
<1>5. HeapInv'
  BY <1>3 DEF HeapInv
<1> QED BY <1>2, <1>3, <1>4, <1>5 DEF PQ!Bag!Insert

\* What First is in the bag of the heap.
LEMMA FirstOfHeap ==
  ASSUME HeapInv
  PROVE  /\ PQ!Bag!Held = {} <=> heap = <<>>
         /\ PQ!Bag!First = IF heap = <<>> THEN Undefined ELSE Head(heap)
         /\ heap # <<>> => Head(heap) = heap[1]
<1> DEFINE Held == {x \in Priorities : BagOf(heap)[x] > 0}
<1>1. heap \in Seq(Priorities) /\ Ordered(heap, Len(heap))
  BY DEF HeapInv
<1>2. PQ!Bag!Held = Held
  BY <1>1, BagIsBagOf DEF PQ!Bag!Held
<1>3. /\ heap = <<>> => Held = {}
      /\ heap # <<>> => Held # {} /\ PQ!Bag!Min(Held) = heap[1] /\ Head(heap) = heap[1]
  BY <1>1, FirstIsRoot
<1> HIDE DEF Held
<1> QED BY <1>2, <1>3 DEF PQ!Bag!First

LEMMA HeapExtract ==
  ASSUME HeapInv, NEW t, PQ!ExtractMin(t)
  PROVE  HeapInv' /\ PQ!Bag!ExtractMin
<1>1. heap \in Seq(Priorities) /\ Ordered(heap, Len(heap))
  BY DEF HeapInv
<1>2. /\ heap' = IF heap = <<>> THEN heap ELSE PQ!WithoutFirst(heap)
      /\ result' = IF heap = <<>> THEN Undefined ELSE Head(heap)
  BY DEF PQ!ExtractMin
<1>3. [x \in Priorities |-> PQ!Count(x)] = BagOf(heap)
  BY <1>1, BagIsBagOf
<1>4. CASE heap = <<>>
  <2>1. heap' = heap
    BY <1>2, <1>4
  <2>2. [x \in Priorities |-> PQ!Count(x)]' = BagOf(heap)
    BY <1>1, <2>1, BagIsBagOfNext
  <2>3. HeapInv'
    BY <2>1 DEF HeapInv
  <2> QED BY <1>2, <1>3, <1>4, <2>2, <2>3, FirstOfHeap DEF PQ!Bag!ExtractMin
<1>5. CASE heap # <<>>
  <2>1. heap' \in Seq(Priorities) /\ Ordered(heap', Len(heap'))
        /\ BagOf(heap') = [BagOf(heap) EXCEPT ![heap[1]] = @ - 1]
    BY <1>1, <1>2, <1>5, ExtractStep
  <2>2. [x \in Priorities |-> PQ!Count(x)]' = BagOf(heap')
    BY <2>1, BagIsBagOfNext
  <2>3. HeapInv'
    BY <2>1 DEF HeapInv
  <2>4. PQ!Bag!First = heap[1] /\ PQ!Bag!Held # {} /\ result' = heap[1]
    BY <1>2, <1>5, FirstOfHeap
  <2> QED BY <1>3, <2>1, <2>2, <2>3, <2>4 DEF PQ!Bag!ExtractMin
<1> QED BY <1>4, <1>5

LEMMA HeapPeek ==
  ASSUME HeapInv, NEW t, PQ!Peek(t)
  PROVE  HeapInv' /\ PQ!Bag!Peek
<1>1. heap' = heap /\ result' = PQ!Bag!First
  BY FirstOfHeap DEF PQ!Peek
<1>2. heap \in Seq(Priorities)
  BY DEF HeapInv
<1>3. [x \in Priorities |-> PQ!Count(x)]' = [x \in Priorities |-> PQ!Count(x)]
  BY <1>1, <1>2, BagIsBagOf, BagIsBagOfNext
<1> QED BY <1>1, <1>3 DEF HeapInv, PQ!Bag!Peek

LEMMA HeapUntouched ==
  ASSUME HeapInv, UNCHANGED <<heap, result>>
  PROVE  HeapInv' /\ UNCHANGED PQ!Bag!vars
<1>1. heap \in Seq(Priorities)
  BY DEF HeapInv
<1>2. [x \in Priorities |-> PQ!Count(x)]' = [x \in Priorities |-> PQ!Count(x)]
  BY <1>1, BagIsBagOf, BagIsBagOfNext
<1> QED BY <1>2 DEF HeapInv, PQ!Bag!vars

LEMMA HeapInit ==
  ASSUME PQ!QueueInit
  PROVE  HeapInv /\ PQ!Bag!Init
<1>1. heap = <<>> /\ result = Undefined
  BY DEF PQ!QueueInit
<1>2. heap \in Seq(Priorities) /\ Len(heap) = 0
  BY <1>1, EmptySeq
<1>3. HeapInv
  BY <1>2 DEF HeapInv, Ordered
<1>4. \A x \in Priorities : BagOf(heap)[x] = 0
  <2>1. ASSUME NEW x PROVE Copies(heap, 0, x) = 0
    <3>1. \A i \in 1..0 : heap[i] # x
      OBVIOUS
    <3>2. 0 \in Nat
      OBVIOUS
    <3> QED BY <3>1, <3>2, CopiesType
  <2> QED BY <1>2, <2>1 DEF BagOf
<1>5. [x \in Priorities |-> PQ!Count(x)] = BagOf(heap)
  BY <1>2, BagIsBagOf
<1>6. BagOf(heap) = [x \in Priorities |-> 0]
  BY <1>4 DEF BagOf
<1> QED BY <1>1, <1>3, <1>5, <1>6 DEF PQ!Bag!Init

LEMMA HeapStep ==
  ASSUME HeapInv, [PQ!QueueNext]_PQ!queueVars
  PROVE  HeapInv' /\ [PQ!Bag!Next]_PQ!Bag!vars
<1>1. CASE UNCHANGED PQ!queueVars
  BY <1>1, HeapUntouched DEF PQ!queueVars
<1>2. CASE PQ!TimerFires
  BY <1>2, HeapUntouched DEF PQ!TimerFires
<1>3. ASSUME NEW t \in QueueTasks, PQ!Lock(t) \/ PQ!Wait(t), UNCHANGED <<heap, result>>
      PROVE  HeapInv' /\ [PQ!Bag!Next]_PQ!Bag!vars
  BY <1>3, HeapUntouched
<1>4. ASSUME NEW t \in QueueTasks, PQ!ExtractMin(t)
      PROVE  HeapInv' /\ [PQ!Bag!Next]_PQ!Bag!vars
  BY <1>4, HeapExtract DEF PQ!Bag!Next
<1>5. ASSUME NEW t \in QueueTasks, PQ!Peek(t)
      PROVE  HeapInv' /\ [PQ!Bag!Next]_PQ!Bag!vars
  BY <1>5, HeapPeek DEF PQ!Bag!Next
<1>6. ASSUME NEW t \in QueueTasks, NEW p \in Priorities, PQ!Insert(t, p)
      PROVE  HeapInv' /\ [PQ!Bag!Next]_PQ!Bag!vars
  BY <1>6, HeapInsert DEF PQ!Bag!Next
<1> QED BY <1>1, <1>2, <1>3, <1>4, <1>5, <1>6 DEF PQ!QueueNext, PQ!Operate

\* The heap of the priority queue is ordered and holds priorities: insert() and
\* extractMin() repair it whatever it held.
THEOREM HeapInvariance == PQ!QueueSpec => []HeapInv
<1>1. PQ!QueueInit => HeapInv
  BY HeapInit
<1>2. HeapInv /\ [PQ!QueueNext]_PQ!queueVars => HeapInv'
  BY HeapStep
<1> QED BY <1>1, <1>2, PTL DEF PQ!QueueSpec

\* The priority queue implements PriorityBag: whatever operations overlap, nothing
\* is lost or repeated and the highest priority comes first.
THEOREM QueueRefinement == PQ!QueueSpec => QueueImplementsBag
<1>1. PQ!QueueInit => PQ!Bag!Init
  BY HeapInit
<1>2. HeapInv /\ [PQ!QueueNext]_PQ!queueVars => [PQ!Bag!Next]_PQ!Bag!vars
  BY HeapStep
<1> QED BY <1>1, <1>2, HeapInvariance, PTL
        DEF PQ!QueueSpec, QueueImplementsBag, PQ!ImplementsBag, PQ!Bag!Spec

=============================================================================

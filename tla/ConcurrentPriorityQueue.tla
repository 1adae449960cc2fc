----------------------- MODULE ConcurrentPriorityQueue -----------------------
(***************************************************************************)
(* ConcurrentPriorityQueue of src/backend/data/ConcurrentDataStructures.ts:*)
(* a binary heap behind an AsyncMutex.  An operation awaits the mutex and  *)
(* then runs and releases it without a further await, so that it is over   *)
(* before the next timer fires.  An item is its priority: the heap tells   *)
(* nothing else of it apart.  size() only reads.                           *)
(***************************************************************************)
EXTENDS AsyncMutex, Integers

CONSTANTS
  Priorities, Undefined,
  MaxItems         \* bound: the items of the heap

VARIABLES
  heap,
  result           \* what the last operation returned

queueVars == <<vars, heap, result>>

QueueInit == Init /\ heap = <<>> /\ result = Undefined

-----------------------------------------------------------------------------
\* The parent and the children of a position that counts from 1.
Parent(i) == i \div 2
Left(i) == 2 * i
Right(i) == 2 * i + 1

Swapped(h, i, j) == [h EXCEPT ![i] = h[j], ![j] = h[i]]

\* Mutant: one step up only.
HeapifyUp_Once(h, i) ==
  IF i > 1 /\ h[Parent(i)] > h[i] THEN Swapped(h, Parent(i), i) ELSE h

\* What heapifyUp() and heapifyDown() are called with: a heap of n items and the
\* position of one.
HeapCalls(n) == [heap : [1..n -> Priorities], at : 1..n]

HeapifyUp(h, i) ==
  LET up[c \in HeapCalls(Len(h))] ==
        LET parent == Parent(c.at)
        IN IF c.at > 1 /\ c.heap[parent] > c.heap[c.at]
           THEN up[[heap |-> Swapped(c.heap, parent, c.at), at |-> parent]]
           ELSE c.heap
  IN up[[heap |-> h, at |-> i]]

\* The smaller child if it is smaller than its parent, which wins a tie; of equal
\* children the left one.
Smallest(h, i) ==
  LET left == IF Left(i) <= Len(h) /\ h[Left(i)] < h[i] THEN Left(i) ELSE i
  IN IF Right(i) <= Len(h) /\ h[Right(i)] < h[left] THEN Right(i) ELSE left

HeapifyDown(h, i) ==
  LET down[c \in HeapCalls(Len(h))] ==
        LET s == Smallest(c.heap, c.at)
        IN IF s # c.at
           THEN down[[heap |-> Swapped(c.heap, c.at, s), at |-> s]]
           ELSE c.heap
  IN down[[heap |-> h, at |-> i]]

\* The heap without its first item: the last one takes its place.
WithoutFirst(h) ==
  IF Len(h) = 1 THEN <<>> ELSE HeapifyDown([Front(h) EXCEPT ![1] = Last(h)], 1)

-----------------------------------------------------------------------------
\* The task that holds the mutex operates on the heap and releases the mutex.
Insert(t, priority) ==
  /\ Len(heap) < MaxItems
  /\ Release(t)
  /\ heap' = HeapifyUp(Append(heap, priority), Len(heap) + 1)
  /\ result' = priority

ExtractMin(t) ==
  /\ Release(t)
  /\ heap' = IF heap = <<>> THEN heap ELSE WithoutFirst(heap)
  /\ result' = IF heap = <<>> THEN Undefined ELSE Head(heap)

Peek(t) ==
  /\ Release(t)
  /\ result' = IF heap = <<>> THEN Undefined ELSE Head(heap)
  /\ UNCHANGED heap

\* A timer fires when nothing else runs: the operations of tasks that hold the
\* mutex come first.
TimerFires == Holders = {} /\ Wake /\ UNCHANGED <<heap, result>>

Operate(t) == ExtractMin(t) \/ Peek(t) \/ \E priority \in Priorities : Insert(t, priority)

QueueNext ==
  \/ TimerFires
  \/ \E t \in Tasks : \/ (Lock(t) \/ Wait(t)) /\ UNCHANGED <<heap, result>>
                      \/ Operate(t)

QueueSpec == QueueInit /\ [][QueueNext]_queueVars

\* Operations run, and a timer that is due fires however many calls slip in when
\* the event loop comes round.
QueueFairness ==
  SF_queueVars(TimerFires) /\ \A t \in Tasks : WF_queueVars(Operate(t))

-----------------------------------------------------------------------------
Count(priority) == Cardinality({i \in DOMAIN heap : heap[i] = priority})

Bag == INSTANCE PriorityBag
         WITH bag <- [priority \in Priorities |-> Count(priority)]

\* Whatever operations overlap, the queue is a bag that gives its highest priority
\* first: nothing is lost or repeated when the heap is repaired.
ImplementsBag == Bag!Spec

=============================================================================

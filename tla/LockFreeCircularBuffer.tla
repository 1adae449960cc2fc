------------------------ MODULE LockFreeCircularBuffer ------------------------
(***************************************************************************)
(* LockFreeCircularBuffer of src/backend/data/ConcurrentDataStructures.ts: *)
(* an array with a write and a read position; one cell always stays free.  *)
(* The constructor accepts powers of two; nothing below depends on it.     *)
(***************************************************************************)
EXTENDS Naturals, Sequences

CONSTANTS
  Items,
  Capacity,     \* the length of the array
  Undefined     \* the content of an unused cell and the result of nothing

ASSUME BufferAssumption == Capacity \in Nat \ {0} /\ Undefined \notin Items

VARIABLES
  buffer,
  head,         \* write position
  tail,         \* read position
  size,         \* _size
  returned      \* what the last operation returned

vars == <<buffer, head, tail, size, returned>>

Positions == 0..(Capacity - 1)

Following(position) == (position + 1) % Capacity

Init ==
  /\ buffer = [p \in Positions |-> Undefined]
  /\ head = 0 /\ tail = 0 /\ size = 0
  /\ returned = Undefined

\* Math.min(this._size + 1, this.capacity - 1)
Grown == IF size + 1 < Capacity - 1 THEN size + 1 ELSE Capacity - 1

\* Mutant: the buffer is full when the positions meet.
Full_WhenEqual == head = tail /\ size > 0

Full == Following(head) = tail

Push(item) ==
  \/ /\ ~Full
     /\ buffer' = [buffer EXCEPT ![head] = item]
     /\ head' = Following(head)
     /\ size' = Grown
     /\ returned' = "accepted"
     /\ UNCHANGED tail
  \/ /\ Full
     /\ returned' = "refused"
     /\ UNCHANGED <<buffer, head, tail, size>>

Pop ==
  \/ /\ tail # head
     /\ buffer' = [buffer EXCEPT ![tail] = Undefined]
     /\ tail' = Following(tail)
     /\ size' = IF size > 0 THEN size - 1 ELSE 0
     /\ returned' = buffer[tail]
     /\ UNCHANGED head
  \/ /\ tail = head
     /\ returned' = Undefined
     /\ UNCHANGED <<buffer, head, tail, size>>

Clear ==
  /\ buffer' = [p \in Positions |-> Undefined]
  /\ head' = 0 /\ tail' = 0 /\ size' = 0
  /\ returned' = Undefined

Next == Pop \/ Clear \/ \E item \in Items : Push(item)

Spec == Init /\ [][Next]_vars

-----------------------------------------------------------------------------
\* The items inside: from the read position up to the write position.
Count == IF tail <= head THEN head - tail ELSE head + Capacity - tail

Cell(i) == (tail + i - 1) % Capacity

Content == [i \in 1..Count |-> buffer[Cell(i)]]

\* Types of the buffer; the cells that hold items are the first Count ones from
\* the read position on, and no popped item is kept ("Help GC").
TypeOK ==
  /\ buffer \in [Positions -> Items \cup {Undefined}]
  /\ head \in Positions /\ tail \in Positions
  /\ size \in Nat
  /\ \A p \in Positions : buffer[p] # Undefined <=> \E i \in 1..Count : p = Cell(i)

\* size() is the number of items inside: the limits of its updates never bite.
SizeIsCount == size = Count

Queue == INSTANCE BoundedQueue WITH queue <- Content, Limit <- Capacity - 1

\* The buffer is a first-in first-out queue of Capacity - 1 items: nothing is
\* lost, repeated or overtaken when the positions wrap around.
ImplementsQueue == Queue!Spec
=============================================================================

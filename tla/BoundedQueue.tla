----------------------------- MODULE BoundedQueue -----------------------------
(***************************************************************************)
(* What a bounded first-in first-out buffer promises: the abstract         *)
(* specification that LockFreeCircularBuffer implements.                   *)
(***************************************************************************)
EXTENDS Naturals, Sequences

CONSTANTS Items, Limit, Undefined

VARIABLES
  queue,      \* the items inside, the oldest first
  returned    \* what the last operation returned

vars == <<queue, returned>>

Init == queue = <<>> /\ returned = Undefined

Push(item) ==
  \/ /\ Len(queue) < Limit
     /\ queue' = Append(queue, item)
     /\ returned' = "accepted"
  \/ /\ Len(queue) = Limit
     /\ returned' = "refused"
     /\ UNCHANGED queue

Pop ==
  \/ /\ queue # <<>>
     /\ queue' = Tail(queue)
     /\ returned' = Head(queue)
  \/ /\ queue = <<>>
     /\ returned' = Undefined
     /\ UNCHANGED queue

Clear == queue' = <<>> /\ returned' = Undefined

Next == Pop \/ Clear \/ \E item \in Items : Push(item)

Spec == Init /\ [][Next]_vars
=============================================================================

----------------------------- MODULE PriorityBag -----------------------------
(***************************************************************************)
(* What ConcurrentPriorityQueue promises: a bag of priorities from which   *)
(* the highest one, which is the least number, is removed first.           *)
(***************************************************************************)
EXTENDS Integers, FiniteSetsExt

CONSTANTS Priorities, Undefined

VARIABLES
  bag,             \* how many items of each priority it holds
  result           \* what the last operation returned

vars == <<bag, result>>

Held == {priority \in Priorities : bag[priority] > 0}

First == IF Held = {} THEN Undefined ELSE Min(Held)

Init == bag = [priority \in Priorities |-> 0] /\ result = Undefined

Insert(priority) == bag' = [bag EXCEPT ![priority] = @ + 1] /\ result' = priority

ExtractMin ==
  /\ bag' = IF Held = {} THEN bag ELSE [bag EXCEPT ![First] = @ - 1]
  /\ result' = First

Peek == result' = First /\ UNCHANGED bag

Next == ExtractMin \/ Peek \/ \E priority \in Priorities : Insert(priority)

Spec == Init /\ [][Next]_vars
=============================================================================

------------------------------- MODULE EventFifo -------------------------------
(***************************************************************************)
(* What a queue of events is for: what is pushed comes out once, in order, *)
(* and a pop of the empty queue says so.                                   *)
(***************************************************************************)
EXTENDS Integers, Sequences

CONSTANTS Events, NoEvent

VARIABLES items, popped

Init == items = <<>> /\ popped = NoEvent

Push(e) == items' = Append(items, e) /\ popped' = popped

Pop == IF items = <<>> THEN items' = items /\ popped' = NoEvent
                       ELSE items' = Tail(items) /\ popped' = Head(items)

Next == Pop \/ \E e \in Events : Push(e)

Spec == Init /\ [][Next]_<<items, popped>>
=============================================================================

----------------------------- MODULE MockEventQueue -----------------------------
(***************************************************************************)
(* The mock event queue of the pool's test build: a ring of cap events     *)
(* that doubles when it is full.  Every operation is one critical section  *)
(* of its lock, so one step.  A new array holds whatever malloc returns.   *)
(***************************************************************************)
EXTENDS Integers, Sequences

CONSTANTS Events,     \* the request ids that are pushed
          NoEvent,    \* not an event: what an unwritten element holds
          InitCap,    \* the capacity given to mock_event_queue_init
          MaxSize     \* bound: events in the queue

ASSUME CapPositive == InitCap \in Nat \ {0}
ASSUME SizeBound   == MaxSize \in Nat
ASSUME NoEventIsNone == NoEvent \notin Events

VARIABLES events, cap, head, tail, size,
          popped      \* what the last pop returned

ring == <<events, cap, head, tail, size>>
vars == <<ring, popped>>

\* The place of the i-th event from the head.
At(i) == (head + i) % cap

Blank(n) == [k \in 0 .. n - 1 |-> NoEvent]

Init ==
    /\ cap = InitCap /\ events = Blank(InitCap)
    /\ head = 0 /\ tail = 0 /\ size = 0
    /\ popped = NoEvent

Full == size >= cap

\* There is room: write at the tail.
PushInto(e) ==
    /\ ~Full
    /\ events' = [events EXCEPT ![tail] = e]
    /\ tail' = (tail + 1) % cap
    /\ UNCHANGED <<cap, head>>

\* Mutants: the elements are copied as they lie in the array (of Moved); the
\* tail is kept (of GrownTail).
MovedAsTheyLie == [k \in 0 .. 2 * cap - 1 |-> IF k < size THEN events[k] ELSE NoEvent]
GrownTailKept == (tail + 1) % (2 * cap)

\* The elements in the order of the queue, at the start of a larger array.
Moved == [k \in 0 .. 2 * cap - 1 |-> IF k < size THEN events[At(k)] ELSE NoEvent]

GrownTail == (size + 1) % (2 * cap)

PushGrown(e) ==
    /\ Full
    /\ cap' = 2 * cap
    /\ events' = [Moved EXCEPT ![size] = e]
    /\ head' = 0
    /\ tail' = GrownTail

Push(e) ==
    /\ size < MaxSize
    /\ PushInto(e) \/ PushGrown(e)
    /\ size' = size + 1
    /\ popped' = popped

PopEmpty ==
    /\ size = 0
    /\ popped' = NoEvent
    /\ UNCHANGED ring

Pop ==
    /\ size > 0
    /\ popped' = events[head]
    /\ head' = (head + 1) % cap
    /\ size' = size - 1
    /\ UNCHANGED <<events, cap, tail>>

Next == PopEmpty \/ Pop \/ \E e \in Events : Push(e)

Spec == Init /\ [][Next]_vars

-----------------------------------------------------------------------------
\* Head, tail and size describe one stretch of the ring that holds only events:
\* no element is read before it was written, and none is overwritten unread.
RingOK ==
    /\ cap \in Nat \ {0} /\ size \in 0 .. cap
    /\ head \in 0 .. cap - 1 /\ tail = At(size)
    /\ events \in [0 .. cap - 1 -> Events \cup {NoEvent}]
    /\ \A i \in 0 .. size - 1 : events[At(i)] \in Events
    /\ popped \in Events \cup {NoEvent}

Fifo == INSTANCE EventFifo
        WITH items <- [i \in 1 .. size |-> events[At(i - 1)]]

\* The ring implements a queue, through every wrap-around and growth.
ImplementsFifo == Fifo!Spec

=============================================================================

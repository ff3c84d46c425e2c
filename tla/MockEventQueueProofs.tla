------------------------- MODULE MockEventQueueProofs -------------------------
(***************************************************************************)
(* The ring of the mock event queue is a queue, for every initial capacity *)
(* and any number of events: the invariant of head, tail and size, and the *)
(* refinement of EventFifo through every wrap-around and growth.           *)
(***************************************************************************)
EXTENDS MockEventQueue, SequenceTheorems, TLAPS

-----------------------------------------------------------------------------
(* Arithmetic of the ring.                                                 *)

\* A place at most one turn from the head, as the % of mock_event_queue_push and
\* mock_event_queue_pop computes it.
LEMMA OneTurn ==
  ASSUME NEW c \in Nat \ {0}, NEW h \in 0 .. c - 1, NEW i \in 0 .. c
  PROVE  /\ (h + i) % c = IF h + i < c THEN h + i ELSE h + i - c
         /\ (h + i) % c \in 0 .. c - 1
PROOF
  <1>1. h + i \in Nat /\ h + i < 2 * c
    OBVIOUS
  <1>2. \A n \in Nat : n < 2 * c => n % c = IF n < c THEN n ELSE n - c
    OBVIOUS
  <1>3. (h + i) % c = IF h + i < c THEN h + i ELSE h + i - c
    BY <1>1, <1>2
  <1> QED BY <1>3

\* Two places less than one turn from the head are not the same.
LEMMA Apart ==
  ASSUME NEW c \in Nat \ {0}, NEW h \in 0 .. c - 1, NEW i \in 0 .. c - 1,
         NEW j \in 0 .. c - 1, i # j
  PROVE  (h + i) % c # (h + j) % c
PROOF
  <1>1. i \in 0 .. c /\ j \in 0 .. c
    OBVIOUS
  <1>2. (h + i) % c = IF h + i < c THEN h + i ELSE h + i - c
    BY <1>1, OneTurn
  <1>3. (h + j) % c = IF h + j < c THEN h + j ELSE h + j - c
    BY <1>1, OneTurn
  <1> QED BY <1>2, <1>3

\* One step of the head or the tail is the next place.
LEMMA NextPlace ==
  ASSUME NEW c \in Nat \ {0}, NEW h \in 0 .. c - 1, NEW i \in 0 .. c - 1
  PROVE  /\ (((h + i) % c) + 1) % c = (h + (i + 1)) % c
         /\ (((h + 1) % c) + i) % c = (h + (i + 1)) % c
         /\ (h + 1) % c \in 0 .. c - 1
PROOF
  <1>1. i \in 0 .. c /\ i + 1 \in 0 .. c /\ 1 \in 0 .. c
    OBVIOUS
  <1>2. (h + (i + 1)) % c = IF h + (i + 1) < c THEN h + (i + 1) ELSE h + (i + 1) - c
    BY <1>1, OneTurn
  <1>3. PICK t \in 0 .. c - 1 : /\ t = (h + i) % c
                                /\ t = IF h + i < c THEN h + i ELSE h + i - c
    BY <1>1, OneTurn
  <1>4. (t + 1) % c = IF t + 1 < c THEN t + 1 ELSE t + 1 - c
    BY <1>1, OneTurn
  <1>5. PICK s \in 0 .. c - 1 : /\ s = (h + 1) % c
                                /\ s = IF h + 1 < c THEN h + 1 ELSE h + 1 - c
    BY <1>1, OneTurn
  <1>6. (s + i) % c = IF s + i < c THEN s + i ELSE s + i - c
    BY <1>1, OneTurn
  <1>7. (t + 1) % c = (h + (i + 1)) % c
    BY <1>2, <1>3, <1>4
  <1>8. (s + i) % c = (h + (i + 1)) % c
    BY <1>2, <1>5, <1>6
  <1> QED BY <1>3, <1>5, <1>7, <1>8

\* The elements of a queue: one for each place from the head on.
Items == [i \in 1 .. size |-> events[At(i - 1)]]

\* The items form a sequence of events.
LEMMA ItemsType ==
  ASSUME RingOK
  PROVE  Items \in Seq(Events) /\ Len(Items) = size
PROOF
  <1>1. size \in Nat
    BY DEF RingOK
  <1>2. \A i \in 1 .. size : events[At(i - 1)] \in Events
    BY DEF RingOK
  <1>3. Items \in [1 .. size -> Events]
    BY <1>2 DEF Items
  <1> QED BY <1>1, <1>3

-----------------------------------------------------------------------------
(* Pushing and popping.                                                    *)

\* mock_event_queue_push into a ring that has room.
LEMMA PushIntoStep ==
  ASSUME RingOK, NEW e \in Events, PushInto(e), size' = size + 1, popped' = popped
  PROVE  /\ RingOK'
         /\ \A i \in 0 .. size - 1 : events'[(head' + i) % cap'] = events[At(i)]
         /\ events'[(head' + size) % cap'] = e
PROOF
  <1>1. /\ cap \in Nat \ {0} /\ size \in 0 .. cap - 1 /\ head \in 0 .. cap - 1
        /\ tail = (head + size) % cap /\ cap' = cap /\ head' = head
        /\ tail' = (tail + 1) % cap
        /\ events \in [0 .. cap - 1 -> Events \cup {NoEvent}]
        /\ events' = [events EXCEPT ![tail] = e]
    BY DEF RingOK, PushInto, Full, At
  <1>2. size \in 0 .. cap /\ tail \in 0 .. cap - 1
    BY <1>1, OneTurn
  <1>3. ASSUME NEW i \in 0 .. size - 1
        PROVE  events'[(head + i) % cap] = events[(head + i) % cap]
    <2>1. i \in 0 .. cap /\ i \in 0 .. cap - 1 /\ i # size
      BY <1>1
    <2>2. (head + i) % cap \in 0 .. cap - 1 /\ (head + i) % cap # tail
      BY <1>1, <2>1, OneTurn, Apart
    <2> QED BY <1>1, <2>2
  <1>4. events'[(head + size) % cap] = e
    BY <1>1, <1>2
  <1>5. RingOK'
    <2>1. size' \in 0 .. cap' /\ cap' \in Nat \ {0} /\ head' \in 0 .. cap' - 1
      BY <1>1
    <2>2. events' \in [0 .. cap' - 1 -> Events \cup {NoEvent}]
      BY <1>1
    <2>3. tail' = (head' + size') % cap'
      BY <1>1, NextPlace
    <2>4. ASSUME NEW i \in 0 .. size' - 1
          PROVE  events'[(head' + i) % cap'] \in Events
      <3>1. CASE i = size
        BY <1>1, <1>4, <3>1
      <3>2. CASE i \in 0 .. size - 1
        <4>1. events[(head + i) % cap] \in Events
          BY <3>2 DEF RingOK, At
        <4> QED BY <1>1, <1>3, <3>2, <4>1
      <3> QED BY <1>1, <3>1, <3>2
    <2>5. popped' \in Events \cup {NoEvent}
      BY DEF RingOK
    <2> QED BY <2>1, <2>2, <2>3, <2>4, <2>5 DEF RingOK, At
  <1> QED BY <1>1, <1>3, <1>4, <1>5 DEF At

\* mock_event_queue_push into a full ring: the elements move to an array twice as
\* large, in the order of the queue.
LEMMA PushGrownStep ==
  ASSUME RingOK, NEW e \in Events, PushGrown(e), size' = size + 1, popped' = popped
  PROVE  /\ RingOK'
         /\ \A i \in 0 .. size - 1 : events'[(head' + i) % cap'] = events[At(i)]
         /\ events'[(head' + size) % cap'] = e
PROOF
  <1>1. /\ cap \in Nat \ {0} /\ size = cap /\ head' = 0 /\ cap' = 2 * cap
        /\ tail' = (size + 1) % (2 * cap)
        /\ events' = [Moved EXCEPT ![size] = e]
        /\ events \in [0 .. cap - 1 -> Events \cup {NoEvent}]
    BY DEF RingOK, PushGrown, Full, GrownTail
  <1>2. ASSUME NEW i \in 0 .. cap' - 1 PROVE (head' + i) % cap' = i
    <2>1. cap' \in Nat \ {0} /\ 0 \in 0 .. cap' - 1 /\ i \in 0 .. cap'
      BY <1>1
    <2>2. (0 + i) % cap' = IF 0 + i < cap' THEN 0 + i ELSE 0 + i - cap'
      BY <2>1, OneTurn
    <2> QED BY <1>1, <2>1, <2>2
  <1>3. \A i \in 0 .. size - 1 : events[At(i)] \in Events
    BY DEF RingOK
  <1>4. Moved \in [0 .. 2 * cap - 1 -> Events \cup {NoEvent}]
    <2>1. ASSUME NEW k \in 0 .. 2 * cap - 1
          PROVE  (IF k < size THEN events[At(k)] ELSE NoEvent) \in Events \cup {NoEvent}
      <3>1. k < size => k \in 0 .. size - 1
        BY <1>1
      <3> QED BY <1>3, <3>1
    <2> QED BY <2>1 DEF Moved
  <1>5. /\ events' \in [0 .. cap' - 1 -> Events \cup {NoEvent}]
        /\ events'[size] = e
        /\ \A i \in 0 .. size - 1 : events'[i] = events[At(i)]
    <2>1. size \in 0 .. 2 * cap - 1
      BY <1>1
    <2>2. \A i \in 0 .. size - 1 : i \in 0 .. 2 * cap - 1 /\ i # size /\ i < size
      BY <1>1
    <2>3. \A i \in 0 .. size - 1 : Moved[i] = events[At(i)]
      BY <2>2 DEF Moved
    <2> QED BY <1>1, <1>4, <2>1, <2>2, <2>3
  <1>6. size \in 0 .. cap' - 1 /\ \A i \in 0 .. size - 1 : i \in 0 .. cap' - 1
    BY <1>1
  <1>7. events'[(head' + size) % cap'] = e
    BY <1>2, <1>5, <1>6
  <1>8. \A i \in 0 .. size - 1 : events'[(head' + i) % cap'] = events[At(i)]
    BY <1>2, <1>5, <1>6
  <1>9. RingOK'
    <2>1. size' \in 0 .. cap' /\ cap' \in Nat \ {0} /\ head' \in 0 .. cap' - 1
      BY <1>1
    <2>2. tail' = (head' + size') % cap'
      <3>1. 0 + (size + 1) = size + 1
        BY <1>1
      <3> QED BY <1>1, <3>1
    <2>3. ASSUME NEW i \in 0 .. size' - 1
          PROVE  events'[(head' + i) % cap'] \in Events
      <3>1. i = size \/ i \in 0 .. size - 1
        BY <1>1
      <3> QED BY <1>3, <1>7, <1>8, <3>1
    <2>4. popped' \in Events \cup {NoEvent}
      BY DEF RingOK
    <2> QED BY <1>5, <2>1, <2>2, <2>3, <2>4 DEF RingOK, At
  <1> QED BY <1>7, <1>8, <1>9

\* A push adds the event behind the others.
LEMMA PushStep ==
  ASSUME RingOK, NEW e \in Events, Push(e)
  PROVE  RingOK' /\ Items' = Append(Items, e) /\ popped' = popped
PROOF
  <1>1. /\ RingOK' /\ size' = size + 1 /\ popped' = popped
        /\ \A i \in 0 .. size - 1 : events'[(head' + i) % cap'] = events[At(i)]
        /\ events'[(head' + size) % cap'] = e
    BY PushIntoStep, PushGrownStep DEF Push
  <1>2. Items \in Seq(Events) /\ Len(Items) = size /\ size \in Nat
    BY ItemsType DEF RingOK
  <1>3. Items' \in Seq(Events) /\ Len(Items') = size + 1
    <2>1. Items' = [i \in 1 .. size + 1 |-> events'[(head' + (i - 1)) % cap']]
      BY <1>1 DEF Items, At
    <2>2. ASSUME NEW i \in 1 .. size + 1
          PROVE  events'[(head' + (i - 1)) % cap'] \in Events
      <3>1. i - 1 = size \/ i - 1 \in 0 .. size - 1
        BY <1>2
      <3> QED BY <1>1, <3>1 DEF RingOK
    <2>3. size + 1 \in Nat
      BY <1>2
    <2> QED BY <2>1, <2>2, <2>3
  <1>4. Append(Items, e) \in Seq(Events) /\ Len(Append(Items, e)) = size + 1
    BY <1>2
  <1>5. ASSUME NEW i \in 1 .. size + 1
        PROVE  Items'[i] = Append(Items, e)[i]
    <2>1. Items'[i] = events'[(head' + (i - 1)) % cap']
      BY <1>1 DEF Items, At
    <2>2. CASE i = size + 1
      <3>1. i - 1 = size
        BY <1>2, <2>2
      <3>2. Append(Items, e)[i] = e
        BY <1>2, <2>2
      <3> QED BY <1>1, <2>1, <3>1, <3>2
    <2>3. CASE i # size + 1
      <3>1. i - 1 \in 0 .. size - 1 /\ i \in 1 .. size
        BY <1>2, <2>3
      <3>2. Append(Items, e)[i] = Items[i]
        BY <1>2, <3>1
      <3>3. Items[i] = events[At(i - 1)]
        BY <3>1 DEF Items
      <3> QED BY <1>1, <2>1, <3>1, <3>2, <3>3
    <2> QED BY <2>2, <2>3
  <1>6. Items' = Append(Items, e)
    BY <1>3, <1>4, <1>5, SeqEqual
  <1> QED BY <1>1, <1>6

\* mock_event_queue_pop of a queue that holds something takes its first event.
LEMMA PopStep ==
  ASSUME RingOK, Pop
  PROVE  /\ RingOK' /\ Items # <<>>
         /\ popped' = Head(Items) /\ Items' = Tail(Items)
PROOF
  <1>1. /\ cap \in Nat \ {0} /\ size \in 1 .. cap /\ head \in 0 .. cap - 1
        /\ tail = (head + size) % cap
        /\ events' = events /\ cap' = cap /\ tail' = tail
        /\ head' = (head + 1) % cap /\ size' = size - 1 /\ popped' = events[head]
        /\ events \in [0 .. cap - 1 -> Events \cup {NoEvent}]
    BY DEF RingOK, Pop, At
  <1>2. ASSUME NEW i \in 0 .. size - 1
        PROVE  (head' + i) % cap' = (head + (i + 1)) % cap
    <2>1. i \in 0 .. cap - 1
      BY <1>1
    <2> QED BY <1>1, <2>1, NextPlace
  <1>3. (head + 0) % cap = head
    <2>1. 0 \in 0 .. cap /\ head + 0 = head
      BY <1>1
    <2>2. (head + 0) % cap = IF head + 0 < cap THEN head + 0 ELSE head + 0 - cap
      BY <1>1, <2>1, OneTurn
    <2> QED BY <1>1, <2>1, <2>2
  <1>4. RingOK'
    <2>1. tail' = (head' + size') % cap'
      <3>1. size - 1 \in 0 .. size - 1 /\ (size - 1) + 1 = size
        BY <1>1
      <3> QED BY <1>1, <1>2, <3>1
    <2>2. ASSUME NEW i \in 0 .. size' - 1
          PROVE  events'[(head' + i) % cap'] \in Events
      <3>1. i + 1 \in 0 .. size - 1 /\ i \in 0 .. size - 1
        BY <1>1
      <3>2. events[(head + (i + 1)) % cap] \in Events
        BY <3>1 DEF RingOK, At
      <3> QED BY <1>1, <1>2, <3>1, <3>2
    <2>3. popped' \in Events
      <3>1. 0 \in 0 .. size - 1
        BY <1>1
      <3>2. events[(head + 0) % cap] \in Events
        BY <3>1 DEF RingOK, At
      <3> QED BY <1>1, <1>3, <3>2
    <2>4. size' \in 0 .. cap' /\ head' \in 0 .. cap' - 1
      <3>1. 0 \in 0 .. cap - 1
        BY <1>1
      <3>2. (head + 1) % cap \in 0 .. cap - 1
        BY <1>1, <3>1, NextPlace
      <3> QED BY <1>1, <3>2
    <2> QED BY <1>1, <2>1, <2>2, <2>3, <2>4 DEF RingOK, At
  <1>5. Items \in Seq(Events) /\ Len(Items) = size
    BY ItemsType
  <1>6. Items # <<>> /\ Head(Items) = popped'
    <2>1. 1 \in 1 .. size /\ 1 - 1 = 0
      BY <1>1
    <2>2. Items[1] = events[head]
      BY <1>3, <2>1 DEF Items, At
    <2> QED BY <1>1, <1>5, <2>2
  <1>7. Items' = Tail(Items)
    <2>1. Tail(Items) \in Seq(Events) /\ Len(Tail(Items)) = size - 1
      BY <1>1, <1>5, <1>6
    <2>2. Items' \in Seq(Events) /\ Len(Items') = size - 1
      <3>1. Items' = [i \in 1 .. size - 1 |-> events'[(head' + (i - 1)) % cap']]
        BY <1>1 DEF Items, At
      <3>2. ASSUME NEW i \in 1 .. size - 1
            PROVE  events'[(head' + (i - 1)) % cap'] \in Events
        <4>1. i - 1 \in 0 .. size - 1 /\ (i - 1) + 1 \in 0 .. size - 1
          BY <1>1
        <4> QED BY <1>1, <1>2, <4>1 DEF RingOK, At
      <3>3. size - 1 \in Nat
        BY <1>1
      <3> QED BY <3>1, <3>2, <3>3
    <2>3. ASSUME NEW i \in 1 .. size - 1
          PROVE  Items'[i] = Tail(Items)[i]
      <3>1. Items'[i] = events'[(head' + (i - 1)) % cap']
        BY <1>1 DEF Items, At
      <3>2. i - 1 \in 0 .. size - 1 /\ (i - 1) + 1 = (i + 1) - 1 /\ i + 1 \in 1 .. size
        BY <1>1
      <3>3. Items[i + 1] = events[(head + ((i + 1) - 1)) % cap]
        BY <3>2 DEF Items, At
      <3>4. Tail(Items)[i] = Items[i + 1]
        BY <1>1, <1>5, <1>6
      <3> QED BY <1>1, <1>2, <3>1, <3>2, <3>3, <3>4
    <2> QED BY <2>1, <2>2, <2>3, SeqEqual
  <1> QED BY <1>4, <1>6, <1>7

\* mock_event_queue_pop of the empty queue says so.
LEMMA PopEmptyStep ==
  ASSUME RingOK, PopEmpty
  PROVE  RingOK' /\ Items = <<>> /\ Items' = Items /\ popped' = NoEvent
PROOF
  <1>1. /\ size = 0 /\ popped' = NoEvent /\ events' = events /\ cap' = cap
        /\ head' = head /\ tail' = tail /\ size' = size
    BY DEF PopEmpty, ring
  <1>2. Items = <<>>
    BY <1>1, ItemsType
  <1>3. Items' = Items
    BY <1>1 DEF Items, At
  <1>4. RingOK'
    BY <1>1 DEF RingOK, At
  <1> QED BY <1>1, <1>2, <1>3, <1>4

-----------------------------------------------------------------------------
(* The theorems.                                                           *)

\* mock_event_queue_init leaves an empty ring.
LEMMA RingInit == Init => RingOK /\ Fifo!Init
PROOF
  <1> SUFFICES ASSUME Init PROVE RingOK /\ Fifo!Init
    OBVIOUS
  <1>1. /\ cap \in Nat \ {0} /\ size = 0 /\ head = 0 /\ tail = 0
        /\ events \in [0 .. cap - 1 -> Events \cup {NoEvent}] /\ popped = NoEvent
    BY CapPositive DEF Init, Blank
  <1>2. (head + size) % cap = 0
    <2>1. 0 \in 0 .. cap /\ 0 \in 0 .. cap - 1
      BY <1>1
    <2> QED BY <1>1, <2>1, OneTurn
  <1>3. RingOK
    BY <1>1, <1>2 DEF RingOK, At
  <1>4. Items = <<>>
    BY <1>1, <1>3, ItemsType
  <1> QED BY <1>1, <1>3, <1>4 DEF Fifo!Init, Items

\* Every operation keeps the ring, and is one operation of the queue.
LEMMA RingStep ==
  ASSUME RingOK, [Next]_vars
  PROVE  RingOK' /\ [Fifo!Next]_<<Items, popped>>
PROOF
  <1>1. CASE Pop
    BY <1>1, PopStep DEF Fifo!Next, Fifo!Pop, Items
  <1>2. CASE PopEmpty
    BY <1>2, PopEmptyStep DEF Fifo!Next, Fifo!Pop, Items
  <1>3. CASE \E e \in Events : Push(e)
    <2>1. PICK e \in Events : Push(e)
      BY <1>3
    <2>2. RingOK' /\ Items' = Append(Items, e) /\ popped' = popped
      BY <2>1, PushStep
    <2>3. Fifo!Push(e)
      BY <2>2 DEF Fifo!Push, Items
    <2> QED BY <2>2, <2>3 DEF Fifo!Next
  <1>4. CASE UNCHANGED vars
    <2>1. /\ size' = size /\ popped' = popped /\ events' = events /\ cap' = cap
          /\ head' = head /\ tail' = tail
      BY <1>4 DEF vars, ring
    <2> QED BY <2>1 DEF RingOK, At, Items
  <1> QED BY <1>1, <1>2, <1>3, <1>4 DEF Next

\* Head, tail and size always describe a stretch of written elements, for every
\* initial capacity and however often the array of mock_event_queue_push grows.
THEOREM RingHolds == Spec => []RingOK
  BY RingInit, RingStep, PTL DEF Spec

\* The ring is a queue: every event that was pushed is popped once and in order,
\* through wrap-around and growth.
THEOREM RefinesFifo == Spec => ImplementsFifo
PROOF
  <1>1. RingOK /\ [Next]_vars => [Fifo!Next]_<<Items, popped>>
    BY RingStep
  <1> QED BY <1>1, RingInit, RingHolds, PTL DEF Spec, ImplementsFifo, Fifo!Spec, Items
=============================================================================

------------------------- MODULE TransportFlightProofs -------------------------
(***************************************************************************)
(* Theorems about Transport when no transfer starts before the records of  *)
(* the one before are handled: one write under way at a time, a chunk      *)
(* copied only after it arrived, a result that can be believed, and tasks  *)
(* without a context that no worker runs.                                  *)
(***************************************************************************)
EXTENDS TransportProofs

\* No transfer starts while something of an earlier one is under way.
Patient == "late_records" \notin Liberties

\* The sender has written nothing of the receiver's transfer yet.
Ahead == round["send"] < round["recv"] \/ app["send"] \in {"insert", "first"}

\* A write of the sender is in one place: on its way, in a record that comes
\* back, in the notification it becomes, or in the task that writes the next.
Written   == Len(wire)
Confirmed == Len(acks)
Recorded  == Len(crs["send"])
Pinged(e) == IF e \in slot THEN 1 ELSE 0
Starting  == IF work["send"].pc = "begin" THEN 1 ELSE 0
Flight    == Written + Confirmed + Recorded + Pinged("send") + Starting

Turns ==
    /\ round["recv"] <= round["send"] + 1
    /\ app["send"] \in {"insert", "first"} => round["send"] = round["recv"]
    /\ app["recv"] = "start" => round["recv"] = 0
    /\ app["recv"] = "ready" /\ round["recv"] > 0 => result["recv"] = "ok"

\* Before the first write nothing is under way, and the receiver waits.
Still == Ahead => /\ Drained /\ sync["recv"].completed_tasks = 0
                  /\ result["recv"] # "ok"

FlightInv == Flight <= 1 /\ ~overwritten["send"] /\ Turns /\ Still

-----------------------------------------------------------------------------
(* One write at a time.                                                    *)

\* The parts of Flight are counts.
LEMMA FlightParts ==
  ASSUME TypeOK
  PROVE  /\ wire \in Seq(Ids) /\ acks \in Seq(Ids) /\ crs["send"] \in Seq(Ids)
         /\ crs["recv"] \in Seq(Ids)
         /\ Written \in Nat /\ Confirmed \in Nat /\ Recorded \in Nat
         /\ Pinged("send") \in 0 .. 1 /\ Starting \in 0 .. 1
         /\ Flight = Written + Confirmed + Recorded + Pinged("send") + Starting
         /\ Flight' = Written' + Confirmed' + Recorded' + Pinged("send")' + Starting'
PROOF
  <1>1. /\ wire \in Seq(Ids) /\ acks \in Seq(Ids) /\ crs["send"] \in Seq(Ids)
        /\ crs["recv"] \in Seq(Ids)
    BY DEF TypeOK, Ends
  <1>2. Written \in Nat /\ Confirmed \in Nat /\ Recorded \in Nat
    BY <1>1 DEF Written, Confirmed, Recorded
  <1>3. Pinged("send") \in 0 .. 1 /\ Starting \in 0 .. 1
    BY DEF Pinged, Starting
  <1>4. Flight = Written + Confirmed + Recorded + Pinged("send") + Starting
    BY DEF Flight
  <1>5. Flight' = Written' + Confirmed' + Recorded' + Pinged("send")' + Starting'
    BY DEF Flight
  <1> QED BY <1>1, <1>2, <1>3, <1>4, <1>5

\* The tail of what is under way.
LEMMA OneLess ==
  ASSUME NEW s \in Seq(Ids), s # <<>>
  PROVE  /\ Len(Tail(s)) = Len(s) - 1 /\ Len(s) >= 1 /\ Len(s) \in Nat
         /\ Len(Tail(s)) \in Nat /\ Tail(s) \in Seq(Ids) /\ Head(s) \in Ids
  OBVIOUS

\* Steps of the calling threads and of the receiver's task move no write.
LEMMA FlightKept ==
  ASSUME FlightInv, UNCHANGED <<wire, acks, crs, slot, hand, round, overwritten>>,
         work'["send"].pc = "begin" <=> work["send"].pc = "begin",
         app'["send"] \in {"insert", "first"} => app["send"] \in {"insert", "first"},
         Ahead => /\ sync'["recv"].completed_tasks = sync["recv"].completed_tasks
                  /\ result'["recv"] # "ok",
         app'["recv"] = "start" => app["recv"] = "start",
         app'["recv"] = "ready" => \/ app["recv"] = "ready" /\ result'["recv"] = result["recv"]
                                   \/ round["recv"] = 0
                                   \/ result'["recv"] = "ok"
  PROVE  FlightInv'
PROOF
  <1>1. Flight' = Flight
    BY DEF Flight, Written, Confirmed, Recorded, Pinged, Starting
  <1>2. Ahead' => Ahead
    BY DEF Ahead
  <1>3. Turns'
    BY DEF FlightInv, Turns
  <1>4. Still'
    <2>1. Drained => Drained'
      BY DEF Drained
    <2> QED BY <1>2, <2>1 DEF FlightInv, Still
  <1> QED BY <1>1, <1>3, <1>4 DEF FlightInv

\* A write, its record or its notification goes on to the next place; before the
\* first write there is none.
LEMMA FlightMoves ==
  ASSUME FlightInv, ~Drained, UNCHANGED <<round, app, result>>,
         Flight' <= 1, overwritten'["send"] = overwritten["send"]
  PROVE  FlightInv' /\ ~Ahead /\ ~Ahead'
PROOF
  <1>1. ~Ahead
    BY DEF FlightInv, Still
  <1>2. ~Ahead'
    BY <1>1 DEF Ahead
  <1> QED BY <1>1, <1>2 DEF FlightInv, Turns, Still

\* The steps of the network and of the polling threads.
LEMMA NetFlight ==
  ASSUME IInv, FlightInv,
         \/ Deliver \/ Acknowledge \/ Lose
         \/ \E e \in Ends : PollStep(e)
  PROVE  FlightInv' /\ ~Ahead /\ ~Ahead'
PROOF
  <1>0. TypeOK /\ Flight <= 1 /\ ~overwritten["send"]
    BY DEF IInv, FlightInv
  <1>9. /\ wire \in Seq(Ids) /\ acks \in Seq(Ids) /\ crs["send"] \in Seq(Ids)
        /\ crs["recv"] \in Seq(Ids)
    BY <1>0, FlightParts
  <1>8. /\ Written \in Nat /\ Confirmed \in Nat /\ Recorded \in Nat
        /\ Pinged("send") \in 0 .. 1 /\ Starting \in 0 .. 1
        /\ Flight = Written + Confirmed + Recorded + Pinged("send") + Starting
        /\ Flight' = Written' + Confirmed' + Recorded' + Pinged("send")' + Starting'
    BY <1>0, FlightParts
  <1>1. CASE Deliver
    <2>1. /\ wire # <<>> /\ wire' = Tail(wire) /\ acks' = Append(acks, Head(wire))
          /\ crs'["send"] = crs["send"]
          /\ UNCHANGED <<slot, work, round, app, result, overwritten>>
      BY <1>0, <1>1 DEF Deliver, poolVars, appVars, TypeOK, Ends
    <2>2. Written' = Written - 1 /\ Confirmed' = Confirmed + 1 /\ Recorded' = Recorded
      BY <1>0, <1>9, <2>1 DEF Written, Confirmed, Recorded
    <2>3. Flight' <= 1
      <3>1. Pinged("send")' = Pinged("send") /\ Starting' = Starting
        BY <2>1 DEF Pinged, Starting
      <3> QED BY <1>0, <1>8, <2>1, <2>2, <3>1
    <2> QED BY <1>0, <2>1, <2>3, FlightMoves DEF Drained
  <1>2. CASE Acknowledge
    <2>1. /\ acks # <<>> /\ acks' = Tail(acks) /\ wire' = wire
          /\ crs'["send"] = Append(crs["send"], Head(acks))
          /\ UNCHANGED <<slot, work, round, app, result, overwritten>>
      BY <1>0, <1>2 DEF Acknowledge, poolVars, appVars, TypeOK, Ends
    <2>2. Written' = Written /\ Confirmed' = Confirmed - 1 /\ Recorded' = Recorded + 1
      BY <1>0, <1>9, <2>1 DEF Written, Confirmed, Recorded
    <2>3. Flight' <= 1
      <3>1. Pinged("send")' = Pinged("send") /\ Starting' = Starting
        BY <2>1 DEF Pinged, Starting
      <3> QED BY <1>0, <1>8, <2>1, <2>2, <3>1
    <2> QED BY <1>0, <2>1, <2>3, FlightMoves DEF Drained
  <1>3. CASE Lose
    <2>1. /\ wire # <<>> /\ wire' = Tail(wire)
          /\ UNCHANGED <<acks, crs, slot, work, round, app, result, overwritten>>
      BY <1>3 DEF Lose, poolVars, appVars
    <2>2. Written' = Written - 1 /\ Confirmed' = Confirmed /\ Recorded' = Recorded
      BY <1>0, <1>9, <2>1 DEF Written, Confirmed, Recorded
    <2>3. Flight' <= 1
      <3>1. Pinged("send")' = Pinged("send") /\ Starting' = Starting
        BY <2>1 DEF Pinged, Starting
      <3> QED BY <1>0, <1>8, <2>1, <2>2, <3>1
    <2> QED BY <1>0, <2>1, <2>3, FlightMoves DEF Drained
  <1>4. ASSUME NEW e \in Ends, WakeUp(e) PROVE FlightInv' /\ ~Ahead /\ ~Ahead'
    <2>1. /\ crs[e] # <<>> /\ crs' = [crs EXCEPT ![e] = Tail(crs[e])]
          /\ slot' = slot \cup {e}
          /\ overwritten' = [overwritten EXCEPT ![e] = overwritten[e] \/ e \in slot]
          /\ UNCHANGED <<wire, acks, work, round, app, result>>
      BY <1>4 DEF WakeUp, Spent, Pool!Notify, appVars
    <2>2. crs \in [Ends -> Seq(Ids)] /\ overwritten \in [Ends -> BOOLEAN]
      BY <1>0 DEF TypeOK
    <2>3. CASE e = "send"
      <3>1. /\ crs'["send"] = Tail(crs["send"]) /\ crs["send"] # <<>>
        BY <2>1, <2>2, <2>3
      <3>2. /\ Written' = Written /\ Confirmed' = Confirmed /\ Recorded' = Recorded - 1
            /\ Recorded >= 1
        <4>1. Recorded' = Len(Tail(crs["send"]))
          BY <3>1 DEF Recorded
        <4>2. /\ Recorded' = Len(crs["send"]) - 1 /\ Len(crs["send"]) >= 1
          BY <1>9, <3>1, <4>1, OneLess
        <4> QED BY <2>1, <4>2 DEF Written, Confirmed, Recorded
      <3>3. "send" \notin slot /\ Flight' <= 1
        <4>1. Starting' = Starting /\ Pinged("send")' \in 0 .. 1
          BY <2>1 DEF Pinged, Starting
        <4>2. Pinged("send") = 0
          BY <1>0, <1>8, <3>2
        <4> QED BY <1>0, <1>8, <2>1, <3>2, <4>1, <4>2 DEF Pinged
      <3>4. overwritten'["send"] = overwritten["send"]
        BY <2>1, <2>2, <2>3, <3>3
      <3> QED BY <2>1, <3>3, <3>4, FlightMoves DEF Drained
    <2>4. CASE e = "recv"
      <3>1. /\ crs'["send"] = crs["send"] /\ overwritten'["send"] = overwritten["send"]
            /\ "send" \in slot' <=> "send" \in slot
        BY <2>1, <2>2, <2>4
      <3>2. Flight' <= 1
        <4>1. /\ Starting' = Starting /\ Pinged("send")' = Pinged("send")
              /\ Written' = Written /\ Confirmed' = Confirmed /\ Recorded' = Recorded
          BY <2>1, <3>1 DEF Pinged, Starting, Written, Confirmed, Recorded
        <4> QED BY <1>0, <1>8, <2>1, <3>1, <4>1
      <3> QED BY <2>1, <3>1, <3>2, FlightMoves DEF Drained
    <2> QED BY <2>3, <2>4 DEF Ends
  <1>5. ASSUME NEW e \in Ends, WakeUpNone(e) \/ WakeUpUnknown(e)
        PROVE  FlightInv' /\ ~Ahead /\ ~Ahead'
    <2>1. /\ crs[e] # <<>> /\ crs' = [crs EXCEPT ![e] = Tail(crs[e])]
          /\ UNCHANGED <<wire, acks, slot, work, round, app, result, overwritten>>
      BY <1>5 DEF WakeUpNone, WakeUpUnknown, Spent, appVars, poolVars
    <2>2. crs \in [Ends -> Seq(Ids)]
      BY <1>0 DEF TypeOK
    <2>3. /\ Recorded' <= Recorded /\ Recorded' \in Nat
          /\ Written' = Written /\ Confirmed' = Confirmed
      <3>1. CASE e = "send"
        <4>1. /\ crs'["send"] = Tail(crs["send"]) /\ crs["send"] # <<>>
          BY <2>1, <2>2, <3>1
        <4>2. Recorded' = Len(Tail(crs["send"]))
          BY <4>1 DEF Recorded
        <4>3. Recorded' \in Nat /\ Recorded' = Len(crs["send"]) - 1 /\ Len(crs["send"]) \in Nat
          BY <1>9, <4>1, <4>2, OneLess
        <4>4. Recorded = Len(crs["send"]) /\ Written' = Written /\ Confirmed' = Confirmed
          BY <2>1 DEF Written, Confirmed, Recorded
        <4> QED BY <4>3, <4>4
      <3>2. CASE e = "recv"
        <4>1. crs'["send"] = crs["send"]
          BY <2>1, <2>2, <3>2
        <4>2. Recorded' = Recorded /\ Written' = Written /\ Confirmed' = Confirmed
          BY <2>1, <4>1 DEF Written, Confirmed, Recorded
        <4> QED BY <1>8, <4>2
      <3> QED BY <3>1, <3>2 DEF Ends
    <2>4. Flight' <= 1
      <3>1. Pinged("send")' = Pinged("send") /\ Starting' = Starting
        BY <2>1 DEF Pinged, Starting
      <3> QED BY <1>0, <1>8, <2>1, <2>3, <3>1
    <2> QED BY <2>1, <2>4, FlightMoves DEF Drained
  <1> QED BY <1>1, <1>2, <1>3, <1>4, <1>5 DEF PollStep

\* A task in hand is under way.
LEMMA HandNotDrained ==
  ASSUME IInv, NEW e \in Ends, work[e].pc \notin {"none", "settle"}
  PROVE  /\ ~Drained /\ TaskOf(e) \in hand /\ TaskOf(e).req = e
         /\ Pool!Of(hand, e) = {TaskOf(e)}
PROOF
  <1>1. /\ TaskOf(e) \in hand /\ TaskOf(e).req = e
        /\ \A t \in hand : t.req = e => t = TaskOf(e)
    BY InHandFacts DEF IInv
  <1> QED BY <1>1 DEF Drained, Pool!Of

\* The sender's worker turns a notification into the next write.
LEMMA WorkerFlight ==
  ASSUME IInv, FlightInv, NEW e \in Ends, WorkerStep(e), ~Settle(e)
  PROVE  FlightInv' /\ ~Ahead /\ ~Ahead'
PROOF
  <1>0. TypeOK /\ Flight <= 1 /\ ~overwritten["send"]
    BY DEF IInv, FlightInv
  <1>1. /\ Written \in Nat /\ Confirmed \in Nat /\ Recorded \in Nat
        /\ Pinged("send") \in 0 .. 1 /\ Starting \in 0 .. 1
        /\ Flight = Written + Confirmed + Recorded + Pinged("send") + Starting
        /\ Flight' = Written' + Confirmed' + Recorded' + Pinged("send")' + Starting'
    BY <1>0, FlightParts
  <1>2. work \in [Ends -> WorkType] /\ "send" \in Ends
    BY <1>0 DEF TypeOK, WorkType, WorkPc, Ends
  <1>3. ASSUME UNCHANGED <<wire, acks, crs>>
        PROVE  Written' = Written /\ Confirmed' = Confirmed /\ Recorded' = Recorded
    BY <1>3 DEF Written, Confirmed, Recorded
  <1>4. CASE Begin(e)
    <2>1. /\ e \in slot /\ slot' = slot \ {e}
          /\ work' = [work EXCEPT ![e] = [pc |-> "begin", ok |-> TRUE]]
          /\ UNCHANGED <<wire, acks, crs, round, app, result, overwritten>>
      BY <1>4 DEF Begin, Pool!First, Pool!Take, Pool!Of, appVars, netVars
    <2>2. work[e].pc = "none"
      BY <1>4 DEF Begin, Occupied
    <2>3. Pinged("send")' + Starting' <= Pinged("send") + Starting
      <3>1. CASE e = "send"
        <4>1. Pinged("send") = 1 /\ Pinged("send")' = 0 /\ Starting = 0 /\ Starting' = 1
          BY <1>2, <2>1, <2>2, <3>1 DEF Pinged, Starting
        <4> QED BY <4>1
      <3>2. CASE e = "recv"
        <4>1. Pinged("send")' = Pinged("send") /\ Starting' = Starting
          BY <1>2, <2>1, <3>2 DEF Pinged, Starting
        <4> QED BY <1>1, <4>1
      <3> QED BY <3>1, <3>2 DEF Ends
    <2>4. Pinged("send")' \in 0 .. 1 /\ Starting' \in 0 .. 1
      BY DEF Pinged, Starting
    <2>5. Flight' <= 1
      BY <1>0, <1>1, <1>3, <2>1, <2>3, <2>4
    <2> QED BY <2>1, <2>5, FlightMoves DEF Drained
  <1>5. CASE Ignore(e)
    <2>1. /\ e \in slot /\ slot' = slot \ {e} /\ work' = work
          /\ UNCHANGED <<wire, acks, crs, round, app, result, overwritten>>
      BY <1>5 DEF Ignore, Pool!Ignore, appVars, netVars
    <2>2. /\ Pinged("send")' <= Pinged("send") /\ Pinged("send")' \in 0 .. 1
          /\ Starting' = Starting
      BY <2>1 DEF Pinged, Starting
    <2>3. Flight' <= 1
      BY <1>0, <1>1, <1>3, <2>1, <2>2
    <2> QED BY <2>1, <2>3, FlightMoves DEF Drained
  <1>6. CASE Mark(e) \/ Return(e) \/ (e = "recv" /\ (CopyChunk \/ ReadLast \/ RecordEvent))
    <2>1. /\ work[e].pc \notin {"none", "settle"}
          /\ \A f \in Ends : work'[f].pc = "begin" => work[f].pc = "begin"
          /\ UNCHANGED <<slot, wire, acks, crs, round, app, result, overwritten>>
      <3>1. UNCHANGED <<slot, wire, acks, crs, round, app, result, overwritten>>
        BY <1>6 DEF Mark, Return, CopyChunk, ReadLast, RecordEvent, appVars, netVars,
           poolVars, Pool!Return
      <3>2. /\ work[e].pc \notin {"none", "settle"}
            /\ \E x \in WorkType : x.pc # "begin" /\ work' = [work EXCEPT ![e] = x]
        <4>1. \A pc \in WorkPc, ok \in BOOLEAN : [pc |-> pc, ok |-> ok] \in WorkType
          BY DEF WorkType
        <4>2. work[e] \in WorkType
          BY <1>2
        <4>3. \A pc \in WorkPc : [work[e] EXCEPT !.pc = pc] \in WorkType
                               /\ [work[e] EXCEPT !.pc = pc].pc = pc
          BY <4>2 DEF WorkType
        <4>4. CASE Mark(e)
          BY <4>3, <4>4 DEF Mark, WorkPc
        <4>5. CASE Return(e)
          BY <4>3, <4>5 DEF Return, WorkPc
        <4>6. CASE e = "recv" /\ (CopyChunk \/ ReadLast \/ RecordEvent)
          BY <4>1, <4>3, <4>6 DEF CopyChunk, ReadLast, RecordEvent, WorkPc
        <4> QED BY <1>6, <4>4, <4>5, <4>6
      <3> QED BY <1>2, <3>1, <3>2
    <2>2. Pinged("send")' = Pinged("send") /\ Starting' <= Starting /\ Starting' \in 0 .. 1
      BY <1>2, <2>1 DEF Pinged, Starting
    <2>3. Flight' <= 1
      BY <1>0, <1>1, <1>3, <2>1, <2>2
    <2> QED BY <2>1, <2>3, FlightMoves, HandNotDrained
  <1>7. CASE e = "send" /\ WriteChunk
    <2>1. /\ work["send"].pc = "begin" /\ work'["send"].pc # "begin"
          /\ \/ wire' = Append(wire, TaskOf("send").id)
             \/ wire' = wire
          /\ UNCHANGED <<slot, acks, crs, round, app, result, overwritten>>
      <3>1. /\ work["send"].pc = "begin"
            /\ \/ wire' = Append(wire, TaskOf("send").id)
               \/ wire' = wire
            /\ UNCHANGED <<slot, acks, crs, round, app, result, overwritten>>
        BY <1>7 DEF WriteChunk, Write, appVars, poolVars
      <3>2. \/ work' = [work EXCEPT !["send"].pc = "mark"]
            \/ work' = [work EXCEPT !["send"] = [pc |-> "mark", ok |-> FALSE]]
        BY <1>7 DEF WriteChunk
      <3>3. work'["send"].pc = "mark"
        BY <1>2, <3>2, WorkMoves DEF WorkPc
      <3> QED BY <3>1, <3>3
    <2>2. Written' <= Written + 1 /\ Written' \in Nat
      <3>1. wire \in Seq(Ids) /\ TaskOf("send").id \in Ids
        BY <1>0, <1>2, <2>1, InHandFacts DEF IInv, TypeOK
      <3>2. Len(Append(wire, TaskOf("send").id)) = Len(wire) + 1
        BY <3>1
      <3>3. Written' = Written + 1 \/ Written' = Written
        BY <2>1, <3>2 DEF Written
      <3> QED BY <1>1, <3>3
    <2>3. /\ Pinged("send")' = Pinged("send") /\ Starting = 1 /\ Starting' = 0
          /\ Confirmed' = Confirmed /\ Recorded' = Recorded
      BY <2>1 DEF Pinged, Starting, Confirmed, Recorded
    <2>4. Flight' <= 1
      BY <1>0, <1>1, <2>2, <2>3
    <2> QED BY <1>2, <2>1, <2>4, FlightMoves, HandNotDrained
  <1> QED BY <1>4, <1>5, <1>6, <1>7 DEF WorkerStep

\* What the worker does after its task moves no write either.
LEMMA SettleFlight ==
  ASSUME IInv, FlightInv, NEW e \in Ends, Settle(e)
  PROVE  FlightInv'
PROOF
  <1>1. /\ work \in [Ends -> WorkType] /\ "send" \in Ends
        /\ work[e].pc = "settle" /\ work' = [work EXCEPT ![e] = NoWork]
    BY DEF Settle, IInv, TypeOK, WorkType, WorkPc, Ends
  <1>2. work'["send"].pc = "begin" <=> work["send"].pc = "begin"
    BY <1>1 DEF NoWork
  <1>3. /\ UNCHANGED <<wire, acks, crs, slot, hand, round, overwritten>>
        /\ UNCHANGED <<app, sync, result>>
    BY DEF Settle, appVars, syncVars, netVars
  <1> QED BY <1>2, <1>3, FlightKept DEF FlightInv, Still

\* Nothing under way counts nothing.
LEMMA DrainedFlight ==
  ASSUME IInv, Drained
  PROVE  /\ Flight = 0 /\ Written = 0 /\ Confirmed = 0 /\ Recorded = 0
         /\ \A e \in Ends : work[e].pc \in {"none", "settle"}
PROOF
  <1>1. Written = 0 /\ Confirmed = 0 /\ Recorded = 0
    BY DEF Drained, Written, Confirmed, Recorded, Ends
  <1>2. \A e \in Ends : work[e].pc \in {"none", "settle"}
    BY DEF Drained, IInv, HandOK, Pool!Of
  <1>3. Pinged("send") = 0 /\ Starting = 0
    BY <1>2 DEF Drained, Pinged, Starting, Ends
  <1> QED BY <1>1, <1>2, <1>3 DEF Flight

\* The calling threads outside of the start of a transfer and the first write.
LEMMA AppFlight ==
  ASSUME IInv, FlightInv, NEW e \in Ends,
         \/ Open(e) \/ Close(e) \/ CallFails(e) \/ Wait(e) \/ Check(e) \/ CancelRest(e)
         \/ Free(e) \/ Insert(e) \/ InsertFails(e) \/ (e = "recv" /\ (PostRecv \/ PostRecvRefused \/ AskSender))
         \/ (e = "send" /\ SendFirstRefused)
  PROVE  FlightInv'
PROOF
  <1>0. /\ app \in [Ends -> AppPc] /\ "send" \in Ends /\ "recv" \in Ends
        /\ sync \in [Ends -> SyncType] /\ result \in [Ends -> {"none", "ok", "failed"}]
    BY DEF IInv, TypeOK, Ends, SyncType
  <1>1. UNCHANGED <<wire, acks, crs, slot, hand, round, overwritten, work>>
    BY DEF Open, Close, CallFails, Wait, Check, CancelRest, Free, Insert, InsertFails, PostRecv,
       PostRecvRefused, AskSender, SendFirstRefused, Refused, Pool!Cancel, poolVars, netVars, syncVars
  <1>2. \E pc \in AppPc \ {"start", "insert"} :
            /\ app' = [app EXCEPT ![e] = pc]
            /\ pc = "first" => app[e] = "insert"
            /\ pc = "ready" => app[e] = "start" \/ (app[e] = "free" /\ result[e] = "ok")
    <2>1. CASE Open(e) \/ Close(e) \/ CallFails(e) \/ Wait(e)
      BY <2>1 DEF Open, Close, CallFails, Wait, AppPc
    <2>2. CASE Check(e) \/ CancelRest(e) \/ Free(e)
      BY <2>2 DEF Check, CancelRest, Free, AppPc
    <2>3. CASE e = "recv" /\ (PostRecv \/ PostRecvRefused \/ AskSender)
      BY <2>3 DEF PostRecv, PostRecvRefused, AskSender, Refused, AppPc
    <2>4. CASE e = "send" /\ SendFirstRefused
      BY <2>4 DEF SendFirstRefused, Refused, AppPc
    <2>5. CASE Insert(e) \/ InsertFails(e)
      BY <2>5 DEF Insert, InsertFails, Registered, AppPc, Ends
    <2> QED BY <2>1, <2>2, <2>3, <2>4, <2>5
  <1>3. /\ app'["send"] \in {"insert", "first"} => app["send"] \in {"insert", "first"}
        /\ app'["recv"] = "start" => app["recv"] = "start"
    BY <1>0, <1>2
  <1>4. sync'["recv"].completed_tasks = sync["recv"].completed_tasks
    BY <1>0 DEF Open, Close, CallFails, Wait, Check, CancelRest, Free, Insert,
       InsertFails, PostRecv, PostRecvRefused, AskSender, SendFirstRefused, Refused, Release, syncVars, SyncType
  <1>5. CASE result' = result
    <2>1. app'["recv"] = "ready" => \/ app["recv"] = "ready" \/ round["recv"] = 0
                                    \/ result["recv"] = "ok"
      BY <1>0, <1>2 DEF FlightInv, Turns
    <2> QED BY <1>1, <1>3, <1>4, <1>5, <2>1, FlightKept DEF FlightInv, Still
  <1>6. CASE Check(e)
    <2>1. /\ app[e] = "check" /\ result' = [result EXCEPT ![e] = Outcome(e)]
          /\ app' = [app EXCEPT ![e] = IF Outcome(e) = "ok" THEN "free" ELSE "cancel"]
      BY <1>6 DEF Check
    <2>2. app'["recv"] = "ready" => app["recv"] = "ready" /\ result'["recv"] = result["recv"]
      BY <1>0, <2>1
    <2>3. Ahead => result'["recv"] # "ok"
      <3>1. SUFFICES ASSUME Ahead PROVE result'["recv"] # "ok"
        OBVIOUS
      <3>2. result["recv"] # "ok" /\ sync["recv"].completed_tasks = 0
        BY <3>1 DEF FlightInv, Still
      <3>3. CASE e = "send"
        BY <1>0, <2>1, <3>2, <3>3
      <3>4. CASE e = "recv"
        <4>1. len[round["recv"]] >= 1 /\ len[round["recv"]] \in 0 .. MaxChunks
          BY <1>0, <2>1, <3>4 DEF IInv, RoundsOK, InCall, TypeOK
        <4>2. len[round["recv"]] # 0
          BY <4>1
        <4>3. Outcome("recv") = "failed"
          BY <3>2, <4>2 DEF Outcome, total_tasks
        <4> QED BY <1>0, <2>1, <3>4, <4>3
      <3> QED BY <3>3, <3>4 DEF Ends
    <2> QED BY <1>1, <1>3, <1>4, <2>2, <2>3, FlightKept
  <1>7. Check(e) \/ result' = result
    BY DEF Open, Close, CallFails, Wait, CancelRest, Free, Insert, InsertFails, PostRecv,
       PostRecvRefused, AskSender, SendFirstRefused, Refused
  <1> QED BY <1>5, <1>6, <1>7

\* A transfer starts when nothing is under way, and so with nothing under way.
LEMMA RecvCallFlight ==
  ASSUME Patient, IInv, FlightInv, RecvCall
  PROVE  FlightInv'
PROOF
  <1>0. /\ app \in [Ends -> AppPc] /\ "send" \in Ends /\ "recv" \in Ends
        /\ sync \in [Ends -> SyncType] /\ result \in [Ends -> {"none", "ok", "failed"}]
        /\ round \in [Ends -> 0 .. MaxRounds]
        /\ round["send"] \in Nat /\ round["recv"] \in Nat /\ TypeOK
        /\ round["send"] <= round["recv"]
    <2>1. /\ app \in [Ends -> AppPc] /\ "send" \in Ends /\ "recv" \in Ends
          /\ sync \in [Ends -> SyncType] /\ result \in [Ends -> {"none", "ok", "failed"}]
          /\ round \in [Ends -> 0 .. MaxRounds] /\ ctl \in 0 .. MaxRounds /\ TypeOK
      BY DEF IInv, TypeOK, Ends, SyncType
    <2>2. round["send"] <= ctl /\ ctl <= round["recv"]
      BY DEF IInv, RoundsOK
    <2>3. round["send"] \in Nat /\ round["recv"] \in Nat /\ ctl \in Nat
      BY <2>1, TransferBounds
    <2> QED BY <2>1, <2>2, <2>3
  <1>1. /\ Drained /\ app["recv"] = "ready"
        /\ round' = [round EXCEPT !["recv"] = round["recv"] + 1]
        /\ sync' = [sync EXCEPT !["recv"] = NewSync]
        /\ result' = [result EXCEPT !["recv"] = "none"]
        /\ app' = [app EXCEPT !["recv"] = "insert"]
        /\ UNCHANGED <<wire, acks, crs, slot, hand, work, overwritten>>
    BY DEF RecvCall, MayStart, Patient, Register, Pool!Accept, netVars
  <1>2. ~Ahead
    <2>1. round["recv"] = 0 => ~Ahead
      BY <1>0 DEF Ahead, IInv, RoundsOK, InCall, Rounds
    <2>2. round["recv"] > 0 => ~Ahead
      BY <1>1 DEF FlightInv, Turns, Still
    <2> QED BY <1>0, <2>1, <2>2
  <1>3. round["send"] = round["recv"] /\ app["send"] \notin {"insert", "first"}
    BY <1>0, <1>2 DEF Ahead
  <1>4. Flight' = Flight
    BY <1>1 DEF Flight, Written, Confirmed, Recorded, Pinged, Starting
  <1>5. Turns'
    <2>1. round'["recv"] = round["recv"] + 1 /\ round'["send"] = round["send"]
      BY <1>0, <1>1
    <2>2. app'["recv"] = "insert" /\ app'["send"] = app["send"]
      BY <1>0, <1>1
    <2> QED BY <1>0, <1>3, <2>1, <2>2 DEF Turns
  <1>6. Still'
    <2>1. Drained'
      BY <1>1 DEF Drained
    <2>2. sync'["recv"].completed_tasks = 0 /\ result'["recv"] = "none"
      BY <1>0, <1>1 DEF NewSync
    <2> QED BY <2>1, <2>2 DEF Still
  <1> QED BY <1>1, <1>4, <1>5, <1>6 DEF FlightInv

\* The sender answers the one transfer it was asked for and has not done yet.
LEMMA AskedIsNext ==
  ASSUME IInv, FlightInv, NEW r \in Rounds, Asked(r)
  PROVE  /\ r = round["recv"] /\ Ahead /\ Drained /\ Flight = 0
         /\ round["send"] < r
PROOF
  <1>1. /\ round["send"] \in Nat /\ round["recv"] \in Nat /\ ctl \in Nat /\ TypeOK
        /\ round["send"] < ctl /\ ctl <= round["recv"] /\ r = ctl
        /\ round["recv"] <= round["send"] + 1
    <2>1. round["send"] \in Nat /\ round["recv"] \in Nat /\ ctl \in Nat /\ TypeOK
      BY TransferBounds DEF IInv, TypeOK, Ends
    <2>2. r = ctl /\ r > round["send"] /\ ctl <= round["recv"]
      BY DEF Asked, IInv, RoundsOK
    <2>3. round["recv"] <= round["send"] + 1
      BY DEF FlightInv, Turns
    <2> QED BY <2>1, <2>2, <2>3
  <1>2. r = round["recv"] /\ Ahead
    BY <1>1 DEF Ahead
  <1>3. Drained
    BY <1>2 DEF FlightInv, Still
  <1> QED BY <1>1, <1>2, <1>3, DrainedFlight

\* os_transport_send begins with nothing under way, and posts one write: at once,
\* or when its tasks are registered.
LEMMA SendFlight ==
  ASSUME IInv, FlightInv, SendCall \/ SendSingle \/ SendFirst
  PROVE  FlightInv'
PROOF
  <1>0. /\ app \in [Ends -> AppPc] /\ "send" \in Ends /\ "recv" \in Ends /\ TypeOK
        /\ sync \in [Ends -> SyncType] /\ result \in [Ends -> {"none", "ok", "failed"}]
        /\ round \in [Ends -> 0 .. MaxRounds]
        /\ round["send"] \in Nat /\ round["recv"] \in Nat
    BY TransferBounds DEF IInv, TypeOK, Ends, SyncType, RoundsOK
  <1>1. CASE SendCall
    <2>1. PICK r \in Rounds :
            /\ Asked(r) /\ Register("send", r)
            /\ app' = [app EXCEPT !["send"] = "insert"]
            /\ UNCHANGED <<wire, acks, crs, work, overwritten>>
      BY <1>1 DEF SendCall, Register, netVars
    <2>2. /\ round' = [round EXCEPT !["send"] = r]
          /\ sync' = [sync EXCEPT !["send"] = NewSync]
          /\ result' = [result EXCEPT !["send"] = "none"]
          /\ slot' = slot /\ hand' = hand
      BY <2>1 DEF Register, Pool!Accept
    <2>3. /\ r = round["recv"] /\ Ahead /\ Drained /\ Flight = 0
          /\ app["send"] = "ready"
      BY <2>1, AskedIsNext DEF Asked
    <2>4. Flight' = Flight
      BY <2>1, <2>2 DEF Flight, Written, Confirmed, Recorded, Pinged, Starting
    <2>5. /\ round'["send"] = round["recv"] /\ round'["recv"] = round["recv"]
          /\ sync'["recv"] = sync["recv"] /\ result'["recv"] = result["recv"]
          /\ app'["recv"] = app["recv"]
      BY <1>0, <2>1, <2>2, <2>3
    <2>6. Turns'
      BY <1>0, <2>5 DEF FlightInv, Turns
    <2>7. Still'
      BY <2>1, <2>2, <2>3, <2>5 DEF FlightInv, Still, Drained
    <2> QED BY <2>1, <2>3, <2>4, <2>6, <2>7 DEF FlightInv
  <1>2. CASE SendSingle
    <2>1. PICK r \in Rounds :
            /\ Asked(r) /\ round' = [round EXCEPT !["send"] = r]
            /\ \/ wire' = Append(wire, IdOf(r, 0)) /\ app' = app
               \/ wire' = wire /\ app' = [app EXCEPT !["send"] = "stopped"]
            /\ \E x : result' = [result EXCEPT !["send"] = x]
            /\ UNCHANGED <<slot, hand, acks, crs, work, sync, overwritten>>
      BY <1>2 DEF SendSingle, Write, poolVars, syncVars
    <2>2. /\ r = round["recv"] /\ Ahead /\ Drained /\ Flight = 0
          /\ app["send"] = "ready" /\ wire = <<>>
      BY <2>1, AskedIsNext DEF Asked, Drained
    <2>3. Written' \in 0 .. 1
      <3>1. Len(wire') = 0 \/ Len(wire') = 1
        BY <2>1, <2>2
      <3> QED BY <3>1 DEF Written
    <2>4. Flight' = Written'
      <3>1. Confirmed = 0 /\ Recorded = 0 /\ Pinged("send") = 0 /\ Starting = 0
        BY <1>0, <2>2, DrainedFlight, FlightParts
      <3>2. Confirmed' = 0 /\ Recorded' = 0 /\ Pinged("send")' = 0 /\ Starting' = 0
        BY <2>1, <3>1 DEF Confirmed, Recorded, Pinged, Starting
      <3> QED BY <2>3, <3>2 DEF Flight
    <2>5. /\ round'["send"] = round["recv"] /\ round'["recv"] = round["recv"]
          /\ result'["recv"] = result["recv"]
          /\ app'["recv"] = app["recv"] /\ app'["send"] \notin {"insert", "first"}
      BY <1>0, <2>1, <2>2
    <2>6. Turns'
      BY <1>0, <2>5 DEF FlightInv, Turns
    <2>7. Still'
      BY <1>0, <2>5 DEF Still, Ahead
    <2> QED BY <2>1, <2>3, <2>4, <2>6, <2>7 DEF FlightInv
  <1>3. CASE SendFirst
    <2>1. /\ app["send"] = "first" /\ wire' = Append(wire, FirstChunk(round["send"]))
          /\ app' = [app EXCEPT !["send"] = "wait"]
          /\ UNCHANGED <<slot, hand, acks, crs, work, sync, overwritten, round, result>>
      BY <1>3 DEF SendFirst, Write, poolVars, syncVars
    <2>2. Drained /\ wire = <<>> /\ round["send"] = round["recv"]
      BY <2>1 DEF FlightInv, Still, Turns, Ahead, Drained
    <2>3. Written' = 1
      <3>1. Len(wire') = 1
        BY <2>1, <2>2
      <3> QED BY <3>1 DEF Written
    <2>4. Flight' = 1
      <3>1. Confirmed = 0 /\ Recorded = 0 /\ Pinged("send") = 0 /\ Starting = 0
        BY <1>0, <2>2, DrainedFlight, FlightParts
      <3>2. Confirmed' = 0 /\ Recorded' = 0 /\ Pinged("send")' = 0 /\ Starting' = 0
        BY <2>1, <3>1 DEF Confirmed, Recorded, Pinged, Starting
      <3> QED BY <2>3, <3>2 DEF Flight
    <2>5. app'["recv"] = app["recv"] /\ app'["send"] = "wait"
      BY <1>0, <2>1
    <2>6. Turns'
      BY <2>1, <2>5 DEF FlightInv, Turns
    <2>7. Still'
      BY <1>0, <2>1, <2>2, <2>5 DEF Still, Ahead
    <2> QED BY <2>1, <2>4, <2>6, <2>7 DEF FlightInv
  <1> QED BY <1>1, <1>2, <1>3

\* No step puts a second write under way.
LEMMA FlightStep ==
  ASSUME Patient, IInv, FlightInv, [Next]_vars
  PROVE  FlightInv'
PROOF
  <1>1. CASE UNCHANGED vars
    <2>1. UNCHANGED <<wire, acks, crs, slot, hand, round, overwritten, work, app, sync, result>>
      BY <1>1 DEF vars, poolVars, appVars, syncVars, netVars
    <2> QED BY <2>1, FlightKept DEF FlightInv, Still
  <1>2. ASSUME NEW e \in Ends, Open(e) \/ Close(e) \/ CallStep(e) PROVE FlightInv'
    BY <1>2, AppFlight, SendFlight DEF CallStep
  <1> QED BY <1>1, <1>2, WorkerFlight, SettleFlight, RecvCallFlight, NetFlight DEF Next

\* And none is under way at the start.
LEMMA FlightInvariant == Patient /\ Spec => []FlightInv
PROOF
  <1> SUFFICES ASSUME Patient PROVE Spec => []FlightInv
    OBVIOUS
  <1>1. Init => FlightInv
    <2> SUFFICES ASSUME Init PROVE FlightInv
      OBVIOUS
    <2>1. Drained
      BY DEF Init, Pool!Init, Drained
    <2>2. IInv
      BY InitInv
    <2>3. Turns /\ Still
      BY <2>1 DEF Init, Turns, Still, NewSync, Ends
    <2> QED BY <2>1, <2>2, <2>3, DrainedFlight DEF FlightInv, Init, Ends
  <1>2. IInv /\ FlightInv /\ [Next]_vars => FlightInv'
    BY FlightStep
  <1> QED BY <1>1, <1>2, Invariant, PTL DEF Spec

\* When no transfer starts before the records of the one before were handled, a
\* sender has one write under way: a worker posts the next only for the record of
\* the last one (os_transport_wake_up_task), so no two notifications of the sender
\* ever meet in pending_req, however the network delays or loses them.
THEOREM OneInFlightHolds == Patient /\ Spec => []OneInFlight
PROOF
  <1>1. IInv /\ FlightInv => OneInFlight
    <2> SUFFICES ASSUME IInv, FlightInv PROVE OneInFlight
      OBVIOUS
    <2>1. TypeOK /\ Flight <= 1 /\ ~overwritten["send"]
      BY DEF IInv, FlightInv
    <2>2. /\ Written \in Nat /\ Confirmed \in Nat /\ Recorded \in Nat
          /\ Pinged("send") \in 0 .. 1 /\ Starting \in 0 .. 1
          /\ Flight = Written + Confirmed + Recorded + Pinged("send") + Starting
      BY <2>1, FlightParts
    <2>3. Written + Confirmed + Recorded <= 1
      BY <2>1, <2>2
    <2>4. Under = Written + Confirmed + Recorded
      BY DEF Under, Written, Confirmed, Recorded
    <2> QED BY <2>1, <2>3, <2>4 DEF OneInFlight
  <1> QED BY <1>1, FlightInvariant, Invariant, PTL

-----------------------------------------------------------------------------
(***************************************************************************)
(* Chunks are copied after they arrived.  The copy tasks never look which  *)
(* chunk came: the n-th wake-up of the receiver runs its n-th task.  What  *)
(* makes that right is that the writes come one at a time in the order of  *)
(* the chunks, so that when n have come they are the first n, and that the *)
(* receiver begins no more tasks than records came.                        *)
(***************************************************************************)

\* The chunks of the receiver's transfer from the i-th on, as tasks of an end.
Rest(e, i) == {[id |-> IdOf(round["recv"], k), req |-> e] : k \in i .. len[round["recv"]] - 1}

\* What the sender still has to write: all of it, or nothing after a cancel.
Unwritten(i) == Pool!Of(waiting, "send") = {} \/ Pool!Of(waiting, "send") = Rest("send", i)

Records == Len(crs["recv"])

\* The first n chunks have arrived; j of the receiver's tasks at most have begun,
\* for j records that were handled.
Arriving(n, j) ==
    /\ \A k \in 0 .. n - 1 : IdOf(round["recv"], k) \in arrived
    /\ j + Records + Pinged("recv") <= n
    /\ Pool!Of(waiting, "recv") = {} \/ Rest("recv", j) \subseteq waiting
    /\ Pool!Of(waiting, "recv") \subseteq Rest("recv", 0)

\* The next write to arrive is that of chunk n.
Carrying(n) ==
    /\ Ahead => n = 0
    /\ wire # <<>> => Head(wire) = IdOf(round["recv"], n) /\ Unwritten(n + 1)
    /\ acks # <<>> \/ crs["send"] # <<>> \/ "send" \in slot => Unwritten(n)
    /\ work["send"].pc = "begin" =>
          /\ \A t \in Pool!Of(hand, "send") : t.id = IdOf(round["recv"], n)
          /\ Unwritten(n + 1)
    /\ app["send"] \in {"insert", "first"} => Unwritten(1)

Stream(n, j) == Arriving(n, j) /\ Carrying(n)

StreamInv == round["recv"] # 0 => \E n, j \in Nat : Stream(n, j)

CopyInv ==
    /\ CopyAfterArrival
    /\ work["recv"].pc = "begin" => \A t \in Pool!Of(hand, "recv") : t.id \in arrived

\* Ids are in the order of the chunks.
LEMMA IdOrder ==
  ASSUME NEW r \in Nat, NEW j \in Int, NEW k \in Int
  PROVE  (IdOf(r, j) <= IdOf(r, k) <=> j <= k) /\ (IdOf(r, j) = IdOf(r, k) <=> j = k)
PROOF
  <1>1. PICK b \in Int : b = (r - 1) * MaxChunks
    BY TransferBounds
  <1>2. IdOf(r, j) = b + j /\ IdOf(r, k) = b + k
    BY <1>1 DEF IdOf
  <1> QED BY <1>1, <1>2

\* The transfer in progress has a number and a length.
LEMMA RoundFacts ==
  ASSUME TypeOK, round["recv"] # 0
  PROVE  round["recv"] \in Rounds /\ round["recv"] \in Nat /\ len[round["recv"]] \in 0 .. MaxChunks
PROOF
  <1>1. round["recv"] \in 0 .. MaxRounds /\ MaxRounds \in Nat
    BY TransferBounds DEF TypeOK, Ends
  <1>2. round["recv"] \in Rounds
    BY <1>1 DEF Rounds
  <1> QED BY <1>1, <1>2 DEF TypeOK

\* The first task waiting is none of those after the i-th, if all from there on wait.
LEMMA FirstTask ==
  ASSUME TypeOK, round["recv"] # 0, NEW e \in Ends, NEW i \in Nat, NEW t \in Pool!First(e),
         Pool!Of(waiting, e) \subseteq Rest(e, 0), Rest(e, i) \subseteq waiting
  PROVE  /\ \E k \in Nat : t.id = IdOf(round["recv"], k) /\ k <= i
         /\ t \notin Rest(e, i + 1)
         /\ t \in Rest(e, i) => /\ t.id = IdOf(round["recv"], i)
                                /\ Rest(e, i) \ {t} = Rest(e, i + 1)
PROOF
  <1> DEFINE Chunk(k) == [id |-> IdOf(round["recv"], k), req |-> e]
  <1>1. /\ round["recv"] \in Nat /\ len[round["recv"]] \in Int
        /\ \A j \in Nat : Rest(e, j) = {Chunk(k) : k \in j .. len[round["recv"]] - 1}
    BY RoundFacts, TransferBounds DEF Rest
  <1>2. t \in waiting /\ t.req = e /\ \A u \in waiting : u.req = e => t.id <= u.id
    BY DEF Pool!First, Pool!Of
  <1>3. PICK k \in 0 .. len[round["recv"]] - 1 : t = Chunk(k)
    BY <1>1, <1>2 DEF Pool!Of
  <1>4. k <= i
    <2>1. SUFFICES ASSUME i <= len[round["recv"]] - 1 PROVE k <= i
      BY <1>1, <1>3
    <2>2. Chunk(i) \in waiting /\ Chunk(i).req = e
      BY <1>1, <2>1
    <2>3. IdOf(round["recv"], k) <= IdOf(round["recv"], i)
      BY <1>2, <1>3, <2>2
    <2>4. k \in Int /\ i \in Int /\ round["recv"] \in Nat
      BY <1>1, <1>3
    <2> QED BY <2>3, <2>4, IdOrder
  <1>5. \A m \in Int : t = Chunk(m) => m = k
    <2> SUFFICES ASSUME NEW m \in Int, t = Chunk(m) PROVE m = k
      OBVIOUS
    <2>1. IdOf(round["recv"], m) = IdOf(round["recv"], k)
      BY <1>3
    <2>2. k \in Int /\ round["recv"] \in Nat
      BY <1>1, <1>3
    <2> QED BY <2>1, <2>2, IdOrder
  <1>6. t \notin Rest(e, i + 1)
    BY <1>1, <1>4, <1>5
  <1>7. ASSUME t \in Rest(e, i) PROVE k = i /\ Rest(e, i) \ {t} = Rest(e, i + 1)
    <2>1. k = i
      BY <1>1, <1>4, <1>5, <1>7
    <2>2. Rest(e, i) \ {t} \subseteq Rest(e, i + 1)
      <3> SUFFICES ASSUME NEW m \in i .. len[round["recv"]] - 1, Chunk(m) # t
                   PROVE  Chunk(m) \in Rest(e, i + 1)
        BY <1>1
      <3>1. m # i
        BY <1>3, <2>1
      <3> QED BY <1>1, <3>1
    <2>3. Rest(e, i + 1) \subseteq Rest(e, i) \ {t}
      BY <1>1, <1>6
    <2> QED BY <2>1, <2>2, <2>3
  <1> QED BY <1>3, <1>4, <1>6, <1>7

\* Records and notifications of the receiver are counts.
LEMMA RecordParts ==
  ASSUME TypeOK
  PROVE  Records \in Nat /\ Pinged("recv") \in 0 .. 1
PROOF
  <1>1. crs["recv"] \in Seq(Ids)
    BY DEF TypeOK, Ends
  <1> QED BY <1>1 DEF Records, Pinged

\* What is said of the receiver stays true when records are handled and tasks dropped.
LEMMA ArrivingKept ==
  ASSUME TypeOK, TypeOK', NEW n \in Nat, NEW j \in Nat, Arriving(n, j),
         round'["recv"] = round["recv"], len'[round["recv"]] = len[round["recv"]],
         arrived \subseteq arrived',
         Records' + Pinged("recv")' <= Records + Pinged("recv"),
         Pool!Of(waiting, "recv")' = {} \/ Pool!Of(waiting, "recv")' = Pool!Of(waiting, "recv")
  PROVE  Arriving(n, j)'
PROOF
  <1>1. \A i \in Nat : Rest("recv", i)' = Rest("recv", i)
    BY DEF Rest, IdOf
  <1>2. Records \in Nat /\ Pinged("recv") \in Nat /\ Records' \in Nat /\ Pinged("recv")' \in Nat
    <2>1. crs'["recv"] \in Seq(Ids)
      BY DEF TypeOK, Ends
    <2>2. Records' \in Nat /\ Pinged("recv")' \in Nat
      BY <2>1 DEF Records, Pinged
    <2> QED BY <2>2, RecordParts
  <1>3. j + Records' + Pinged("recv")' <= n
    <2>1. j + Records + Pinged("recv") <= n
      BY DEF Arriving
    <2> QED BY <1>2, <2>1
  <1>4. \A k \in 0 .. n - 1 : IdOf(round["recv"], k)' \in arrived'
    BY DEF Arriving, IdOf
  <1>5. \/ Pool!Of(waiting, "recv")' = {}
        \/ Rest("recv", j)' \subseteq waiting'
    <2>1. SUFFICES ASSUME Pool!Of(waiting, "recv")' = Pool!Of(waiting, "recv"),
                          Rest("recv", j) \subseteq waiting
                   PROVE  Rest("recv", j) \subseteq waiting'
      BY <1>1 DEF Arriving
    <2>2. Rest("recv", j) \subseteq Pool!Of(waiting, "recv")
      BY <2>1 DEF Rest, Pool!Of
    <2> QED BY <2>1, <2>2 DEF Pool!Of
  <1>6. Pool!Of(waiting, "recv")' \subseteq Rest("recv", 0)'
    BY <1>1 DEF Arriving
  <1> QED BY <1>3, <1>4, <1>5, <1>6 DEF Arriving

\* What is said of the sender stays true when no write is posted and none arrives.
LEMMA CarryingKept ==
  ASSUME NEW n \in Nat, Carrying(n),
         round'["recv"] = round["recv"], len'[round["recv"]] = len[round["recv"]],
         Ahead' => Ahead,
         wire' = wire \/ wire' = <<>>,
         acks' # <<>> \/ crs'["send"] # <<>> \/ "send" \in slot'
            => acks # <<>> \/ crs["send"] # <<>> \/ "send" \in slot,
         work'["send"].pc = "begin" => /\ work["send"].pc = "begin"
                                       /\ Pool!Of(hand, "send")' \subseteq Pool!Of(hand, "send"),
         app'["send"] \in {"insert", "first"} => app["send"] \in {"insert", "first"},
         Pool!Of(waiting, "send")' = {} \/ Pool!Of(waiting, "send")' = Pool!Of(waiting, "send")
  PROVE  Carrying(n)'
PROOF
  <1>1. \A i \in Nat : Unwritten(i) => Unwritten(i)'
    BY DEF Unwritten, Rest, IdOf
  <1>2. IdOf(round["recv"], n)' = IdOf(round["recv"], n)
    BY DEF IdOf
  <1> QED BY <1>1, <1>2 DEF Carrying

\* Both together, for a step within a transfer.
LEMMA StreamKept ==
  ASSUME TypeOK, TypeOK', StreamInv,
         round'["recv"] = round["recv"], len' = len,
         arrived \subseteq arrived',
         Records' + Pinged("recv")' <= Records + Pinged("recv"),
         \A e \in Ends : \/ Pool!Of(waiting, e)' = {}
                         \/ Pool!Of(waiting, e)' = Pool!Of(waiting, e),
         Ahead' => Ahead,
         wire' = wire \/ wire' = <<>>,
         acks' # <<>> \/ crs'["send"] # <<>> \/ "send" \in slot'
            => acks # <<>> \/ crs["send"] # <<>> \/ "send" \in slot,
         work'["send"].pc = "begin" => /\ work["send"].pc = "begin"
                                       /\ Pool!Of(hand, "send")' \subseteq Pool!Of(hand, "send"),
         app'["send"] \in {"insert", "first"} => app["send"] \in {"insert", "first"}
  PROVE  StreamInv'
PROOF
  <1>1. SUFFICES ASSUME round["recv"] # 0 PROVE \E n, j \in Nat : Stream(n, j)'
    BY DEF StreamInv
  <1>2. PICK n \in Nat, j \in Nat : Stream(n, j)
    BY <1>1 DEF StreamInv
  <1>3. "send" \in Ends /\ "recv" \in Ends
    BY DEF Ends
  <1>4. Arriving(n, j)'
    BY <1>2, <1>3, ArrivingKept DEF Stream
  <1>5. Carrying(n)'
    BY <1>2, <1>3, CarryingKept DEF Stream
  <1> QED BY <1>4, <1>5 DEF Stream

\* Nor does the copy in hand change.
LEMMA CopyKept ==
  ASSUME CopyInv, arrived \subseteq arrived', copied' = copied,
         work'["recv"].pc = "begin" => /\ work["recv"].pc = "begin"
                                       /\ Pool!Of(hand, "recv")' \subseteq Pool!Of(hand, "recv")
  PROVE  CopyInv'
  BY DEF CopyInv, CopyAfterArrival

\* The calling threads outside of the start of a transfer and the first write.
LEMMA AppStream ==
  ASSUME IInv, IInv', CopyInv, StreamInv, NEW e \in Ends,
         \/ Open(e) \/ Close(e) \/ CallFails(e) \/ Wait(e) \/ Check(e) \/ CancelRest(e)
         \/ Free(e) \/ Insert(e) \/ InsertFails(e) \/ (e = "recv" /\ (PostRecv \/ PostRecvRefused \/ AskSender))
         \/ (e = "send" /\ SendFirstRefused)
  PROVE  CopyInv' /\ StreamInv'
PROOF
  <1>0. app \in [Ends -> AppPc] /\ "send" \in Ends /\ TypeOK /\ TypeOK'
    BY DEF IInv, TypeOK, Ends
  <1>1. UNCHANGED <<wire, acks, crs, slot, hand, round, len, work, arrived, copied>>
    BY DEF Open, Close, CallFails, Wait, Check, CancelRest, Free, Insert, InsertFails, PostRecv,
       PostRecvRefused, AskSender, SendFirstRefused, Refused, Pool!Cancel, poolVars, netVars, syncVars, ghosts
  <1>2. \E pc : /\ pc # "insert" /\ (pc = "first" => app[e] = "insert")
               /\ app' = [app EXCEPT ![e] = pc]
    BY DEF Open, Close, CallFails, Wait, Check, CancelRest, Free, Insert, InsertFails, PostRecv,
       PostRecvRefused, AskSender, SendFirstRefused, Refused, Registered
  <1>3. app'["send"] \in {"insert", "first"} => app["send"] \in {"insert", "first"}
    BY <1>0, <1>2
  <1>4. waiting' = waiting \/ waiting' = waiting \ Pool!Of(waiting, e)
    BY DEF Open, Close, CallFails, Wait, Check, CancelRest, Free, Insert, InsertFails, PostRecv,
       PostRecvRefused, AskSender, SendFirstRefused, Refused, Pool!Cancel, poolVars
  <1>5. \A f \in Ends : \/ Pool!Of(waiting, f)' = {}
                        \/ Pool!Of(waiting, f)' = Pool!Of(waiting, f)
    BY <1>4 DEF Pool!Of
  <1>6. Records' + Pinged("recv")' <= Records + Pinged("recv") /\ (Ahead' => Ahead)
    <2>1. Records' = Records /\ Pinged("recv")' = Pinged("recv")
      BY <1>1 DEF Records, Pinged
    <2> QED BY <1>0, <1>1, <1>3, <2>1, RecordParts DEF Ahead
  <1>7. StreamInv'
    BY <1>0, <1>1, <1>3, <1>5, <1>6, StreamKept
  <1> QED BY <1>1, <1>7, CopyKept

\* Records that are handled, writes that are lost or acknowledged.
LEMMA NetStream ==
  ASSUME IInv, IInv', FlightInv, FlightInv', CopyInv, StreamInv,
         \/ Acknowledge \/ Lose
         \/ \E e \in Ends : PollStep(e) \/ Ignore(e)
  PROVE  CopyInv' /\ StreamInv'
PROOF
  <1>0. /\ TypeOK /\ TypeOK' /\ Records \in Nat /\ Pinged("recv") \in 0 .. 1
        /\ wire \in Seq(Ids) /\ crs \in [Ends -> Seq(Ids)] /\ crs["recv"] \in Seq(Ids)
    <2>1. TypeOK /\ TypeOK'
      BY DEF IInv
    <2> QED BY <2>1, RecordParts DEF TypeOK, Ends
  <1>1. UNCHANGED <<waiting, hand, round, len, work, app, arrived, copied>>
    BY DEF Acknowledge, Lose, PollStep, WakeUp, WakeUpNone, WakeUpUnknown, Ignore, Pool!Notify, Pool!Ignore,
       poolVars, appVars, ghosts
  <1>2. \A f \in Ends : Pool!Of(waiting, f)' = Pool!Of(waiting, f)
    BY <1>1 DEF Pool!Of
  <1>3. wire' = wire \/ wire' = <<>>
    <2>1. CASE Lose
      <3>1. wire # <<>> /\ wire' = Tail(wire)
        BY <2>1 DEF Lose
      <3>2. Len(wire) <= 1
        <4>1. /\ Written \in Nat /\ Confirmed \in Nat /\ Recorded \in Nat
              /\ Pinged("send") \in 0 .. 1 /\ Starting \in 0 .. 1
              /\ Flight = Written + Confirmed + Recorded + Pinged("send") + Starting
              /\ Flight <= 1
          BY <1>0, FlightParts DEF FlightInv
        <4>2. Written <= 1
          BY <4>1
        <4> QED BY <4>2 DEF Written
      <3>3. Len(Tail(wire)) = 0 /\ Tail(wire) \in Seq(Ids)
        <4>1. /\ Len(Tail(wire)) = Len(wire) - 1 /\ Len(wire) >= 1 /\ Len(wire) \in Nat
              /\ Tail(wire) \in Seq(Ids)
          BY <1>0, <3>1, OneLess
        <4> QED BY <3>2, <4>1
      <3> QED BY <3>1, <3>3
    <2> QED BY <2>1 DEF Acknowledge, PollStep, WakeUp, WakeUpNone, WakeUpUnknown, Ignore, netVars
  <1>4. /\ Records' + Pinged("recv")' <= Records + Pinged("recv")
        /\ acks' # <<>> \/ crs'["send"] # <<>> \/ "send" \in slot'
              => acks # <<>> \/ crs["send"] # <<>> \/ "send" \in slot
    <2>1. CASE Acknowledge \/ Lose
      <3>1. crs'["recv"] = crs["recv"] /\ slot' = slot
        BY <1>0, <2>1 DEF Acknowledge, Lose, poolVars, Ends
      <3>2. Records' = Records /\ Pinged("recv")' = Pinged("recv")
        BY <3>1 DEF Records, Pinged
      <3>3. acks # <<>> \/ (acks' = acks /\ crs' = crs)
        BY <2>1 DEF Acknowledge, Lose
      <3> QED BY <1>0, <3>1, <3>2, <3>3
    <2>2. ASSUME NEW e \in Ends, Ignore(e)
          PROVE (/\ Records' + Pinged("recv")' <= Records + Pinged("recv")
                 /\ acks' # <<>> \/ crs'["send"] # <<>> \/ "send" \in slot'
                       => acks # <<>> \/ crs["send"] # <<>> \/ "send" \in slot)
      <3>1. /\ crs' = crs /\ acks' = acks /\ slot' \subseteq slot
        BY <2>2 DEF Ignore, Pool!Ignore, netVars
      <3>2. Records' = Records /\ Pinged("recv")' <= Pinged("recv") /\ Pinged("recv")' \in 0 .. 1
        BY <3>1 DEF Records, Pinged
      <3> QED BY <1>0, <3>1, <3>2
    <2>3. ASSUME NEW e \in Ends, PollStep(e)
          PROVE (/\ Records' + Pinged("recv")' <= Records + Pinged("recv")
                 /\ acks' # <<>> \/ crs'["send"] # <<>> \/ "send" \in slot'
                       => acks # <<>> \/ crs["send"] # <<>> \/ "send" \in slot)
      <3>1. /\ crs[e] # <<>> /\ crs' = [crs EXCEPT ![e] = Tail(crs[e])]
            /\ acks' = acks
            /\ slot' = slot \/ slot' = slot \cup {e}
        BY <2>3 DEF PollStep, WakeUp, WakeUpNone, WakeUpUnknown, Spent, Pool!Notify, poolVars
      <3>2. CASE e = "send"
        <4>1. crs'["recv"] = crs["recv"] /\ ("recv" \in slot' <=> "recv" \in slot)
          BY <1>0, <3>1, <3>2
        <4>2. Records' = Records /\ Pinged("recv")' = Pinged("recv")
          BY <4>1 DEF Records, Pinged
        <4> QED BY <1>0, <3>1, <3>2, <4>2
      <3>3. CASE e = "recv"
        <4>1. /\ crs'["recv"] = Tail(crs["recv"]) /\ crs'["send"] = crs["send"]
              /\ "send" \in slot' <=> "send" \in slot
          BY <1>0, <3>1, <3>3, Zenon DEF Ends
        <4>2. Records' = Records - 1
          <5>1. crs["recv"] # <<>>
            BY <3>1, <3>3
          <5>2. Len(Tail(crs["recv"])) = Len(crs["recv"]) - 1
            BY <1>0, <5>1, OneLess
          <5> QED BY <4>1, <5>2 DEF Records
        <4>3. Pinged("recv")' <= 1 /\ Pinged("recv")' \in Nat
          BY DEF Pinged
        <4> QED BY <1>0, <3>1, <4>1, <4>2, <4>3
      <3> QED BY <3>2, <3>3 DEF Ends
    <2> QED BY <2>1, <2>2, <2>3
  <1>5. Ahead' => Ahead
    BY <1>1 DEF Ahead
  <1>6. StreamInv'
    <2>1. Pool!Of(hand, "send")' \subseteq Pool!Of(hand, "send")
      BY <1>1 DEF Pool!Of
    <2> QED BY <1>0, <1>1, <1>2, <1>3, <1>4, <1>5, <2>1, StreamKept
  <1> QED BY <1>1, <1>6, CopyKept DEF Pool!Of

\* A task in hand goes on: a copy is issued for a chunk that arrived.
LEMMA TaskStream ==
  ASSUME IInv, IInv', CopyInv, StreamInv, NEW e \in Ends,
         \/ Mark(e) \/ Return(e) \/ Settle(e)
         \/ e = "recv" /\ (CopyChunk \/ ReadLast \/ RecordEvent)
  PROVE  CopyInv' /\ StreamInv'
PROOF
  <1>0. TypeOK /\ TypeOK' /\ HandOK /\ work \in [Ends -> WorkType]
    BY DEF IInv, TypeOK, WorkType, WorkPc
  <1>1. /\ UNCHANGED <<waiting, slot, round, len, wire, acks, crs, app, arrived>>
        /\ hand' \subseteq hand
    BY DEF Mark, Return, Settle, CopyChunk, ReadLast, RecordEvent, appVars, netVars, poolVars,
       ghosts, Pool!Return
  <1>2. \E x : x.pc # "begin" /\ work' = [work EXCEPT ![e] = x]
    <2>1. \A pc \in WorkPc : [work[e] EXCEPT !.pc = pc].pc = pc
      BY <1>0 DEF WorkType
    <2>2. CASE Mark(e)
      BY <2>1, <2>2 DEF Mark, WorkPc
    <2>3. CASE Return(e) \/ Settle(e)
      BY <2>1, <2>3 DEF Return, Settle, NoWork, WorkPc
    <2>4. CASE e = "recv" /\ (CopyChunk \/ ReadLast \/ RecordEvent)
      BY <2>1, <2>4 DEF CopyChunk, ReadLast, RecordEvent, WorkPc
    <2> QED BY <2>2, <2>3, <2>4
  <1>3. \A f \in Ends : /\ work'[f].pc = "begin" => work[f].pc = "begin"
                        /\ Pool!Of(hand, f)' \subseteq Pool!Of(hand, f)
                        /\ Pool!Of(waiting, f)' = Pool!Of(waiting, f)
    BY <1>0, <1>1, <1>2 DEF Pool!Of
  <1>4. StreamInv'
    <2>1. Records' + Pinged("recv")' <= Records + Pinged("recv")
      <3>1. Records' = Records /\ Pinged("recv")' = Pinged("recv")
        BY <1>1 DEF Records, Pinged
      <3> QED BY <1>0, <3>1, RecordParts
    <2>2. Ahead' => Ahead
      BY <1>1 DEF Ahead
    <2>3. "send" \in Ends
      BY DEF Ends
    <2> QED BY <1>0, <1>1, <1>3, <2>1, <2>2, <2>3, StreamKept
  <1>5. CopyInv'
    <2>1. "recv" \in Ends
      BY DEF Ends
    <2>2. CASE CopyChunk
      <3>1. work["recv"].pc = "begin" /\ copied' \subseteq copied \cup {TaskOf("recv").id}
        BY <2>2 DEF CopyChunk
      <3>2. TaskOf("recv") \in Pool!Of(hand, "recv")
        BY <1>0, <2>1, <3>1, InHandFacts DEF Pool!Of
      <3> QED BY <1>1, <1>3, <2>1, <3>1, <3>2 DEF CopyInv, CopyAfterArrival
    <2>3. CASE ~CopyChunk
      <3>1. copied' = copied
        BY <2>3 DEF Mark, Return, Settle, ReadLast, RecordEvent, ghosts
      <3> QED BY <1>1, <1>3, <2>1, <3>1, CopyKept
    <2> QED BY <2>2, <2>3
  <1> QED BY <1>4, <1>5

\* The sender's task puts the chunk it is at on its way.
LEMMA WriteStream ==
  ASSUME IInv, IInv', FlightInv, CopyInv, StreamInv, WriteChunk
  PROVE  CopyInv' /\ StreamInv'
PROOF
  <1>0. /\ TypeOK /\ TypeOK' /\ HandOK /\ work \in [Ends -> WorkType]
        /\ "send" \in Ends /\ "recv" \in Ends
    BY DEF IInv, TypeOK, WorkType, WorkPc, Ends
  <1>1. /\ work["send"].pc = "begin"
        /\ wire' = Append(wire, TaskOf("send").id) \/ wire' = wire
        /\ UNCHANGED <<waiting, slot, hand, round, len, acks, crs, app, arrived, copied>>
    BY DEF WriteChunk, Write, appVars, poolVars
  <1>2. work'["send"].pc = "mark" /\ work'["recv"] = work["recv"]
    <2>1. \/ work' = [work EXCEPT !["send"].pc = "mark"]
          \/ work' = [work EXCEPT !["send"] = [pc |-> "mark", ok |-> FALSE]]
      BY DEF WriteChunk
    <2>2. "mark" \in WorkPc
      BY DEF WorkPc
    <2>3. work'["send"].pc = "mark"
      BY <1>0, <2>1, <2>2, WorkMoves
    <2> QED BY <1>0, <2>1, <2>3
  <1>3. wire = <<>> /\ acks = <<>> /\ crs["send"] = <<>> /\ "send" \notin slot
    <2>1. /\ Written \in Nat /\ Confirmed \in Nat /\ Recorded \in Nat
          /\ Pinged("send") \in 0 .. 1 /\ Starting = 1
          /\ Flight = Written + Confirmed + Recorded + Pinged("send") + Starting
          /\ Flight <= 1
      BY <1>0, <1>1, FlightParts DEF FlightInv, Starting
    <2>2. Written = 0 /\ Confirmed = 0 /\ Recorded = 0 /\ Pinged("send") = 0
      BY <2>1
    <2>3. wire \in Seq(Ids) /\ acks \in Seq(Ids) /\ crs["send"] \in Seq(Ids)
      BY <1>0, FlightParts
    <2> QED BY <2>2, <2>3 DEF Written, Confirmed, Recorded, Pinged
  <1>4. StreamInv'
    <2>1. SUFFICES ASSUME round["recv"] # 0 PROVE \E n, j \in Nat : Stream(n, j)'
      BY <1>1 DEF StreamInv
    <2>2. PICK n \in Nat, j \in Nat : Arriving(n, j) /\ Carrying(n)
      BY <2>1 DEF StreamInv, Stream
    <2>3. Arriving(n, j)'
      <3>1. Records' = Records /\ Pinged("recv")' = Pinged("recv")
            /\ Pool!Of(waiting, "recv")' = Pool!Of(waiting, "recv")
        BY <1>1 DEF Records, Pinged, Pool!Of
      <3> QED BY <1>0, <1>1, <2>2, <3>1, RecordParts, ArrivingKept
    <2>4. /\ TaskOf("send").id = IdOf(round["recv"], n) /\ Unwritten(n + 1)
          /\ TaskOf("send").id \in Ids
      <3>1. TaskOf("send") \in Pool!Of(hand, "send") /\ TaskOf("send").id \in Ids
        BY <1>0, <1>1, InHandFacts DEF Pool!Of
      <3> QED BY <1>1, <2>2, <3>1 DEF Carrying
    <2>5. wire' # <<>> => Head(wire') = IdOf(round["recv"], n)
      BY <1>1, <1>3, <2>4
    <2>6. Unwritten(n + 1)' /\ IdOf(round["recv"], n)' = IdOf(round["recv"], n)
      BY <1>1, <2>4 DEF Unwritten, Pool!Of, Rest, IdOf
    <2>7. (Ahead' => Ahead) /\ (Unwritten(1) => Unwritten(1)')
      BY <1>1 DEF Ahead, Unwritten, Pool!Of, Rest, IdOf
    <2>8. Carrying(n)'
      BY <1>1, <1>2, <1>3, <2>2, <2>5, <2>6, <2>7 DEF Carrying
    <2> QED BY <2>3, <2>8 DEF Stream
  <1> QED BY <1>1, <1>2, <1>4, CopyKept DEF Pool!Of

\* A write arrives: one chunk more is there, and its record will wake the receiver.
LEMMA DeliverStream ==
  ASSUME IInv, IInv', FlightInv, CopyInv, StreamInv, Deliver
  PROVE  CopyInv' /\ StreamInv'
PROOF
  <1>0. /\ TypeOK /\ TypeOK' /\ wire \in Seq(Ids) /\ crs \in [Ends -> Seq(Ids)]
        /\ crs["recv"] \in Seq(Ids) /\ "recv" \in Ends /\ "send" \in Ends
        /\ Records \in Nat /\ Pinged("recv") \in 0 .. 1
    <2>1. TypeOK /\ TypeOK'
      BY DEF IInv
    <2> QED BY <2>1, RecordParts DEF TypeOK, Ends
  <1>1. /\ wire # <<>> /\ wire' = Tail(wire) /\ arrived' = arrived \cup {Head(wire)}
        /\ crs' = [crs EXCEPT !["recv"] = Append(crs["recv"], Head(wire))]
        /\ UNCHANGED <<waiting, slot, hand, round, len, app, work, copied>>
    BY DEF Deliver, poolVars, appVars
  <1>2. ~Ahead /\ ~Ahead'
    BY NetFlight DEF PollStep
  <1>3. wire' = <<>> /\ work["send"].pc # "begin" /\ app["send"] \notin {"insert", "first"}
    <2>1. /\ Written \in Nat /\ Confirmed \in Nat /\ Recorded \in Nat
          /\ Pinged("send") \in 0 .. 1 /\ Starting \in 0 .. 1
          /\ Flight = Written + Confirmed + Recorded + Pinged("send") + Starting
          /\ Flight <= 1
      BY <1>0, FlightParts DEF FlightInv
    <2>2. /\ Len(Tail(wire)) = Len(wire) - 1 /\ Len(wire) >= 1 /\ Tail(wire) \in Seq(Ids)
      BY <1>0, <1>1, OneLess
    <2>3. Written >= 1
      BY <2>2 DEF Written
    <2>4. Written = 1 /\ Starting = 0
      BY <2>1, <2>3
    <2>5. Len(Tail(wire)) = 0
      BY <2>2, <2>4 DEF Written
    <2> QED BY <1>1, <1>2, <2>2, <2>4, <2>5 DEF Starting, Ahead
  <1>4. Records' = Records + 1 /\ Pinged("recv")' = Pinged("recv")
    <2>1. crs'["recv"] = Append(crs["recv"], Head(wire))
      BY <1>0, <1>1
    <2>2. Len(Append(crs["recv"], Head(wire))) = Len(crs["recv"]) + 1
      BY <1>0
    <2> QED BY <1>1, <2>1, <2>2 DEF Records, Pinged
  <1>5. StreamInv'
    <2>1. SUFFICES ASSUME round["recv"] # 0 PROVE \E n, j \in Nat : Stream(n, j)'
      BY <1>1 DEF StreamInv
    <2>2. PICK n \in Nat, j \in Nat : Arriving(n, j) /\ Carrying(n)
      BY <2>1 DEF StreamInv, Stream
    <2>3. Head(wire) = IdOf(round["recv"], n) /\ Unwritten(n + 1)
      BY <1>1, <2>2 DEF Carrying
    <2>4. Arriving(n + 1, j)'
      <3>1. \A k \in 0 .. n : IdOf(round["recv"], k)' \in arrived'
        <4> TAKE k \in 0 .. n
        <4>1. k = n \/ k \in 0 .. n - 1
          OBVIOUS
        <4>2. IdOf(round["recv"], k)' = IdOf(round["recv"], k)
          BY <1>1 DEF IdOf
        <4> QED BY <1>1, <2>2, <2>3, <4>1, <4>2 DEF Arriving
      <3>2. j + Records' + Pinged("recv")' <= n + 1
        <4>1. j + Records + Pinged("recv") <= n
          BY <2>2 DEF Arriving
        <4> QED BY <1>0, <1>4, <4>1
      <3>3. /\ Pool!Of(waiting, "recv")' = {} \/ Rest("recv", j)' \subseteq waiting'
            /\ Pool!Of(waiting, "recv")' \subseteq Rest("recv", 0)'
        BY <1>1, <2>2 DEF Arriving, Rest, IdOf, Pool!Of
      <3>4. (n + 1) - 1 = n
        OBVIOUS
      <3> QED BY <3>1, <3>2, <3>3, <3>4 DEF Arriving
    <2>5. Carrying(n + 1)'
      <3>1. Unwritten(n + 1)'
        BY <1>1, <2>3 DEF Unwritten, Pool!Of, Rest, IdOf
      <3> QED BY <1>1, <1>2, <1>3, <3>1 DEF Carrying
    <2>6. n + 1 \in Nat
      OBVIOUS
    <2> QED BY <2>4, <2>5, <2>6 DEF Stream
  <1> QED BY <1>1, <1>5, CopyKept DEF Pool!Of

\* The receiver's worker takes its next task: no more of them than chunks came.
LEMMA BeginRecvStream ==
  ASSUME IInv, IInv', FlightInv, CopyInv, StreamInv, Begin("recv")
  PROVE  CopyInv' /\ StreamInv'
PROOF
  <1>0. /\ TypeOK /\ TypeOK' /\ "recv" \in Ends /\ "send" \in Ends
        /\ Records \in Nat /\ Pinged("recv") \in 0 .. 1
        /\ work \in [Ends -> WorkType]
    <2>1. TypeOK /\ TypeOK'
      BY DEF IInv
    <2> QED BY <2>1, RecordParts DEF TypeOK, Ends, WorkType, WorkPc
  <1>1. PICK t \in Pool!First("recv") :
          /\ Pool!Resting("recv") /\ "recv" \in slot /\ slot' = slot \ {"recv"}
          /\ waiting' = waiting \ {t} /\ hand' = hand \cup {t}
          /\ t \in waiting /\ t.req = "recv"
    BY DEF Begin, Pool!Take, Pool!First, Pool!Of
  <1>2. /\ UNCHANGED <<round, len, app, wire, acks, crs, arrived, copied>>
        /\ work' = [work EXCEPT !["recv"] = [pc |-> "begin", ok |-> TRUE]]
    BY DEF Begin, appVars, netVars, ghosts
  <1>3. round["recv"] # 0
    <2>1. RoundOf(t.id) = round["recv"] /\ t.id \in Ids
      BY <1>0, <1>1 DEF IInv, Current, TypeOK
    <2> QED BY <2>1, RoundOfIds, TransferBounds DEF Rounds
  <1>4. PICK n \in Nat, j \in Nat : Arriving(n, j) /\ Carrying(n)
    BY <1>3 DEF StreamInv, Stream
  <1>5. /\ Rest("recv", j) \subseteq waiting
        /\ Pool!Of(waiting, "recv") \subseteq Rest("recv", 0)
        /\ j + Records + 1 <= n
    <2>1. Pool!Of(waiting, "recv") # {}
      BY <1>1 DEF Pool!Of
    <2>2. Pinged("recv") = 1
      BY <1>1 DEF Pinged
    <2>3. j + Records + Pinged("recv") <= n
      BY <1>4 DEF Arriving
    <2> QED BY <1>0, <1>4, <2>1, <2>2, <2>3 DEF Arriving
  <1>6. /\ \E k \in Nat : t.id = IdOf(round["recv"], k) /\ k <= j
        /\ t \notin Rest("recv", j + 1)
    BY <1>0, <1>1, <1>3, <1>5, FirstTask
  <1>7. t.id \in arrived
    <2>1. PICK k \in Nat : t.id = IdOf(round["recv"], k) /\ k <= j
      BY <1>6
    <2>2. k \in 0 .. n - 1
      BY <1>0, <1>5, <2>1
    <2> QED BY <1>4, <2>1, <2>2 DEF Arriving
  <1>8. Arriving(n, j + 1)'
    <2>1. \A i \in Nat : Rest("recv", i)' = Rest("recv", i)
      BY <1>2 DEF Rest, IdOf
    <2>2. (j + 1) + Records' + Pinged("recv")' <= n
      <3>1. Records' = Records /\ Pinged("recv")' = 0
        BY <1>1, <1>2 DEF Records, Pinged
      <3> QED BY <1>0, <1>5, <3>1
    <2>3. Rest("recv", j + 1)' \subseteq waiting'
      <3>1. Rest("recv", j + 1) \subseteq Rest("recv", j)
        BY DEF Rest
      <3>2. Rest("recv", j + 1)' = Rest("recv", j + 1)
        BY <2>1
      <3> QED BY <1>1, <1>5, <1>6, <3>1, <3>2
    <2>4. Pool!Of(waiting, "recv")' \subseteq Rest("recv", 0)'
      BY <1>1, <1>5, <2>1 DEF Pool!Of
    <2>5. \A k \in 0 .. n - 1 : IdOf(round["recv"], k)' \in arrived'
      BY <1>2, <1>4 DEF Arriving, IdOf
    <2> QED BY <2>2, <2>3, <2>4, <2>5 DEF Arriving
  <1>9. Carrying(n)'
    <2>1. /\ Pool!Of(waiting, "send")' = Pool!Of(waiting, "send")
          /\ Pool!Of(hand, "send")' = Pool!Of(hand, "send")
      BY <1>1 DEF Pool!Of
    <2>2. work'["send"] = work["send"] /\ ("send" \in slot' <=> "send" \in slot)
      BY <1>0, <1>1, <1>2
    <2>3. Ahead' => Ahead
      BY <1>2 DEF Ahead
    <2> QED BY <1>2, <1>4, <2>1, <2>2, <2>3, CarryingKept
  <1>10. CopyInv'
    <2>1. Pool!Of(hand, "recv")' = {t}
      BY <1>1 DEF Pool!Of, Pool!Resting
    <2> QED BY <1>2, <1>7, <2>1 DEF CopyInv, CopyAfterArrival
  <1>11. j + 1 \in Nat
    OBVIOUS
  <1> QED BY <1>4, <1>8, <1>9, <1>10, <1>11 DEF StreamInv, Stream

\* The sender's worker takes the task of the chunk that comes next.
LEMMA BeginSendStream ==
  ASSUME IInv, IInv', FlightInv, CopyInv, StreamInv, Begin("send")
  PROVE  CopyInv' /\ StreamInv'
PROOF
  <1>0. /\ TypeOK /\ TypeOK' /\ "recv" \in Ends /\ "send" \in Ends
        /\ Records \in Nat /\ Pinged("recv") \in 0 .. 1
        /\ work \in [Ends -> WorkType]
    <2>1. TypeOK /\ TypeOK'
      BY DEF IInv
    <2> QED BY <2>1, RecordParts DEF TypeOK, Ends, WorkType, WorkPc
  <1>1. PICK t \in Pool!First("send") :
          /\ Pool!Resting("send") /\ "send" \in slot /\ slot' = slot \ {"send"}
          /\ waiting' = waiting \ {t} /\ hand' = hand \cup {t}
          /\ t \in waiting /\ t.req = "send"
    BY DEF Begin, Pool!Take, Pool!First, Pool!Of
  <1>2. /\ UNCHANGED <<round, len, app, wire, acks, crs, arrived, copied>>
        /\ work' = [work EXCEPT !["send"] = [pc |-> "begin", ok |-> TRUE]]
    BY DEF Begin, appVars, netVars, ghosts
  <1>3. wire = <<>> /\ acks = <<>> /\ crs["send"] = <<>> /\ ~Ahead /\ ~Ahead'
    <2>1. /\ Written \in Nat /\ Confirmed \in Nat /\ Recorded \in Nat
          /\ Pinged("send") = 1 /\ Starting \in 0 .. 1
          /\ Flight = Written + Confirmed + Recorded + Pinged("send") + Starting
          /\ Flight <= 1
      BY <1>0, <1>1, FlightParts DEF FlightInv, Pinged
    <2>2. Written = 0 /\ Confirmed = 0 /\ Recorded = 0
      BY <2>1
    <2>3. wire \in Seq(Ids) /\ acks \in Seq(Ids) /\ crs["send"] \in Seq(Ids)
      BY <1>0, FlightParts
    <2>4. ~Ahead /\ ~Ahead'
      <3>1. ~Settle("send")
        BY DEF Begin, Settle, Occupied
      <3> QED BY <1>0, <3>1, WorkerFlight DEF WorkerStep
    <2> QED BY <2>2, <2>3, <2>4 DEF Written, Confirmed, Recorded
  <1>4. StreamInv'
    <2>1. SUFFICES ASSUME round["recv"] # 0 PROVE \E n, j \in Nat : Stream(n, j)'
      BY <1>2 DEF StreamInv
    <2>2. PICK n \in Nat, j \in Nat : Arriving(n, j) /\ Carrying(n)
      BY <2>1 DEF StreamInv, Stream
    <2>3. Pool!Of(waiting, "send") = Rest("send", n)
      BY <1>1, <2>2 DEF Carrying, Unwritten, Pool!Of
    <2>4. Rest("send", n) \subseteq Rest("send", 0)
      <3>1. n .. len[round["recv"]] - 1 \subseteq 0 .. len[round["recv"]] - 1
        OBVIOUS
      <3> QED BY <3>1 DEF Rest
    <2>5. /\ t \in Rest("send", n) /\ t.id = IdOf(round["recv"], n)
          /\ Rest("send", n) \ {t} = Rest("send", n + 1)
      <3>1. t \in Rest("send", n) /\ Rest("send", n) \subseteq waiting
        BY <1>1, <2>3 DEF Pool!Of
      <3> QED BY <1>0, <1>1, <2>1, <2>3, <2>4, <3>1, FirstTask
    <2>6. Unwritten(n + 1)'
      <3>1. Pool!Of(waiting, "send")' = Pool!Of(waiting, "send") \ {t}
        BY <1>1 DEF Pool!Of
      <3>2. Rest("send", n + 1)' = Rest("send", n + 1)
        BY <1>2 DEF Rest, IdOf
      <3> QED BY <2>3, <2>5, <3>1, <3>2 DEF Unwritten
    <2>7. \A u \in Pool!Of(hand, "send")' : u.id = IdOf(round["recv"], n)'
      <3>1. Pool!Of(hand, "send")' = {t}
        BY <1>1 DEF Pool!Of, Pool!Resting
      <3>2. IdOf(round["recv"], n)' = IdOf(round["recv"], n)
        BY <1>2 DEF IdOf
      <3> QED BY <2>5, <3>1, <3>2
    <2>8. Carrying(n)'
      <3>1. app'["send"] \notin {"insert", "first"}
        BY <1>2, <1>3 DEF Ahead
      <3> QED BY <1>1, <1>2, <1>3, <2>6, <2>7, <3>1 DEF Carrying
    <2>9. Arriving(n, j)'
      <3>1. Records' = Records /\ Pinged("recv")' = Pinged("recv")
            /\ Pool!Of(waiting, "recv")' = Pool!Of(waiting, "recv")
        BY <1>1, <1>2 DEF Records, Pinged, Pool!Of
      <3> QED BY <1>0, <1>2, <2>2, <3>1, ArrivingKept
    <2> QED BY <2>8, <2>9 DEF Stream
  <1>5. CopyInv'
    <2>1. work'["recv"] = work["recv"] /\ Pool!Of(hand, "recv")' = Pool!Of(hand, "recv")
      BY <1>0, <1>1, <1>2 DEF Pool!Of
    <2> QED BY <1>2, <2>1, CopyKept
  <1> QED BY <1>4, <1>5

\* os_transport_recv begins its transfer with nothing under way.
LEMMA RecvCallStream ==
  ASSUME Patient, IInv, IInv', FlightInv, FlightInv', CopyInv, RecvCall
  PROVE  CopyInv' /\ StreamInv'
PROOF
  <1>0. /\ TypeOK /\ "recv" \in Ends /\ "send" \in Ends /\ round["recv"] \in Nat
        /\ round \in [Ends -> 0 .. MaxRounds] /\ app \in [Ends -> AppPc]
    <2>1. /\ TypeOK /\ "recv" \in Ends /\ "send" \in Ends
          /\ round \in [Ends -> 0 .. MaxRounds] /\ app \in [Ends -> AppPc]
      BY DEF IInv, TypeOK, Ends
    <2> QED BY <2>1, TransferBounds
  <1>1. /\ Drained /\ app["recv"] = "ready"
        /\ round' = [round EXCEPT !["recv"] = round["recv"] + 1]
        /\ app' = [app EXCEPT !["recv"] = "insert"]
        /\ waiting' = waiting \cup TasksOf("recv", round["recv"] + 1)
        /\ UNCHANGED <<wire, acks, crs, slot, hand, work, arrived, copied>>
    BY DEF RecvCall, MayStart, Patient, Register, Pool!Accept, netVars, ghosts
  <1>2. round'["recv"] = round["recv"] + 1
    BY <1>0, <1>1
  <1>3. work["send"].pc # "begin" /\ work["recv"].pc # "begin"
    BY <1>0, <1>1, DrainedFlight
  <1>4. Pool!Of(waiting, "recv") = {}
    BY <1>0, <1>1 DEF IInv, Settled, Empty
  <1>5. TasksOf("recv", round["recv"] + 1) = Rest("recv", 0)'
    BY <1>2 DEF TasksOf, Rest, IdOf
  <1>6. Pool!Of(waiting, "recv")' = Rest("recv", 0)'
    <2>1. \A t \in Rest("recv", 0)' : t.req = "recv"
      BY DEF Rest
    <2> QED BY <1>1, <1>4, <1>5, <2>1 DEF Pool!Of
  <1>7. Arriving(0, 0)'
    <2>1. Records' = 0 /\ Pinged("recv")' = 0
      BY <1>0, <1>1 DEF Drained, Records, Pinged
    <2>2. Rest("recv", 0)' \subseteq waiting'
      BY <1>6 DEF Pool!Of
    <2> QED BY <1>6, <2>1, <2>2 DEF Arriving
  <1>8. Carrying(0)'
    <2>1. round["send"] <= round["recv"] /\ round'["send"] = round["send"]
      <3>1. round["send"] <= ctl /\ ctl <= round["recv"] /\ ctl \in 0 .. MaxRounds
        BY DEF IInv, RoundsOK, TypeOK
      <3> QED BY <1>0, <1>1, <3>1, TransferBounds
    <2>2. round["send"] \in Nat
      BY <1>0, TransferBounds
    <2>3. app'["send"] \notin {"insert", "first"}
      <3>1. app'["send"] \in {"insert", "first"} => round'["send"] = round'["recv"]
        BY DEF FlightInv, Turns
      <3> QED BY <1>0, <1>2, <2>1, <2>2, <3>1
    <2> QED BY <1>0, <1>1, <1>3, <2>3 DEF Carrying, Drained
  <1>9. CopyInv'
    BY <1>1, <1>3, CopyKept
  <1> QED BY <1>7, <1>8, <1>9 DEF StreamInv, Stream

\* os_transport_send registers the tasks of all chunks but the first, and the first
\* write is that of chunk 0; a transfer of one chunk is that write.
LEMMA SendStream ==
  ASSUME IInv, IInv', FlightInv, FlightInv', CopyInv, StreamInv,
         SendCall \/ SendSingle \/ SendFirst
  PROVE  CopyInv' /\ StreamInv'
PROOF
  <1>0. /\ TypeOK /\ TypeOK' /\ "recv" \in Ends /\ "send" \in Ends
        /\ round \in [Ends -> 0 .. MaxRounds] /\ app \in [Ends -> AppPc]
    BY DEF IInv, TypeOK, Ends
  <1>1. /\ UNCHANGED <<len, slot, hand, work, crs, acks, arrived, copied>>
        /\ round'["recv"] = round["recv"]
        /\ Pool!Of(waiting, "recv")' = Pool!Of(waiting, "recv")
    <2>1. CASE SendCall
      <3>1. PICK r \in Rounds : Register("send", r)
        BY <2>1 DEF SendCall
      <3>2. UNCHANGED <<len, work, crs, acks, arrived, copied>>
        BY <2>1 DEF SendCall, netVars, ghosts
      <3>3. /\ slot' = slot /\ hand' = hand /\ waiting' = waiting \cup TasksOf("send", r)
            /\ round' = [round EXCEPT !["send"] = r]
        BY <3>1 DEF Register, Pool!Accept
      <3>4. \A t \in TasksOf("send", r) : t.req # "recv"
        BY DEF TasksOf
      <3> QED BY <1>0, <3>2, <3>3, <3>4 DEF Pool!Of
    <2>2. CASE SendSingle
      <3>1. /\ UNCHANGED <<waiting, len, slot, hand, work, crs, acks, arrived, copied>>
            /\ \E r : round' = [round EXCEPT !["send"] = r]
        BY <2>2 DEF SendSingle, poolVars
      <3> QED BY <1>0, <3>1 DEF Pool!Of
    <2>3. CASE SendFirst
      BY <2>3 DEF SendFirst, poolVars, Pool!Of
    <2> QED BY <2>1, <2>2, <2>3
  <1>2. /\ Ahead /\ Drained /\ round["recv"] # 0
        /\ wire' # <<>> => Head(wire') = IdOf(round["recv"], 0)
        /\ app'["send"] \in {"insert", "first"} \/ wire' # <<>> => Unwritten(1)'
    <2>1. CASE SendCall
      <3>1. PICK r \in Rounds : Asked(r) /\ Register("send", r)
        BY <2>1 DEF SendCall
      <3>2. r = round["recv"] /\ Ahead /\ Drained
        BY <3>1, AskedIsNext
      <3>3. wire' = wire
        BY <2>1 DEF SendCall, netVars
      <3>4. Pool!Of(waiting, "send") = {}
        BY <1>0, <3>1 DEF IInv, Settled, Empty, Asked
      <3>5. waiting' = waiting \cup TasksOf("send", r)
        BY <3>1 DEF Register, Pool!Accept
      <3>6. TasksOf("send", r) = Rest("send", 1)'
        BY <1>1, <3>2 DEF TasksOf, Rest, IdOf
      <3>7. \A t \in Rest("send", 1)' : t.req = "send"
        BY DEF Rest
      <3>8. Pool!Of(waiting, "send")' = Rest("send", 1)'
        BY <3>4, <3>5, <3>6, <3>7 DEF Pool!Of
      <3>9. round["recv"] # 0
        BY <3>2, TransferBounds DEF Rounds
      <3> QED BY <3>2, <3>3, <3>8, <3>9 DEF Drained, Unwritten
    <2>2. CASE SendSingle
      <3>1. PICK r \in Rounds : /\ Asked(r)
                                /\ wire' = Append(wire, IdOf(r, 0)) \/ wire' = wire
        BY <2>2 DEF SendSingle, Write
      <3>2. r = round["recv"] /\ Ahead /\ Drained
        BY <3>1, AskedIsNext
      <3>3. Pool!Of(waiting, "send") = {} /\ waiting' = waiting
        BY <1>0, <2>2, <3>1 DEF IInv, Settled, Empty, Asked, SendSingle, poolVars
      <3>4. Head(Append(<<>>, IdOf(r, 0))) = IdOf(r, 0)
        OBVIOUS
      <3>5. round["recv"] # 0
        BY <3>2, TransferBounds DEF Rounds
      <3> QED BY <3>1, <3>2, <3>3, <3>4, <3>5 DEF Drained, Unwritten, Pool!Of
    <2>3. CASE SendFirst
      <3>1. /\ app["send"] = "first" /\ wire' = Append(wire, FirstChunk(round["send"]))
            /\ app' = [app EXCEPT !["send"] = "wait"]
            /\ waiting' = waiting /\ round' = round
        BY <2>3 DEF SendFirst, Write, poolVars
      <3>2. Ahead /\ Drained /\ round["send"] = round["recv"]
        BY <3>1 DEF FlightInv, Still, Turns, Ahead
      <3>3. round["recv"] # 0
        BY <1>0, <3>1, <3>2, TransferBounds DEF IInv, RoundsOK, InCall, Rounds
      <3>4. PICK n \in Nat, j \in Nat : Stream(n, j)
        BY <3>3 DEF StreamInv
      <3>5. Unwritten(1)
        BY <3>1, <3>4 DEF Stream, Carrying
      <3>6. Unwritten(1)'
        BY <1>1, <3>1, <3>5 DEF Unwritten, Pool!Of, Rest, IdOf
      <3>7. Head(wire') = IdOf(round["recv"], 0)
        <4>1. wire' = Append(<<>>, IdOf(round["recv"], 0))
          BY <3>1, <3>2 DEF Drained, FirstChunk
        <4> QED BY <4>1
      <3> QED BY <3>2, <3>3, <3>6, <3>7
    <2> QED BY <2>1, <2>2, <2>3
  <1>3. PICK n \in Nat, j \in Nat : Arriving(n, j) /\ Carrying(n)
    BY <1>2 DEF StreamInv, Stream
  <1>4. n = 0
    BY <1>2, <1>3 DEF Carrying
  <1>5. Arriving(n, j)'
    <2>1. Records' = Records /\ Pinged("recv")' = Pinged("recv")
      BY <1>1 DEF Records, Pinged
    <2> QED BY <1>0, <1>1, <1>3, <2>1, RecordParts, ArrivingKept
  <1>6. Carrying(0)'
    <2>1. work["send"].pc # "begin"
      BY <1>0, <1>2, DrainedFlight
    <2>2. IdOf(round["recv"], 0)' = IdOf(round["recv"], 0)
      BY <1>1 DEF IdOf
    <2>3. /\ acks' = <<>> /\ crs'["send"] = <<>> /\ "send" \notin slot'
      BY <1>0, <1>1, <1>2 DEF Drained
    <2> QED BY <1>1, <1>2, <2>1, <2>2, <2>3 DEF Carrying
  <1>7. CopyInv'
    BY <1>1, CopyKept DEF Pool!Of
  <1> QED BY <1>4, <1>5, <1>6, <1>7 DEF StreamInv, Stream

\* No step breaks the order of the writes or issues a copy too early.
LEMMA StreamStep ==
  ASSUME Patient, IInv, IInv', FlightInv, FlightInv', CopyInv, StreamInv, [Next]_vars
  PROVE  CopyInv' /\ StreamInv'
PROOF
  <1>1. CASE UNCHANGED vars
    <2>1. UNCHANGED <<waiting, slot, hand, round, len, app, work, wire, acks, crs, arrived, copied>>
      BY <1>1 DEF vars, poolVars, appVars, netVars, ghosts
    <2>2. CopyInv'
      BY <2>1, CopyKept DEF Pool!Of
    <2>3. /\ TypeOK /\ TypeOK' /\ Ahead' = Ahead
          /\ Records' + Pinged("recv")' <= Records + Pinged("recv")
      <3>1. Records' = Records /\ Pinged("recv")' = Pinged("recv") /\ TypeOK /\ TypeOK'
        BY <2>1 DEF Records, Pinged, IInv
      <3> QED BY <2>1, <3>1, RecordParts DEF Ahead
    <2>4. \A e \in Ends : /\ Pool!Of(waiting, e)' = Pool!Of(waiting, e)
                          /\ Pool!Of(hand, e)' = Pool!Of(hand, e)
      BY <2>1 DEF Pool!Of
    <2>5. StreamInv'
      BY <2>1, <2>3, <2>4, StreamKept DEF Ends
    <2> QED BY <2>2, <2>5
  <1>2. ASSUME NEW e \in Ends, Open(e) \/ Close(e) \/ CallStep(e)
        PROVE  CopyInv' /\ StreamInv'
    BY <1>2, AppStream, SendStream DEF CallStep
  <1>3. ASSUME NEW e \in Ends, WorkerStep(e)
        PROVE  CopyInv' /\ StreamInv'
    <2>1. CASE Begin(e)
      BY <2>1, BeginSendStream, BeginRecvStream DEF Ends
    <2>2. CASE Ignore(e)
      BY <2>2, NetStream
    <2>3. CASE e = "send" /\ WriteChunk
      BY <2>3, WriteStream
    <2>4. CASE \/ Mark(e) \/ Return(e) \/ Settle(e)
               \/ (e = "recv" /\ (CopyChunk \/ ReadLast \/ RecordEvent))
      BY <2>4, TaskStream
    <2> QED BY <1>3, <2>1, <2>2, <2>3, <2>4 DEF WorkerStep
  <1>4. CASE \E e \in Ends : PollStep(e)
    BY <1>4, NetStream
  <1> QED BY <1>1, <1>2, <1>3, <1>4, RecvCallStream, DeliverStream, NetStream DEF Next

\* When no transfer starts before the records of the one before were handled,
\* recv_task_worker_func issues the copy of a chunk to the device only after the
\* sender's write of that chunk reached the host buffer, although it never looks
\* which chunk its notification was for: writes, records and tasks go in step.
THEOREM CopyAfterArrivalHolds == Patient /\ Spec => []CopyAfterArrival
PROOF
  <1> SUFFICES ASSUME Patient PROVE Spec => []CopyAfterArrival
    OBVIOUS
  <1>1. Init => CopyInv /\ StreamInv
    BY DEF Init, NoWork, CopyInv, CopyAfterArrival, StreamInv, Ends
  <1>2. /\ IInv /\ IInv' /\ FlightInv /\ FlightInv' /\ CopyInv /\ StreamInv /\ [Next]_vars
        => CopyInv' /\ StreamInv'
    BY StreamStep
  <1>3. CopyInv => CopyAfterArrival
    BY DEF CopyInv
  <1> QED BY <1>1, <1>2, <1>3, FlightInvariant, Invariant, PTL DEF Spec

-----------------------------------------------------------------------------
(***************************************************************************)
(* What a transfer reports.  While the calling thread is in the call, each *)
(* chunk that has a task is done, or its task is waiting or about to act;  *)
(* or a task was dropped or has failed, and then the count can no more     *)
(* reach the number of tasks.  So a full count means that all is done.     *)
(***************************************************************************)

\* The calling thread is in a call whose result is not known yet.
Counting == {"insert", "posting", "posted", "first", "wait", "check"}

Done(e)   == IF e = "send" THEN sent ELSE copied
Blamed(e) == \E k \in {"post", "copy"} : <<k, e>> \in trouble

\* The chunks of the current transfer that an end has a task for.
Tasked(e) == {IdOf(round[e], k) : k \in (IF e = "send" THEN 1 ELSE 0) .. len[round[e]] - 1}

Tracked(e) == \A id \in Tasked(e) :
    \/ id \in Done(e)
    \/ [id |-> id, req |-> e] \in waiting
    \/ [id |-> id, req |-> e] \in hand /\ work[e].pc = "begin"

\* A task was dropped or has failed: the count will not be reached.
Short(e) == Sum(e) < total_tasks(e) \/ (work[e].pc = "mark" /\ ~work[e].ok)

\* The sender's worker executes no task.
Idle == work["send"].pc \in {"none", "settle"}

\* The first write was posted, or no task of the sender ran.
FirstOut ==
    /\ app["send"] \in {"insert", "first"} => sync["send"].completed_tasks = 0
    /\ app["send"] \in {"wait", "check"} /\ IdOf(round["send"], 0) \notin sent =>
          Flight = 0 /\ Idle /\ sync["send"].completed_tasks = 0
    /\ app["send"] \in InCall => len[round["send"]] > 1

Reported(e) ==
    /\ app[e] \in Counting => Tracked(e) \/ Short(e)
    /\ work[e].pc = "begin" => work[e].ok
    /\ work[e].pc = "mark" /\ ~work[e].ok => Blamed(e)
    /\ app[e] \in Counting /\ sync[e].request_completed =>
          sync[e].completed_tasks = total_tasks(e) \/ Blamed(e)
    /\ app[e] = "check" => sync[e].request_completed
    /\ result[e] # "none" => round[e] \in Rounds
    /\ result[e] = "ok" => Chunks(e) \subseteq Done(e)
    /\ result[e] = "failed" => Blamed(e)

ReportInv == FirstOut /\ \A e \in Ends : Reported(e)

\* When nothing is in flight, it is in no place.
LEMMA FlightPlaces ==
  ASSUME TypeOK, Flight = 0
  PROVE  wire = <<>> /\ acks = <<>> /\ crs["send"] = <<>> /\ "send" \notin slot
PROOF
  <1>1. wire \in Seq(Ids) /\ acks \in Seq(Ids) /\ crs["send"] \in Seq(Ids)
    BY FlightParts
  <1>2. /\ Written \in Nat /\ Confirmed \in Nat /\ Recorded \in Nat
        /\ Pinged("send") \in 0 .. 1 /\ Starting \in 0 .. 1
        /\ Flight = Written + Confirmed + Recorded + Pinged("send") + Starting
    BY FlightParts
  <1>3. Written = 0 /\ Confirmed = 0 /\ Recorded = 0 /\ Pinged("send") = 0
    <2>1. Written + Confirmed + Recorded + Pinged("send") + Starting = 0
      BY <1>2
    <2>2. \A a, b, c, d, f \in Nat :
            a + b + c + d + f <= 0 => a = 0 /\ b = 0 /\ c = 0 /\ d = 0
      OBVIOUS
    <2>3. Pinged("send") \in Nat /\ Starting \in Nat
      BY DEF Pinged, Starting
    <2>4. Written + Confirmed + Recorded + Pinged("send") + Starting <= 0
      BY <2>1
    <2> QED BY <1>2, <2>2, <2>3, <2>4, Zenon
  <1> QED BY <1>1, <1>3 DEF Written, Confirmed, Recorded, Pinged

\* The first chunk of the sender stays out, or nothing has run since.
LEMMA FirstOutKept ==
  ASSUME FirstOut, round'["send"] = round["send"], sent \subseteq sent',
         app'["send"] \in {"insert", "first"} => app["send"] \in {"insert", "first"},
         app'["send"] \in {"wait", "check"} => app["send"] \in {"wait", "check"},
         app'["send"] \in InCall => /\ app["send"] \in InCall
                                    /\ len'[round["send"]] = len[round["send"]],
         app["send"] \in {"insert", "first"} \/ (Flight = 0 /\ Idle)
            => sync'["send"].completed_tasks = sync["send"].completed_tasks,
         Flight = 0 /\ Idle => Flight' = 0 /\ Idle'
  PROVE  FirstOut'
PROOF
  <1>1. IdOf(round["send"], 0)' = IdOf(round["send"], 0)
    BY DEF IdOf
  <1>2. app'["send"] \in {"insert", "first"} => sync'["send"].completed_tasks = 0
    BY DEF FirstOut
  <1>3. app'["send"] \in InCall => len'[round'["send"]] > 1
    BY DEF FirstOut
  <1>4. app'["send"] \in {"wait", "check"} /\ IdOf(round["send"], 0)' \notin sent' =>
          Flight' = 0 /\ Idle' /\ sync'["send"].completed_tasks = 0
    BY <1>1 DEF FirstOut
  <1> QED BY <1>2, <1>3, <1>4 DEF FirstOut

\* The calling threads, outside of the first write.
LEMMA AppFirst ==
  ASSUME IInv, FirstOut, NEW e \in Ends,
         \/ Open(e) \/ Close(e) \/ CallFails(e) \/ Wait(e) \/ Check(e) \/ CancelRest(e)
         \/ Free(e) \/ Insert(e) \/ InsertFails(e) \/ (e = "recv" /\ (PostRecv \/ PostRecvRefused \/ AskSender))
  PROVE  FirstOut'
PROOF
  <1>0. app \in [Ends -> AppPc] /\ "send" \in Ends /\ sync \in [Ends -> SyncType]
    BY DEF IInv, TypeOK, Ends, SyncType
  <1>1. UNCHANGED <<wire, acks, crs, slot, hand, round, len, work, sent>>
    BY DEF Open, Close, CallFails, Wait, Check, CancelRest, Free, Insert, InsertFails, PostRecv,
       PostRecvRefused, AskSender, Refused, Pool!Cancel, poolVars, netVars, syncVars, ghosts
  <1>2. sync'["send"] = sync["send"]
    BY <1>0 DEF Open, Close, CallFails, Wait, Check, CancelRest, Free, Insert,
       InsertFails, PostRecv, PostRecvRefused, AskSender, Refused, Release, syncVars
  <1>3. /\ app'["send"] \in {"insert", "first"} => app["send"] \in {"insert", "first"}
        /\ app'["send"] \in {"wait", "check"} => app["send"] \in {"wait", "check"}
        /\ app'["send"] \in InCall => app["send"] \in InCall
    <2>1. CASE Open(e) \/ Close(e) \/ CallFails(e)
      BY <1>0, <2>1 DEF Open, Close, CallFails, InCall
    <2>2. CASE Wait(e) \/ Check(e) \/ CancelRest(e) \/ Free(e)
      BY <1>0, <2>2 DEF Wait, Check, CancelRest, Free, InCall
    <2>3. CASE e = "recv"
      <3>1. app'["send"] = app["send"]
        BY <1>0, <2>3 DEF Open, Close, CallFails, Wait, Check, CancelRest, Free, Insert,
           InsertFails, Registered, PostRecv, PostRecvRefused, AskSender, Refused
      <3> QED BY <3>1
    <2>4. CASE Insert(e) \/ InsertFails(e)
      BY <1>0, <2>4 DEF Insert, InsertFails, Registered, InCall
    <2> QED BY <2>1, <2>2, <2>3, <2>4
  <1>4. Flight' = Flight
    BY <1>1 DEF Flight, Written, Confirmed, Recorded, Pinged, Starting
  <1> QED BY <1>1, <1>2, <1>3, <1>4, FirstOutKept DEF Idle

\* The start of a transfer and the first write.
LEMMA CallFirst ==
  ASSUME IInv, IInv', FlightInv, FirstOut,
         RecvCall \/ SendCall \/ SendSingle \/ SendFirst \/ SendFirstRefused
  PROVE  FirstOut'
PROOF
  <1>0. /\ app \in [Ends -> AppPc] /\ "send" \in Ends /\ "recv" \in Ends /\ TypeOK
        /\ sync \in [Ends -> SyncType] /\ round \in [Ends -> 0 .. MaxRounds]
        /\ len \in [Rounds -> 0 .. MaxChunks]
    BY DEF IInv, TypeOK, Ends, SyncType
  <1>1. CASE RecvCall
    <2>1. /\ round' = [round EXCEPT !["recv"] = round["recv"] + 1]
          /\ app' = [app EXCEPT !["recv"] = "insert"]
          /\ sync' = [sync EXCEPT !["recv"] = NewSync]
          /\ \E n \in 1 .. MaxChunks : len' = [len EXCEPT ![round["recv"] + 1] = n]
          /\ UNCHANGED <<wire, acks, crs, slot, hand, work, sent>>
      BY <1>1 DEF RecvCall, Register, Pool!Accept, netVars, ghosts
    <2>2. /\ app'["send"] = app["send"] /\ round'["send"] = round["send"]
          /\ sync'["send"] = sync["send"]
      BY <1>0, <2>1
    <2>3. app["send"] \in InCall => len'[round["send"]] = len[round["send"]]
      <3>1. SUFFICES ASSUME app["send"] \in InCall
                     PROVE  len'[round["send"]] = len[round["send"]]
        OBVIOUS
      <3>2. round["send"] \in Rounds
        BY <1>0, <3>1 DEF IInv, RoundsOK
      <3>3. round["send"] # round["recv"] + 1
        <4>1. /\ round["send"] <= ctl /\ ctl <= round["recv"] /\ ctl \in 0 .. MaxRounds
          BY DEF IInv, RoundsOK, TypeOK
        <4> QED BY <1>0, <4>1, TransferBounds
      <3> QED BY <1>0, <2>1, <3>2, <3>3
    <2>4. Flight' = Flight
      BY <2>1 DEF Flight, Written, Confirmed, Recorded, Pinged, Starting
    <2> QED BY <2>1, <2>2, <2>3, <2>4, FirstOutKept DEF Idle
  <1>2. CASE SendCall
    <2>1. PICK r \in Rounds :
            /\ len[r] > 1 /\ len' = len
            /\ round' = [round EXCEPT !["send"] = r]
            /\ sync' = [sync EXCEPT !["send"] = NewSync]
            /\ app' = [app EXCEPT !["send"] = "insert"]
      BY <1>2 DEF SendCall, Register
    <2>2. /\ app'["send"] = "insert" /\ round'["send"] = r /\ sync'["send"] = NewSync
      BY <1>0, <2>1
    <2> QED BY <2>1, <2>2 DEF FirstOut, NewSync
  <1>3. CASE SendSingle
    <2>1. app'["send"] \in {"ready", "stopped"}
      BY <1>0, <1>3 DEF SendSingle, Asked
    <2> QED BY <2>1 DEF FirstOut, InCall
  <1>4. CASE SendFirst
    <2>1. /\ app["send"] = "first" /\ app'["send"] = "wait"
          /\ round' = round /\ len' = len
          /\ IdOf(round["send"], 0) \in sent'
      BY <1>0, <1>4 DEF SendFirst, Write, FirstChunk
    <2>2. IdOf(round["send"], 0)' \in sent'
      BY <2>1 DEF IdOf
    <2> QED BY <2>1, <2>2 DEF FirstOut, InCall
  <1>5. CASE SendFirstRefused
    <2>1. /\ app["send"] = "first" /\ app'["send"] \in {"wait", "stopped"}
          /\ sync' = [sync EXCEPT !["send"].request_completed = TRUE]
          /\ UNCHANGED <<wire, acks, crs, slot, work, round, len>>
      BY <1>0, <1>5 DEF SendFirstRefused, Refused, Release, poolVars, netVars
    <2>2. sync'["send"].completed_tasks = 0
      BY <1>0, <2>1 DEF FirstOut, SyncType
    <2>3. Flight = 0 /\ Idle
      <3>1. Drained
        BY <2>1 DEF FlightInv, Still, Ahead
      <3> QED BY <1>0, <3>1, DrainedFlight DEF Idle
    <2>4. Flight' = 0
      BY <2>1, <2>3 DEF Flight, Written, Confirmed, Recorded, Pinged, Starting
    <2> QED BY <2>1, <2>2, <2>3, <2>4 DEF FirstOut, InCall, Idle
  <1> QED BY <1>1, <1>2, <1>3, <1>4, <1>5

\* The network, the polling threads and the workers run nothing of the sender while
\* nothing is in flight.
LEMMA RunFirst ==
  ASSUME IInv, IInv', FlightInv, FirstOut,
         \/ Deliver \/ Acknowledge \/ Lose
         \/ \E e \in Ends : PollStep(e) \/ WorkerStep(e)
  PROVE  FirstOut'
PROOF
  <1>0. /\ "send" \in Ends /\ "recv" \in Ends /\ TypeOK /\ HandOK
        /\ work \in [Ends -> WorkType] /\ crs \in [Ends -> Seq(Ids)]
        /\ sync \in [Ends -> SyncType]
    BY DEF IInv, TypeOK, Ends, WorkType, WorkPc, SyncType
  <1>1. /\ app' = app /\ round' = round /\ len' = len /\ sent \subseteq sent'
    BY DEF Deliver, Acknowledge, Lose, PollStep, WakeUp, WakeUpNone, WakeUpUnknown, WorkerStep,
       Begin, Ignore, Mark, Return, Settle, WriteChunk, CopyChunk, ReadLast, RecordEvent, Write, appVars, ghosts
  <1>2. app["send"] \in {"insert", "first"}
          => sync'["send"].completed_tasks = sync["send"].completed_tasks
    <2>1. ~Ahead \/ \E e \in Ends : Settle(e)
      BY NetFlight, WorkerFlight
    <2>2. (\E e \in Ends : Settle(e)) => sync' = sync
      BY DEF Settle, syncVars
    <2> QED BY <2>1, <2>2 DEF Ahead
  <1>3. ASSUME Flight = 0, Idle
        PROVE  Flight' = 0 /\ Idle'
               /\ sync'["send"].completed_tasks = sync["send"].completed_tasks
    <2>1. wire = <<>> /\ acks = <<>> /\ crs["send"] = <<>> /\ "send" \notin slot
      BY <1>0, <1>3, FlightPlaces
    <2>2. PollStep("recv") \/ WorkerStep("recv") \/ Settle("send")
      <3>1. ~Deliver /\ ~Acknowledge /\ ~Lose /\ ~PollStep("send")
        BY <2>1 DEF Deliver, Acknowledge, Lose, PollStep, WakeUp, WakeUpNone, WakeUpUnknown
      <3>2. ~Begin("send") /\ ~Ignore("send") /\ ~Mark("send") /\ ~Return("send") /\ ~WriteChunk
        BY <1>3, <2>1 DEF Idle, Begin, Ignore, Mark, Return, WriteChunk, Pool!First, Pool!Of,
           Pool!Take, Pool!Ignore
      <3>3. WorkerStep("send") => Settle("send")
        BY <3>2 DEF WorkerStep
      <3> QED BY <3>1, <3>3 DEF Ends
    <2>3. /\ wire' = wire /\ acks' = acks /\ crs'["send"] = crs["send"]
          /\ work'["send"] \in {work["send"], NoWork} /\ sync'["send"] = sync["send"]
          /\ "send" \in slot' <=> "send" \in slot
      <3>1. CASE PollStep("recv")
        BY <1>0, <3>1 DEF PollStep, WakeUp, WakeUpNone, WakeUpUnknown, Pool!Notify, Spent,
           poolVars, syncVars
      <3>2. CASE Begin("recv") \/ Ignore("recv")
        BY <1>0, <3>2 DEF Begin, Ignore, Pool!First, Pool!Of, Pool!Take, Pool!Ignore, netVars,
           syncVars
      <3>3. CASE Mark("recv") \/ Return("recv") \/ Settle("recv") \/ Settle("send")
        BY <1>0, <3>3 DEF Mark, Return, Settle, Pool!Return, netVars, syncVars, poolVars
      <3>4. CASE CopyChunk \/ ReadLast \/ RecordEvent
        BY <1>0, <3>4 DEF CopyChunk, ReadLast, RecordEvent, netVars, syncVars, poolVars
      <3> QED BY <2>2, <3>1, <3>2, <3>3, <3>4 DEF WorkerStep
    <2>4. Flight' = Flight
      <3>1. Starting = 0 /\ Starting' = 0
        BY <1>3, <2>3 DEF Starting, Idle, NoWork
      <3>2. /\ Written' = Written /\ Confirmed' = Confirmed /\ Recorded' = Recorded
            /\ Pinged("send")' = Pinged("send")
        BY <2>3 DEF Written, Confirmed, Recorded, Pinged
      <3> QED BY <3>1, <3>2 DEF Flight
    <2> QED BY <1>3, <2>3, <2>4 DEF Idle, NoWork
  <1> QED BY <1>1, <1>2, <1>3, FirstOutKept

\* No step lets a task of the sender run before the first write.
LEMMA FirstOutStep ==
  ASSUME IInv, IInv', FlightInv, FirstOut, [Next]_vars
  PROVE  FirstOut'
PROOF
  <1>1. CASE UNCHANGED vars
    <2>1. UNCHANGED <<wire, acks, crs, slot, hand, round, len, work, sent, app, sync>>
      BY <1>1 DEF vars, poolVars, appVars, syncVars, netVars, ghosts
    <2>2. Flight' = Flight
      BY <2>1 DEF Flight, Written, Confirmed, Recorded, Pinged, Starting
    <2> QED BY <2>1, <2>2, FirstOutKept DEF Idle
  <1>2. ASSUME NEW e \in Ends, Open(e) \/ Close(e) \/ CallStep(e) PROVE FirstOut'
    BY <1>2, AppFirst, CallFirst DEF CallStep
  <1>3. CASE \E e \in Ends : WorkerStep(e) \/ PollStep(e)
    BY <1>3, RunFirst
  <1>4. CASE RecvCall \/ Deliver \/ Acknowledge \/ Lose
    BY <1>4, RunFirst, CallFirst
  <1> QED BY <1>1, <1>2, <1>3, <1>4 DEF Next

\* A step that changes neither the tasks nor the counts of an end changes nothing in
\* what it will report.
LEMMA ReportedKept ==
  ASSUME IInv, NEW e \in Ends, Reported(e),
         round'[e] = round[e], round[e] \in Rounds => len'[round[e]] = len[round[e]],
         Done(e) \subseteq Done(e)', trouble \subseteq trouble',
         result'[e] = result[e], sync'[e] = sync[e],
         \/ work'[e] = work[e] /\ Pool!Of(hand, e)' = Pool!Of(hand, e)
         \/ work[e].pc \notin {"begin", "mark"} /\ work'[e].pc \notin {"begin", "mark"},
         app'[e] \in Counting => /\ app[e] \in Counting
                                 /\ Pool!Of(waiting, e)' = Pool!Of(waiting, e),
         app'[e] = "check" => app[e] = "check" \/ sync[e].request_completed
  PROVE  Reported(e)'
PROOF
  <1>1. Blamed(e) => Blamed(e)'
    BY DEF Blamed
  <1>2. ASSUME app'[e] \in Counting
        PROVE  /\ total_tasks(e)' = total_tasks(e)
               /\ Tracked(e) \/ Short(e) => Tracked(e)' \/ Short(e)'
    <2>1. app[e] \in Counting /\ Pool!Of(waiting, e)' = Pool!Of(waiting, e)
      BY <1>2
    <2>2. round[e] \in Rounds
      BY <2>1 DEF IInv, RoundsOK, InCall, Counting
    <2>3. total_tasks(e)' = total_tasks(e) /\ Tasked(e)' = Tasked(e)
      BY <2>2 DEF total_tasks, Tasked, IdOf
    <2>4. Busy(e)' = Busy(e)
      BY DEF Busy
    <2>5. Sum(e)' = Sum(e)
      BY <2>1, <2>4 DEF Sum, Left
    <2>6. Short(e) => Short(e)'
      BY <2>3, <2>5 DEF Short
    <2>7. ASSUME Tracked(e), NEW id \in Tasked(e)
          PROVE  \/ id \in Done(e)'
                 \/ [id |-> id, req |-> e] \in waiting'
                 \/ [id |-> id, req |-> e] \in hand' /\ work'[e].pc = "begin"
      <3> DEFINE t == [id |-> id, req |-> e]
      <3>1. t.req = e
        OBVIOUS
      <3>2. CASE t \in waiting
        BY <2>1, <3>1, <3>2 DEF Pool!Of
      <3>3. CASE t \in hand /\ work[e].pc = "begin"
        <4>1. t \in Pool!Of(hand, e)
          BY <3>1, <3>3 DEF Pool!Of
        <4>2. t \in Pool!Of(hand, e)' /\ work'[e].pc = "begin"
          BY <3>3, <4>1
        <4> QED BY <4>2 DEF Pool!Of
      <3> QED BY <2>7, <3>2, <3>3 DEF Tracked
    <2> QED BY <2>3, <2>6, <2>7 DEF Tracked
  <1>3. result[e] # "none" => Chunks(e)' = Chunks(e)
    BY DEF Reported, Chunks, IdOf
  <1>4. app'[e] \in Counting => Tracked(e)' \/ Short(e)'
    BY <1>2 DEF Reported
  <1>5. /\ work'[e].pc = "mark" /\ ~work'[e].ok => Blamed(e)'
        /\ work'[e].pc = "begin" => work'[e].ok
    BY <1>1 DEF Reported
  <1>6. app'[e] \in Counting /\ sync'[e].request_completed =>
          sync'[e].completed_tasks = total_tasks(e)' \/ Blamed(e)'
    BY <1>1, <1>2 DEF Reported
  <1>7. app'[e] = "check" => sync'[e].request_completed
    BY DEF Reported
  <1>8. /\ result'[e] # "none" => round'[e] \in Rounds
        /\ result'[e] = "ok" => Chunks(e)' \subseteq Done(e)'
        /\ result'[e] = "failed" => Blamed(e)'
    BY <1>1, <1>3 DEF Reported
  <1>9. Rounds' = Rounds
    BY DEF Rounds
  <1> QED BY <1>4, <1>5, <1>6, <1>7, <1>8, <1>9 DEF Reported

\* A refused post releases the thread that will wait, and is to blame.
LEMMA RefusedReported ==
  ASSUME IInv, NEW e \in Ends, Reported(e), Refused(e), app[e] \in {"posting", "first"}
  PROVE  Reported(e)'
PROOF
  <1>0. /\ app \in [Ends -> AppPc] /\ sync \in [Ends -> SyncType]
    BY DEF IInv, TypeOK, SyncType
  <1>1. /\ sync' = [sync EXCEPT ![e].request_completed = TRUE]
        /\ app'[e] \in {"wait", "stopped"}
        /\ trouble' = trouble \cup {<<"post", e>>}
        /\ UNCHANGED <<waiting, hand, round, len, work, sent, copied, result>>
    BY <1>0 DEF Refused, Release, Note, poolVars, ghosts
  <1>2. sync'[e].completed_tasks = sync[e].completed_tasks
    BY <1>0, <1>1 DEF SyncType
  <1>3. Blamed(e)'
    BY <1>1 DEF Blamed
  <1>4. /\ total_tasks(e)' = total_tasks(e) /\ Sum(e)' = Sum(e)
        /\ Chunks(e)' = Chunks(e) /\ Done(e)' = Done(e)
    BY <1>1, <1>2 DEF total_tasks, Sum, Left, Busy, Pool!Of, Chunks, IdOf, Done
  <1>5. (Tracked(e) => Tracked(e)') /\ (Short(e) => Short(e)')
    BY <1>1, <1>4 DEF Tracked, Tasked, IdOf, Short
  <1>6. app[e] \in Counting /\ app'[e] # "check"
    BY <1>1 DEF Counting
  <1> QED BY <1>1, <1>3, <1>4, <1>5, <1>6 DEF Reported, Rounds

\* A full count means that nothing is left to do and nothing has failed.
LEMMA FullCount ==
  ASSUME IInv, FirstOut, NEW e \in Ends, Reported(e), app[e] = "check",
         sync[e].completed_tasks = total_tasks(e)
  PROVE  Chunks(e) \subseteq Done(e)
PROOF
  <1>0. /\ round[e] \in Rounds /\ len[round[e]] \in 1 .. MaxChunks /\ IsFiniteSet(waiting)
        /\ Sum(e) <= total_tasks(e) /\ len[round[e]] \in Int
    <2>1. app[e] \in InCall
      BY DEF InCall
    <2>2. round[e] \in Rounds /\ len[round[e]] >= 1 /\ Sum(e) <= total_tasks(e)
          /\ IsFiniteSet(waiting)
      BY <2>1 DEF IInv, RoundsOK, CountOK
    <2>3. len[round[e]] \in 0 .. MaxChunks
      BY <2>2 DEF IInv, TypeOK
    <2> QED BY <2>2, <2>3, TransferBounds
  <1>1. Left(e) \in Nat /\ total_tasks(e) \in Int
    BY <1>0, LeftNat DEF total_tasks
  <1>2. Sum(e) = total_tasks(e) + Left(e)
    BY DEF Sum
  <1>3. Left(e) = 0 /\ Sum(e) = total_tasks(e)
    BY <1>0, <1>1, <1>2
  <1>4. Pool!Of(waiting, e) = {} /\ Busy(e) = 0
    BY <1>0, <1>3, LeftNat DEF Empty
  <1>5. work[e].pc \notin {"begin", "mark"}
    BY <1>4 DEF Busy
  <1>6. ~Short(e)
    BY <1>1, <1>3, <1>5 DEF Short
  <1>7. Tasked(e) \subseteq Done(e)
    <2> SUFFICES ASSUME NEW id \in Tasked(e) PROVE id \in Done(e)
      OBVIOUS
    <2>1. Tracked(e)
      BY <1>6 DEF Reported, Counting
    <2>2. [id |-> id, req |-> e] \notin waiting
      BY <1>4 DEF Pool!Of
    <2> QED BY <1>5, <2>1, <2>2 DEF Tracked
  <1>8. CASE e = "recv"
    BY <1>7, <1>8 DEF Chunks, Tasked
  <1>9. CASE e = "send"
    <2>1. len[round["send"]] > 1
      BY <1>9 DEF FirstOut, InCall
    <2>2. total_tasks("send") > 0
      BY <1>0, <1>9, <2>1 DEF total_tasks
    <2>3. IdOf(round["send"], 0) \in sent
      BY <1>9, <2>2 DEF FirstOut
    <2>4. \A k \in 0 .. len[round["send"]] - 1 : k = 0 \/ k \in 1 .. len[round["send"]] - 1
      OBVIOUS
    <2> QED BY <1>7, <1>9, <2>3, <2>4 DEF Chunks, Tasked, Done
  <1> QED BY <1>8, <1>9 DEF Ends

\* wait_and_free_sync compares the counts.
LEMMA CheckReported ==
  ASSUME IInv, FirstOut, NEW e \in Ends, Reported(e), Check(e)
  PROVE  Reported(e)'
PROOF
  <1>0. app \in [Ends -> AppPc] /\ result \in [Ends -> {"none", "ok", "failed"}]
    BY DEF IInv, TypeOK
  <1>1. /\ app[e] = "check" /\ app'[e] \in {"free", "cancel"}
        /\ result'[e] = Outcome(e)
        /\ UNCHANGED <<round, len, work, sync, sent, copied, trouble>>
    BY <1>0 DEF Check, syncVars, ghosts
  <1>2. round[e] \in Rounds
    BY <1>1 DEF IInv, RoundsOK, InCall
  <1>3. /\ Chunks(e)' = Chunks(e) /\ Done(e)' = Done(e) /\ Blamed(e)' = Blamed(e)
        /\ Rounds' = Rounds
    BY <1>1 DEF Chunks, IdOf, Done, Blamed, Rounds
  <1>4. result'[e] = "ok" => Chunks(e) \subseteq Done(e)
    BY <1>1, FullCount DEF Outcome
  <1>5. result'[e] = "failed" => Blamed(e)
    BY <1>1 DEF Outcome, Reported, Counting
  <1>6. app'[e] \notin Counting
    BY <1>1 DEF Counting
  <1>7. app'[e] # "check"
    BY <1>1
  <1> QED BY <1>1, <1>2, <1>3, <1>4, <1>5, <1>6, <1>7 DEF Reported

\* A call that registers its tasks reports nothing yet, and has a task for each chunk.
LEMMA RegisterReported ==
  ASSUME IInv, NEW e \in Ends, NEW r \in Rounds, Register(e, r), app[e] = "ready",
         work' = work, app'[e] # "check"
  PROVE  Reported(e)'
PROOF
  <1>0. /\ sync \in [Ends -> SyncType] /\ round \in [Ends -> 0 .. MaxRounds]
        /\ result \in [Ends -> {"none", "ok", "failed"}]
    BY DEF IInv, TypeOK, SyncType
  <1>1. /\ round'[e] = r /\ sync'[e] = NewSync /\ result'[e] = "none"
        /\ TasksOf(e, r) \subseteq waiting'
    BY <1>0 DEF Register, Pool!Accept
  <1>2. Tracked(e)'
    <2>1. \A id \in Tasked(e)' : [id |-> id, req |-> e] \in TasksOf(e, r)
      BY <1>1 DEF Tasked, TasksOf, IdOf
    <2> QED BY <1>1, <2>1 DEF Tracked
  <1>3. work'[e].pc # "mark" /\ work'[e].pc # "begin"
    BY DEF IInv, Settled, Empty, Busy
  <1>4. ~sync'[e].request_completed
    BY <1>1 DEF NewSync
  <1> QED BY <1>1, <1>2, <1>3, <1>4 DEF Reported

\* send_single_chunk reports whether its one write was posted.
LEMMA SingleReported ==
  ASSUME IInv, Reported("send"), SendSingle
  PROVE  Reported("send")'
PROOF
  <1>0. /\ "send" \in Ends /\ app \in [Ends -> AppPc] /\ round \in [Ends -> 0 .. MaxRounds]
        /\ result \in [Ends -> {"none", "ok", "failed"}]
    BY DEF IInv, TypeOK, Ends
  <1>1. PICK r \in Rounds :
          /\ len[r] = 1 /\ len' = len /\ round' = [round EXCEPT !["send"] = r]
          /\ \/ /\ sent' = sent \cup {IdOf(r, 0)}
                /\ result' = [result EXCEPT !["send"] = "ok"]
             \/ /\ result' = [result EXCEPT !["send"] = "failed"]
                /\ Note("post", "send")
    BY DEF SendSingle, Write
  <1>2. /\ app["send"] = "ready" /\ app'["send"] \in {"ready", "stopped"} /\ work' = work
    BY <1>0 DEF SendSingle, Asked
  <1>3. work'["send"].pc # "mark" /\ work'["send"].pc # "begin"
    BY <1>0, <1>2 DEF IInv, Settled, Empty, Busy
  <1>4. round'["send"] = r
    BY <1>0, <1>1
  <1>5. CASE result' = [result EXCEPT !["send"] = "ok"] /\ sent' = sent \cup {IdOf(r, 0)}
    <2>1. \A k \in 0 .. len'[round'["send"]] - 1 : k = 0
      BY <1>1, <1>4
    <2>2. Chunks("send")' \subseteq {IdOf(r, 0)}
      BY <1>4, <2>1 DEF Chunks, IdOf
    <2>3. Chunks("send")' \subseteq Done("send")'
      BY <1>5, <2>2 DEF Done
    <2>4. result'["send"] = "ok"
      BY <1>0, <1>5
    <2> QED BY <1>2, <1>3, <1>4, <2>3, <2>4 DEF Reported, Counting, Rounds
  <1>6. CASE result' = [result EXCEPT !["send"] = "failed"] /\ Note("post", "send")
    <2>1. Blamed("send")' /\ result'["send"] = "failed"
      BY <1>0, <1>6 DEF Blamed, Note
    <2> QED BY <1>2, <1>3, <1>4, <2>1 DEF Reported, Counting, Rounds
  <1> QED BY <1>1, <1>5, <1>6

\* A task that is taken is about to act, and still to be counted.
LEMMA BeginReported ==
  ASSUME IInv, NEW e \in Ends, Reported(e), Begin(e)
  PROVE  Reported(e)'
PROOF
  <1>0. /\ work \in [Ends -> WorkType] /\ IsFiniteSet(waiting)
    BY DEF IInv, TypeOK, WorkType, WorkPc, CountOK
  <1>1. PICK t \in waiting : /\ t.req = e /\ waiting' = waiting \ {t}
                             /\ hand' = hand \cup {t} /\ Pool!Of(hand, e) = {}
    BY DEF Begin, Pool!First, Pool!Take, Pool!Of, Pool!Resting
  <1>2. /\ UNCHANGED <<round, len, app, result, sync, sent, copied, trouble>>
        /\ work'[e] = [pc |-> "begin", ok |-> TRUE]
    BY <1>0 DEF Begin, appVars, syncVars, ghosts
  <1>3. work[e].pc = "none"
    BY DEF Begin, Occupied
  <1>4. Sum(e)' = Sum(e)
    <2>1. /\ IsFiniteSet(Pool!Of(waiting, e)) /\ Cardinality(Pool!Of(waiting, e)) \in Nat
      BY <1>0, LeftNat
    <2>2. Pool!Of(waiting, e)' = Pool!Of(waiting, e) \ {t} /\ t \in Pool!Of(waiting, e)
      BY <1>1 DEF Pool!Of
    <2>3. Cardinality(Pool!Of(waiting, e)') = Cardinality(Pool!Of(waiting, e)) - 1
      BY <2>1, <2>2, FS_RemoveElement
    <2>4. Busy(e) = 0 /\ Busy(e)' = 1
      BY <1>2, <1>3 DEF Busy
    <2>5. Left(e)' = Left(e)
      BY <2>1, <2>3, <2>4 DEF Left
    <2> QED BY <1>2, <2>5 DEF Sum
  <1>5. /\ total_tasks(e)' = total_tasks(e) /\ Tasked(e)' = Tasked(e)
        /\ Chunks(e)' = Chunks(e) /\ Done(e)' = Done(e) /\ Blamed(e)' = Blamed(e)
        /\ Rounds' = Rounds
    BY <1>2 DEF total_tasks, Tasked, Chunks, Done, Blamed, IdOf, Rounds
  <1>6. Short(e) => Short(e)'
    BY <1>3, <1>4, <1>5 DEF Short
  <1>7. Tracked(e) => Tracked(e)'
    <2>1. \A id : [id |-> id, req |-> e] \notin hand
      BY <1>1 DEF Pool!Of
    <2>2. \A id : [id |-> id, req |-> e] \in waiting
                    => \/ [id |-> id, req |-> e] \in waiting'
                       \/ [id |-> id, req |-> e] \in hand'
      BY <1>1
    <2> QED BY <1>2, <1>5, <2>1, <2>2 DEF Tracked
  <1>8. work'[e].pc = "begin" /\ work'[e].ok
    BY <1>2
  <1> QED BY <1>2, <1>5, <1>6, <1>7, <1>8 DEF Reported

\* A task function does what its chunk asks for, or fails and is to blame.
LEMMA ActReported ==
  ASSUME IInv, NEW e \in Ends, Reported(e),
         \/ e = "send" /\ WriteChunk
         \/ e = "recv" /\ CopyChunk
  PROVE  Reported(e)'
PROOF
  <1>0. work \in [Ends -> WorkType] /\ TypeOK /\ HandOK /\ "mark" \in WorkPc
    BY DEF IInv, TypeOK, WorkType, WorkPc
  <1>1. /\ UNCHANGED <<waiting, hand, round, len, app, result, sync>>
        /\ work[e].pc = "begin" /\ trouble \subseteq trouble'
        /\ Done(e) \subseteq Done(e)'
    BY DEF WriteChunk, CopyChunk, Write, Note, Done, appVars, syncVars, poolVars
  <1>2. \/ /\ work' = [work EXCEPT ![e].pc = "mark"]
           /\ TaskOf(e).id \in Done(e)'
        \/ /\ work' = [work EXCEPT ![e] = [pc |-> "mark", ok |-> FALSE]]
           /\ Blamed(e)'
    BY DEF WriteChunk, CopyChunk, Write, Note, Done, Blamed
  <1>3. work'[e].pc = "mark"
    BY <1>0, <1>2, WorkMoves
  <1>4. /\ total_tasks(e)' = total_tasks(e) /\ Tasked(e)' = Tasked(e)
        /\ Chunks(e)' = Chunks(e) /\ (Blamed(e) => Blamed(e)') /\ Rounds' = Rounds
    BY <1>1 DEF total_tasks, Tasked, Chunks, Blamed, IdOf, Rounds
  <1>5. Sum(e)' = Sum(e)
    <2>1. Busy(e) = 1 /\ Busy(e)' = 1 /\ Pool!Of(waiting, e)' = Pool!Of(waiting, e)
      BY <1>1, <1>3 DEF Busy, Pool!Of
    <2> QED BY <1>1, <2>1 DEF Sum, Left
  <1>6. Tracked(e) \/ Short(e) => Tracked(e)' \/ Short(e)'
    <2>1. CASE Short(e)
      BY <1>1, <1>4, <1>5, <2>1 DEF Short
    <2>2. CASE Tracked(e) /\ TaskOf(e).id \in Done(e)'
      <3>1. \A id : [id |-> id, req |-> e] \in hand => id = TaskOf(e).id
        <4>1. \A t \in hand : t.req = e => t = TaskOf(e)
          BY <1>0, <1>1, InHandFacts
        <4> QED BY <4>1
      <3> QED BY <1>1, <1>4, <2>2, <3>1 DEF Tracked
    <2>3. CASE work' = [work EXCEPT ![e] = [pc |-> "mark", ok |-> FALSE]]
      <3>1. work'[e] = [pc |-> "mark", ok |-> FALSE]
        BY <1>0, <2>3
      <3> QED BY <3>1 DEF Short
    <2> QED BY <1>2, <2>1, <2>2, <2>3
  <1>7. work'[e].pc = "mark" /\ ~work'[e].ok => Blamed(e)'
    <2>1. CASE work' = [work EXCEPT ![e].pc = "mark"]
      <3>1. work'[e].ok = work[e].ok
        BY <1>0, <2>1 DEF WorkType
      <3>2. work[e].ok
        BY <1>1 DEF Reported
      <3> QED BY <3>1, <3>2
    <2> QED BY <1>2, <2>1
  <1> QED BY <1>1, <1>3, <1>4, <1>6, <1>7 DEF Reported

\* mark_task_group_completed counts a task that did its work, and one that failed
\* releases the waiting thread.
LEMMA MarkReported ==
  ASSUME IInv, NEW e \in Ends, Reported(e), Mark(e)
  PROVE  Reported(e)'
PROOF
  <1>0. /\ work \in [Ends -> WorkType] /\ sync \in [Ends -> SyncType] /\ TypeOK /\ HandOK
        /\ IsFiniteSet(waiting)
    BY DEF IInv, TypeOK, WorkType, WorkPc, SyncType, CountOK
  <1>1. /\ UNCHANGED <<waiting, hand, round, len, app, result, sent, copied, trouble>>
        /\ work[e].pc = "mark"
    BY DEF Mark, appVars, poolVars, ghosts
  <1>2. work'[e].pc \in {"tail", "return"}
    <2>1. PICK pc \in {"tail", "return"} : work' = [work EXCEPT ![e].pc = pc]
      BY DEF Mark
    <2> QED BY <1>0, <2>1, WorkMoves DEF WorkPc
  <1>3. sync'[e] = Marked(e, work[e].ok)
    <2>1. TaskOf(e) \in hand /\ TaskOf(e).req = e
      BY <1>0, <1>1, InHandFacts
    <2>2. RoundOf(TaskOf(e).id) = round[e]
      BY <1>1, <2>1 DEF IInv, Current
    <2> QED BY <1>0, <2>2 DEF Mark
  <1>4. /\ total_tasks(e)' = total_tasks(e) /\ Tasked(e)' = Tasked(e)
        /\ Chunks(e)' = Chunks(e) /\ Done(e)' = Done(e) /\ Blamed(e)' = Blamed(e)
        /\ Rounds' = Rounds
    BY <1>1 DEF total_tasks, Tasked, Chunks, Done, Blamed, IdOf, Rounds
  <1>5. /\ sync[e].completed_tasks \in Int /\ sync[e].request_completed \in BOOLEAN
        /\ Left(e) \in Nat /\ Left(e) >= 1 /\ Left(e)' = Left(e) - 1
    <2>1. Busy(e) = 1 /\ Busy(e)' = 0 /\ Pool!Of(waiting, e)' = Pool!Of(waiting, e)
      BY <1>1, <1>2 DEF Busy, Pool!Of
    <2>2. Cardinality(Pool!Of(waiting, e)) \in Nat
      BY <1>0, LeftNat
    <2>3. sync[e].completed_tasks \in Int /\ sync[e].request_completed \in BOOLEAN
      BY <1>0 DEF SyncType
    <2>4. Left(e) = Cardinality(Pool!Of(waiting, e)) + 1
          /\ Left(e)' = Cardinality(Pool!Of(waiting, e))
      BY <2>1, <2>2 DEF Left
    <2> QED BY <2>2, <2>3, <2>4
  <1>6. app[e] \in Counting => Sum(e) <= total_tasks(e) /\ total_tasks(e) \in Int
    <2> SUFFICES ASSUME app[e] \in Counting
                 PROVE  Sum(e) <= total_tasks(e) /\ total_tasks(e) \in Int
      OBVIOUS
    <2>1. app[e] \in InCall
      BY DEF Counting, InCall
    <2>2. round[e] \in Rounds /\ Sum(e) <= total_tasks(e)
      BY <2>1 DEF IInv, RoundsOK, CountOK
    <2>3. len[round[e]] \in Int
      BY <1>0, <2>2, TransferBounds DEF TypeOK
    <2> QED BY <2>2, <2>3 DEF total_tasks
  <1>7. app[e] \in Counting => sync[e].completed_tasks + Left(e) <= total_tasks(e)
    BY <1>6 DEF Sum
  <1>8. Tracked(e) => Tracked(e)'
    BY <1>1, <1>4 DEF Tracked
  <1>9. CASE work[e].ok
    <2>1. /\ sync'[e].completed_tasks = sync[e].completed_tasks + 1
          /\ sync'[e].request_completed
                = (sync[e].request_completed \/ sync[e].completed_tasks + 1 = total_tasks(e))
      BY <1>3, <1>9 DEF Marked
    <2>2. Sum(e)' = Sum(e)
      BY <1>5, <2>1 DEF Sum
    <2>3. Short(e) => Short(e)'
      BY <1>4, <1>9, <2>2 DEF Short
    <2>4. app[e] \in Counting /\ sync[e].request_completed => Blamed(e)
      <3>1. app[e] \in Counting => sync[e].completed_tasks # total_tasks(e)
        BY <1>5, <1>6, <1>7
      <3> QED BY <3>1 DEF Reported
    <2>5. app'[e] \in Counting /\ sync'[e].request_completed =>
            sync'[e].completed_tasks = total_tasks(e)' \/ Blamed(e)'
      BY <1>1, <1>4, <2>1, <2>4
    <2>6. app'[e] = "check" => sync'[e].request_completed
      BY <1>1, <2>1 DEF Reported
    <2> QED BY <1>1, <1>2, <1>4, <1>8, <2>3, <2>5, <2>6 DEF Reported
  <1>10. CASE ~work[e].ok
    <2>1. /\ sync'[e].completed_tasks = sync[e].completed_tasks
          /\ sync'[e].request_completed
      BY <1>0, <1>3, <1>10 DEF Marked, SyncType
    <2>2. Blamed(e)
      BY <1>1, <1>10 DEF Reported
    <2>3. app[e] \in Counting => Short(e)'
      <3>1. Sum(e)' = sync[e].completed_tasks + (Left(e) - 1)
        BY <1>5, <2>1 DEF Sum
      <3>2. app[e] \in Counting => Sum(e)' < total_tasks(e)
        BY <1>5, <1>6, <1>7, <3>1
      <3> QED BY <1>4, <3>2 DEF Short
    <2> QED BY <1>1, <1>2, <1>4, <2>1, <2>2, <2>3 DEF Reported
  <1> QED BY <1>9, <1>10

\* The steps of the calling threads.
LEMMA CallReported ==
  ASSUME IInv, FirstOut, NEW e \in Ends, Reported(e), NEW f \in Ends,
         Open(f) \/ Close(f) \/ CallStep(f)
  PROVE  Reported(e)'
PROOF
  <1>0. /\ app \in [Ends -> AppPc] /\ round \in [Ends -> 0 .. MaxRounds]
        /\ sync \in [Ends -> SyncType] /\ result \in [Ends -> {"none", "ok", "failed"}]
    BY DEF IInv, TypeOK, SyncType
  <1>1. CASE \/ Open(f) \/ Close(f) \/ CallFails(f) \/ Wait(f) \/ CancelRest(f) \/ Free(f)
             \/ Insert(f) \/ InsertFails(f)
             \/ (f = "recv" /\ (PostRecv \/ AskSender)) \/ (f = "send" /\ SendFirst)
    <2>1. /\ UNCHANGED <<round, len, hand, work, sync, result, copied>>
          /\ trouble \subseteq trouble' /\ sent \subseteq sent'
      BY <1>1 DEF Open, Close, CallFails, Wait, CancelRest, Free, Insert, InsertFails,
         PostRecv, AskSender, SendFirst, Write, Note, Pool!Cancel, poolVars, syncVars, ghosts
    <2>2. Done(e) \subseteq Done(e)' /\ Pool!Of(hand, e)' = Pool!Of(hand, e)
      BY <2>1 DEF Done, Pool!Of
    <2>3. /\ app'[e] \in Counting => app[e] \in Counting /\ Pool!Of(waiting, e)' = Pool!Of(waiting, e)
          /\ app'[e] = "check" => app[e] = "check" \/ sync[e].request_completed
      <3>1. CASE Open(f) \/ CallFails(f) \/ Wait(f) \/ Free(f)
        BY <1>0, <3>1 DEF Open, CallFails, Wait, Free, Awaited, Counting, poolVars, Pool!Of
      <3>2. CASE (f = "recv" /\ (PostRecv \/ AskSender)) \/ (f = "send" /\ SendFirst)
        BY <1>0, <3>2 DEF PostRecv, AskSender, SendFirst, Counting, poolVars, Pool!Of
      <3>3. CASE Close(f) \/ CancelRest(f)
        <4>1. waiting' = waiting \/ waiting' = waiting \ Pool!Of(waiting, f)
          BY <3>3 DEF Close, CancelRest, Pool!Cancel, poolVars
        <4>2. f # e => Pool!Of(waiting, e)' = Pool!Of(waiting, e)
          BY <4>1 DEF Pool!Of
        <4>3. app' = [app EXCEPT ![f] = "closed"] \/ app' = [app EXCEPT ![f] = "free"]
          BY <3>3 DEF Close, CancelRest
        <4> QED BY <1>0, <4>2, <4>3 DEF Counting
      <3>4. CASE Insert(f) \/ InsertFails(f)
        <4>1. /\ waiting' = waiting /\ app[f] = "insert"
              /\ \E pc \in {"posting", "first"} : app' = [app EXCEPT ![f] = pc]
          BY <3>4 DEF Insert, InsertFails, Registered, poolVars
        <4> QED BY <1>0, <4>1 DEF Counting, Pool!Of
      <3> QED BY <1>1, <3>1, <3>2, <3>3, <3>4
    <2> QED BY <2>1, <2>2, <2>3, ReportedKept
  <1>2. ASSUME f # e, Check(f) \/ Refused(f)
        PROVE  Reported(e)'
    <2>1. /\ UNCHANGED <<round, len, hand, waiting, work, copied, sent>>
          /\ trouble \subseteq trouble'
          /\ app'[e] = app[e] /\ sync'[e] = sync[e] /\ result'[e] = result[e]
      BY <1>0, <1>2 DEF Check, Refused, Release, Note, poolVars, syncVars, ghosts
    <2>2. Done(e) \subseteq Done(e)' /\ Pool!Of(hand, e)' = Pool!Of(hand, e)
          /\ Pool!Of(waiting, e)' = Pool!Of(waiting, e)
      BY <2>1 DEF Done, Pool!Of
    <2> QED BY <2>1, <2>2, ReportedKept
  <1>3. CASE Check(f)
    BY <1>2, <1>3, CheckReported
  <1>4. CASE (f = "recv" /\ PostRecvRefused) \/ (f = "send" /\ SendFirstRefused)
    <2>1. Refused(f) /\ app[f] \in {"posting", "first"}
      BY <1>4 DEF PostRecvRefused, SendFirstRefused
    <2> QED BY <1>2, <2>1, RefusedReported
  <1>5. CASE f = "send" /\ (SendCall \/ SendSingle)
    <2>1. CASE e = "send"
      <3>1. CASE SendCall
        <4>1. PICK r \in Rounds : /\ app["send"] = "ready" /\ Register("send", r)
                                  /\ app' = [app EXCEPT !["send"] = "insert"] /\ work' = work
          BY <3>1 DEF SendCall, Asked, Register
        <4>2. app'["send"] # "check"
          BY <1>0, <2>1, <4>1
        <4> QED BY <2>1, <4>1, <4>2, RegisterReported
      <3> QED BY <1>5, <2>1, <3>1, SingleReported
    <2>2. CASE e = "recv"
      <3>1. /\ UNCHANGED <<len, hand, work, copied>>
            /\ trouble \subseteq trouble'
            /\ app'[e] = app[e] /\ sync'[e] = sync[e] /\ result'[e] = result[e]
            /\ round'[e] = round[e] /\ Pool!Of(waiting, e)' = Pool!Of(waiting, e)
        <4>1. CASE SendCall
          <5>1. PICK r \in Rounds : Register("send", r)
            BY <4>1 DEF SendCall
          <5>2. waiting' = waiting \cup TasksOf("send", r) /\ hand' = hand
            BY <5>1 DEF Register, Pool!Accept
          <5>3. \A t \in TasksOf("send", r) : t.req # e
            BY <2>2 DEF TasksOf
          <5>4. Pool!Of(waiting, e)' = Pool!Of(waiting, e)
            BY <5>2, <5>3 DEF Pool!Of
          <5> QED BY <1>0, <2>2, <4>1, <5>1, <5>2, <5>4 DEF SendCall, Register, ghosts
        <4>2. CASE SendSingle
          BY <1>0, <2>2, <4>2 DEF SendSingle, Note, poolVars, syncVars, Pool!Of
        <4> QED BY <1>5, <4>1, <4>2
      <3>2. Done(e) \subseteq Done(e)' /\ Pool!Of(hand, e)' = Pool!Of(hand, e)
        BY <2>2, <3>1 DEF Done, Pool!Of
      <3> QED BY <3>1, <3>2, ReportedKept
    <2> QED BY <2>1, <2>2 DEF Ends
  <1> QED BY <1>1, <1>3, <1>4, <1>5 DEF CallStep

\* os_transport_recv registers its tasks, and the sender's transfer is another one.
LEMMA RecvCallReported ==
  ASSUME IInv, NEW e \in Ends, Reported(e), RecvCall
  PROVE  Reported(e)'
PROOF
  <1>0. /\ app \in [Ends -> AppPc] /\ round \in [Ends -> 0 .. MaxRounds]
        /\ sync \in [Ends -> SyncType] /\ result \in [Ends -> {"none", "ok", "failed"}]
        /\ len \in [Rounds -> 0 .. MaxChunks] /\ "recv" \in Ends /\ "send" \in Ends
    BY DEF IInv, TypeOK, SyncType, Ends
  <1>1. /\ app["recv"] = "ready" /\ round["recv"] < MaxRounds
        /\ \E n \in 1 .. MaxChunks : len' = [len EXCEPT ![round["recv"] + 1] = n]
        /\ Register("recv", round["recv"] + 1)
        /\ app' = [app EXCEPT !["recv"] = "insert"]
        /\ UNCHANGED <<work, sent, copied, trouble>>
    BY DEF RecvCall, Register, ghosts
  <1>2. round["recv"] + 1 \in Rounds
    BY <1>0, <1>1, TransferBounds DEF Rounds
  <1>3. CASE e = "recv"
    <2>1. app'["recv"] # "check"
      BY <1>0, <1>1
    <2> QED BY <1>1, <1>2, <1>3, <2>1, RegisterReported
  <1>4. CASE e = "send"
    <2>1. /\ hand' = hand /\ waiting' = waiting \cup TasksOf("recv", round["recv"] + 1)
          /\ round' = [round EXCEPT !["recv"] = round["recv"] + 1]
          /\ sync' = [sync EXCEPT !["recv"] = NewSync]
          /\ result' = [result EXCEPT !["recv"] = "none"]
      BY <1>1 DEF Register, Pool!Accept
    <2>2. /\ app'[e] = app[e] /\ round'[e] = round[e] /\ sync'[e] = sync[e]
          /\ result'[e] = result[e]
      BY <1>0, <1>1, <1>4, <2>1
    <2>3. /\ Pool!Of(waiting, e)' = Pool!Of(waiting, e)
          /\ Pool!Of(hand, e)' = Pool!Of(hand, e) /\ Done(e) \subseteq Done(e)'
      <3>1. \A t \in TasksOf("recv", round["recv"] + 1) : t.req # e
        BY <1>4 DEF TasksOf
      <3> QED BY <1>1, <2>1, <3>1 DEF Pool!Of, Done
    <2>4. round[e] \in Rounds => len'[round[e]] = len[round[e]]
      <3>1. round["send"] # round["recv"] + 1
        <4>1. /\ round["send"] <= ctl /\ ctl <= round["recv"] /\ ctl \in 0 .. MaxRounds
          BY DEF IInv, RoundsOK, TypeOK
        <4> QED BY <1>0, <4>1, TransferBounds
      <3> QED BY <1>0, <1>1, <1>4, <3>1
    <2> QED BY <1>1, <2>2, <2>3, <2>4, ReportedKept
  <1> QED BY <1>3, <1>4 DEF Ends

\* The steps of the network, of the polling threads and of the workers.
LEMMA RunReported ==
  ASSUME IInv, NEW e \in Ends, Reported(e),
         \/ Deliver \/ Acknowledge \/ Lose
         \/ \E f \in Ends : PollStep(f) \/ WorkerStep(f)
  PROVE  Reported(e)'
PROOF
  <1>0. /\ work \in [Ends -> WorkType] /\ sync \in [Ends -> SyncType]
    BY DEF IInv, TypeOK, WorkType, WorkPc, SyncType
  <1>1. CASE \/ Deliver \/ Acknowledge \/ Lose
             \/ \E f \in Ends : PollStep(f) \/ Ignore(f)
    <2>1. /\ UNCHANGED <<app, round, len, result, sync, work, sent, copied, waiting, hand>>
          /\ trouble \subseteq trouble'
      BY <1>1 DEF Deliver, Acknowledge, Lose, PollStep, WakeUp, WakeUpNone, WakeUpUnknown,
         Ignore, Pool!Notify, Pool!Ignore, Note, poolVars, appVars, syncVars, ghosts
    <2>2. /\ Pool!Of(waiting, e)' = Pool!Of(waiting, e)
          /\ Pool!Of(hand, e)' = Pool!Of(hand, e) /\ Done(e) \subseteq Done(e)'
      BY <2>1 DEF Pool!Of, Done
    <2> QED BY <2>1, <2>2, ReportedKept
  <1>2. ASSUME NEW f \in Ends, f # e,
               \/ Begin(f) \/ Mark(f) \/ Return(f) \/ (f = "send" /\ WriteChunk)
               \/ (f = "recv" /\ CopyChunk)
        PROVE  Reported(e)'
    <2>1. /\ UNCHANGED <<app, round, len, result>>
          /\ trouble \subseteq trouble' /\ sent \subseteq sent' /\ copied \subseteq copied'
      BY <1>2 DEF Begin, Mark, Return, WriteChunk, CopyChunk, Write, Note, appVars, syncVars,
         ghosts
    <2>2. work'[e] = work[e] /\ sync'[e] = sync[e]
      BY <1>0, <1>2 DEF Begin, Mark, Return, WriteChunk, CopyChunk, syncVars
    <2>3. /\ Pool!Of(waiting, e)' = Pool!Of(waiting, e)
          /\ Pool!Of(hand, e)' = Pool!Of(hand, e)
      <3>1. CASE Begin(f)
        <4>1. PICK t \in waiting : t.req = f /\ waiting' = waiting \ {t} /\ hand' = hand \cup {t}
          BY <3>1 DEF Begin, Pool!First, Pool!Take, Pool!Of
        <4> QED BY <1>2, <4>1 DEF Pool!Of
      <3>2. CASE Return(f)
        <4>1. waiting' = waiting /\ hand' = hand \ {TaskOf(f)} /\ work[f].pc = "return"
          BY <3>2 DEF Return, Pool!Return
        <4>2. TaskOf(f).req = f
          BY <4>1, InHandFacts DEF IInv
        <4> QED BY <1>2, <4>1, <4>2 DEF Pool!Of
      <3>3. CASE Mark(f) \/ (f = "send" /\ WriteChunk) \/ (f = "recv" /\ CopyChunk)
        BY <3>3 DEF Mark, WriteChunk, CopyChunk, poolVars, Pool!Of
      <3> QED BY <1>2, <3>1, <3>2, <3>3
    <2>4. Done(e) \subseteq Done(e)'
      BY <2>1 DEF Done
    <2> QED BY <2>1, <2>2, <2>3, <2>4, ReportedKept
  <1>3. ASSUME NEW f \in Ends,
               Return(f) \/ Settle(f) \/ (f = "recv" /\ (ReadLast \/ RecordEvent))
        PROVE  Reported(e)'
    <2>1. /\ UNCHANGED <<app, round, len, result, sync, sent, copied, waiting, trouble>>
          /\ Pool!Of(hand, e)' = Pool!Of(hand, e) \/ work[f].pc = "return"
          /\ work[f].pc \notin {"begin", "mark"}
      BY <1>3 DEF Return, Settle, ReadLast, RecordEvent, Pool!Return, appVars, syncVars, ghosts,
         poolVars, Pool!Of
    <2>2. \E x : x.pc \notin {"begin", "mark"} /\ work' = [work EXCEPT ![f] = x]
      <3>1. \A pc \in WorkPc : [work[f] EXCEPT !.pc = pc].pc = pc
        BY <1>0 DEF WorkType
      <3>2. CASE Return(f) \/ Settle(f)
        BY <3>1, <3>2 DEF Return, Settle, NoWork, WorkPc
      <3>3. CASE f = "recv" /\ (ReadLast \/ RecordEvent)
        BY <3>1, <3>3 DEF ReadLast, RecordEvent, WorkPc
      <3> QED BY <1>3, <3>2, <3>3
    <2>3. CASE f = e
      <3>1. work'[e].pc \notin {"begin", "mark"} /\ work[e].pc \notin {"begin", "mark"}
        BY <1>0, <2>1, <2>2, <2>3
      <3>2. Pool!Of(waiting, e)' = Pool!Of(waiting, e) /\ Done(e) \subseteq Done(e)'
        BY <2>1 DEF Pool!Of, Done
      <3> QED BY <2>1, <3>1, <3>2, ReportedKept
    <2>4. CASE f # e /\ ~Return(f)
      <3>1. work'[e] = work[e] /\ hand' = hand
        BY <1>0, <1>3, <2>2, <2>4 DEF Settle, ReadLast, RecordEvent, poolVars
      <3>2. Pool!Of(waiting, e)' = Pool!Of(waiting, e) /\ Done(e) \subseteq Done(e)'
            /\ Pool!Of(hand, e)' = Pool!Of(hand, e)
        BY <2>1, <3>1 DEF Pool!Of, Done
      <3> QED BY <2>1, <3>1, <3>2, ReportedKept
    <2> QED BY <1>2, <2>3, <2>4
  <1>4. ASSUME NEW f \in Ends, WorkerStep(f)
        PROVE  Reported(e)'
    <2>1. CASE Begin(f)
      BY <1>2, <2>1, BeginReported
    <2>2. CASE Mark(f)
      BY <1>2, <2>2, MarkReported
    <2>3. CASE (f = "send" /\ WriteChunk) \/ (f = "recv" /\ CopyChunk)
      BY <1>2, <2>3, ActReported
    <2>4. CASE Return(f) \/ Settle(f) \/ (f = "recv" /\ (ReadLast \/ RecordEvent))
      BY <1>3, <2>4
    <2>5. CASE Ignore(f)
      BY <1>1, <2>5
    <2> QED BY <1>4, <2>1, <2>2, <2>3, <2>4, <2>5 DEF WorkerStep
  <1> QED BY <1>1, <1>4

\* No step makes the report of an end wrong.
LEMMA ReportStep ==
  ASSUME IInv, IInv', FlightInv, ReportInv, [Next]_vars
  PROVE  ReportInv'
PROOF
  <1>1. FirstOut'
    BY FirstOutStep DEF ReportInv
  <1>2. ASSUME NEW e \in Ends PROVE Reported(e)'
    <2>0. Reported(e) /\ FirstOut
      BY DEF ReportInv
    <2>1. CASE UNCHANGED vars
      <3>1. UNCHANGED <<app, round, len, result, sync, work, sent, copied, waiting, hand, trouble>>
        BY <2>1 DEF vars, poolVars, appVars, syncVars, ghosts
      <3>2. /\ Pool!Of(waiting, e)' = Pool!Of(waiting, e)
            /\ Pool!Of(hand, e)' = Pool!Of(hand, e) /\ Done(e) \subseteq Done(e)'
        BY <3>1 DEF Pool!Of, Done
      <3> QED BY <2>0, <3>1, <3>2, ReportedKept
    <2>2. CASE \E f \in Ends : Open(f) \/ Close(f) \/ CallStep(f)
      BY <2>0, <2>2, CallReported
    <2>3. CASE \E f \in Ends : WorkerStep(f) \/ PollStep(f)
      BY <2>0, <2>3, RunReported
    <2>4. CASE RecvCall
      BY <2>0, <2>4, RecvCallReported
    <2>5. CASE Deliver \/ Acknowledge \/ Lose
      BY <2>0, <2>5, RunReported
    <2> QED BY <2>1, <2>2, <2>3, <2>4, <2>5 DEF Next
  <1> QED BY <1>1, <1>2 DEF ReportInv

\* When no transfer starts before the records of the one before were handled, what
\* wait_and_free_sync and send_single_chunk return can be believed: 0 means that each
\* chunk of the transfer was posted at the sender, or copied at the receiver, and -1
\* that a post or a copy of this end failed.
THEOREM ResultHonestHolds == Patient /\ Spec => []ResultHonest
PROOF
  <1> SUFFICES ASSUME Patient PROVE Spec => []ResultHonest
    OBVIOUS
  <1>1. Init => ReportInv
    BY DEF Init, NoWork, NewSync, ReportInv, FirstOut, Idle, Reported, Counting, InCall, Ends
  <1>2. IInv /\ IInv' /\ FlightInv /\ ReportInv /\ [Next]_vars => ReportInv'
    BY ReportStep
  <1>3. ReportInv => ResultHonest
    <2> SUFFICES ASSUME ReportInv, NEW e \in Ends
                 PROVE  /\ result[e] = "ok" => Chunks(e) \subseteq (IF e = "send" THEN sent ELSE copied)
                        /\ result[e] = "failed" => \E k \in {"post", "copy"} : <<k, e>> \in trouble
      BY DEF ResultHonest
    <2>1. Reported(e)
      BY DEF ReportInv
    <2> QED BY <2>1 DEF Reported, Done, Blamed
  <1> QED BY <1>1, <1>2, <1>3, FlightInvariant, Invariant, PTL DEF Spec

-----------------------------------------------------------------------------
(***************************************************************************)
(* Tasks whose context could not be allocated.  A call that begins with    *)
(* nothing under way finds no notification of its request; without a       *)
(* context none comes; so no task of the call is counted, its wait does    *)
(* not return success, and the application makes no other call.            *)
(***************************************************************************)

\* Where an end is, once the context of its call could not be allocated.
Halted == {"posting", "posted", "first", "wait", "check", "cancel", "free", "stopped", "closed"}

Lost(e) ==
    /\ app[e] = "insert" => sync[e].completed_tasks = 0 /\ total_tasks(e) # 0
    /\ NoContext(e) =>
          /\ pending_count[e] = 0 /\ e \notin slot /\ Pool!Of(hand, e) = {}
          /\ app[e] \in Halted
          /\ app[e] \in Halted \ {"stopped", "closed"} =>
                sync[e].completed_tasks = 0 /\ total_tasks(e) # 0
          /\ app[e] = "free" => result[e] = "failed"

LostInv == /\ app["recv"] = "insert" => ctl < round["recv"]
           /\ \A e \in Ends : Lost(e)

\* What concerns an end does not change.
LEMMA LostSame ==
  ASSUME IInv, NEW e \in Ends, Lost(e), NoContext(e)' => NoContext(e),
         app'[e] = app[e], result'[e] = result[e], pending_count'[e] = pending_count[e],
         sync'[e] = sync[e], round'[e] = round[e],
         round[e] \in Rounds => len'[round[e]] = len[round[e]],
         e \in slot' => e \in slot, Pool!Of(hand, e)' \subseteq Pool!Of(hand, e)
  PROVE  Lost(e)'
PROOF
  <1>1. app[e] \in InCall => total_tasks(e)' = total_tasks(e)
    BY DEF IInv, RoundsOK, total_tasks
  <1>2. {"insert"} \cup (Halted \ {"stopped", "closed"}) \subseteq InCall
    BY DEF Halted, InCall
  <1> QED BY <1>1, <1>2 DEF Lost

\* An end that has not lost the context of a call.
LEMMA LostSpared ==
  ASSUME NEW e \in Ends, ~NoContext(e)', app'[e] # "insert"
  PROVE  Lost(e)'
  BY DEF Lost

\* Nothing of the request is notified or executed while its tasks are registered,
\* nor without a context.
LEMMA LostStill ==
  ASSUME IInv, FlightInv, LostInv, NEW e \in Ends, NoContext(e) \/ app[e] = "insert"
  PROVE  e \notin slot /\ Pool!Of(hand, e) = {} /\ work[e].pc \in {"none", "settle"}
PROOF
  <1>1. CASE NoContext(e)
    BY <1>1 DEF LostInv, Lost, IInv, HandOK
  <1>2. CASE app[e] = "insert"
    <2>1. Ahead
      <3>1. CASE e = "send"
        BY <1>2, <3>1 DEF Ahead
      <3>2. CASE e = "recv"
        <4>1. /\ round["send"] <= ctl /\ ctl < round["recv"]
              /\ round["send"] \in 0 .. MaxRounds /\ round["recv"] \in 0 .. MaxRounds
              /\ ctl \in 0 .. MaxRounds
          BY <1>2, <3>2 DEF IInv, RoundsOK, TypeOK, LostInv, Ends
        <4> QED BY <4>1, TransferBounds DEF Ahead
      <3> QED BY <3>1, <3>2 DEF Ends
    <2>2. Drained
      BY <2>1 DEF FlightInv, Still
    <2> QED BY <2>2 DEF Drained, Pool!Of, IInv, HandOK
  <1> QED BY <1>1, <1>2

\* The network and the polling threads: no context, no notification.
LEMMA NetLost ==
  ASSUME IInv, LostInv, NEW e \in Ends,
         Deliver \/ Acknowledge \/ Lose \/ \E f \in Ends : PollStep(f)
  PROVE  Lost(e)'
PROOF
  <1>1. /\ UNCHANGED <<app, result, pending_count, sync, round, len, hand>>
        /\ NoContext(e)' => NoContext(e)
    BY DEF Deliver, Acknowledge, Lose, PollStep, WakeUp, WakeUpNone, WakeUpUnknown, Note,
       NoContext, Pool!Notify, poolVars, appVars, syncVars
  <1>2. CASE e \in slot' => e \in slot
    BY <1>1, <1>2, LostSame DEF LostInv, Pool!Of
  <1>3. CASE e \in slot' /\ e \notin slot
    <2>1. Known(e)
      BY <1>3 DEF Deliver, Acknowledge, Lose, PollStep, WakeUp, WakeUpNone, WakeUpUnknown,
         Pool!Notify, poolVars
    <2>2. ~NoContext(e)
      BY <2>1 DEF LostInv, Lost, Known
    <2> QED BY <1>1, <2>2 DEF LostInv, Lost, total_tasks
  <1> QED BY <1>2, <1>3

\* The worker of an end: none of its steps is with a task of such a call.
LEMMA WorkerLost ==
  ASSUME IInv, FlightInv, LostInv, NEW e \in Ends, NEW f \in Ends, WorkerStep(f)
  PROVE  Lost(e)'
PROOF
  <1>0. /\ sync \in [Ends -> SyncType] /\ pending_count \in [Ends -> Nat]
    BY DEF IInv, TypeOK, SyncType
  <1>1. /\ UNCHANGED <<app, result, round, len>> /\ slot' \subseteq slot
        /\ NoContext(e)' => NoContext(e)
    BY DEF WorkerStep, Begin, Ignore, Mark, Return, Settle, WriteChunk, CopyChunk, ReadLast,
       RecordEvent, Note, NoContext, Pool!First, Pool!Take, Pool!Ignore, Pool!Return, poolVars,
       appVars
  <1>2. CASE f # e
    <2>1. sync'[e] = sync[e] /\ pending_count'[e] = pending_count[e]
      BY <1>0, <1>2 DEF WorkerStep, Begin, Ignore, Mark, Return, Settle, WriteChunk, CopyChunk,
         ReadLast, RecordEvent, poolVars, syncVars
    <2>2. Pool!Of(hand, e)' \subseteq Pool!Of(hand, e)
      <3>1. CASE Begin(f)
        <4>1. PICK t \in waiting : t.req = f /\ hand' = hand \cup {t}
          BY <3>1 DEF Begin, Pool!First, Pool!Take, Pool!Of
        <4> QED BY <1>2, <4>1 DEF Pool!Of
      <3>2. ~Begin(f) => hand' \subseteq hand
        BY DEF WorkerStep, Ignore, Mark, Return, Settle, WriteChunk, CopyChunk, ReadLast,
           RecordEvent, Pool!Ignore, Pool!Return, poolVars
      <3> QED BY <3>1, <3>2 DEF Pool!Of
    <2> QED BY <1>1, <2>1, <2>2, LostSame DEF LostInv
  <1>3. CASE f = e /\ (NoContext(e) \/ app[e] = "insert")
    <2>1. e \notin slot /\ Pool!Of(hand, e) = {} /\ work[e].pc \in {"none", "settle"}
      BY <1>3, LostStill
    <2>2. Settle(e)
      BY <1>3, <2>1 DEF WorkerStep, Begin, Ignore, Mark, Return, WriteChunk, CopyChunk,
         ReadLast, RecordEvent, Pool!First, Pool!Take, Pool!Ignore, Pool!Of
    <2>3. /\ sync' = sync /\ hand' = hand
          /\ pending_count' = [pending_count EXCEPT ![e] =
                                 IF Known(e) THEN pending_count[e] - 1 ELSE pending_count[e]]
      BY <2>2 DEF Settle, syncVars
    <2>4. NoContext(e) => pending_count'[e] = 0
      BY <1>0, <2>3 DEF LostInv, Lost, Known
    <2> QED BY <1>1, <2>1, <2>3, <2>4 DEF LostInv, Lost, total_tasks, Pool!Of
  <1>4. CASE ~NoContext(e) /\ app[e] # "insert"
    BY <1>1, <1>4, LostSpared
  <1> QED BY <1>2, <1>3, <1>4

\* The calling thread of an end.
LEMMA CallLost ==
  ASSUME IInv, FlightInv, LostInv, NEW e \in Ends, NEW f \in Ends,
         Open(f) \/ Close(f) \/ CallStep(f)
  PROVE  Lost(e)'
PROOF
  <1>0. /\ app \in [Ends -> AppPc] /\ round \in [Ends -> 0 .. MaxRounds]
        /\ sync \in [Ends -> SyncType] /\ result \in [Ends -> {"none", "ok", "failed"}]
        /\ pending_count \in [Ends -> Nat] /\ "send" \in Ends /\ "recv" \in Ends
    BY DEF IInv, TypeOK, SyncType, Ends
  <1>1. hand' = hand /\ slot' = slot /\ len' = len
    BY DEF Open, Close, CallStep, CallFails, Insert, InsertFails, Wait, Check, CancelRest,
       Free, PostRecv, PostRecvRefused, AskSender, SendCall, SendSingle, SendFirst,
       SendFirstRefused, Refused, Register, Pool!Cancel, Pool!Accept, poolVars
  <1>2. CASE f # e
    <2>1. /\ app'[e] = app[e] /\ result'[e] = result[e] /\ sync'[e] = sync[e]
          /\ round'[e] = round[e] /\ pending_count'[e] = pending_count[e]
          /\ NoContext(e)' => NoContext(e)
      <3>1. CASE Open(f) \/ Close(f) \/ CallFails(f) \/ Insert(f) \/ InsertFails(f)
        BY <1>0, <1>2, <3>1 DEF Open, Close, CallFails, Insert, InsertFails, Registered, Note,
           NoContext, poolVars, syncVars
      <3>2. CASE Wait(f) \/ Check(f) \/ CancelRest(f) \/ Free(f)
        BY <1>0, <1>2, <3>2 DEF Wait, Check, CancelRest, Free, NoContext, poolVars, syncVars
      <3>3. CASE f = "recv" /\ (PostRecv \/ PostRecvRefused \/ AskSender)
        BY <1>0, <1>2, <3>3 DEF PostRecv, PostRecvRefused, AskSender, Refused, Release, Note,
           NoContext, poolVars, syncVars
      <3>4. CASE f = "send" /\ (SendSingle \/ SendFirst \/ SendFirstRefused)
        BY <1>0, <1>2, <3>4 DEF SendSingle, SendFirst, SendFirstRefused, Refused, Release,
           Note, NoContext, poolVars, syncVars
      <3>5. CASE f = "send" /\ SendCall
        BY <1>0, <1>2, <3>5 DEF SendCall, Register, NoContext
      <3> QED BY <3>1, <3>2, <3>3, <3>4, <3>5 DEF CallStep
    <2> QED BY <1>1, <2>1, LostSame DEF LostInv, Pool!Of
  <1>3. CASE /\ f = e
             /\ \/ Open(e) \/ CallFails(e) \/ Insert(e)
                \/ (e = "send" /\ (SendCall \/ SendSingle))
    <2>1. app[e] \notin Halted /\ (NoContext(e)' => NoContext(e))
      BY <1>3 DEF Open, CallFails, Insert, SendCall, SendSingle, Asked, Halted, Note, NoContext
    <2>2. ~NoContext(e) /\ ~NoContext(e)'
      BY <2>1 DEF LostInv, Lost
    <2>3. CASE Open(e) \/ CallFails(e) \/ Insert(e) \/ (e = "send" /\ SendSingle)
      <3>1. app'[e] # "insert"
        BY <1>0, <2>3 DEF Open, CallFails, Insert, Registered, SendSingle, Asked
      <3> QED BY <2>2, <3>1, LostSpared
    <2>4. CASE e = "send" /\ SendCall
      <3>1. PICK r \in Rounds : len[r] > 1 /\ Register("send", r)
        BY <2>4 DEF SendCall
      <3>2. round'[e] = r /\ sync'[e] = NewSync
        BY <1>0, <2>4, <3>1 DEF Register
      <3>3. len[r] \in Int
        BY TransferBounds DEF IInv, TypeOK
      <3>4. total_tasks(e)' # 0
        BY <1>1, <2>4, <3>1, <3>2, <3>3 DEF total_tasks
      <3> QED BY <2>2, <3>2, <3>4 DEF Lost, NewSync
    <2> QED BY <1>3, <2>3, <2>4
  <1>4. CASE f = e /\ InsertFails(e)
    <2>1. /\ app[e] = "insert" /\ pending_count'[e] = 0 /\ app'[e] \in {"posting", "first"}
          /\ UNCHANGED <<sync, round>>
      BY <1>0, <1>4 DEF InsertFails, Registered, poolVars, syncVars
    <2>2. e \notin slot /\ Pool!Of(hand, e) = {}
      BY <2>1, LostStill
    <2> QED BY <1>1, <2>1, <2>2 DEF LostInv, Lost, Halted, total_tasks, Pool!Of
  <1>5. CASE f = e /\ (Close(e) \/ Free(e))
    <2>1. /\ app'[e] # "insert" /\ (NoContext(e)' => NoContext(e))
          /\ pending_count'[e] \in {0, pending_count[e]}
          /\ NoContext(e) => app'[e] \in {"stopped", "closed"}
      BY <1>0, <1>5 DEF Close, Free, NoContext, poolVars, LostInv, Lost
    <2> QED BY <1>1, <2>1 DEF LostInv, Lost, Halted, Pool!Of
  <1>6. CASE /\ f = e
             /\ \/ Wait(e) \/ Check(e) \/ CancelRest(e)
                \/ (e = "recv" /\ (PostRecv \/ PostRecvRefused \/ AskSender))
                \/ (e = "send" /\ (SendFirst \/ SendFirstRefused))
    <2>1. /\ app[e] \in InCall \ {"insert"} /\ app'[e] \in Halted
          /\ app'[e] = "free" => app[e] = "cancel" \/ (Check(e) /\ Outcome(e) = "ok")
          /\ NoContext(e)' => NoContext(e)
          /\ round' = round
      <3>1. CASE Wait(e) \/ Check(e) \/ CancelRest(e)
        BY <1>0, <3>1 DEF Wait, Check, CancelRest, InCall, Halted, NoContext
      <3>2. CASE e = "recv" /\ (PostRecv \/ PostRecvRefused \/ AskSender)
        BY <1>0, <3>2 DEF PostRecv, PostRecvRefused, AskSender, Refused, InCall, Halted, Note,
           NoContext
      <3>3. CASE e = "send" /\ (SendFirst \/ SendFirstRefused)
        BY <1>0, <3>3 DEF SendFirst, SendFirstRefused, Refused, InCall, Halted, Note, NoContext
      <3> QED BY <1>6, <3>1, <3>2, <3>3
    <2>2. /\ sync'[e].completed_tasks = sync[e].completed_tasks
          /\ total_tasks(e)' = total_tasks(e)
      <3>1. \/ sync' = sync
            \/ sync' = [sync EXCEPT ![e].request_completed = TRUE]
        BY <1>6 DEF Wait, Check, CancelRest, PostRecv, PostRecvRefused, AskSender, SendFirst,
           SendFirstRefused, Refused, Release, syncVars
      <3> QED BY <1>0, <1>1, <2>1, <3>1 DEF SyncType, total_tasks
    <2>3. SUFFICES ASSUME NoContext(e) PROVE Lost(e)'
      BY <2>1 DEF Lost, Halted
    <2>4. /\ pending_count[e] = 0 /\ e \notin slot /\ Pool!Of(hand, e) = {}
          /\ sync[e].completed_tasks = 0 /\ total_tasks(e) # 0
      BY <2>1, <2>3 DEF LostInv, Lost, Halted, InCall
    <2>5. pending_count'[e] = 0
      BY <1>6, <2>4 DEF Wait, Check, CancelRest, PostRecv, PostRecvRefused, AskSender,
         SendFirst, SendFirstRefused, Refused, Known, poolVars
    <2>6. app'[e] = "free" => result'[e] = "failed"
      <3>1. Outcome(e) = "failed"
        BY <2>4 DEF Outcome
      <3>2. app[e] = "cancel" => result[e] = "failed"
        BY DEF IInv, Settled
      <3>3. app[e] = "cancel" => result' = result
        BY <1>6 DEF Wait, Check, CancelRest, PostRecv, PostRecvRefused, AskSender, SendFirst,
           SendFirstRefused, Refused
      <3> QED BY <2>1, <3>1, <3>2, <3>3
    <2> QED BY <1>1, <2>1, <2>2, <2>4, <2>5, <2>6 DEF Lost, Halted, Pool!Of
  <1> QED BY <1>2, <1>3, <1>4, <1>5, <1>6 DEF CallStep

\* os_transport_recv begins with nothing under way.
LEMMA RecvCallLost ==
  ASSUME IInv, LostInv, NEW e \in Ends, RecvCall
  PROVE  Lost(e)' /\ ctl' < round'["recv"]
PROOF
  <1>0. /\ app \in [Ends -> AppPc] /\ round \in [Ends -> 0 .. MaxRounds]
        /\ sync \in [Ends -> SyncType] /\ result \in [Ends -> {"none", "ok", "failed"}]
        /\ len \in [Rounds -> 0 .. MaxChunks] /\ "send" \in Ends /\ "recv" \in Ends
        /\ ctl \in Nat /\ round["recv"] \in Nat /\ round["send"] \in Nat
    <2>1. ctl \in 0 .. MaxRounds /\ round \in [Ends -> 0 .. MaxRounds]
      BY DEF IInv, TypeOK
    <2> QED BY <2>1, TransferBounds DEF IInv, TypeOK, SyncType, Ends
  <1>1. /\ app["recv"] = "ready" /\ round["recv"] < MaxRounds
        /\ app' = [app EXCEPT !["recv"] = "insert"]
        /\ round' = [round EXCEPT !["recv"] = round["recv"] + 1]
        /\ sync' = [sync EXCEPT !["recv"] = NewSync]
        /\ result' = [result EXCEPT !["recv"] = "none"]
        /\ UNCHANGED <<hand, slot, pending_count, trouble, ctl>>
    BY DEF RecvCall, Register, Pool!Accept
  <1>2. PICK n \in 1 .. MaxChunks : len' = [len EXCEPT ![round["recv"] + 1] = n]
    BY DEF RecvCall
  <1>3. /\ round["send"] <= ctl /\ ctl <= round["recv"]
    BY DEF IInv, RoundsOK
  <1>4. ASSUME e = "recv" PROVE Lost(e)'
    <2>1. ~NoContext(e)'
      BY <1>1, <1>4 DEF LostInv, Lost, Halted, NoContext
    <2>2. total_tasks(e)' # 0
      <3>1. round["recv"] + 1 \in Rounds
        BY <1>0, <1>1, TransferBounds DEF Rounds
      <3> QED BY <1>0, <1>1, <1>2, <1>4, <3>1 DEF total_tasks
    <2> QED BY <1>0, <1>1, <1>4, <2>1, <2>2 DEF Lost, NewSync
  <1>5. ASSUME e = "send" PROVE Lost(e)'
    <2>1. round[e] # round["recv"] + 1
      BY <1>0, <1>3, <1>5
    <2> QED BY <1>0, <1>1, <1>2, <1>5, <2>1, LostSame DEF LostInv, NoContext, Pool!Of
  <1>6. ctl' < round'["recv"]
    BY <1>0, <1>1, <1>3
  <1> QED BY <1>4, <1>5, <1>6 DEF Ends

\* No step gives such a task to a worker.
LEMMA LostStep ==
  ASSUME IInv, FlightInv, LostInv, [Next]_vars
  PROVE  LostInv'
PROOF
  <1>0. app \in [Ends -> AppPc] /\ "recv" \in Ends
    BY DEF IInv, TypeOK, Ends
  <1>1. ASSUME NEW e \in Ends PROVE Lost(e)'
    <2>1. CASE UNCHANGED vars
      BY <2>1, LostSame DEF vars, poolVars, appVars, syncVars, LostInv, NoContext
    <2> QED BY <2>1, NetLost, WorkerLost, CallLost, RecvCallLost DEF Next
  <1>2. ASSUME app'["recv"] = "insert", ~RecvCall
        PROVE  app["recv"] = "insert" /\ ctl' = ctl /\ round'["recv"] = round["recv"]
    <2>1. CASE \E e \in Ends : Open(e) \/ Close(e) \/ CallStep(e)
      <3>1. PICK e \in Ends : Open(e) \/ Close(e) \/ CallStep(e)
        BY <2>1
      <3>2. e = "send"
        <4>1. \E pc \in AppPc \ {"insert"} : app' = [app EXCEPT ![e] = pc] \/ e = "send"
          BY <3>1 DEF Open, Close, CallStep, CallFails, Insert, InsertFails, Registered, Wait,
             Check, CancelRest, Free, PostRecv, PostRecvRefused, AskSender, Refused, AppPc, Ends
        <4> QED BY <1>0, <1>2, <4>1 DEF Ends
      <3>3. /\ app'["recv"] = app["recv"] /\ round'["recv"] = round["recv"] /\ ctl' = ctl
        <4>1. round \in [Ends -> 0 .. MaxRounds]
          BY DEF IInv, TypeOK
        <4> QED BY <1>0, <3>1, <3>2, <4>1 DEF Open, Close, CallStep, CallFails, Insert,
              InsertFails, Registered, Wait, Check, CancelRest, Free, SendCall, SendSingle,
              SendFirst, SendFirstRefused, Refused, Register
      <3> QED BY <1>2, <3>3
    <2>2. CASE UNCHANGED vars
      BY <1>2, <2>2 DEF vars, appVars
    <2>3. CASE \E e \in Ends : WorkerStep(e)
      BY <1>2, <2>3 DEF WorkerStep, Begin, Ignore, Mark, Return, Settle, WriteChunk, CopyChunk,
         ReadLast, RecordEvent, appVars
    <2>4. CASE Deliver \/ Acknowledge \/ Lose \/ \E e \in Ends : PollStep(e)
      BY <1>2, <2>4 DEF Deliver, Acknowledge, Lose, PollStep, WakeUp, WakeUpNone,
         WakeUpUnknown, appVars
    <2> QED BY <1>2, <2>1, <2>2, <2>3, <2>4 DEF Next
  <1> QED BY <1>0, <1>1, <1>2, RecvCallLost DEF LostInv

\* When the context of its request cannot be allocated (update_batch_context), the
\* batch submit returns the ids of the tasks all the same; they stay queued, also when
\* the group they point into is freed.  When no transfer starts before the records of
\* the one before were handled, no worker ever runs one of them.
THEOREM LostNeverRunsHolds == Patient /\ Spec => []LostNeverRuns
PROOF
  <1> SUFFICES ASSUME Patient PROVE Spec => []LostNeverRuns
    OBVIOUS
  <1>1. Init => LostInv
    BY DEF Init, LostInv, Lost, NoContext, Ends
  <1>2. IInv /\ FlightInv /\ LostInv /\ [Next]_vars => LostInv'
    BY LostStep
  <1>3. IInv /\ LostInv => LostNeverRuns
    <2> SUFFICES ASSUME IInv, LostInv, NEW t \in hand, NoContext(t.req) PROVE FALSE
      BY DEF LostNeverRuns
    <2>1. t.req \in Ends
      BY DEF IInv, TypeOK
    <2> QED BY <2>1 DEF LostInv, Lost, Pool!Of
  <1> QED BY <1>1, <1>2, <1>3, FlightInvariant, Invariant, PTL DEF Spec

=============================================================================

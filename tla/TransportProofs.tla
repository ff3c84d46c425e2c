---------------------------- MODULE TransportProofs ----------------------------
(***************************************************************************)
(* Theorems about Transport, for every number of chunks and transfers,     *)
(* whatever fails and whatever the applications do.                        *)
(***************************************************************************)
EXTENDS Transport, FiniteSetTheorems, SequenceTheorems, TLAPS

(***************************************************************************)
(* The inductive invariant behind GroupOutlivesTasks: while a transfer is  *)
(* in progress, the tasks counted, the tasks queued and the task that will *)
(* still be counted are together no more than the tasks of the group.  So  *)
(* when all are counted none is left; and after a cancel none is left      *)
(* either, if the cancel finds the context of the request: it does, for    *)
(* pending_count stays at or above the tasks queued and the one that the   *)
(* worker has not settled, unless the context could not be allocated.      *)
(***************************************************************************)
InCall == {"insert", "posting", "posted", "first", "wait", "check", "cancel", "free"}

\* A task in hand that is still to be counted.
Busy(e) == IF work[e].pc \in {"begin", "mark"} THEN 1 ELSE 0

Left(e) == Cardinality(Pool!Of(waiting, e)) + Busy(e)
Sum(e)  == sync[e].completed_tasks + Left(e)

\* The tasks of an end that its worker has not settled.
Load(e) == Cardinality(Pool!Of(waiting, e)) + (IF Occupied(e) THEN 1 ELSE 0)

HandOK ==
    /\ \A e \in Ends : (work[e].pc \in {"none", "settle"}) <=> (Pool!Of(hand, e) = {})
    /\ \A t, u \in hand : t.req = u.req => t = u

RoundsOK ==
    /\ round["send"] <= ctl /\ ctl <= round["recv"]
    /\ \A e \in Ends : app[e] \in InCall => /\ round[e] \in Rounds
                                            /\ len[round[e]] >= 1
    /\ \A e \in Ends, r \in Rounds : Freed(e, r) => r <= round[e]
    /\ \A e \in Ends : app[e] \in InCall => ~Freed(e, round[e])
    /\ app["recv"] \in {"insert", "posting"} => rbuf < len[round["recv"]]

\* Every task that will still be counted belongs to the current transfer.
Current ==
    /\ \A t \in waiting : RoundOf(t.id) = round[t.req]
    /\ \A t \in hand : work[t.req].pc \in {"begin", "mark"}
                          => /\ RoundOf(t.id) = round[t.req]
                             /\ ~Freed(t.req, RoundOf(t.id)) \/ NoContext(t.req)

Empty(e) == Pool!Of(waiting, e) = {} /\ Busy(e) = 0

\* Outside a call, and once it only has to free, nothing is left, unless a cancel
\* found no context.
Settled ==
    \A e \in Ends :
        /\ app[e] \in {"start", "ready"} => Empty(e)
        /\ app[e] = "free" => Empty(e) \/ (result[e] = "failed" /\ NoContext(e))
        /\ app[e] = "cancel" => result[e] = "failed"

\* The context counts what is queued and what is not settled.
Accounted ==
    \A e \in Ends :
        /\ app[e] = "insert" => Load(e) <= total_tasks(e)
        /\ app[e] # "insert" => \/ Load(e) <= pending_count[e]
                                \/ pending_count[e] = 0 /\ NoContext(e)

CountOK ==
    /\ IsFiniteSet(waiting)
    /\ \A e \in Ends : Sum(e) <= MaxChunks
    /\ \A e \in Ends : app[e] \in InCall => Sum(e) <= total_tasks(e)

IInv == /\ TypeOK /\ GroupOutlivesTasks /\ HandOK /\ RoundsOK /\ Current /\ Settled
        /\ CountOK /\ Accounted

-----------------------------------------------------------------------------
(* Ids, tasks, sums.                                                       *)

\* What is below the divisor does not count.
LEMMA DivOfSum ==
    ASSUME NEW d \in Nat \ {0}, NEW q \in Nat, NEW a \in 0 .. d - 1
    PROVE  (q * d + a) \div d = q
  OBVIOUS

\* A quotient is below the bound of the dividend.
LEMMA DivBelow ==
    ASSUME NEW d \in Nat \ {0}, NEW n \in Nat, NEW x \in 0 .. n * d - 1
    PROVE  x \div d \in 0 .. n - 1
  OBVIOUS

\* The first id of a transfer is below the first id of the one after the last.
LEMMA ProductBelow ==
    ASSUME NEW d \in Nat \ {0}, NEW n \in Nat, NEW q \in 0 .. n - 1, NEW a \in 0 .. d - 1
    PROVE  q * d + a \in 0 .. n * d - 1
  OBVIOUS

\* An id tells the transfer it belongs to.
LEMMA IdFacts ==
    ASSUME NEW r \in Rounds, NEW k \in 0 .. MaxChunks - 1
    PROVE  IdOf(r, k) \in Ids /\ RoundOf(IdOf(r, k)) = r
  <1>1. r - 1 \in 0 .. MaxRounds - 1 /\ MaxRounds \in Nat /\ MaxChunks \in Nat \ {0}
    BY TransferBounds DEF Rounds
  <1>2. (r - 1) * MaxChunks + k \in 0 .. MaxRounds * MaxChunks - 1
    BY <1>1, ProductBelow
  <1>3. ((r - 1) * MaxChunks + k) \div MaxChunks = r - 1
    BY <1>1, DivOfSum
  <1>4. IdOf(r, k) \in Ids
    BY <1>2, Zenon DEF IdOf, Ids
  <1>5. RoundOf(IdOf(r, k)) = (r - 1) + 1
    BY <1>3, Zenon DEF IdOf, RoundOf
  <1>6. (r - 1) + 1 = r
    BY <1>1 DEF Rounds
  <1> QED BY <1>4, <1>5, <1>6

\* RoundOf inverts the numbering of the tasks.
LEMMA RoundOfIds ==
    ASSUME NEW id \in Ids
    PROVE  RoundOf(id) \in Rounds
  <1>1. id \div MaxChunks \in 0 .. MaxRounds - 1
    BY TransferBounds, DivBelow DEF Ids
  <1> QED BY <1>1, TransferBounds DEF RoundOf, Rounds

\* The tasks of a submit belong to its transfer, and are no more than it counts.
LEMMA TasksFacts ==
    ASSUME NEW e \in Ends, NEW r \in Rounds, len'[r] \in 1 .. MaxChunks
    PROVE  /\ TasksOf(e, r) \subseteq [id : Ids, req : Ends]
           /\ \A t \in TasksOf(e, r) : t.req = e /\ RoundOf(t.id) = r
           /\ IsFiniteSet(TasksOf(e, r))
           /\ Cardinality(TasksOf(e, r)) \in Nat
           /\ Cardinality(TasksOf(e, r)) <= len'[r]
           /\ e = "send" => Cardinality(TasksOf(e, r)) <= len'[r] - 1
  <1> DEFINE lo == IF e = "send" THEN 1 ELSE 0
             n == len'[r]
             S == lo .. n - 1
             f == [k \in S |-> [id |-> IdOf(r, k), req |-> e]]
  <1>1. lo \in 0 .. 1 /\ n \in Nat \ {0} /\ n <= MaxChunks /\ MaxChunks \in Nat
    BY TransferBounds
  <1>2. S \subseteq 0 .. MaxChunks - 1
    BY <1>1
  <1>3. TasksOf(e, r) = {[id |-> IdOf(r, k), req |-> e] : k \in S}
    BY DEF TasksOf
  <1>4. IsFiniteSet(S) /\ Cardinality(S) = n - lo
    <2>1. PICK m \in Int : m = n - 1
      BY <1>1
    <2>2. lo \in Int
      BY <1>1
    <2>3. /\ IsFiniteSet(lo .. m)
          /\ Cardinality(lo .. m) = IF lo > m THEN 0 ELSE m - lo + 1
      BY <2>1, <2>2, FS_Interval
    <2>4. (IF lo > m THEN 0 ELSE m - lo + 1) = n - lo
      BY <1>1, <2>1
    <2> QED BY <2>1, <2>3, <2>4
  <1>5. f \in Surjection(S, TasksOf(e, r))
    BY <1>3 DEF Surjection
  <1>6. /\ IsFiniteSet(TasksOf(e, r))
        /\ Cardinality(TasksOf(e, r)) <= Cardinality(S)
    BY <1>4, <1>5, FS_Surjection
  <1>7. Cardinality(TasksOf(e, r)) \in Nat
    BY <1>6, FS_CardinalityType
  <1>8. \A t \in TasksOf(e, r) : /\ t \in [id : Ids, req : Ends]
                                 /\ t.req = e /\ RoundOf(t.id) = r
    BY <1>2, <1>3, IdFacts
  <1> QED BY <1>1, <1>4, <1>6, <1>7, <1>8

\* The task in hand of an end whose task function is executing.
LEMMA InHandFacts ==
    ASSUME TypeOK, HandOK, NEW e \in Ends, work[e].pc \notin {"none", "settle"}
    PROVE  /\ TaskOf(e) \in hand /\ TaskOf(e).req = e /\ TaskOf(e).id \in Ids
           /\ \A t \in hand : t.req = e => t = TaskOf(e)
  <1>1. PICK t \in hand : t.req = e
    BY DEF HandOK, Pool!Of
  <1>2. TaskOf(e) \in hand /\ TaskOf(e).req = e
    BY <1>1 DEF TaskOf
  <1> QED BY <1>2 DEF TypeOK, HandOK

\* What a counter has left is a natural number.
LEMMA LeftNat ==
    ASSUME IsFiniteSet(waiting), NEW e \in Ends
    PROVE  /\ Left(e) \in Nat
           /\ IsFiniteSet(Pool!Of(waiting, e))
           /\ Cardinality(Pool!Of(waiting, e)) \in Nat
           /\ Left(e) = 0 => Empty(e)
           /\ Load(e) \in Nat /\ Load(e) >= Cardinality(Pool!Of(waiting, e))
           /\ Occupied(e) => Load(e) >= 1
           /\ Load(e) = 0 => Empty(e)
  <1>1. IsFiniteSet(Pool!Of(waiting, e))
    BY FS_Subset DEF Pool!Of
  <1>2. Cardinality(Pool!Of(waiting, e)) \in Nat
    BY <1>1, FS_CardinalityType
  <1>3. Cardinality(Pool!Of(waiting, e)) = 0 => Pool!Of(waiting, e) = {}
    BY <1>1, FS_EmptySet
  <1>4. Left(e) \in Nat /\ (Left(e) = 0 => Empty(e))
    BY <1>2, <1>3 DEF Left, Busy, Empty
  <1>5. /\ Load(e) \in Nat /\ Load(e) >= Cardinality(Pool!Of(waiting, e))
        /\ Occupied(e) => Load(e) >= 1
    BY <1>2 DEF Load
  <1>6. Load(e) = 0 => Empty(e)
    BY <1>2, <1>3 DEF Load, Occupied, Busy, Empty
  <1> QED BY <1>1, <1>2, <1>4, <1>5, <1>6

-----------------------------------------------------------------------------
(* Initial states.                                                         *)

\* The invariant holds before the library is opened.
LEMMA InitInv == Init => IInv
  <1> SUFFICES ASSUME Init PROVE IInv
    OBVIOUS
  <1>1. TypeOK
    BY TransferBounds DEF Init, Pool!Init, TypeOK, AppPc, NewSync, NoWork, Ends
  <1>2. GroupOutlivesTasks /\ Current
    BY DEF Init, Pool!Init, GroupOutlivesTasks, Current
  <1>3. HandOK
    BY DEF Init, Pool!Init, HandOK, NoWork, Pool!Of
  <1>4. RoundsOK
    <2>1. \A e \in Ends : app[e] = "start"
      BY DEF Init
    <2>2. "recv" \in Ends /\ "send" \in Ends
      BY DEF Ends
    <2> QED BY <2>1, <2>2 DEF Init, RoundsOK, Freed, InCall
  <1>5. Settled
    BY DEF Init, Pool!Init, Settled, Empty, NoWork, Pool!Of, Busy, Ends
  <1>6. \A e \in Ends : Sum(e) = 0
    <2> SUFFICES ASSUME NEW e \in Ends PROVE Sum(e) = 0
      OBVIOUS
    <2>1. Pool!Of(waiting, e) = {}
      BY DEF Init, Pool!Init, Pool!Of
    <2>2. Cardinality(Pool!Of(waiting, e)) = 0
      BY <2>1, FS_EmptySet
    <2> QED BY <2>2 DEF Init, Sum, Left, Busy, NewSync, NoWork
  <1>7. CountOK
    BY <1>6, FS_EmptySet, TransferBounds DEF Init, Pool!Init, CountOK, InCall
  <1>8. Accounted
    <2> SUFFICES ASSUME NEW e \in Ends
                 PROVE  app[e] # "insert" /\ Load(e) <= pending_count[e]
      BY DEF Accounted
    <2>1. Pool!Of(waiting, e) = {}
      BY DEF Init, Pool!Init, Pool!Of
    <2>2. Cardinality(Pool!Of(waiting, e)) = 0
      BY <2>1, FS_EmptySet
    <2> QED BY <2>2 DEF Init, Load, Occupied, NoWork
  <1> QED BY <1>1, <1>2, <1>3, <1>4, <1>5, <1>7, <1>8 DEF IInv

-----------------------------------------------------------------------------
(* Steps.                                                                  *)

Core == GroupOutlivesTasks /\ HandOK /\ Current /\ Settled /\ CountOK /\ Accounted

\* A step that moves no calling thread into or out of the places that matter.
Placed ==
    /\ result' = result
    /\ \A e \in Ends :
         /\ app'[e] \in InCall => app[e] \in InCall
         /\ app'[e] \in {"start", "ready"} => app[e] \in {"start", "ready"}
         /\ app'[e] \in {"free", "cancel"} => app'[e] = app[e]
         /\ app'[e] = "insert" <=> app[e] = "insert"

\* A step that leaves the tasks, their executions and the counts alone, and
\* begins no call.
LEMMA CoreKept ==
    ASSUME TypeOK, TypeOK', Core, Placed, trouble \subseteq trouble',
           UNCHANGED <<waiting, hand, pending_count, work, freed, round, len>>,
           \A e \in Ends : sync'[e].completed_tasks = sync[e].completed_tasks
    PROVE  Core'
  <1>1. \A e \in Ends : /\ Pool!Of(waiting, e)' = Pool!Of(waiting, e)
                        /\ Busy(e)' = Busy(e) /\ Load(e)' = Load(e)
                        /\ NoContext(e) => NoContext(e)'
    BY DEF Pool!Of, Busy, Load, Occupied, NoContext
  <1>2. GroupOutlivesTasks' /\ Current'
    BY DEF Core, GroupOutlivesTasks, Current, Freed, RoundOf, NoContext
  <1>3. HandOK'
    BY DEF Core, HandOK, Pool!Of
  <1>4. Settled'
    BY <1>1 DEF Core, Settled, Empty, Placed
  <1>5. \A e \in Ends : Sum(e)' = Sum(e) /\ total_tasks(e)' = total_tasks(e)
    BY <1>1 DEF Sum, Left, total_tasks
  <1>6. CountOK'
    BY <1>5 DEF Core, CountOK, Placed
  <1>7. Accounted'
    BY <1>1, <1>5 DEF Core, Accounted, Placed
  <1> QED BY <1>2, <1>3, <1>4, <1>6, <1>7 DEF Core

\* os_transport_init, done or undone, keeps the invariant.
LEMMA OpenStep ==
    ASSUME IInv, NEW e \in Ends, Open(e)
    PROVE  IInv'
  <1> USE DEF Open, Note, appVars, poolVars, syncVars, netVars, ghosts
  <1>1. TypeOK'
    <2>1. trouble' \subseteq FaultKinds \X Ends
      BY DEF IInv, TypeOK, FaultKinds
    <2>2. g_inited' \in [Ends -> BOOLEAN] /\ app' \in [Ends -> AppPc]
      BY DEF IInv, TypeOK, AppPc
    <2> QED BY <2>1, <2>2 DEF IInv, TypeOK
  <1>3. /\ UNCHANGED <<waiting, hand, work, freed, round, len, sync>>
        /\ \A f \in Ends : app'[f] # app[f] => /\ app[f] = "start"
                                              /\ app'[f] \in {"ready", "closed"}
    BY DEF IInv, TypeOK
  <1>2. RoundsOK'
    <2>1. \A f \in Ends : app'[f] \in InCall => app'[f] = app[f]
      BY <1>3 DEF InCall
    <2>2. app'["recv"] \in {"insert", "posting"} => app'["recv"] = app["recv"]
      BY <2>1 DEF Ends, InCall
    <2> QED BY <1>3, <2>1, <2>2 DEF IInv, RoundsOK, Freed
  <1>4. Placed /\ trouble \subseteq trouble' /\ UNCHANGED pending_count
    BY <1>3 DEF Placed, InCall
  <1>5. Core'
    BY ONLY IInv, <1>1, <1>3, <1>4, CoreKept DEF IInv, Core
  <1> QED BY <1>1, <1>2, <1>5 DEF IInv, Core

\* A call that fails before any task exists keeps the invariant.
LEMMA CallFailsStep ==
    ASSUME IInv, NEW e \in Ends, CallFails(e)
    PROVE  IInv'
  <1> USE DEF CallFails, Note, appVars, poolVars, syncVars, netVars, ghosts
  <1>1. TypeOK'
    BY DEF IInv, TypeOK, AppPc, Ends, FaultKinds
  <1>2. RoundsOK'
    BY DEF IInv, RoundsOK, TypeOK, Freed, InCall, Ends
  <1>3. Core'
    BY <1>1, CoreKept DEF IInv, Core, TypeOK, InCall, Placed
  <1> QED BY <1>1, <1>2, <1>3 DEF IInv, Core

\* The caller enters wait_and_free_sync: no task changes.
LEMMA WaitStep ==
    ASSUME IInv, NEW e \in Ends, Wait(e)
    PROVE  IInv'
  <1> USE DEF Wait, appVars, poolVars, syncVars, netVars, ghosts
  <1>1. TypeOK'
    BY DEF IInv, TypeOK, AppPc, Ends, FaultKinds
  <1>2. RoundsOK'
    BY DEF IInv, RoundsOK, TypeOK, Freed, InCall, Ends
  <1>3. Core'
    BY <1>1, CoreKept DEF IInv, Core, TypeOK, InCall, Placed
  <1> QED BY <1>1, <1>2, <1>3 DEF IInv, Core

\* Posting receive buffers touches no task.
LEMMA PostRecvStep ==
    ASSUME IInv, PostRecv
    PROVE  IInv'
  <1> USE DEF PostRecv, AllPosted, appVars, poolVars, syncVars, netVars, ghosts
  <1>1. TypeOK'
    <2>1. rbuf + 1 \in 0 .. MaxChunks
      BY TransferBounds DEF IInv, TypeOK, RoundsOK, InCall, Ends
    <2>2. app' \in [Ends -> AppPc]
      BY DEF IInv, TypeOK, AppPc, Ends, FaultKinds
    <2> QED BY <2>1, <2>2 DEF IInv, TypeOK
  <1>2. RoundsOK'
    BY DEF IInv, RoundsOK, TypeOK, Freed, InCall, Ends
  <1>3. Core'
    BY <1>1, CoreKept DEF IInv, Core, TypeOK, InCall, Placed
  <1> QED BY <1>1, <1>2, <1>3 DEF IInv, Core

\* Asking the other end for the data touches no task.
LEMMA AskSenderStep ==
    ASSUME IInv, AskSender
    PROVE  IInv'
  <1> USE DEF AskSender, appVars, poolVars, syncVars, netVars, ghosts
  <1>1. TypeOK'
    BY DEF IInv, TypeOK, AppPc, Ends, FaultKinds
  <1>2. RoundsOK'
    BY DEF IInv, RoundsOK, TypeOK, Freed, InCall, Ends
  <1>3. Core'
    BY <1>1, CoreKept DEF IInv, Core, TypeOK, InCall, Placed
  <1> QED BY <1>1, <1>2, <1>3 DEF IInv, Core

SyncType == [request_completed : BOOLEAN, completed_tasks : 0 .. MaxChunks]

\* What a released sync object leaves is well typed.
LEMMA ReleasedType ==
    ASSUME NEW e \in Ends, NEW s \in [Ends -> SyncType]
    PROVE  [s EXCEPT ![e].request_completed = TRUE] \in [Ends -> SyncType]
  BY DEF SyncType

\* A post that is refused releases the waiting thread and touches no task.
LEMMA RefusedStep ==
    ASSUME IInv, PostRecvRefused \/ SendFirstRefused
    PROVE  IInv'
  <1> USE DEF PostRecvRefused, SendFirstRefused, Refused, Release, Note, appVars, poolVars, syncVars, netVars, ghosts
  <1>0. PICK e \in Ends : Refused(e)
    BY DEF Ends
  <1>1. TypeOK'
    <2>1. trouble' \subseteq FaultKinds \X Ends
      BY <1>0 DEF IInv, TypeOK, FaultKinds
    <2>2. app' \in [Ends -> AppPc]
      BY <1>0 DEF IInv, TypeOK, AppPc
    <2>3. sync' \in [Ends -> SyncType]
      BY <1>0, ReleasedType DEF IInv, TypeOK, SyncType
    <2> QED BY <1>0, <2>1, <2>2, <2>3 DEF IInv, TypeOK, SyncType
  <1>2. RoundsOK'
    BY DEF IInv, RoundsOK, TypeOK, Freed, InCall, Ends
  <1>3. \A f \in Ends : sync'[f].completed_tasks = sync[f].completed_tasks
    BY <1>0 DEF IInv, TypeOK
  <1>4. Placed /\ trouble \subseteq trouble'
    BY DEF IInv, TypeOK, InCall, Placed, Ends
  <1>5. Core'
    BY <1>0, <1>1, <1>3, <1>4, CoreKept DEF IInv, Core
  <1> QED BY <1>1, <1>2, <1>5 DEF IInv, Core

\* The first write of a split send is posted before any task runs.
LEMMA SendFirstStep ==
    ASSUME IInv, SendFirst
    PROVE  IInv'
  <1> USE DEF SendFirst, Write, FirstChunk, appVars, poolVars, syncVars, netVars, ghosts
  <1>1. TypeOK'
    <2>1. FirstChunk(round["send"]) \in Ids
      BY IdFacts, TransferBounds DEF IInv, RoundsOK, InCall, Ends
    <2>2. app' \in [Ends -> AppPc]
      BY DEF IInv, TypeOK, AppPc
    <2>3. wire' \in Seq(Ids) /\ sent' \subseteq Ids
      BY <2>1 DEF IInv, TypeOK
    <2> QED BY <2>2, <2>3 DEF IInv, TypeOK
  <1>2. RoundsOK'
    BY DEF IInv, RoundsOK, TypeOK, Freed, InCall, Ends
  <1>3. Core'
    BY <1>1, CoreKept DEF IInv, Core, TypeOK, InCall, Placed
  <1> QED BY <1>1, <1>2, <1>3 DEF IInv, Core

\* A completion record that wakes nobody changes no task.
LEMMA IgnoreStep ==
    ASSUME IInv, NEW e \in Ends, Ignore(e)
    PROVE  IInv'
  <1> USE DEF Ignore, Pool!Ignore, appVars, poolVars, syncVars, netVars, ghosts
  <1>1. TypeOK'
    BY DEF IInv, TypeOK, AppPc, Ends, FaultKinds
  <1>2. RoundsOK'
    BY DEF IInv, RoundsOK, TypeOK, Freed, InCall, Ends
  <1>3. Core'
    BY <1>1, CoreKept DEF IInv, Core, TypeOK, InCall, Placed
  <1> QED BY <1>1, <1>2, <1>3 DEF IInv, Core

\* A record added to those of one end.
LEMMA RecordAdded ==
    ASSUME crs \in [Ends -> Seq(Ids)], NEW e \in Ends, NEW id \in Ids
    PROVE  [crs EXCEPT ![e] = Append(@, id)] \in [Ends -> Seq(Ids)]
  <1>1. crs[e] \in Seq(Ids)
    OBVIOUS
  <1>2. Append(crs[e], id) \in Seq(Ids)
    BY <1>1, AppendProperties
  <1> QED BY <1>2, Zenon

\* A write that arrives adds records, and no task.
LEMMA DeliverStep ==
    ASSUME IInv, Deliver
    PROVE  IInv'
  <1> USE DEF Deliver, appVars, poolVars, syncVars, netVars, ghosts
  <1>1. TypeOK'
    <2>1. Head(wire) \in Ids /\ Tail(wire) \in Seq(Ids)
      BY DEF IInv, TypeOK
    <2>2. wire' \in Seq(Ids) /\ acks' \in Seq(Ids)
      BY <2>1 DEF IInv, TypeOK
    <2>3. crs' \in [Ends -> Seq(Ids)] /\ arrived' \subseteq Ids
      BY <2>1, RecordAdded DEF IInv, TypeOK, Ends
    <2> QED BY <2>2, <2>3 DEF IInv, TypeOK
  <1>2. RoundsOK'
    BY DEF IInv, RoundsOK, TypeOK, Freed, InCall, Ends
  <1>3. Core'
    BY <1>1, CoreKept DEF IInv, Core, TypeOK, InCall, Placed
  <1> QED BY <1>1, <1>2, <1>3 DEF IInv, Core

\* A write acknowledged at the sender adds a record, and no task.
LEMMA AcknowledgeStep ==
    ASSUME IInv, Acknowledge
    PROVE  IInv'
  <1> USE DEF Acknowledge, appVars, poolVars, syncVars, netVars, ghosts
  <1>1. TypeOK'
    <2>1. Head(acks) \in Ids /\ Tail(acks) \in Seq(Ids)
      BY DEF IInv, TypeOK
    <2>2. acks' \in Seq(Ids) /\ crs' \in [Ends -> Seq(Ids)]
      BY <2>1, RecordAdded DEF IInv, TypeOK, Ends
    <2> QED BY <2>2 DEF IInv, TypeOK
  <1>2. RoundsOK'
    BY DEF IInv, RoundsOK, TypeOK, Freed, InCall, Ends
  <1>3. Core'
    BY <1>1, CoreKept DEF IInv, Core, TypeOK, InCall, Placed
  <1> QED BY <1>1, <1>2, <1>3 DEF IInv, Core

\* A record lost takes no task with it.
LEMMA LoseStep ==
    ASSUME IInv, Lose
    PROVE  IInv'
  <1> USE DEF Lose, Note, appVars, poolVars, syncVars, netVars, ghosts
  <1>1. TypeOK'
    BY DEF IInv, TypeOK, AppPc, Ends, FaultKinds
  <1>2. RoundsOK'
    BY DEF IInv, RoundsOK, TypeOK, Freed, InCall, Ends
  <1>3. Core'
    BY <1>1, CoreKept DEF IInv, Core, TypeOK, InCall, Placed
  <1> QED BY <1>1, <1>2, <1>3 DEF IInv, Core

\* os_transport_wake_up_task releases tasks to the workers and makes none.
LEMMA WakeUpStep ==
    ASSUME IInv, NEW e \in Ends, WakeUp(e)
    PROVE  IInv'
  <1> USE DEF WakeUp, Spent, Pool!Notify, appVars, poolVars, syncVars, netVars, ghosts
  <1>1. TypeOK'
    BY DEF IInv, TypeOK, AppPc, Ends, FaultKinds
  <1>2. RoundsOK'
    BY DEF IInv, RoundsOK, TypeOK, Freed, InCall, Ends
  <1>3. Core'
    BY <1>1, CoreKept DEF IInv, Core, TypeOK, InCall, Placed
  <1> QED BY <1>1, <1>2, <1>3 DEF IInv, Core

\* os_transport_wake_up_task for a request without tasks makes none.
LEMMA WakeUpNoneStep ==
    ASSUME IInv, NEW e \in Ends, WakeUpNone(e)
    PROVE  IInv'
  <1> USE DEF WakeUpNone, Spent, appVars, poolVars, syncVars, netVars, ghosts
  <1>1. TypeOK'
    BY DEF IInv, TypeOK, AppPc, Ends, FaultKinds
  <1>2. RoundsOK'
    BY DEF IInv, RoundsOK, TypeOK, Freed, InCall, Ends
  <1>3. Core'
    BY <1>1, CoreKept DEF IInv, Core, TypeOK, InCall, Placed
  <1> QED BY <1>1, <1>2, <1>3 DEF IInv, Core

\* A record of an unknown opcode changes no task.
LEMMA WakeUpUnknownStep ==
    ASSUME IInv, NEW e \in Ends, WakeUpUnknown(e)
    PROVE  IInv'
  <1> USE DEF WakeUpUnknown, Note, Spent, appVars, poolVars, syncVars, netVars, ghosts
  <1>1. TypeOK'
    BY DEF IInv, TypeOK, AppPc, Ends, FaultKinds
  <1>2. RoundsOK'
    BY DEF IInv, RoundsOK, TypeOK, Freed, InCall, Ends
  <1>3. Core'
    BY <1>1, CoreKept DEF IInv, Core, TypeOK, InCall, Placed
  <1> QED BY <1>1, <1>2, <1>3 DEF IInv, Core

\* A step of a task function that neither begins, nor counts, nor ends a task.
LEMMA CoreOfWork ==
    ASSUME TypeOK, TypeOK', Core, trouble \subseteq trouble',
           UNCHANGED <<waiting, hand, pending_count, sync, freed, round, len, app, result>>,
           \A e \in Ends : /\ work'[e].pc \in {"none", "settle"} <=> work[e].pc \in {"none", "settle"}
                           /\ work'[e].pc = "none" <=> work[e].pc = "none"
                           /\ work'[e].pc \in {"begin", "mark"}
                                 <=> work[e].pc \in {"begin", "mark"}
    PROVE  Core'
  <1>1. \A e \in Ends : /\ Pool!Of(waiting, e)' = Pool!Of(waiting, e)
                        /\ Busy(e)' = Busy(e) /\ Load(e)' = Load(e)
                        /\ NoContext(e) => NoContext(e)'
    BY DEF Pool!Of, Busy, Load, Occupied, NoContext
  <1>2. \A t \in waiting \cup hand : t.req \in Ends
    BY DEF TypeOK
  <1>3. GroupOutlivesTasks' /\ Current'
    <2>1. ASSUME NEW t \in hand, Freed(t.req, RoundOf(t.id))', ~NoContext(t.req)
          PROVE  work'[t.req].pc \in {"tail", "event", "return"}
      <3>1. work[t.req].pc \in {"tail", "event", "return"}
        BY <2>1 DEF Core, GroupOutlivesTasks, Freed, RoundOf, NoContext
      <3>2. work'[t.req].pc \in {"none", "begin", "mark", "tail", "event", "return", "settle"}
        BY <1>2 DEF TypeOK
      <3>3. /\ work'[t.req].pc \in {"none", "settle"} <=> work[t.req].pc \in {"none", "settle"}
            /\ work'[t.req].pc \in {"begin", "mark"} <=> work[t.req].pc \in {"begin", "mark"}
        BY <1>2
      <3> QED BY <3>1, <3>2, <3>3
    <2> QED BY <1>1, <1>2, <2>1 DEF Core, GroupOutlivesTasks, Current, Freed, RoundOf, NoContext
  <1>4. HandOK'
    BY DEF Core, HandOK, Pool!Of
  <1>5. Settled'
    BY <1>1 DEF Core, Settled, Empty
  <1>6. CountOK'
    BY <1>1 DEF Core, CountOK, Sum, Left, total_tasks
  <1>7. Accounted'
    BY <1>1 DEF Core, Accounted, total_tasks
  <1> QED BY <1>3, <1>4, <1>5, <1>6, <1>7 DEF Core

\* RoundsOK does not depend on the tasks.
LEMMA RoundsKept ==
    ASSUME RoundsOK, UNCHANGED <<round, len, ctl, freed, rbuf, app>>
    PROVE  RoundsOK'
  BY DEF RoundsOK, Freed

WorkPc   == {"none", "begin", "mark", "tail", "event", "return", "settle"}
WorkType == [pc : WorkPc, ok : BOOLEAN]

\* A task function moves on to another place of its code.
LEMMA WorkMoves ==
    ASSUME work \in [Ends -> WorkType], NEW e \in Ends, NEW pc \in WorkPc,
           \/ work' = [work EXCEPT ![e].pc = pc]
           \/ work' = [work EXCEPT ![e] = [pc |-> pc, ok |-> FALSE]]
    PROVE  /\ work' \in [Ends -> WorkType]
           /\ work'[e].pc = pc
           /\ \A f \in Ends \ {e} : work'[f] = work[f]
  <1>1. CASE work' = [work EXCEPT ![e].pc = pc]
    BY <1>1 DEF WorkType
  <1>2. CASE work' = [work EXCEPT ![e] = [pc |-> pc, ok |-> FALSE]]
    <2>1. [pc |-> pc, ok |-> FALSE] \in WorkType
      BY DEF WorkType
    <2>2. work'[e] = [pc |-> pc, ok |-> FALSE]
      BY <1>2
    <2> QED BY <1>2, <2>1, <2>2
  <1> QED BY <1>1, <1>2

\* A task function posts a write, or issues a copy.
LEMMA WriteChunkStep ==
    ASSUME IInv, WriteChunk
    PROVE  IInv'
  <1> USE DEF WriteChunk, Write, Note, appVars, poolVars, syncVars, ghosts
  <1>1. "send" \in Ends /\ TaskOf("send").id \in Ids
    BY InHandFacts DEF IInv, Ends
  <1>0. work \in [Ends -> WorkType] /\ "mark" \in WorkPc
    BY DEF IInv, TypeOK, WorkType, WorkPc
  <1>2. /\ work' \in [Ends -> WorkType] /\ work'["send"].pc = "mark"
        /\ \A f \in Ends \ {"send"} : work'[f] = work[f]
    <2>1. \/ work' = [work EXCEPT !["send"].pc = "mark"]
          \/ work' = [work EXCEPT !["send"] = [pc |-> "mark", ok |-> FALSE]]
      OBVIOUS
    <2> QED BY <1>0, <1>1, <2>1, WorkMoves
  <1>3. wire' \in Seq(Ids) /\ sent' \subseteq Ids
    <2>1. wire \in Seq(Ids) /\ sent \subseteq Ids
      BY DEF IInv, TypeOK
    <2> QED BY <1>1, <2>1
  <1>4. trouble' \subseteq FaultKinds \X Ends /\ trouble \subseteq trouble'
    BY <1>1 DEF IInv, TypeOK, FaultKinds
  <1>5. TypeOK'
    BY <1>2, <1>3, <1>4 DEF IInv, TypeOK, WorkType, WorkPc
  <1>6. \A e \in Ends : /\ work'[e].pc \in {"none", "settle"} <=> work[e].pc \in {"none", "settle"}
                        /\ work'[e].pc = "none" <=> work[e].pc = "none"
                        /\ work'[e].pc \in {"begin", "mark"}
                              <=> work[e].pc \in {"begin", "mark"}
    BY <1>2
  <1>7. Core'
    BY <1>4, <1>5, <1>6, CoreOfWork DEF IInv, Core
  <1>8. RoundsOK'
    BY RoundsKept DEF IInv
  <1> QED BY <1>5, <1>7, <1>8 DEF IInv, Core

\* A receive task issues the copy of its chunk.
LEMMA CopyChunkStep ==
    ASSUME IInv, CopyChunk
    PROVE  IInv'
  <1> USE DEF CopyChunk, Note, appVars, poolVars, syncVars, netVars
  <1>1. "recv" \in Ends /\ TaskOf("recv").id \in Ids
    BY InHandFacts DEF IInv, Ends
  <1>0. work \in [Ends -> WorkType] /\ "mark" \in WorkPc
    BY DEF IInv, TypeOK, WorkType, WorkPc
  <1>2. /\ work' \in [Ends -> WorkType] /\ work'["recv"].pc = "mark"
        /\ \A f \in Ends \ {"recv"} : work'[f] = work[f]
    <2>1. \/ work' = [work EXCEPT !["recv"].pc = "mark"]
          \/ work' = [work EXCEPT !["recv"] = [pc |-> "mark", ok |-> FALSE]]
      OBVIOUS
    <2> QED BY <1>0, <1>1, <2>1, WorkMoves
  <1>3. copied' \subseteq Ids
    BY <1>1 DEF IInv, TypeOK
  <1>4. trouble' \subseteq FaultKinds \X Ends /\ trouble \subseteq trouble'
    BY <1>1 DEF IInv, TypeOK, FaultKinds
  <1>5. TypeOK'
    BY <1>2, <1>3, <1>4 DEF IInv, TypeOK, WorkType, WorkPc
  <1>6. \A e \in Ends : /\ work'[e].pc \in {"none", "settle"} <=> work[e].pc \in {"none", "settle"}
                        /\ work'[e].pc = "none" <=> work[e].pc = "none"
                        /\ work'[e].pc \in {"begin", "mark"}
                              <=> work[e].pc \in {"begin", "mark"}
    BY <1>2
  <1>7. Core'
    BY <1>4, <1>5, <1>6, CoreOfWork DEF IInv, Core
  <1>8. RoundsOK'
    BY RoundsKept DEF IInv
  <1> QED BY <1>5, <1>7, <1>8 DEF IInv, Core

\* The receiver's task function, after it was counted.
LEMMA TailStep ==
    ASSUME IInv, ReadLast \/ RecordEvent
    PROVE  IInv'
  <1> USE DEF ReadLast, RecordEvent, appVars, poolVars, syncVars, netVars, ghosts
  <1>1. "recv" \in Ends /\ work["recv"].pc \in {"tail", "event"}
    BY DEF Ends
  <1>2. RoundOf(TaskOf("recv").id) \in Rounds
    BY <1>1, InHandFacts, RoundOfIds DEF IInv
  <1>3. /\ work' = [work EXCEPT !["recv"].pc = work'["recv"].pc]
        /\ work'["recv"].pc \in {"event", "return"}
    BY <1>1 DEF IInv, TypeOK
  <1>4. work' \in [Ends -> WorkType]
    <2>1. work \in [Ends -> WorkType] /\ work'["recv"].pc \in WorkPc
      BY <1>3 DEF IInv, TypeOK, WorkType, WorkPc
    <2> QED BY <1>1, <1>3, <2>1 DEF WorkType
  <1>5. event' \subseteq Rounds
    BY <1>2 DEF IInv, TypeOK
  <1>6. TypeOK'
    BY <1>4, <1>5 DEF IInv, TypeOK, WorkType, WorkPc
  <1>7. \A e \in Ends : /\ work'[e].pc \in {"none", "settle"} <=> work[e].pc \in {"none", "settle"}
                        /\ work'[e].pc = "none" <=> work[e].pc = "none"
                        /\ work'[e].pc \in {"begin", "mark"}
                              <=> work[e].pc \in {"begin", "mark"}
    BY <1>1, <1>3 DEF IInv, TypeOK
  <1>8. Core'
    BY <1>6, <1>7, CoreOfWork DEF IInv, Core
  <1>9. RoundsOK'
    BY RoundsKept DEF IInv
  <1> QED BY <1>6, <1>8, <1>9 DEF IInv, Core

\* mark_task_group_completed counts the task in hand, so the sum stays.
LEMMA MarkStep ==
    ASSUME IInv, NEW e \in Ends, Mark(e)
    PROVE  IInv'
  <1> USE DEF appVars, poolVars, netVars, ghosts
  <1>0. work[e].pc = "mark" /\ UNCHANGED <<waiting, slot, hand, pending_count, freed>>
    BY DEF Mark, poolVars
  <1>1. /\ work \in [Ends -> WorkType]
        /\ work' \in [Ends -> WorkType] /\ work'[e].pc \in {"tail", "return"}
        /\ \A f \in Ends \ {e} : work'[f] = work[f]
    <2>1. work \in [Ends -> WorkType]
      BY DEF IInv, TypeOK, WorkType, WorkPc
    <2>2. PICK pc \in {"tail", "return"} : work' = [work EXCEPT ![e].pc = pc]
      BY DEF Mark
    <2> QED BY <2>1, <2>2, WorkMoves DEF WorkPc
  <1>2. Sum(e) <= MaxChunks /\ Left(e) \in Nat /\ Left(e) >= 1
    BY <1>0, LeftNat, FS_CardinalityType DEF IInv, CountOK, Left, Busy
  <1>3. sync[e].completed_tasks \in Nat /\ sync[e].completed_tasks + 1 <= MaxChunks
    BY <1>2, TransferBounds DEF IInv, TypeOK, Sum
  <1>4. /\ sync' \in [Ends -> SyncType]
        /\ sync'[e].completed_tasks <= sync[e].completed_tasks + 1
        /\ \A f \in Ends \ {e} : sync'[f] = sync[f]
    <2>1. sync \in [Ends -> SyncType] /\ total_tasks(e) = total_tasks(e)
      BY DEF IInv, TypeOK, SyncType
    <2>2. Marked(e, work[e].ok) \in SyncType
      <3>1. sync[e].completed_tasks + 1 \in 0 .. MaxChunks /\ sync[e] \in SyncType
        BY <1>3, <2>1, TransferBounds
      <3>2. sync[e].request_completed \in BOOLEAN
        BY <3>1 DEF SyncType
      <3>3. [sync[e] EXCEPT !.request_completed = TRUE] \in SyncType
        BY <3>1 DEF SyncType
      <3>4. \A b \in BOOLEAN : [completed_tasks |-> sync[e].completed_tasks + 1,
                                request_completed |-> b] \in SyncType
        BY <3>1 DEF SyncType
      <3> QED BY <3>2, <3>3, <3>4 DEF Marked
    <2>3. Marked(e, work[e].ok).completed_tasks <= sync[e].completed_tasks + 1
      BY <1>3, <2>1 DEF Marked, SyncType
    <2>4. sync' = [sync EXCEPT ![e] = Marked(e, work[e].ok)] \/ sync' = sync
      BY DEF Mark
    <2> QED BY <1>3, <2>1, <2>2, <2>3, <2>4
  <1>5. TypeOK'
    BY <1>1, <1>4 DEF Mark, IInv, TypeOK, SyncType, WorkType, WorkPc
  <1>6. RoundsOK'
    BY <1>0, RoundsKept DEF Mark, IInv
  <1>7. \A f \in Ends : Pool!Of(waiting, f)' = Pool!Of(waiting, f)
    BY <1>0 DEF Pool!Of
  <1>8. Busy(e) = 1 /\ Busy(e)' = 0 /\ \A f \in Ends \ {e} : Busy(f)' = Busy(f)
    BY <1>0, <1>1 DEF Busy
  <1>9. \A f \in Ends : Sum(f)' <= Sum(f) /\ Sum(f) \in Int /\ Sum(f)' \in Int
    <2>1. \A f \in Ends : Cardinality(Pool!Of(waiting, f)) \in Nat
      BY LeftNat DEF IInv, CountOK
    <2>2. \A f \in Ends : sync[f].completed_tasks \in Int /\ sync'[f].completed_tasks \in Int
      <3>1. sync \in [Ends -> SyncType]
        BY DEF IInv, TypeOK, SyncType
      <3> QED BY <1>4, <3>1 DEF SyncType
    <2> QED BY <1>4, <1>7, <1>8, <2>1, <2>2 DEF Sum, Left, Busy
  <1>10. CountOK'
    <2>1. \A f \in Ends : app[f] \in InCall => total_tasks(f)' = total_tasks(f) /\ total_tasks(f) \in Int
      BY DEF Mark, total_tasks, IInv, TypeOK, RoundsOK
    <2>2. MaxChunks \in Int /\ app' = app
      BY TransferBounds DEF Mark
    <2> QED BY <1>0, <1>9, <2>1, <2>2 DEF IInv, CountOK
  <1>11. HandOK'
    BY <1>0, <1>1 DEF IInv, HandOK, Pool!Of
  <1>12. \A t \in waiting \cup hand : t.req \in Ends
    BY DEF IInv, TypeOK
  <1>13. GroupOutlivesTasks'
    BY <1>0, <1>1, <1>12 DEF Mark, IInv, GroupOutlivesTasks, Freed, RoundOf, NoContext
  <1>14. Current'
    BY <1>0, <1>1, <1>12 DEF Mark, IInv, Current, Freed, RoundOf, NoContext
  <1>15. Settled'
    BY <1>7, <1>8 DEF Mark, IInv, Settled, Empty, NoContext
  <1>16. Accounted'
    <2>1. \A f \in Ends : Load(f)' = Load(f)
      BY <1>0, <1>1, <1>7 DEF Load, Occupied
    <2> QED BY <2>1 DEF Mark, IInv, Accounted, total_tasks, NoContext
  <1> QED BY <1>5, <1>6, <1>10, <1>11, <1>13, <1>14, <1>15, <1>16 DEF IInv

\* A worker takes the first task: one less is queued, one more is in hand.
LEMMA BeginStep ==
    ASSUME IInv, NEW e \in Ends, Begin(e)
    PROVE  IInv'
  <1> USE DEF appVars, syncVars, netVars, ghosts
  <1>0. PICK t \in waiting : /\ t.req = e /\ waiting' = waiting \ {t}
                             /\ hand' = hand \cup {t} /\ slot' \subseteq slot
                             /\ Pool!Of(hand, e) = {}
    BY DEF Begin, Pool!First, Pool!Take, Pool!Of, Pool!Resting
  <1>1. /\ work[e].pc = "none" /\ work'[e].pc = "begin"
        /\ work' = [work EXCEPT ![e] = [pc |-> "begin", ok |-> TRUE]]
        /\ \A f \in Ends \ {e} : work'[f] = work[f]
    BY <1>0 DEF Begin, Occupied, IInv, TypeOK
  <1>2. TypeOK'
    <2>1. waiting' \cup hand' \subseteq [id : Ids, req : Ends] /\ slot' \subseteq Ends
      BY <1>0 DEF IInv, TypeOK
    <2>2. work' \in [Ends -> WorkType]
      BY <1>1 DEF IInv, TypeOK, WorkType, WorkPc
    <2> QED BY <2>1, <2>2 DEF Begin, IInv, TypeOK, WorkType, WorkPc
  <1>3. RoundsOK'
    BY RoundsKept DEF Begin, IInv
  <1>4. /\ Pool!Of(waiting, e)' = Pool!Of(waiting, e) \ {t} /\ t \in Pool!Of(waiting, e)
        /\ \A f \in Ends \ {e} : Pool!Of(waiting, f)' = Pool!Of(waiting, f)
    BY <1>0 DEF Pool!Of
  <1>5. \A f \in Ends : Left(f)' = Left(f)
    <2>1. IsFiniteSet(Pool!Of(waiting, e)) /\ Cardinality(Pool!Of(waiting, e)) \in Nat
      BY LeftNat DEF IInv, CountOK
    <2>2. Cardinality(Pool!Of(waiting, e) \ {t}) = Cardinality(Pool!Of(waiting, e)) - 1
      BY <1>4, <2>1, FS_RemoveElement
    <2>3. Busy(e) = 0 /\ Busy(e)' = 1 /\ \A f \in Ends \ {e} : Busy(f)' = Busy(f)
      BY <1>1 DEF Busy
    <2> QED BY <1>4, <2>1, <2>2, <2>3 DEF Left
  <1>6. CountOK'
    <2>1. IsFiniteSet(waiting')
      BY <1>0, FS_RemoveElement DEF IInv, CountOK
    <2>2. \A f \in Ends : Sum(f)' = Sum(f) /\ total_tasks(f)' = total_tasks(f)
      BY <1>5 DEF Begin, Sum, total_tasks
    <2> QED BY <2>1, <2>2 DEF Begin, IInv, CountOK
  <1>7. HandOK'
    <2>1. \A f \in Ends \ {e} : Pool!Of(hand, f)' = Pool!Of(hand, f)
      BY <1>0 DEF Pool!Of
    <2>2. t \in Pool!Of(hand, e)' /\ \A u \in hand : u.req # e
      BY <1>0 DEF Pool!Of
    <2>3. \A f \in Ends : (work'[f].pc \in {"none", "settle"}) <=> (Pool!Of(hand, f)' = {})
      BY <1>1, <2>1, <2>2 DEF IInv, HandOK
    <2>4. \A u, v \in hand' : u.req = v.req => u = v
      BY <1>0, <2>2 DEF IInv, HandOK
    <2> QED BY <2>3, <2>4 DEF HandOK
  <1>8. \A u \in hand : u.req \in Ends \ {e}
    BY <1>0 DEF IInv, TypeOK, Pool!Of
  <1>9. (~Freed(e, RoundOf(t.id)) \/ NoContext(e)) /\ RoundOf(t.id) = round[e]
    BY <1>0 DEF IInv, GroupOutlivesTasks, Current
  <1>10. GroupOutlivesTasks'
    BY <1>0, <1>1, <1>8, <1>9 DEF Begin, IInv, GroupOutlivesTasks, Freed, RoundOf, NoContext
  <1>11. Current'
    BY <1>0, <1>1, <1>8, <1>9 DEF Begin, IInv, Current, Freed, RoundOf, NoContext
  <1>12. Settled'
    <2>1. ~Empty(e)
      BY <1>4 DEF Empty
    <2>2. \A f \in Ends \ {e} : Empty(f)' <=> Empty(f)
      BY <1>1, <1>4 DEF Empty, Busy
    <2> QED BY <2>1, <2>2 DEF Begin, IInv, Settled, NoContext
  <1>13. Accounted'
    <2>1. IsFiniteSet(Pool!Of(waiting, e)) /\ Cardinality(Pool!Of(waiting, e)) \in Nat
      BY LeftNat DEF IInv, CountOK
    <2>2. Cardinality(Pool!Of(waiting, e) \ {t}) = Cardinality(Pool!Of(waiting, e)) - 1
      BY <1>4, <2>1, FS_RemoveElement
    <2>3. ~Occupied(e) /\ Occupied(e)' /\ \A f \in Ends \ {e} : Occupied(f)' <=> Occupied(f)
      BY <1>1 DEF Occupied
    <2>4. \A f \in Ends : Load(f)' = Load(f)
      BY <1>4, <2>1, <2>2, <2>3 DEF Load
    <2> QED BY <2>4 DEF Begin, IInv, Accounted, total_tasks, NoContext
  <1> QED BY <1>2, <1>3, <1>6, <1>7, <1>10, <1>11, <1>12, <1>13 DEF IInv

\* A task function that returns leaves no task in hand.
LEMMA ReturnStep ==
    ASSUME IInv, NEW e \in Ends, Return(e)
    PROVE  IInv'
  <1> USE DEF appVars, syncVars, netVars, ghosts
  <1>a. work \in [Ends -> WorkType] /\ "settle" \in WorkPc
    BY DEF IInv, TypeOK, WorkType, WorkPc
  <1>0. /\ work[e].pc = "return" /\ work'[e].pc = "settle"
        /\ work' \in [Ends -> WorkType]
        /\ \A f \in Ends \ {e} : work'[f] = work[f]
    BY <1>a, WorkMoves DEF Return
  <1>1. /\ TaskOf(e) \in hand /\ TaskOf(e).req = e
        /\ \A t \in hand : t.req = e => t = TaskOf(e)
    BY <1>0, InHandFacts DEF IInv
  <1>2. hand' = hand \ {TaskOf(e)} /\ UNCHANGED <<waiting, slot>>
    BY DEF Return, Pool!Return
  <1>3. TypeOK'
    <2>1. waiting' \cup hand' \subseteq [id : Ids, req : Ends]
      BY <1>2 DEF IInv, TypeOK
    <2> QED BY <1>0, <1>2, <2>1 DEF Return, IInv, TypeOK, WorkType, WorkPc
  <1>4. RoundsOK'
    BY RoundsKept DEF Return, IInv
  <1>5. \A f \in Ends : Pool!Of(waiting, f)' = Pool!Of(waiting, f) /\ Busy(f)' = Busy(f)
    BY <1>0, <1>2 DEF Pool!Of, Busy
  <1>6. Settled'
    BY <1>5 DEF Return, IInv, Settled, Empty, NoContext
  <1>7. CountOK'
    BY <1>2, <1>5 DEF Return, IInv, CountOK, Sum, Left, total_tasks
  <1>8. HandOK'
    <2>1. Pool!Of(hand, e)' = {}
      BY <1>1, <1>2 DEF Pool!Of
    <2>2. \A f \in Ends \ {e} : Pool!Of(hand, f)' = Pool!Of(hand, f)
      BY <1>1, <1>2 DEF Pool!Of
    <2>3. \A f \in Ends : (work'[f].pc \in {"none", "settle"}) <=> (Pool!Of(hand, f)' = {})
      BY <1>0, <2>1, <2>2 DEF IInv, HandOK
    <2>4. \A u, v \in hand' : u.req = v.req => u = v
      BY <1>2 DEF IInv, HandOK
    <2> QED BY <2>3, <2>4 DEF HandOK
  <1>9. /\ \A u \in hand' : u \in hand /\ u.req \in Ends \ {e}
        /\ \A u \in waiting : u.req \in Ends
    BY <1>1, <1>2 DEF IInv, TypeOK
  <1>10. GroupOutlivesTasks'
    BY <1>0, <1>2, <1>9 DEF Return, IInv, GroupOutlivesTasks, Freed, RoundOf, NoContext
  <1>11. Current'
    BY <1>0, <1>2, <1>9 DEF Return, IInv, Current, Freed, RoundOf, NoContext
  <1>12. Accounted'
    <2>1. \A f \in Ends : Load(f)' = Load(f)
      BY <1>0, <1>5 DEF Load, Occupied
    <2> QED BY <2>1 DEF Return, IInv, Accounted, total_tasks, NoContext
  <1> QED BY <1>3, <1>4, <1>6, <1>7, <1>8, <1>10, <1>11, <1>12 DEF IInv

\* Settling a task leaves the others alone, and its context counts one less.
LEMMA SettleStep ==
    ASSUME IInv, NEW e \in Ends, Settle(e)
    PROVE  IInv'
  <1> USE DEF appVars, syncVars, netVars, ghosts
  <1>0. /\ work[e].pc = "settle" /\ work'[e].pc = "none"
        /\ work' \in [Ends -> WorkType]
        /\ \A f \in Ends \ {e} : work'[f] = work[f]
        /\ UNCHANGED <<waiting, slot, hand, app, round, len, sync, freed, result, trouble>>
    BY DEF Settle, NoWork, IInv, TypeOK, WorkType, WorkPc
  <1>1. /\ \A f \in Ends \ {e} : pending_count'[f] = pending_count[f]
        /\ pending_count' \in [Ends -> Nat]
        /\ pending_count[e] # 0 => pending_count'[e] = pending_count[e] - 1
        /\ pending_count[e] = 0 => pending_count'[e] = 0
        /\ pending_count[e] \in Nat
    BY DEF Settle, Known, IInv, TypeOK
  <1>2. TypeOK'
    BY <1>0, <1>1 DEF Settle, IInv, TypeOK, WorkType, WorkPc
  <1>3. RoundsOK'
    BY RoundsKept DEF Settle, IInv
  <1>4. \A f \in Ends : Pool!Of(waiting, f)' = Pool!Of(waiting, f) /\ Busy(f)' = Busy(f)
    BY <1>0 DEF Pool!Of, Busy
  <1>5. Settled'
    BY <1>0, <1>4 DEF IInv, Settled, Empty, NoContext
  <1>6. CountOK'
    BY <1>0, <1>4 DEF IInv, CountOK, Sum, Left, total_tasks
  <1>7. HandOK'
    <2>1. \A f \in Ends : Pool!Of(hand, f)' = Pool!Of(hand, f)
      BY <1>0 DEF Pool!Of
    <2> QED BY <1>0, <2>1 DEF IInv, HandOK
  <1>8. \A t \in hand : t.req \in Ends \ {e}
    BY <1>0 DEF IInv, TypeOK, HandOK, Pool!Of
  <1>9. GroupOutlivesTasks'
    BY <1>0, <1>8 DEF IInv, GroupOutlivesTasks, Freed, RoundOf, NoContext
  <1>10. Current'
    BY <1>0, <1>8 DEF IInv, Current, Freed, RoundOf, NoContext
  <1>11. Accounted'
    <2>1. \A f \in Ends \ {e} : Load(f)' = Load(f)
      BY <1>0, <1>4 DEF Load, Occupied
    <2>2. Load(e)' = Load(e) - 1 /\ Load(e) \in Nat /\ Load(e) >= 1
      <3>1. Occupied(e) /\ ~Occupied(e)'
        BY <1>0 DEF Occupied
      <3>2. Cardinality(Pool!Of(waiting, e)) \in Nat
        BY LeftNat DEF IInv, CountOK
      <3> QED BY <1>4, <3>1, <3>2 DEF Load
    <2>3. app[e] = "insert" => total_tasks(e) \in Int /\ total_tasks(e)' = total_tasks(e)
      BY <1>0, TransferBounds DEF total_tasks, IInv, RoundsOK, InCall, TypeOK
    <2>4. \A f \in Ends \ {e} : total_tasks(f)' = total_tasks(f)
      BY <1>0 DEF total_tasks
    <2>5. \/ app[e] = "insert" /\ Load(e) <= total_tasks(e)
          \/ app[e] # "insert" /\ Load(e) <= pending_count[e]
          \/ app[e] # "insert" /\ pending_count[e] = 0 /\ NoContext(e)
      BY DEF IInv, Accounted
    <2>6. \/ app[e] = "insert" /\ Load(e)' <= total_tasks(e)'
          \/ app[e] # "insert" /\ Load(e)' <= pending_count'[e]
          \/ app[e] # "insert" /\ pending_count'[e] = 0 /\ NoContext(e)
      <3>1. CASE app[e] = "insert"
        BY <2>2, <2>3, <2>5, <3>1
      <3>2. CASE app[e] # "insert"
        BY <1>1, <2>2, <2>5, <3>2
      <3> QED BY <3>1, <3>2
    <2> QED BY <1>0, <1>1, <2>1, <2>4, <2>6 DEF IInv, Accounted, NoContext
  <1> QED BY <1>2, <1>3, <1>5, <1>6, <1>7, <1>9, <1>10, <1>11 DEF IInv

\* A call submits its tasks: they are new, of the new transfer, and no more
\* than it counts.
LEMMA RegisterStep ==
    ASSUME IInv, NEW e \in Ends, NEW r \in Rounds, Register(e, r),
           app[e] = "ready", r > round[e], UNCHANGED <<work, freed>>,
           UNCHANGED trouble,
           len' \in [Rounds -> 0 .. MaxChunks], len'[r] \in 1 .. MaxChunks,
           \A f \in Ends \ {e} : round[f] \in Rounds => len'[round[f]] = len[round[f]]
    PROVE  /\ Core'
           /\ waiting' \cup hand' \subseteq [id : Ids, req : Ends] /\ slot' \subseteq Ends
           /\ sync' \in [Ends -> SyncType]
           /\ result' \in [Ends -> {"none", "ok", "failed"}]
           /\ round' \in [Ends -> 0 .. MaxRounds]
           /\ app' \in [Ends -> AppPc]
  <1> DEFINE new == TasksOf(e, r)
  <1>0. /\ waiting' = waiting \cup new /\ UNCHANGED <<slot, hand, work, freed>>
        /\ round' = [round EXCEPT ![e] = r]
        /\ sync' = [sync EXCEPT ![e] = NewSync]
        /\ result' = [result EXCEPT ![e] = "none"]
        /\ app' = [app EXCEPT ![e] = "insert"] /\ UNCHANGED pending_count
        /\ work[e].pc = "none"
    BY DEF Register, Pool!Accept, Occupied
  <1>1. /\ new \subseteq [id : Ids, req : Ends]
        /\ \A t \in new : t.req = e /\ RoundOf(t.id) = r
        /\ IsFiniteSet(new) /\ Cardinality(new) \in Nat
        /\ Cardinality(new) <= len'[r]
        /\ e = "send" => Cardinality(new) <= len'[r] - 1
    BY TasksFacts
  <1>2. /\ waiting' \cup hand' \subseteq [id : Ids, req : Ends] /\ slot' \subseteq Ends
        /\ sync' \in [Ends -> SyncType]
        /\ result' \in [Ends -> {"none", "ok", "failed"}]
        /\ round' \in [Ends -> 0 .. MaxRounds]
        /\ app' \in [Ends -> AppPc]
    <2>1. NewSync \in SyncType
      BY TransferBounds DEF NewSync, SyncType
    <2>2. r \in 0 .. MaxRounds /\ "insert" \in AppPc
      BY DEF Rounds, AppPc
    <2> QED BY <1>0, <1>1, <2>1, <2>2 DEF IInv, TypeOK, SyncType
  <1>3. Pool!Of(waiting, e) = {} /\ Busy(e) = 0
    BY DEF IInv, Settled, Empty
  <1>4. /\ Pool!Of(waiting, e)' = new
        /\ \A f \in Ends \ {e} : Pool!Of(waiting, f)' = Pool!Of(waiting, f)
    BY <1>0, <1>1, <1>3 DEF Pool!Of
  <1>5. \A f \in Ends : Busy(f)' = Busy(f)
    BY <1>0 DEF Busy
  <1>6. \A f \in Ends \ {e} : /\ app'[f] = app[f] /\ round'[f] = round[f]
                              /\ sync'[f] = sync[f] /\ result'[f] = result[f]
    BY <1>0 DEF IInv, TypeOK
  <1>7. /\ round'[e] = r /\ sync'[e].completed_tasks = 0 /\ app'[e] = "insert"
    BY <1>0 DEF IInv, TypeOK, NewSync
  <1>8. CountOK'
    <2>1. IsFiniteSet(waiting')
      BY <1>0, <1>1, FS_Union DEF IInv, CountOK
    <2>2. Sum(e)' = Cardinality(new)
      BY <1>1, <1>3, <1>4, <1>5, <1>7 DEF Sum, Left
    <2>3. Sum(e)' <= MaxChunks /\ Sum(e)' <= total_tasks(e)'
      BY <1>1, <1>7, <2>2, TransferBounds DEF total_tasks
    <2>4. \A f \in Ends \ {e} : Sum(f)' = Sum(f)
      BY <1>4, <1>5, <1>6 DEF Sum, Left
    <2>5. \A f \in Ends \ {e} : app[f] \in InCall => total_tasks(f)' = total_tasks(f)
      BY <1>6 DEF total_tasks, IInv, RoundsOK
    <2> QED BY <1>6, <2>1, <2>3, <2>4, <2>5 DEF IInv, CountOK
  <1>9. HandOK'
    BY <1>0 DEF IInv, HandOK, Pool!Of
  <1>10. \A t \in waiting : t.req \in Ends \ {e}
    BY <1>3 DEF IInv, TypeOK, Pool!Of
  <1>11. \A t \in hand : work[t.req].pc \in {"begin", "mark"} => t.req \in Ends \ {e}
    BY <1>3 DEF IInv, TypeOK, Busy
  <1>12. ~Freed(e, r)
    BY DEF IInv, RoundsOK, TypeOK, Rounds
  <1>13. GroupOutlivesTasks'
    BY <1>0, <1>1, <1>12 DEF IInv, GroupOutlivesTasks, Freed, RoundOf, NoContext
  <1>14. Current'
    BY <1>0, <1>1, <1>6, <1>7, <1>10, <1>11 DEF IInv, Current, Freed, RoundOf, NoContext
  <1>15. Settled'
    <2>1. \A f \in Ends \ {e} : Empty(f)' <=> Empty(f)
      BY <1>4, <1>5 DEF Empty
    <2> QED BY <1>6, <1>7, <2>1 DEF IInv, Settled, NoContext
  <1>16. Accounted'
    <2>1. Load(e)' = Cardinality(new)
      <3>1. ~Occupied(e)'
        BY <1>0 DEF Occupied
      <3>2. Load(e)' = Cardinality(new) + 0
        BY <1>4, <3>1 DEF Load
      <3> QED BY <1>1, <3>2
    <2>2. Load(e)' <= total_tasks(e)'
      BY <1>1, <1>7, <2>1, TransferBounds DEF total_tasks
    <2>3. \A f \in Ends \ {e} : Load(f)' = Load(f)
      BY <1>0, <1>4 DEF Load, Occupied
    <2>4. \A f \in Ends \ {e} : app[f] \in InCall => total_tasks(f)' = total_tasks(f)
      BY <1>6 DEF total_tasks, IInv, RoundsOK
    <2>5. \A f \in Ends : app[f] = "insert" => app[f] \in InCall
      BY DEF InCall
    <2>6. ASSUME NEW f \in Ends \ {e}
          PROVE  /\ app'[f] = "insert" => Load(f)' <= total_tasks(f)'
                 /\ app'[f] # "insert" => \/ Load(f)' <= pending_count'[f]
                                          \/ pending_count'[f] = 0 /\ NoContext(f)'
      <3>1. NoContext(f)' = NoContext(f) /\ pending_count'[f] = pending_count[f]
        BY <1>0 DEF NoContext
      <3> QED BY <1>6, <2>3, <2>4, <2>5, <3>1 DEF IInv, Accounted
    <2> QED BY <1>7, <2>2, <2>6 DEF Accounted
  <1> QED BY <1>2, <1>8, <1>9, <1>13, <1>14, <1>15, <1>16 DEF Core

\* The part of TypeOK that no call of os_transport_recv or _send touches.
RestOK ==
    /\ g_inited \in [Ends -> BOOLEAN] /\ ctl \in 0 .. MaxRounds
    /\ freed \subseteq Ends \X Rounds /\ event \subseteq Rounds
    /\ pending_count \in [Ends -> Nat] /\ work \in [Ends -> WorkType]
    /\ wire \in Seq(Ids) /\ acks \in Seq(Ids) /\ crs \in [Ends -> Seq(Ids)]
    /\ sent \subseteq Ids /\ arrived \subseteq Ids /\ copied \subseteq Ids
    /\ overwritten \in [Ends -> BOOLEAN]
    /\ trouble \subseteq FaultKinds \X Ends

\* os_transport_recv hands the pool no more tasks than the sync object counts.
LEMMA RecvCallStep ==
    ASSUME IInv, RecvCall
    PROVE  IInv'
  <1> DEFINE r == round["recv"] + 1
  <1>0. PICK n \in 1 .. MaxChunks : len' = [len EXCEPT ![r] = n]
    BY DEF RecvCall
  <1>1. /\ "recv" \in Ends /\ "send" \in Ends /\ r \in Rounds /\ r > round["recv"]
        /\ round["send"] < r /\ round["recv"] \in Nat
    <2>1. /\ round["recv"] \in Nat /\ round["send"] \in Nat /\ ctl \in Nat
          /\ round["send"] <= round["recv"]
      BY TransferBounds DEF IInv, TypeOK, RoundsOK, Ends
    <2>2. round["recv"] < MaxRounds
      BY DEF RecvCall
    <2> QED BY <2>1, <2>2, TransferBounds DEF Rounds, Ends
  <1>2. len' \in [Rounds -> 0 .. MaxChunks] /\ len'[r] \in 1 .. MaxChunks /\ len'[r] = n
    BY <1>0, <1>1, TransferBounds DEF IInv, TypeOK
  <1>3. len'[round["send"]] = len[round["send"]] \/ round["send"] \notin Rounds
    BY <1>0, <1>1 DEF IInv, TypeOK
  <1>4. /\ Register("recv", r) /\ app["recv"] = "ready" /\ rbuf' = 0
        /\ app' = [app EXCEPT !["recv"] = "insert"]
        /\ UNCHANGED <<pending_count, g_inited, ctl, freed, work, wire, acks, crs, sent, arrived,
                       copied, event, overwritten, trouble>>
    BY DEF RecvCall, Register, netVars, ghosts
  <1>5. \A f \in Ends \ {"recv"} : round[f] \in Rounds => len'[round[f]] = len[round[f]]
    BY <1>3 DEF Ends
  <1>7. /\ Core'
        /\ waiting' \cup hand' \subseteq [id : Ids, req : Ends] /\ slot' \subseteq Ends
        /\ sync' \in [Ends -> SyncType]
        /\ result' \in [Ends -> {"none", "ok", "failed"}]
        /\ round' \in [Ends -> 0 .. MaxRounds] /\ app' \in [Ends -> AppPc]
    BY <1>1, <1>2, <1>4, <1>5, RegisterStep
  <1>8. TypeOK'
    <2>1. rbuf' \in 0 .. MaxChunks
      BY <1>4, TransferBounds
    <2>2. RestOK'
      BY <1>4 DEF IInv, TypeOK, RestOK, WorkType, WorkPc
    <2> QED BY <1>2, <1>7, <2>1, <2>2 DEF TypeOK, RestOK, SyncType, WorkType, WorkPc
  <1>9. RoundsOK'
    <2>1. round' = [round EXCEPT !["recv"] = r]
      BY <1>4 DEF Register
    <2>2. /\ round'["recv"] = r /\ round'["send"] = round["send"]
          /\ app'["send"] = app["send"] /\ app'["recv"] = "insert"
      BY <1>1, <1>4, <2>1 DEF IInv, TypeOK, Ends
    <2>3. \A q \in Rounds : Freed("recv", q) => q < r
      <3>1. \A q \in Rounds : Freed("recv", q) => q <= round["recv"]
        BY <1>1 DEF IInv, RoundsOK
      <3>2. \A q \in Rounds : q \in Int
        BY DEF Rounds
      <3> QED BY <1>1, <3>1, <3>2
    <2>4. round'["send"] <= ctl' /\ ctl' <= round'["recv"]
      BY <1>1, <1>4, <2>2 DEF IInv, RoundsOK, TypeOK
    <2>5. \A e \in Ends : app'[e] \in InCall => round'[e] \in Rounds /\ len'[round'[e]] >= 1
      BY <1>1, <1>2, <1>3, <2>2 DEF IInv, RoundsOK, Ends
    <2>6. \A e \in Ends, q \in Rounds : Freed(e, q)' => q <= round'[e]
      <3>1. \A q \in Rounds : Freed("send", q) => q <= round["send"]
        BY <1>1 DEF IInv, RoundsOK
      <3>2. \A e \in Ends, q \in Rounds : Freed(e, q)' <=> Freed(e, q)
        BY <1>4 DEF Freed
      <3>3. \A q \in Rounds : q \in Int
        BY DEF Rounds
      <3>4. \A q \in Rounds : Freed("recv", q) => q <= r
        BY <1>1, <2>3, <3>3
      <3> QED BY <2>2, <3>1, <3>2, <3>4 DEF Ends
    <2>7. \A e \in Ends : app'[e] \in InCall => ~Freed(e, round[e])'
      BY <1>1, <1>4, <2>2, <2>3 DEF IInv, RoundsOK, Ends, Freed, Rounds
    <2>8. rbuf' < len'[round'["recv"]]
      BY <1>2, <1>4, <2>2
    <2> QED BY <2>4, <2>5, <2>6, <2>7, <2>8 DEF RoundsOK
  <1> QED BY <1>7, <1>8, <1>9 DEF IInv, Core

\* os_transport_send of several chunks hands the pool one task per write after the first.
LEMMA SendCallStep ==
    ASSUME IInv, SendCall
    PROVE  IInv'
  <1>0. PICK r \in Rounds : /\ Asked(r) /\ len[r] > 1 /\ len' = len
                            /\ Register("send", r)
                            /\ app' = [app EXCEPT !["send"] = "insert"]
                            /\ UNCHANGED <<pending_count, g_inited, rbuf, ctl, freed, work, wire,
                                           acks, crs, sent, arrived, copied, event,
                                           overwritten, trouble>>
    BY DEF SendCall, Register, netVars, ghosts
  <1>1. /\ "send" \in Ends /\ "recv" \in Ends /\ app["send"] = "ready"
        /\ r = ctl /\ r > round["send"]
    BY <1>0 DEF Asked, Ends
  <1>2. len' \in [Rounds -> 0 .. MaxChunks] /\ len'[r] \in 1 .. MaxChunks
    BY <1>0, TransferBounds DEF IInv, TypeOK
  <1>3. \A f \in Ends \ {"send"} : round[f] \in Rounds => len'[round[f]] = len[round[f]]
    BY <1>0
  <1>5. /\ Core'
        /\ waiting' \cup hand' \subseteq [id : Ids, req : Ends] /\ slot' \subseteq Ends
        /\ sync' \in [Ends -> SyncType]
        /\ result' \in [Ends -> {"none", "ok", "failed"}]
        /\ round' \in [Ends -> 0 .. MaxRounds] /\ app' \in [Ends -> AppPc]
    BY <1>0, <1>1, <1>2, <1>3, RegisterStep
  <1>6. TypeOK'
    <2>1. rbuf' \in 0 .. MaxChunks
      BY <1>0 DEF IInv, TypeOK
    <2>2. RestOK'
      BY <1>0 DEF IInv, TypeOK, RestOK, WorkType, WorkPc
    <2> QED BY <1>2, <1>5, <2>1, <2>2 DEF TypeOK, RestOK, SyncType, WorkType, WorkPc
  <1>7. RoundsOK'
    <2>1. round' = [round EXCEPT !["send"] = r]
      BY <1>0 DEF Register
    <2>2. /\ round'["send"] = r /\ round'["recv"] = round["recv"]
          /\ app'["recv"] = app["recv"] /\ app'["send"] = "insert"
      BY <1>0, <1>1, <2>1 DEF IInv, TypeOK, Ends
    <2>3. \A q \in Rounds : Freed("send", q) => q < r
      BY <1>1 DEF IInv, RoundsOK, TypeOK, Rounds
    <2>4. round'["send"] <= ctl' /\ ctl' <= round'["recv"]
      BY <1>0, <1>1, <2>2 DEF IInv, RoundsOK, TypeOK
    <2>5. \A e \in Ends : app'[e] \in InCall => round'[e] \in Rounds /\ len'[round'[e]] >= 1
      BY <1>0, <1>2, <2>2 DEF IInv, RoundsOK, Ends
    <2>6. \A e \in Ends, q \in Rounds : Freed(e, q)' => q <= round'[e]
      BY <1>0, <2>2, <2>3 DEF IInv, RoundsOK, TypeOK, Ends, Freed, Rounds
    <2>7. \A e \in Ends : app'[e] \in InCall => ~Freed(e, round[e])'
      BY <1>0, <2>2, <2>3 DEF IInv, RoundsOK, Ends, Freed, Rounds
    <2>8. app'["recv"] \in {"insert", "posting"} => rbuf' < len'[round'["recv"]]
      BY <1>0, <2>2 DEF IInv, RoundsOK
    <2> QED BY <2>4, <2>5, <2>6, <2>7, <2>8 DEF RoundsOK
  <1> QED BY <1>5, <1>6, <1>7 DEF IInv, Core

\* One chunk: no task, no sync object.
LEMMA SendSingleStep ==
    ASSUME IInv, SendSingle
    PROVE  IInv'
  <1>0. PICK r \in Rounds :
            /\ Asked(r) /\ len[r] = 1
            /\ round' = [round EXCEPT !["send"] = r]
            /\ \/ /\ wire' = Append(wire, IdOf(r, 0)) /\ sent' = sent \cup {IdOf(r, 0)}
                  /\ result' = [result EXCEPT !["send"] = "ok"]
                  /\ app' = app /\ trouble' = trouble
               \/ /\ UNCHANGED <<wire, sent>>
                  /\ result' = [result EXCEPT !["send"] = "failed"]
                  /\ app' = [app EXCEPT !["send"] = "stopped"]
                  /\ trouble' = trouble \cup {<<"post", "send">>}
            /\ UNCHANGED <<waiting, slot, hand, pending_count, g_inited, len, rbuf, ctl, sync, freed,
                           work, acks, crs, arrived, copied, event, overwritten>>
    BY DEF SendSingle, Write, Note, poolVars, syncVars
  <1>1. /\ "send" \in Ends /\ "recv" \in Ends /\ app["send"] = "ready"
        /\ r = ctl /\ r > round["send"] /\ r \in 0 .. MaxRounds
    BY <1>0 DEF Asked, Ends, Rounds
  <1>2. /\ app' \in [Ends -> AppPc] /\ app'["send"] \in {"ready", "stopped"}
        /\ app'["recv"] = app["recv"]
    BY <1>0, <1>1 DEF IInv, TypeOK, AppPc, Ends
  <1>3. /\ round' \in [Ends -> 0 .. MaxRounds] /\ round'["send"] = r
        /\ round'["recv"] = round["recv"]
    BY <1>0, <1>1 DEF IInv, TypeOK, Ends
  <1>4. TypeOK'
    <2>1. IdOf(r, 0) \in Ids
      BY IdFacts, TransferBounds
    <2>2. wire \in Seq(Ids) /\ sent \subseteq Ids
      BY DEF IInv, TypeOK
    <2>3. wire' \in Seq(Ids) /\ sent' \subseteq Ids
      <3>1. \/ wire' = Append(wire, IdOf(r, 0)) /\ sent' = sent \cup {IdOf(r, 0)}
            \/ wire' = wire /\ sent' = sent
        BY <1>0
      <3>2. CASE wire' = Append(wire, IdOf(r, 0)) /\ sent' = sent \cup {IdOf(r, 0)}
        <4>1. Append(wire, IdOf(r, 0)) \in Seq(Ids)
          BY <2>1, <2>2, AppendProperties
        <4> QED BY <2>1, <2>2, <3>2, <4>1
      <3> QED BY <2>2, <3>1, <3>2
    <2>4. result' \in [Ends -> {"none", "ok", "failed"}]
      BY <1>0 DEF IInv, TypeOK
    <2>5. trouble' \subseteq FaultKinds \X Ends
      BY <1>0, <1>1 DEF IInv, TypeOK, FaultKinds
    <2> QED BY <1>0, <1>2, <1>3, <2>3, <2>4, <2>5 DEF IInv, TypeOK
  <1>5. RoundsOK'
    <2>1. round'["send"] <= ctl' /\ ctl' <= round'["recv"]
      BY <1>0, <1>1, <1>3 DEF IInv, RoundsOK, TypeOK
    <2>2. app'["send"] \notin InCall
      BY <1>2 DEF InCall
    <2>3. \A e \in Ends : app'[e] \in InCall => /\ round'[e] \in Rounds /\ len'[round'[e]] >= 1
                                                /\ ~Freed(e, round[e])'
      BY <1>0, <1>2, <1>3, <2>2 DEF IInv, RoundsOK, Ends, Freed
    <2>4. \A e \in Ends, q \in Rounds : Freed(e, q)' => q <= round'[e]
      BY <1>0, <1>1, <1>3 DEF IInv, RoundsOK, TypeOK, Ends, Freed, Rounds
    <2>5. app'["recv"] \in {"insert", "posting"} => rbuf' < len'[round'["recv"]]
      BY <1>0, <1>2, <1>3 DEF IInv, RoundsOK
    <2> QED BY <2>1, <2>3, <2>4, <2>5 DEF RoundsOK
  <1>6. Pool!Of(waiting, "send") = {} /\ Busy("send") = 0
    BY <1>1 DEF IInv, Settled, Empty
  <1>7. \A e \in Ends : Pool!Of(waiting, e)' = Pool!Of(waiting, e) /\ Busy(e)' = Busy(e)
    BY <1>0 DEF Pool!Of, Busy
  <1>8. \A t \in waiting : t.req = "recv"
    BY <1>6 DEF IInv, TypeOK, Ends, Pool!Of
  <1>9. \A t \in hand : work[t.req].pc \in {"begin", "mark"} => t.req = "recv"
    BY <1>6 DEF IInv, TypeOK, Ends, Busy
  <1>a. \A e \in Ends : NoContext(e) => NoContext(e)'
    BY <1>0 DEF NoContext
  <1>b. \A t \in waiting \cup hand : t.req \in Ends
    BY DEF IInv, TypeOK
  <1>10. GroupOutlivesTasks'
    BY <1>0, <1>a, <1>b DEF IInv, GroupOutlivesTasks, Freed, RoundOf
  <1>11. Current'
    BY <1>0, <1>3, <1>8, <1>9, <1>a, <1>b DEF IInv, Current, Freed, RoundOf
  <1>12. HandOK'
    BY <1>0 DEF IInv, HandOK, Pool!Of
  <1>13. Settled'
    <2>1. result'["recv"] = result["recv"]
      BY <1>0, <1>1 DEF IInv, TypeOK
    <2>2. \A e \in Ends : Empty(e)' <=> Empty(e)
      BY <1>7 DEF Empty
    <2>3. Empty("send")
      BY <1>6 DEF Empty
    <2> QED BY <1>2, <1>a, <2>1, <2>2, <2>3 DEF IInv, Settled, Ends
  <1>14. CountOK'
    <2>1. \A e \in Ends : Sum(e)' = Sum(e)
      BY <1>0, <1>7 DEF Sum, Left
    <2>2. total_tasks("recv")' = total_tasks("recv")
      BY <1>0, <1>3 DEF total_tasks
    <2>3. app'["send"] \notin InCall
      BY <1>2 DEF InCall
    <2> QED BY <1>0, <1>2, <2>1, <2>2, <2>3 DEF IInv, CountOK, Ends
  <1>15. Accounted'
    <2>1. \A e \in Ends : Load(e)' = Load(e)
      BY <1>0, <1>7 DEF Load, Occupied
    <2>2. total_tasks("recv")' = total_tasks("recv")
      BY <1>0, <1>3 DEF total_tasks
    <2> QED BY <1>0, <1>1, <1>2, <1>a, <2>1, <2>2 DEF IInv, Accounted, Ends
  <1> QED BY <1>4, <1>5, <1>10, <1>11, <1>12, <1>13, <1>14, <1>15 DEF IInv

\* A cancel, or the end of the library, drops what is queued of an end.
LEMMA DropStep ==
    ASSUME IInv, NEW e \in Ends, Pool!Cancel(e), UNCHANGED <<work, sync, freed, round, len>>,
           ~Occupied(e), UNCHANGED <<result, trouble>>,
           NEW pc \in {"closed", "free"}, app' = [app EXCEPT ![e] = pc],
           pc = "free" => app[e] \in InCall,
           NEW n \in Nat, pending_count' = [pending_count EXCEPT ![e] = n]
    PROVE  Core' /\ waiting' \cup hand' \subseteq [id : Ids, req : Ends] /\ slot' \subseteq Ends
  <1>0. /\ waiting' = waiting \ Pool!Of(waiting, e) /\ UNCHANGED <<slot, hand>>
        /\ Pool!Of(hand, e) = {}
    BY DEF Pool!Cancel, Pool!Resting
  <1>1. waiting' \cup hand' \subseteq [id : Ids, req : Ends] /\ slot' \subseteq Ends
    BY <1>0 DEF IInv, TypeOK
  <1>2. app'[e] = pc /\ \A f \in Ends \ {e} : app'[f] = app[f]
    BY DEF IInv, TypeOK
  <1>3. work[e].pc = "none" /\ \A f \in Ends : Busy(f)' = Busy(f)
    BY <1>0 DEF Occupied, Busy
  <1>4. /\ Pool!Of(waiting, e)' = {}
        /\ \A f \in Ends \ {e} : Pool!Of(waiting, f)' = Pool!Of(waiting, f)
    BY <1>0 DEF Pool!Of
  <1>5. Settled'
    BY <1>2, <1>3, <1>4 DEF IInv, Settled, Empty, Busy, NoContext
  <1>6. GroupOutlivesTasks'
    BY <1>0 DEF IInv, GroupOutlivesTasks, Freed, RoundOf, NoContext
  <1>7. Current'
    BY <1>0 DEF IInv, Current, Freed, RoundOf, NoContext
  <1>8. HandOK'
    BY <1>0 DEF IInv, HandOK, Pool!Of
  <1>9. CountOK'
    <2>1. IsFiniteSet(waiting')
      BY <1>0, FS_Difference DEF IInv, CountOK
    <2>2. \A f \in Ends : Sum(f) \in Int /\ Left(f) \in Nat /\ sync[f].completed_tasks \in Nat
      <3>1. \A f \in Ends : Left(f) \in Nat
        BY LeftNat DEF IInv, CountOK
      <3>2. \A f \in Ends : sync[f].completed_tasks \in Nat
        BY DEF IInv, TypeOK
      <3> QED BY <3>1, <3>2 DEF Sum
    <2>3. Left(e)' = 0
      BY <1>3, <1>4, FS_EmptySet DEF Left, Busy
    <2>4. \A f \in Ends \ {e} : Left(f)' = Left(f)
      BY <1>3, <1>4 DEF Left
    <2>5. \A f \in Ends : Sum(f)' <= Sum(f) /\ Sum(f)' \in Int
      <3>1. \A f \in Ends : Left(f)' <= Left(f) /\ Left(f)' \in Int
        BY <2>2, <2>3, <2>4
      <3> QED BY <2>2, <3>1 DEF Sum
    <2>6. \A f \in Ends : app'[f] \in InCall
             => app[f] \in InCall /\ total_tasks(f)' = total_tasks(f) /\ total_tasks(f) \in Int
      BY <1>2 DEF InCall, total_tasks, IInv, RoundsOK, TypeOK
    <2> QED BY <2>1, <2>2, <2>5, <2>6, TransferBounds DEF IInv, CountOK
  <1>10. Accounted'
    <2>1. Load(e)' = 0
      BY <1>3, <1>4, FS_EmptySet DEF Load, Occupied
    <2>2. \A f \in Ends \ {e} : Load(f)' = Load(f)
      BY <1>4 DEF Load, Occupied
    <2>3. /\ pending_count'[e] = n
          /\ \A f \in Ends \ {e} : pending_count'[f] = pending_count[f]
      BY DEF IInv, TypeOK
    <2>4. app'[e] # "insert" /\ Load(e)' <= pending_count'[e]
      BY <1>2, <2>1, <2>3
    <2>5. \A f \in Ends \ {e} : total_tasks(f)' = total_tasks(f) /\ NoContext(f)' = NoContext(f)
      BY DEF total_tasks, NoContext
    <2> QED BY <1>2, <2>2, <2>3, <2>4, <2>5 DEF IInv, Accounted
  <1> QED BY <1>1, <1>5, <1>6, <1>7, <1>8, <1>9, <1>10 DEF Core

\* os_transport_destroy drops what is queued and keeps the invariant.
LEMMA CloseStep ==
    ASSUME IInv, NEW e \in Ends, Close(e)
    PROVE  IInv'
  <1> USE DEF Close, syncVars, netVars, ghosts
  <1>1. Core' /\ waiting' \cup hand' \subseteq [id : Ids, req : Ends] /\ slot' \subseteq Ends
    BY DropStep
  <1>2. /\ g_inited' \in [Ends -> BOOLEAN] /\ app' \in [Ends -> AppPc]
        /\ pending_count' \in [Ends -> Nat]
    BY DEF IInv, TypeOK, AppPc
  <1>3. TypeOK'
    BY <1>1, <1>2 DEF IInv, TypeOK
  <1>4. RoundsOK'
    <2>1. \A f \in Ends : app'[f] \in InCall => app[f] \in InCall /\ app'[f] = app[f]
      BY DEF IInv, TypeOK, InCall
    <2>2. app'["recv"] \in {"insert", "posting"} => app'["recv"] = app["recv"]
      BY DEF IInv, TypeOK
    <2> QED BY <2>1, <2>2 DEF IInv, RoundsOK, Freed
  <1> QED BY <1>1, <1>3, <1>4 DEF IInv, Core

\* The cancel of a failed request drops its queued tasks.
LEMMA CancelRestStep ==
    ASSUME IInv, NEW e \in Ends, CancelRest(e)
    PROVE  IInv'
  <1> USE DEF syncVars, netVars, ghosts
  <1>0. /\ app[e] = "cancel" /\ app' = [app EXCEPT ![e] = "free"]
        /\ UNCHANGED <<g_inited, round, len, rbuf, result, ctl, sync, freed, work,
                       wire, acks, crs, sent, arrived, copied, event, overwritten, trouble>>
    BY DEF CancelRest
  <1>1. app' \in [Ends -> AppPc] /\ app'[e] = "free" /\ \A f \in Ends \ {e} : app'[f] = app[f]
    BY <1>0 DEF IInv, TypeOK, AppPc
  <1>2. /\ Core' /\ waiting' \cup hand' \subseteq [id : Ids, req : Ends]
        /\ slot' \subseteq Ends /\ pending_count' \in [Ends -> Nat]
    <2>1. CASE Known(e)
      <3> DEFINE k == Cardinality(Pool!Of(waiting, e))
                 n == pending_count[e] - k
      <3>1. /\ ~Occupied(e) /\ Pool!Cancel(e)
            /\ pending_count' = [pending_count EXCEPT ![e] = n]
        BY <2>1 DEF CancelRest
      <3>2. n \in Nat
        <4>1. k \in Nat /\ Load(e) \in Nat /\ Load(e) >= k /\ pending_count[e] \in Nat
          BY LeftNat DEF IInv, TypeOK, CountOK
        <4>2. Load(e) <= pending_count[e]
          BY <1>0, <2>1 DEF IInv, Accounted, Known
        <4> QED BY <4>1, <4>2
      <3>3. pending_count' \in [Ends -> Nat]
        BY <3>1, <3>2 DEF IInv, TypeOK
      <3> HIDE DEF n, k
      <3> QED BY <1>0, <3>1, <3>2, <3>3, DropStep DEF InCall
    <2>2. CASE ~Known(e)
      <3>1. UNCHANGED <<waiting, slot, hand, pending_count>>
        BY <2>2 DEF CancelRest, poolVars
      <3>2. Empty(e) \/ (result[e] = "failed" /\ NoContext(e))
        <4>1. pending_count[e] = 0 /\ Load(e) \in Nat
          BY <2>2, LeftNat DEF Known, IInv, CountOK
        <4>2. Load(e) = 0 \/ NoContext(e)
          BY <1>0, <4>1 DEF IInv, Accounted
        <4> QED BY <1>0, <4>2, LeftNat DEF IInv, Settled, CountOK
      <3>3. \A f \in Ends : /\ Pool!Of(waiting, f)' = Pool!Of(waiting, f)
                            /\ Busy(f)' = Busy(f) /\ Load(f)' = Load(f)
                            /\ total_tasks(f)' = total_tasks(f)
        BY <1>0, <3>1 DEF Pool!Of, Busy, Load, Occupied, total_tasks
      <3>4. Settled'
        BY <1>0, <1>1, <3>2, <3>3 DEF IInv, Settled, Empty, NoContext
      <3>5. CountOK'
        BY <1>0, <1>1, <3>1, <3>3 DEF IInv, CountOK, Sum, Left, InCall
      <3>6. Accounted'
        BY <1>0, <1>1, <3>1, <3>3 DEF IInv, Accounted, NoContext
      <3>7. GroupOutlivesTasks' /\ Current'
        BY <1>0, <3>1 DEF IInv, GroupOutlivesTasks, Current, Freed, RoundOf, NoContext
      <3>8. HandOK'
        BY <1>0, <3>1 DEF IInv, HandOK, Pool!Of
      <3> QED BY <3>1, <3>4, <3>5, <3>6, <3>7, <3>8 DEF IInv, TypeOK, Core
    <2> QED BY <2>1, <2>2
  <1>3. TypeOK'
    BY <1>0, <1>1, <1>2 DEF IInv, TypeOK
  <1>4. RoundsOK'
    <2>1. \A f \in Ends : app'[f] \in InCall => app[f] \in InCall
      BY <1>0, <1>1 DEF InCall
    <2>2. app'["recv"] \in {"insert", "posting"} => app'["recv"] = app["recv"]
      BY <1>1 DEF Ends
    <2> QED BY <1>0, <2>1, <2>2 DEF IInv, RoundsOK, Freed
  <1> QED BY <1>2, <1>3, <1>4 DEF IInv, Core

\* The tasks of a submit are counted in the context of the request, or the
\* context cannot be allocated.
LEMMA InsertStep ==
    ASSUME IInv, NEW e \in Ends, Insert(e) \/ InsertFails(e)
    PROVE  IInv'
  <1> USE DEF syncVars, netVars, ghosts
  <1>0. /\ app[e] = "insert" /\ app' = Registered(e)
        /\ UNCHANGED <<waiting, slot, hand, g_inited, round, len, rbuf, result, ctl,
                       sync, freed, work, wire, acks, crs, sent, arrived, copied,
                       event, overwritten>>
        /\ trouble \subseteq trouble'
        /\ \/ pending_count' = [pending_count EXCEPT ![e] = @ + total_tasks(e)]
           \/ /\ pending_count' = pending_count /\ pending_count[e] = 0
              /\ NoContext(e)'
    BY DEF Insert, InsertFails, poolVars, Note, NoContext
  <1>1. PICK pc \in {"posting", "first"} : app' = [app EXCEPT ![e] = pc] /\ (pc = "posting" => e = "recv")
    BY <1>0 DEF Registered
  <1>2. /\ app' \in [Ends -> AppPc] /\ app'[e] = pc
        /\ \A f \in Ends \ {e} : app'[f] = app[f]
    BY <1>1 DEF IInv, TypeOK, AppPc
  <1>3. total_tasks(e) \in Nat /\ Load(e) \in Nat /\ Load(e) <= total_tasks(e)
    <2>1. round[e] \in Rounds /\ len[round[e]] \in Nat /\ len[round[e]] >= 1
      BY <1>0, TransferBounds DEF IInv, TypeOK, RoundsOK, InCall
    <2> QED BY <1>0, <2>1, LeftNat DEF total_tasks, IInv, CountOK, Accounted
  <1>4. TypeOK'
    <2>1. pending_count' \in [Ends -> Nat]
      <3>1. CASE pending_count' = [pending_count EXCEPT ![e] = @ + total_tasks(e)]
        <4>1. pending_count \in [Ends -> Nat]
          BY DEF IInv, TypeOK
        <4>2. pending_count[e] + total_tasks(e) \in Nat
          BY <1>3, <4>1
        <4> QED BY <3>1, <4>1, <4>2
      <3>2. CASE pending_count' = pending_count
        BY <3>2 DEF IInv, TypeOK
      <3> QED BY <1>0, <3>1, <3>2
    <2>2. trouble' \subseteq FaultKinds \X Ends
      BY DEF Insert, InsertFails, Note, IInv, TypeOK, FaultKinds
    <2> QED BY <1>0, <1>2, <2>1, <2>2 DEF IInv, TypeOK
  <1>5. \A f \in Ends : app'[f] \in InCall => app[f] \in InCall
    BY <1>0, <1>2 DEF InCall
  <1>6. RoundsOK'
    <2>1. app'["recv"] \in {"insert", "posting"} => app["recv"] \in {"insert", "posting"}
      BY <1>0, <1>2 DEF Ends
    <2> QED BY <1>0, <1>5, <2>1 DEF IInv, RoundsOK, Freed
  <1>7. \A f \in Ends : /\ Pool!Of(waiting, f)' = Pool!Of(waiting, f)
                        /\ Busy(f)' = Busy(f) /\ Load(f)' = Load(f)
                        /\ total_tasks(f)' = total_tasks(f)
                        /\ NoContext(f) => NoContext(f)'
    BY <1>0 DEF Pool!Of, Busy, Load, Occupied, total_tasks, NoContext
  <1>8. Settled'
    BY <1>0, <1>2, <1>7 DEF IInv, Settled, Empty
  <1>9. CountOK'
    BY <1>0, <1>5, <1>7 DEF IInv, CountOK, Sum, Left
  <1>10. Accounted'
    <2>1. CASE pending_count' = [pending_count EXCEPT ![e] = @ + total_tasks(e)]
      <3>1. /\ pending_count[e] \in Nat /\ pending_count'[e] = pending_count[e] + total_tasks(e)
            /\ \A f \in Ends \ {e} : pending_count'[f] = pending_count[f]
        BY <2>1 DEF IInv, TypeOK
      <3> QED BY <1>2, <1>3, <1>7, <3>1 DEF IInv, Accounted
    <2>2. CASE pending_count' = pending_count /\ pending_count[e] = 0 /\ NoContext(e)'
      BY <1>2, <1>7, <2>2 DEF IInv, Accounted
    <2> QED BY <1>0, <2>1, <2>2
  <1>11. \A t \in waiting \cup hand : t.req \in Ends
    BY DEF IInv, TypeOK
  <1>12. GroupOutlivesTasks' /\ Current'
    BY <1>0, <1>7, <1>11 DEF IInv, GroupOutlivesTasks, Current, Freed, RoundOf
  <1>13. HandOK'
    BY <1>0 DEF IInv, HandOK, Pool!Of
  <1> QED BY <1>4, <1>6, <1>8, <1>9, <1>10, <1>12, <1>13 DEF IInv

\* All tasks are counted: none is left.
LEMMA CheckStep ==
    ASSUME IInv, NEW e \in Ends, Check(e)
    PROVE  IInv'
  <1> USE DEF poolVars, syncVars, netVars, ghosts
  <1>0. /\ app[e] = "check" /\ UNCHANGED <<waiting, slot, hand, pending_count, g_inited, round, len,
              rbuf, ctl, sync, freed, work, wire, acks, crs, sent, arrived, copied,
              event, overwritten, trouble>>
        /\ result' = [result EXCEPT ![e] = Outcome(e)]
        /\ app' = [app EXCEPT ![e] = IF Outcome(e) = "ok" THEN "free" ELSE "cancel"]
    BY DEF Check
  <1>1. Outcome(e) \in {"ok", "failed"}
    BY DEF Outcome
  <1>2. /\ app' \in [Ends -> AppPc] /\ app'[e] = IF Outcome(e) = "ok" THEN "free" ELSE "cancel"
        /\ \A f \in Ends \ {e} : app'[f] = app[f]
    BY <1>0 DEF IInv, TypeOK, AppPc
  <1>3. result' \in [Ends -> {"none", "ok", "failed"}]
    BY <1>0, <1>1 DEF IInv, TypeOK
  <1>4. TypeOK'
    BY <1>0, <1>2, <1>3 DEF IInv, TypeOK
  <1>5. \A f \in Ends : app'[f] \in InCall => app[f] \in InCall
    BY <1>0, <1>2 DEF InCall
  <1>6. RoundsOK'
    <2>1. app'["recv"] \in {"insert", "posting"} => app'["recv"] = app["recv"]
      BY <1>2 DEF Ends
    <2> QED BY <1>0, <1>5, <2>1 DEF IInv, RoundsOK, Freed
  <1>7. \A f \in Ends : Pool!Of(waiting, f)' = Pool!Of(waiting, f) /\ Busy(f)' = Busy(f)
    BY <1>0 DEF Pool!Of, Busy
  <1>8. Outcome(e) = "ok" => Empty(e)
    <2>1. Left(e) \in Nat /\ sync[e].completed_tasks \in Nat /\ total_tasks(e) \in Int
      <3>1. Left(e) \in Nat
        BY LeftNat DEF IInv, CountOK
      <3>2. round[e] \in Rounds
        BY <1>0 DEF IInv, RoundsOK, InCall
      <3>3. len[round[e]] \in Int
        BY <3>2, TransferBounds DEF IInv, TypeOK
      <3>4. sync[e].completed_tasks \in Nat
        BY DEF IInv, TypeOK
      <3> QED BY <3>1, <3>3, <3>4 DEF total_tasks
    <2>2. sync[e].completed_tasks + Left(e) <= total_tasks(e)
      BY <1>0 DEF IInv, CountOK, Sum, InCall
    <2>3. Outcome(e) = "ok" => Left(e) = 0
      BY <2>1, <2>2 DEF Outcome
    <2> QED BY <2>3, LeftNat DEF IInv, CountOK
  <1>9. Settled'
    <2>1. result'[e] = Outcome(e) /\ \A f \in Ends \ {e} : result'[f] = result[f]
      BY <1>0 DEF IInv, TypeOK
    <2> QED BY <1>0, <1>1, <1>2, <1>7, <1>8, <2>1 DEF IInv, Settled, Empty, NoContext
  <1>10. CountOK'
    BY <1>0, <1>5, <1>7 DEF IInv, CountOK, Sum, Left, total_tasks
  <1>11. GroupOutlivesTasks' /\ Current'
    BY <1>0 DEF IInv, GroupOutlivesTasks, Current, Freed, RoundOf, NoContext
  <1>12. HandOK'
    BY <1>0 DEF IInv, HandOK, Pool!Of
  <1>13. Accounted'
    <2>1. \A f \in Ends : Load(f)' = Load(f) /\ total_tasks(f)' = total_tasks(f)
      BY <1>0, <1>7 DEF Load, Occupied, total_tasks
    <2> QED BY <1>0, <1>2, <2>1 DEF IInv, Accounted, NoContext
  <1> QED BY <1>4, <1>6, <1>9, <1>10, <1>11, <1>12, <1>13 DEF IInv

\* The group is freed: none of its tasks will use it.
LEMMA FreeStep ==
    ASSUME IInv, NEW e \in Ends, Free(e)
    PROVE  IInv'
  <1> USE DEF poolVars, netVars, ghosts
  <1>0. /\ app[e] = "free" /\ freed' = freed \cup {<<e, round[e]>>}
        /\ UNCHANGED <<waiting, slot, hand, pending_count, g_inited, round, len, rbuf, ctl, sync,
              result, work, wire, acks, crs, sent, arrived, copied, event,
              overwritten, trouble>>
    BY DEF Free
  <1>1. PICK pc \in {"ready", "stopped"} :
           app' = [app EXCEPT ![e] = pc] /\ (pc = "ready" => result[e] = "ok")
    BY DEF Free
  <1>2. /\ app' \in [Ends -> AppPc] /\ app'[e] = pc
        /\ \A f \in Ends \ {e} : app'[f] = app[f]
    <2>1. app \in [Ends -> AppPc] /\ pc \in AppPc
      BY DEF IInv, TypeOK, AppPc
    <2>2. app' = [app EXCEPT ![e] = pc]
      BY <1>1
    <2> QED BY <2>1, <2>2
  <1>3. round[e] \in Rounds
    BY <1>0 DEF IInv, RoundsOK, InCall
  <1>4. TypeOK'
    <2>1. freed' \subseteq Ends \X Rounds
      BY <1>0, <1>3 DEF IInv, TypeOK
    <2> QED BY <1>0, <1>2, <2>1 DEF IInv, TypeOK
  <1>5. Empty(e) \/ (result[e] = "failed" /\ NoContext(e))
    BY <1>0 DEF IInv, Settled
  <1>6. \A f \in Ends : Pool!Of(waiting, f)' = Pool!Of(waiting, f) /\ Busy(f)' = Busy(f)
    BY <1>0 DEF Pool!Of, Busy
  <1>7. \A f \in Ends : app'[f] \in InCall => app[f] \in InCall /\ f # e
    BY <1>2 DEF InCall
  <1>8. \A f \in Ends, r \in Rounds : Freed(f, r)' <=> Freed(f, r) \/ (f = e /\ r = round[e])
    BY <1>0 DEF Freed
  <1>9. RoundsOK'
    <2>1. app'["recv"] \in {"insert", "posting"} => app'["recv"] = app["recv"]
      BY <1>2 DEF Ends
    <2>2. \A f \in Ends, r \in Rounds : Freed(f, r)' => r <= round'[f]
      BY <1>0, <1>3, <1>8 DEF IInv, RoundsOK, Rounds
    <2>3. \A f \in Ends : app'[f] \in InCall => ~Freed(f, round[f])'
      BY <1>0, <1>7, <1>8 DEF IInv, RoundsOK
    <2> QED BY <1>0, <1>7, <2>1, <2>2, <2>3 DEF IInv, RoundsOK
  <1>10. Settled'
    <2>1. \A f \in Ends : (Empty(f)' <=> Empty(f)) /\ (NoContext(f)' <=> NoContext(f))
      BY <1>0, <1>6 DEF Empty, NoContext
    <2>2. app'[e] = "ready" => Empty(e)
      <3>1. pc = "ready" => result[e] = "ok"
        BY <1>1
      <3>2. result[e] # "failed" => Empty(e)
        BY <1>5
      <3> QED BY <1>2, <3>1, <3>2
    <2>3. app'[e] \notin {"start", "free", "cancel"} /\ result' = result
      BY <1>0, <1>2
    <2> QED BY <1>2, <2>1, <2>2, <2>3 DEF IInv, Settled
  <1>11. CountOK'
    BY <1>0, <1>6, <1>7 DEF IInv, CountOK, Sum, Left, total_tasks
  <1>12. HandOK'
    BY <1>0 DEF IInv, HandOK, Pool!Of
  <1>13. \A t \in waiting \cup hand : t.req \in Ends /\ RoundOf(t.id) \in Rounds
    BY RoundOfIds DEF IInv, TypeOK
  <1>14. \A t \in waiting : t.req = e => NoContext(e)
    BY <1>5 DEF Empty, Pool!Of
  <1>15. \A t \in hand : t.req = e => work[e].pc \in {"tail", "event", "return"} \/ NoContext(e)
    <2>1. work[e].pc \in {"none", "begin", "mark", "tail", "event", "return", "settle"}
      BY DEF IInv, TypeOK
    <2>2. \A t \in hand : t.req = e => work[e].pc \notin {"none", "settle"}
      BY DEF IInv, HandOK, Pool!Of
    <2> QED BY <1>5, <2>1, <2>2 DEF Empty, Busy
  <1>16. GroupOutlivesTasks'
    BY <1>0, <1>8, <1>13, <1>14, <1>15 DEF IInv, GroupOutlivesTasks, RoundOf, NoContext
  <1>17. Current'
    BY <1>0, <1>8, <1>13, <1>15 DEF IInv, Current, RoundOf, NoContext
  <1>18. Accounted'
    <2>1. \A f \in Ends : Load(f)' = Load(f) /\ total_tasks(f)' = total_tasks(f)
      BY <1>0, <1>6 DEF Load, Occupied, total_tasks
    <2> QED BY <1>0, <1>2, <2>1 DEF IInv, Accounted, NoContext
  <1> QED BY <1>4, <1>9, <1>10, <1>11, <1>12, <1>16, <1>17, <1>18 DEF IInv

-----------------------------------------------------------------------------
\* A step that changes nothing keeps the invariant.
LEMMA StutterStep ==
    ASSUME IInv, UNCHANGED vars
    PROVE  IInv'
  <1> USE DEF vars, poolVars, appVars, syncVars, netVars, ghosts
  <1>1. TypeOK'
    BY DEF IInv, TypeOK
  <1>2. RoundsOK'
    BY RoundsKept DEF IInv
  <1>3. Core'
    BY <1>1, CoreKept DEF IInv, Core, Placed
  <1> QED BY <1>1, <1>2, <1>3 DEF IInv, Core

\* Every step of either end, and of the network, keeps the invariant.
LEMMA StepInv == IInv /\ [Next]_vars => IInv'
  <1> SUFFICES ASSUME IInv, [Next]_vars PROVE IInv'
    OBVIOUS
  <1>1. ASSUME NEW e \in Ends, Open(e) \/ Close(e) PROVE IInv'
    BY <1>1, OpenStep, CloseStep
  <1>2. ASSUME NEW e \in Ends, CallStep(e) PROVE IInv'
    BY <1>2, CallFailsStep, InsertStep, WaitStep, CheckStep, CancelRestStep, FreeStep,
       PostRecvStep, RefusedStep, AskSenderStep, SendCallStep, SendSingleStep,
       SendFirstStep DEF CallStep
  <1>3. ASSUME NEW e \in Ends, WorkerStep(e) PROVE IInv'
    BY <1>3, BeginStep, IgnoreStep, MarkStep, ReturnStep, SettleStep, WriteChunkStep,
       CopyChunkStep, TailStep DEF WorkerStep
  <1>4. ASSUME NEW e \in Ends, PollStep(e) PROVE IInv'
    BY <1>4, WakeUpStep, WakeUpNoneStep, WakeUpUnknownStep DEF PollStep
  <1>5. CASE RecvCall \/ Deliver \/ Acknowledge \/ Lose
    BY <1>5, RecvCallStep, DeliverStep, AcknowledgeStep, LoseStep
  <1>6. CASE UNCHANGED vars
    BY <1>6, StutterStep
  <1> QED BY <1>1, <1>2, <1>3, <1>4, <1>5, <1>6 DEF Next

\* The invariant holds in every reachable state.
LEMMA Invariant == Spec => []IInv
  BY InitInv, StepInv, PTL DEF Spec

\* The state of both ends is well typed: in particular completed_tasks never
\* passes the number of chunks (mark_task_group_completed).
THEOREM TypeCorrect == Spec => []TypeOK
  BY Invariant, PTL DEF IInv

\* wait_and_free_sync never frees a group that a task will still use, however
\* early records are polled, whatever was cancelled, and whatever fails but the
\* allocation of the request's context at that end.
THEOREM GroupOutlivesTasksHolds == Spec => []GroupOutlivesTasks
  BY Invariant, PTL DEF IInv

=============================================================================

------------------------ MODULE ThreadPoolServiceProofs ------------------------
(***************************************************************************)
(* What the pool promises to its callers when no request id is submitted   *)
(* twice: its contexts go, its batch callback comes once, tasks run in     *)
(* order, nothing is stranded, and a cancel that returns has settled the   *)
(* request.  Each follows from RequestInv and an invariant of its own.     *)
(*                                                                         *)
(* Then that the pool is the service of PoolService: every step of its     *)
(* workers, callers and owner is a step of the service or changes nothing  *)
(* of it.  Two conditions: 0 is not a request id, and no wake-up replaces  *)
(* the notification of another request.  Last, which callers never make    *)
(* the pool use freed memory (Polite): any number of threads, as long as a *)
(* request gets no more wake-ups than it has tasks, none while it is       *)
(* cancelled, and is not submitted again.                                  *)
(***************************************************************************)
EXTENDS ThreadPoolRequestProofs

\* What every step may rely on.
Base == TypeInv /\ BusyInv /\ RequestInv /\ Remembered

\* It holds in every behaviour in which no request is submitted twice.
LEMMA BaseInvariant == SubmitOnce /\ Spec => []Base
PROOF
  <1>1. Spec => []TypeInv
    BY InitType, TypeStep, PTL DEF Spec
  <1>2. TypeInv /\ BusyInv /\ RequestInv /\ Remembered => Base
    BY DEF Base
  <1> QED BY <1>1, <1>2, BusyInvariant, RequestInvariant, PTL

-----------------------------------------------------------------------------
(* What a step does to the queues, the threads and the calls.              *)

\* A queue gains only by Attach, a worker only gets a task by WorkerTake, and a
\* call only has something to subtract by CancelQueue.
LEMMA StepGains ==
  ASSUME Base, [Next]_vars
  PROVE  /\ (\A c \in Callers : ~Attach(c)) => \A w \in Workers : queue'[w] \subseteq queue[w]
         /\ \A w \in Workers : Running(w)' =>
               \/ WorkerTake(w)
               \/ /\ Running(w) /\ thr'[w].task = thr[w].task
                  /\ thr'[w].pc = "run" => thr[w].pc = "run"
                  /\ thr'[w].pc \in {"run", "find", "dec"} => thr[w].pc \in {"run", "find", "dec"}
         /\ \A c \in Callers : call'[c].pc = "cupdate" => CancelQueue(c) \/ call'[c] = call[c]
PROOF
  <1> DEFINE Threads(w) == Running(w)' =>
               \/ WorkerTake(w)
               \/ /\ Running(w) /\ thr'[w].task = thr[w].task
                  /\ thr'[w].pc = "run" => thr[w].pc = "run"
                  /\ thr'[w].pc \in {"run", "find", "dec"} => thr[w].pc \in {"run", "find", "dec"}
             Calls(c) == call'[c].pc = "cupdate" => CancelQueue(c) \/ call'[c] = call[c]
             Queues == (\A c \in Callers : ~Attach(c)) =>
                          \A w \in Workers : queue'[w] \subseteq queue[w]
  <1>0. /\ thr \in [Workers -> ThreadType] /\ queue \in [Workers -> SUBSET Task]
        /\ call \in [Callers -> CallType] /\ own.i \in Workers
    BY DEF Base, TypeInv, TypeOK
  <1>1. ASSUME NEW w \in Workers, WorkerStep(w) \/ SpuriousWakeup(w)
        PROVE  Queues /\ (\A v \in Workers : Threads(v)) /\ \A c \in Callers : Calls(c)
    <2>1. UNCHANGED call /\ \A v \in Workers : v # w => thr'[v] = thr[v]
      BY <1>0, <1>1 DEF WorkerStep, WorkerStart, WorkerWait, WorkerExit, WorkerTake,
           WorkerTakeNone, WorkerRun, WorkerFindCtx, WorkerDec, WorkerBatchCb,
           WorkerRemoveCtx, WorkerFinish, SpuriousWakeup
    <2>2. \A v \in Workers : queue'[v] \subseteq queue[v]
      BY <1>0, <1>1 DEF WorkerStep, WorkerStart, WorkerWait, WorkerExit, WorkerTake,
           WorkerTakeNone, WorkerRun, WorkerFindCtx, WorkerDec, WorkerBatchCb,
           WorkerRemoveCtx, WorkerFinish, SpuriousWakeup, Unlink
    <2>3. Threads(w)
      <3>1. CASE WorkerStart(w) \/ WorkerWait(w) \/ WorkerExit(w) \/ WorkerTakeNone(w)
                 \/ SpuriousWakeup(w) \/ WorkerFinish(w)
        BY <1>0, <3>1 DEF WorkerStart, WorkerWait, WorkerExit, WorkerTakeNone,
             SpuriousWakeup, WorkerFinish, AtLoop, Running, ThreadType, NoThread
      <3>2. CASE WorkerRun(w) \/ WorkerBatchCb(w) \/ WorkerRemoveCtx(w)
        BY <1>0, <3>2 DEF WorkerRun, WorkerBatchCb, WorkerRemoveCtx, Running, ThreadType
      <3>3. CASE WorkerDec(w)
        <4>1. PICK pc \in {"cb", "fin"} : thr' = [thr EXCEPT ![w].pc = pc]
          BY <3>3 DEF WorkerDec
        <4> QED BY <1>0, <3>3, <4>1 DEF WorkerDec, Running, ThreadType
      <3>4. CASE WorkerFindCtx(w)
        <4>1. PICK pc \in {"dec", "fin"}, i \in Lookup(thr[w].task.req) :
                 thr' = [thr EXCEPT ![w].pc = pc, ![w].ctx = i]
          BY <3>4 DEF WorkerFindCtx
        <4>2. thr[w].pc = "find" /\ thr[w] \in ThreadType
          BY <1>0, <3>4 DEF WorkerFindCtx
        <4>3. thr'[w] = [thr[w] EXCEPT !.pc = pc, !.ctx = i]
          BY <1>0, <4>1
        <4>4. thr'[w].pc \in {"dec", "fin"} /\ thr'[w].task = thr[w].task
          BY <4>2, <4>3 DEF ThreadType
        <4> QED BY <4>2, <4>4 DEF Running
      <3> QED BY <1>1, <3>1, <3>2, <3>3, <3>4 DEF WorkerStep
    <2> QED BY <2>1, <2>2, <2>3 DEF Running
  <1>2. CASE OwnerStep \/ BeginDestroy \/ Gone \/ UNCHANGED vars
    <2>1. UNCHANGED call
      BY <1>2 DEF OwnerStep, CreateWorker, CreateFailed, AwaitWorker, Start,
           ShutdownSignal, Join, FreePool, BeginDestroy, Gone, vars
    <2>2. \A w \in Workers : queue'[w] \subseteq queue[w]
      BY <1>0, <1>2 DEF OwnerStep, CreateWorker, CreateFailed, AwaitWorker, Start,
           ShutdownSignal, Join, FreePool, BeginDestroy, Gone, vars, workerVars
    <2>3. \A w \in Workers : thr'[w] = thr[w] \/ ~Running(w)'
      BY <1>0, <1>2 DEF OwnerStep, CreateWorker, CreateFailed, AwaitWorker, Start,
           ShutdownSignal, Join, FreePool, BeginDestroy, Gone, vars, workerVars, Signal,
           Running, ThreadType
    <2> QED BY <2>1, <2>2, <2>3 DEF Running
  <1>3. ASSUME NEW c \in Callers, NewCall(c) \/ CallStep(c)
        PROVE  Queues /\ (\A v \in Workers : Threads(v)) /\ \A d \in Callers : Calls(d)
    <2>1. \A w \in Workers : thr'[w] = thr[w] \/ ~Running(w)'
      <3>1. CASE WakeSet(c)
        <4>1. thr' = Signal(call[c].best)
          BY <3>1 DEF WakeSet
        <4> QED BY <1>0, <4>1 DEF Signal, Running, ThreadType
      <3>2. CASE ~WakeSet(c)
        <4>1. UNCHANGED thr
          BY <1>3, <3>2 DEF NewCall, SubmitTask, SubmitBatch, Submit, Wake, Cancel,
               CallStep, Scan, AllocFail, Attach, FindCtx, AddCtx, InsertCtx, InsertFail,
               ReadId, Stray, Deref, CancelQueue, CancelCtx, workerVars
        <4> QED BY <4>1
      <3> QED BY <3>1, <3>2
    <2>2. Queues
      BY <1>0, <1>3 DEF NewCall, SubmitTask, SubmitBatch, Submit, Wake, Cancel, CallStep,
           Scan, AllocFail, FindCtx, AddCtx, InsertCtx, InsertFail, ReadId, Stray, Deref,
           WakeSet, CancelQueue, CancelCtx, workerVars
    <2>3. \A d \in Callers : d # c => call'[d] = call[d]
      BY <1>0, <1>3 DEF NewCall, SubmitTask, SubmitBatch, Submit, Wake, Cancel, CallStep,
           Scan, AllocFail, Attach, FindCtx, AddCtx, InsertCtx, InsertFail, ReadId,
           Stray, Deref,
           WakeSet, CancelQueue, CancelCtx
    <2>4. call'[c].pc = "cupdate" => CancelQueue(c)
      <3>1. CASE NewCall(c)
        <4>1. CASE SubmitTask(c) \/ SubmitBatch(c)
          BY <1>0, <4>1 DEF SubmitTask, SubmitBatch, Submit, NoCall
        <4>2. ASSUME NEW r \in Reqs, Wake(c, r) \/ Cancel(c, r)
              PROVE  call'[c].pc # "cupdate"
          <5>1. PICK i \in Lookup(r), op \in {"wake", "cancel"}, pc \in {"wderef", "cderef"} :
                   call' = [call EXCEPT ![c] =
                              IF i = 0 THEN NoCall
                              ELSE [NoCall EXCEPT !.pc = pc, !.op = op,
                                                  !.req = r, !.ctx = i]]
            BY <4>2 DEF Wake, Cancel
          <5> QED BY <1>0, <5>1 DEF NoCall
        <4> QED BY <3>1, <4>1, <4>2 DEF NewCall
      <3>2. CASE Scan(c)
        <4>1. call'[c] = Scanned(call[c]) /\ call[c].pc = "scan" /\ call[c] \in CallType
          BY <1>0, <3>2 DEF Scan
        <4>2. Scanned(call[c]).pc # "cupdate"
          BY <4>1 DEF Scanned, Considered, NoCall, CallType
        <4> QED BY <4>1, <4>2
      <3>3. CASE FindCtx(c)
        <4>1. PICK i \in Lookup(call[c].req), pc \in {"insert", "add"} :
                 call' = [call EXCEPT ![c].pc = pc, ![c].ctx = i]
          BY <3>3 DEF FindCtx
        <4> QED BY <1>0, <4>1 DEF CallType
      <3>4. CASE Attach(c) \/ Deref(c)
        <4>1. CASE Attach(c)
          BY <1>0, <4>1 DEF Attach, CallType
        <4>2. CASE Deref(c)
          <5>1. PICK pc \in {"wset", "cremove"}, w \in BoundTo(call[c].ctx) :
                   call' = [call EXCEPT ![c].best = w, ![c].pc = pc]
            BY <4>2 DEF Deref
          <5> QED BY <1>0, <5>1 DEF CallType
        <4> QED BY <3>4, <4>1, <4>2
      <3>5. CASE \/ AllocFail(c) \/ AddCtx(c) \/ InsertCtx(c) \/ InsertFail(c) \/ ReadId(c) \/ Stray(c)
                 \/ WakeSet(c) \/ CancelCtx(c)
        <4>1. call'[c] = NoCall \/ call'[c] = Recorded(call[c])
          BY <1>0, <3>5 DEF AllocFail, AddCtx, InsertCtx, InsertFail, ReadId, Stray,
             WakeSet,
               CancelCtx
        <4> QED BY <1>0, <4>1 DEF Recorded, NoCall, CallType
      <3> QED BY <1>3, <3>1, <3>2, <3>3, <3>4, <3>5 DEF CallStep
    <2> QED BY <2>1, <2>2, <2>3, <2>4 DEF Running
  <1> QED BY <1>1, <1>2, <1>3 DEF Next

\* What a worker takes was queued at it.
LEMMA TakeFacts ==
  ASSUME Base, NEW w \in Workers, WorkerTake(w)
  PROVE  /\ thr[w].pc \in {"loop", "woken"} /\ thr'[w].pc = "run"
         /\ thr'[w].task \in queue[w] /\ thr'[w].task.req = pending_req[w]
         /\ \A u \in queue[w] : u.req = pending_req[w] => thr'[w].task.id <= u.id
         /\ queue' = [queue EXCEPT ![w] = @ \ {thr'[w].task}]
         /\ \A v \in Workers : v # w => thr'[v] = thr[v]
         /\ pending_req[w] \in Reqs /\ pending_req[w] # 0
         /\ pending_req' = [pending_req EXCEPT ![w] = 0]
         /\ UNCHANGED <<ctx, req_hash, call, own, ran, freed, fired, faults, notified>>
PROOF
  <1>1. thr \in [Workers -> ThreadType] /\ pending_req \in [Workers -> Reqs \cup {0}]
    BY DEF Base, TypeInv, TypeOK
  <1>2. PICK t \in queue[w] :
           /\ t.req = pending_req[w]
           /\ \A u \in queue[w] : u.req = pending_req[w] => t.id <= u.id
           /\ queue' = [queue EXCEPT ![w] = @ \ {t}]
           /\ thr' = [thr EXCEPT ![w] = [pc |-> "run", task |-> t, ctx |-> 0]]
    BY DEF WorkerTake, IsFirst, OfReq, Unlink
  <1>3. thr'[w].pc = "run" /\ thr'[w].task = t /\ \A v \in Workers : v # w => thr'[v] = thr[v]
    BY <1>1, <1>2
  <1>4. /\ thr[w].pc \in {"loop", "woken"} /\ pending_req[w] # 0
        /\ pending_req' = [pending_req EXCEPT ![w] = 0]
        /\ UNCHANGED <<ctx, req_hash, call, own, ran, freed, fired, faults, notified>>
    BY DEF WorkerTake, AtLoop, Consumed, tableVars, ghostVars
  <1> QED BY <1>1, <1>2, <1>3, <1>4

\* An attach adds tasks of one request, one that has no context, at one worker.
LEMMA AttachFacts ==
  ASSUME Base, NEW c \in Callers, Attach(c)
  PROVE  /\ call[c].req \in Reqs /\ ContextsOf(call[c].req) = {}
         /\ Accepted(call[c].req) = {} /\ call[c].best \in Workers
         /\ \A t \in NewTasks(call[c]) : t.req = call[c].req /\ t.id >= next_task_id
         /\ \A w \in Workers : queue'[w] = IF w = call[c].best
                                           THEN queue[w] \cup NewTasks(call[c]) ELSE queue[w]
         /\ UNCHANGED <<state, pending_req, thr, ctx, req_hash, own, ran, freed, fired,
                        faults, notified>>
         /\ call' = [call EXCEPT ![c].pc = "find", ![c].k = next_task_id]
PROOF
  <1>1. /\ queue \in [Workers -> SUBSET Task] /\ call[c] \in CallType /\ next_task_id \in Nat
        /\ CallInv(call[c]) /\ CallOK(call[c])
    BY DEF Base, TypeInv, TypeOK, LocalsOK, RequestInv, CallsOK
  <1>2. /\ call[c].pc = "attach" /\ queue' = Linked(call[c])
        /\ UNCHANGED <<state, pending_req, thr, ctx, req_hash, own, ran, freed, fired,
                       faults, notified>>
        /\ call' = [call EXCEPT ![c].pc = "find", ![c].k = next_task_id]
    BY DEF Attach, tableVars, ghostVars
  <1>3. /\ call[c].req \in Reqs /\ call[c].best \in Workers
        /\ ContextsOf(call[c].req) = {} /\ Accepted(call[c].req) = {}
    BY <1>1, <1>2 DEF CallOK, CallInv
  <1>4. \A t \in NewTasks(call[c]) : t.req = call[c].req /\ t.id >= next_task_id
    BY <1>1 DEF NewTasks
  <1>5. \A w \in Workers : queue'[w] = IF w = call[c].best
                                       THEN queue[w] \cup NewTasks(call[c]) ELSE queue[w]
    BY <1>1, <1>2, <1>3 DEF Linked
  <1> QED BY <1>2, <1>3, <1>4, <1>5

\* A request that is settled stays settled: nothing can be queued for it, so
\* nothing can be taken or cancelled.
LEMMA SettledStays ==
  ASSUME Base, [Next]_vars, NEW r \in Reqs, Settled(r), ContextsOf(r) # {}
  PROVE  Settled(r)'
PROOF
  <1>1. \A w \in Workers : \A t \in queue[w] : t.req # r
    BY DEF Settled, Queued
  <1>2. \A w \in Workers : \A t \in queue'[w] : t.req # r
    <2>1. CASE \E c \in Callers : Attach(c)
      BY <1>1, <2>1, AttachFacts
    <2>2. CASE \A c \in Callers : ~Attach(c)
      BY <1>1, <2>2, StepGains
    <2> QED BY <2>1, <2>2
  <1>3. Queued(r)' = {}
    BY <1>2 DEF Queued
  <1>4. Undecremented(r)' = {}
    <2> SUFFICES ASSUME NEW w \in Workers, thr'[w].pc \in {"run", "find", "dec"},
                        thr'[w].task.req = r
                 PROVE  FALSE
      BY DEF Undecremented
    <2>1. CASE WorkerTake(w)
      BY <1>1, <2>1, TakeFacts
    <2>2. CASE ~WorkerTake(w)
      <3>1. thr[w].pc \in {"run", "find", "dec"} /\ thr'[w].task = thr[w].task
        BY <2>2, StepGains DEF Running
      <3> QED BY <3>1 DEF Settled, Undecremented
    <2> QED BY <2>1, <2>2
  <1>5. Unsubtracted(r)' = {}
    <2>1. ASSUME NEW c \in Callers, call'[c].pc = "cupdate", call'[c].req = r
          PROVE  call'[c] = call[c]
      <3> SUFFICES ~CancelQueue(c)
        BY <2>1, StepGains
      <3> SUFFICES ASSUME CancelQueue(c) PROVE FALSE
        OBVIOUS
      <3> DEFINE gone == OfReq(call[c].best, call[c].req)
                 k == Cardinality(gone)
      <3>1. /\ call' = [call EXCEPT ![c] = Removed(call[c], k)]
            /\ call[c] \in CallType /\ call[c].best \in Workers
        BY DEF CancelQueue, Base, TypeInv, TypeOK, LocalsOK, CallOK
      <3>2. call'[c] = Removed(call[c], k)
        BY <3>1 DEF Base, TypeInv, TypeOK
      <3>3. k > 0 /\ call[c].req = r
        <4> HIDE DEF k
        <4> QED BY <2>1, <3>1, <3>2 DEF Removed, NoCall, CallType
      <3>4. gone = {}
        BY <1>1, <3>1, <3>3 DEF OfReq
      <3> QED BY <3>3, <3>4, FS_EmptySet
    <2>2. \A c \in Callers : ~(call'[c].pc = "cupdate" /\ call'[c].req = r)
      <3> SUFFICES ASSUME NEW c \in Callers, call'[c].pc = "cupdate", call'[c].req = r
                   PROVE  FALSE
        OBVIOUS
      <3>1. call[c].pc = "cupdate" /\ call[c].req = r
        BY <2>1
      <3>2. call[c].k \in 1 .. MaxTaskId
        BY <3>1 DEF Base, RequestInv, CallsOK, CallInv
      <3>3. 1 \in 1 .. MaxTaskId /\ 1 <= call[c].k
        BY <3>2, BoundsNat
      <3>4. <<c, 1>> \in Unsubtracted(r)
        BY <3>1, <3>3 DEF Unsubtracted
      <3> QED BY <3>4 DEF Settled
    <2> QED BY <2>2 DEF Unsubtracted
  <1> QED BY <1>3, <1>4, <1>5 DEF Settled

-----------------------------------------------------------------------------
(* The context goes with the last task.                                    *)

\* Between the decrement to zero and the removal a thread keeps its context.
LEMMA LeavingStays ==
  ASSUME Base, [Next]_vars, NEW w \in Workers, thr[w].pc \in {"cb", "remove"},
         ~WorkerRemoveCtx(w)
  PROVE  /\ thr'[w].pc \in {"cb", "remove"} /\ thr'[w].ctx = thr[w].ctx
         /\ thr'[w].task = thr[w].task
         /\ thr'[w].pc = "cb" => thr[w].pc = "cb"
PROOF
  <1>0. thr \in [Workers -> ThreadType] /\ own \in [pc : OwnPc, i : Workers]
    BY DEF Base, TypeInv, TypeOK
  <1>1. ASSUME NEW v \in Workers, WorkerStep(v) \/ SpuriousWakeup(v), v # w
        PROVE  thr'[w] = thr[w]
    BY <1>0, <1>1 DEF WorkerStep, WorkerStart, WorkerWait, WorkerExit, WorkerTake,
         WorkerTakeNone, WorkerRun, WorkerFindCtx, WorkerDec, WorkerBatchCb,
         WorkerRemoveCtx, WorkerFinish, SpuriousWakeup
  <1>2. CASE WorkerStep(w) \/ SpuriousWakeup(w)
    <2>1. WorkerBatchCb(w)
      BY <1>2 DEF WorkerStep, WorkerStart, WorkerWait, WorkerExit, WorkerTake,
           WorkerTakeNone, WorkerRun, WorkerFindCtx, WorkerDec,
           WorkerFinish, SpuriousWakeup, AtLoop
    <2> QED BY <1>0, <2>1 DEF WorkerBatchCb, ThreadType
  <1>3. CASE OwnerStep \/ BeginDestroy \/ Gone \/ UNCHANGED vars
    <2>1. CASE CreateWorker \/ CreateFailed
      <3>1. own.pc = "create" /\ own.i \in Workers /\ own.i <= own.i
        BY <1>0, <2>1, WorkersFacts DEF CreateWorker, CreateFailed
      <3>2. thr[own.i].pc = "none"
        BY <3>1 DEF Base, BusyInv, Uncreated
      <3>3. w # own.i
        BY <3>2
      <3> QED BY <1>0, <2>1, <3>3 DEF CreateWorker, CreateFailed
    <2>2. CASE ShutdownSignal
      BY <1>0, <2>2 DEF ShutdownSignal, Signal
    <2>3. CASE ~(CreateWorker \/ CreateFailed \/ ShutdownSignal)
      <3>1. UNCHANGED thr
        BY <1>3, <2>3 DEF OwnerStep, AwaitWorker, Start, Join, FreePool, BeginDestroy,
             Gone, vars, workerVars
      <3> QED BY <3>1
    <2> QED BY <2>1, <2>2, <2>3
  <1>4. ASSUME NEW c \in Callers, NewCall(c) \/ CallStep(c)
        PROVE  thr'[w] = thr[w]
    <2>1. CASE WakeSet(c)
      <3>1. thr' = Signal(call[c].best)
        BY <2>1 DEF WakeSet
      <3> QED BY <1>0, <3>1 DEF Signal
    <2>2. CASE ~WakeSet(c)
      <3>1. UNCHANGED thr
        BY <1>4, <2>2 DEF NewCall, SubmitTask, SubmitBatch, Submit, Wake, Cancel, CallStep,
             Scan, AllocFail, Attach, FindCtx, AddCtx, InsertCtx, InsertFail, ReadId, Stray,
             Deref, CancelQueue, CancelCtx, workerVars
      <3> QED BY <3>1
    <2> QED BY <2>1, <2>2
  <1> QED BY <1>1, <1>2, <1>3, <1>4 DEF Next

\* Only these four touch the table.
LEMMA TableSteps ==
  ASSUME Base, [Next]_vars, \A c \in Callers : ~InsertCtx(c) /\ ~CancelCtx(c),
         \A w \in Workers : ~WorkerDec(w)
  PROVE  UNCHANGED ctx /\ req_hash' \subseteq req_hash
PROOF
  <1>1. \A c \in Callers : ~AddCtx(c)
    BY DEF Base, RequestInv, CallsOK, CallInv, AddCtx
  <1>2. ASSUME NEW w \in Workers, WorkerStep(w) \/ SpuriousWakeup(w)
        PROVE  UNCHANGED ctx /\ req_hash' \subseteq req_hash
    BY <1>2 DEF WorkerStep, WorkerStart, WorkerWait, WorkerExit, WorkerTake,
         WorkerTakeNone, WorkerRun, WorkerFindCtx, WorkerBatchCb,
         WorkerRemoveCtx, WorkerFinish, SpuriousWakeup, tableVars
  <1>3. CASE OwnerStep \/ BeginDestroy \/ Gone \/ UNCHANGED vars
    BY <1>3 DEF OwnerStep, CreateWorker, CreateFailed, AwaitWorker, Start,
         ShutdownSignal, Join, FreePool, BeginDestroy, Gone, vars, tableVars
  <1>4. ASSUME NEW c \in Callers, NewCall(c) \/ CallStep(c)
        PROVE  UNCHANGED ctx /\ req_hash' \subseteq req_hash
    BY <1>1, <1>4 DEF NewCall, SubmitTask, SubmitBatch, Submit, Wake, Cancel, CallStep,
         Scan, AllocFail, Attach, FindCtx, InsertFail, ReadId, Stray, Deref, WakeSet,
         CancelQueue, tableVars
  <1> QED BY <1>2, <1>3, <1>4 DEF Next

\* The second half of a cancel holds a live context, the only one of its request.
LEMMA CancelCtxFacts ==
  ASSUME Base, NEW c \in Callers, CancelCtx(c)
  PROVE  /\ call[c].ctx \in req_hash /\ call[c].ctx \in ContextsOf(call[c].req)
         /\ call[c].req \in Reqs
         /\ ctx' = [ctx EXCEPT ![call[c].ctx].pending_count = @ - call[c].k]
         /\ req_hash' = IF ctx'[call[c].ctx].pending_count = 0
                        THEN req_hash \ {call[c].ctx} ELSE req_hash
PROOF
  <1> DEFINE i == call[c].ctx
             r == call[c].req
  <1>1. CallInv(call[c]) /\ call[c].pc = "cupdate" /\ r \in Reqs
    BY DEF CancelCtx, Base, TypeInv, LocalsOK, CallOK, RequestInv, CallsOK
  <1>2. ContextsOf(r) # {} /\ i \in ContextsOf(r) /\ call[c].k \in 1 .. MaxTaskId
    BY <1>1 DEF CallInv, FoundPc
  <1>3. 1 \in 1 .. MaxTaskId /\ 1 <= call[c].k
    BY <1>2, BoundsNat
  <1>4. <<c, 1>> \in Unsubtracted(r)
    BY <1>1, <1>3 DEF Unsubtracted
  <1>5. ~Settled(r)
    BY <1>4 DEF Settled
  <1>6. i \in req_hash /\ \A j \in ContextsOf(r) : i = j
    BY <1>1, <1>2, <1>5, FindsOne DEF Base
  <1>7. Newest(r) = ContextsOf(r) \cap req_hash
    BY NewestOne DEF Base, RequestInv, TableInv
  <1>8. Newest(r) = {i}
    BY <1>2, <1>6, <1>7
  <1> QED BY <1>1, <1>2, <1>6, <1>8 DEF CancelCtx, Live

\* Every step keeps it: a context at zero waits for the thread that counted it
\* down.
LEMMA IdleStep ==
  ASSUME Base, Base', [Next]_vars, NoIdleContext
  PROVE  NoIdleContext'
PROOF
  <1>0. /\ thr \in [Workers -> ThreadType] /\ ctx \in Seq(Context)
        /\ req_hash \subseteq 1 .. Len(ctx) /\ Len(ctx) \in Nat
        /\ \A j \in 1 .. Len(ctx) : ctx[j] \in Context
        /\ DOMAIN ctx = 1 .. Len(ctx)
    BY LenProperties, ElementOfSeq DEF Base, TypeInv, TypeOK
  <1>1. ASSUME NEW i \in req_hash, i \in req_hash', ctx'[i].pending_count = 0,
               ctx[i].pending_count = 0
        PROVE  \E w \in Workers : thr'[w].pc \in {"cb", "remove"} /\ thr'[w].ctx = i
    <2>1. PICK w \in Workers : thr[w].pc \in {"cb", "remove"} /\ thr[w].ctx = i
      BY <1>1 DEF NoIdleContext
    <2>2. ~WorkerRemoveCtx(w)
      <3> SUFFICES ASSUME WorkerRemoveCtx(w) PROVE FALSE
        OBVIOUS
      <3>1. i \in ContextsOf(thr[w].task.req)
        BY <2>1 DEF Base, RequestInv, TableInv, Holds
      <3>2. i \in Newest(thr[w].task.req)
        BY <1>1, <3>1, NewestOne DEF Base, RequestInv, TableInv
      <3> QED BY <1>1, <3>2 DEF WorkerRemoveCtx
    <2> QED BY <2>1, <2>2, LeavingStays
  <1>2. ASSUME NEW w \in Workers, WorkerDec(w)
        PROVE  NoIdleContext'
    <2>1. /\ thr[w].ctx \in req_hash
          /\ ctx' = [ctx EXCEPT ![thr[w].ctx].pending_count = @ - 1]
          /\ thr'[w].pc = "cb" <=> ctx'[thr[w].ctx].pending_count = 0
          /\ thr'[w].ctx = thr[w].ctx
      BY <1>2, DecRequest DEF Base
    <2>2. req_hash' = req_hash
      BY <1>2 DEF WorkerDec
    <2>3. \A j \in req_hash : j # thr[w].ctx => ctx'[j] = ctx[j]
      BY <1>0, <2>1
    <2> QED BY <1>1, <2>1, <2>2, <2>3 DEF NoIdleContext
  <1>3. ASSUME NEW c \in Callers, CancelCtx(c)
        PROVE  NoIdleContext'
    <2>1. /\ call[c].ctx \in req_hash
          /\ ctx' = [ctx EXCEPT ![call[c].ctx].pending_count = @ - call[c].k]
          /\ req_hash' = IF ctx'[call[c].ctx].pending_count = 0
                         THEN req_hash \ {call[c].ctx} ELSE req_hash
      BY <1>3, CancelCtxFacts
    <2>2. \A j \in req_hash : j # call[c].ctx => ctx'[j] = ctx[j]
      BY <1>0, <2>1
    <2>3. ASSUME NEW i \in req_hash', ctx'[i].pending_count = 0
          PROVE  i # call[c].ctx /\ i \in req_hash
      BY <2>1, <2>3
    <2> QED BY <1>1, <2>2, <2>3 DEF NoIdleContext
  <1>4. ASSUME NEW c \in Callers, InsertCtx(c)
        PROVE  NoIdleContext'
    <2>1. /\ ctx' = Append(ctx, NewContext(call[c])) /\ req_hash' = req_hash \cup {Len(ctx) + 1}
          /\ call[c].pc = "insert" /\ CallInv(call[c])
      BY <1>4 DEF InsertCtx, Base, RequestInv, CallsOK
    <2>2. NewContext(call[c]) \in Context
      BY <2>1 DEF NewContext, Context, Base, TypeInv, TypeOK, LocalsOK, CallOK, CallType
    <2>3. call[c].n \in 1 .. MaxTaskId
      BY <2>1 DEF CallInv, SubmitPc
    <2>4. NewContext(call[c]).pending_count # 0
      BY <2>3, BoundsNat DEF NewContext
    <2>5. ctx'[Len(ctx) + 1] = NewContext(call[c]) /\ \A i \in 1 .. Len(ctx) : ctx'[i] = ctx[i]
      BY <1>0, <2>1, <2>2, AppendProperties
    <2>6. ASSUME NEW i \in req_hash', ctx'[i].pending_count = 0
          PROVE  i \in req_hash /\ ctx[i].pending_count = 0
      <3>1. i # Len(ctx) + 1
        BY <2>4, <2>5, <2>6
      <3> QED BY <1>0, <2>1, <2>5, <2>6, <3>1
    <2> QED BY <1>1, <2>6 DEF NoIdleContext
  <1>5. CASE /\ \A c \in Callers : ~InsertCtx(c) /\ ~CancelCtx(c)
             /\ \A w \in Workers : ~WorkerDec(w)
    BY <1>1, <1>5, TableSteps DEF NoIdleContext
  <1> QED BY <1>2, <1>3, <1>4, <1>5

\* When no request id is submitted twice, a context whose count is zero is about
\* to be removed by the worker that counted it down: the cancel that meets a
\* worker in its last task leaves no context behind in the table.
THEOREM NoIdleContextHolds == SubmitOnce /\ Spec => []NoIdleContext
PROOF
  <1>1. Init => NoIdleContext
    BY DEF Init, NoIdleContext
  <1>2. Base /\ Base' /\ [Next]_vars /\ NoIdleContext => NoIdleContext'
    BY IdleStep
  <1> QED BY <1>1, <1>2, BaseInvariant, PTL DEF Spec

-----------------------------------------------------------------------------
(* The batch callback.                                                     *)

\* The callback is called from one place, by a thread that has counted down to
\* zero; the thread comes there by the decrement only.
LEMMA CallbackSteps ==
  ASSUME Base, [Next]_vars
  PROVE  /\ (\A w \in Workers : ~WorkerBatchCb(w)) => UNCHANGED fired
         /\ \A w \in Workers : thr'[w].pc = "cb" =>
               /\ thr[w].pc = "cb" \/ WorkerDec(w)
               /\ thr'[w].task = thr[w].task
PROOF
  <1> DEFINE From(w) == thr'[w].pc = "cb" => /\ thr[w].pc = "cb" \/ WorkerDec(w)
                                             /\ thr'[w].task = thr[w].task
             Silent == (\A w \in Workers : ~WorkerBatchCb(w)) => UNCHANGED fired
  <1>0. thr \in [Workers -> ThreadType] /\ own.i \in Workers
    BY DEF Base, TypeInv, TypeOK
  <1>1. ASSUME NEW w \in Workers, WorkerStep(w) \/ SpuriousWakeup(w)
        PROVE  Silent /\ \A v \in Workers : From(v)
    <2>1. Silent
      BY <1>1 DEF WorkerStep, WorkerStart, WorkerWait, WorkerExit, WorkerTake,
           WorkerTakeNone, WorkerRun, WorkerFindCtx, WorkerDec,
           WorkerRemoveCtx, WorkerFinish, SpuriousWakeup, ghostVars
    <2>2. \A v \in Workers : v # w => thr'[v] = thr[v]
      BY <1>0, <1>1 DEF WorkerStep, WorkerStart, WorkerWait, WorkerExit, WorkerTake,
           WorkerTakeNone, WorkerRun, WorkerFindCtx, WorkerDec, WorkerBatchCb,
           WorkerRemoveCtx, WorkerFinish, SpuriousWakeup
    <2>3. From(w)
      <3>1. CASE WorkerDec(w)
        <4>1. PICK pc \in {"cb", "fin"} : thr' = [thr EXCEPT ![w].pc = pc]
          BY <3>1 DEF WorkerDec
        <4> QED BY <1>0, <3>1, <4>1 DEF ThreadType
      <3>2. CASE WorkerFindCtx(w)
        <4>1. PICK pc \in {"dec", "fin"}, i \in Lookup(thr[w].task.req) :
                 thr' = [thr EXCEPT ![w].pc = pc, ![w].ctx = i]
          BY <3>2 DEF WorkerFindCtx
        <4>2. thr'[w] = [thr[w] EXCEPT !.pc = pc, !.ctx = i]
          BY <1>0, <4>1
        <4>3. thr'[w].pc \in {"dec", "fin"}
          BY <1>0, <4>2 DEF ThreadType
        <4> QED BY <4>3
      <3>3. CASE ~WorkerDec(w) /\ ~WorkerFindCtx(w)
        <4>1. thr'[w].pc # "cb"
          BY <1>0, <1>1, <3>3 DEF WorkerStep, WorkerStart, WorkerWait, WorkerExit,
             WorkerTake,
               WorkerTakeNone, WorkerRun, WorkerBatchCb,
               WorkerRemoveCtx, WorkerFinish, SpuriousWakeup, ThreadType, NoThread
        <4> QED BY <4>1
      <3> QED BY <3>1, <3>2, <3>3
    <2> QED BY <2>1, <2>2, <2>3
  <1>2. CASE OwnerStep \/ BeginDestroy \/ Gone \/ UNCHANGED vars
    <2>1. Silent
      BY <1>2 DEF OwnerStep, CreateWorker, CreateFailed, AwaitWorker, Start,
           ShutdownSignal, Join, FreePool, BeginDestroy, Gone, vars, ghostVars
    <2>2. \A w \in Workers : From(w)
      <3>1. \A w \in Workers : thr'[w] = thr[w] \/ thr'[w].pc # "cb"
        BY <1>0, <1>2 DEF OwnerStep, CreateWorker, CreateFailed, AwaitWorker, Start,
             ShutdownSignal, Join, FreePool, BeginDestroy, Gone, vars, workerVars, Signal,
             ThreadType
      <3> QED BY <3>1
    <2> QED BY <2>1, <2>2
  <1>3. ASSUME NEW c \in Callers, NewCall(c) \/ CallStep(c)
        PROVE  Silent /\ \A v \in Workers : From(v)
    <2>1. Silent
      BY <1>3 DEF NewCall, SubmitTask, SubmitBatch, Submit, Wake, Cancel, CallStep,
           Scan, AllocFail, Attach, FindCtx, AddCtx, InsertCtx, InsertFail, ReadId,
           Stray, Deref,
           WakeSet, CancelQueue, CancelCtx, ghostVars
    <2>2. \A w \in Workers : thr'[w] = thr[w] \/ thr'[w].pc # "cb"
      <3>1. CASE WakeSet(c)
        <4>1. thr' = Signal(call[c].best)
          BY <3>1 DEF WakeSet
        <4> QED BY <1>0, <4>1 DEF Signal, ThreadType
      <3>2. CASE ~WakeSet(c)
        <4>1. UNCHANGED thr
          BY <1>3, <3>2 DEF NewCall, SubmitTask, SubmitBatch, Submit, Wake, Cancel,
               CallStep, Scan, AllocFail, Attach, FindCtx, AddCtx, InsertCtx, InsertFail,
               ReadId, Stray, Deref, CancelQueue, CancelCtx, workerVars
        <4> QED BY <4>1
      <3> QED BY <3>1, <3>2
    <2> QED BY <2>1, <2>2
  <1> QED BY <1>1, <1>2, <1>3 DEF Next

\* A request that had a context is remembered to have had one.
LEMMA ContextStays ==
  ASSUME Base, [Next]_vars, NEW r, ContextsOf(r) # {}
  PROVE  ContextsOf(r)' # {}
PROOF
  <1>1. CASE \A c \in Callers : ~InsertCtx(c)
    BY <1>1, ContextsGrow, ContextsKept DEF Base
  <1>2. ASSUME NEW c \in Callers, InsertCtx(c)
        PROVE  ContextsOf(r)' # {}
    <2>1. ctx' = Append(ctx, NewContext(call[c])) /\ call[c].pc = "insert"
      BY <1>2 DEF InsertCtx
    <2>2. NewContext(call[c]) \in Context /\ ctx \in Seq(Context) /\ Len(ctx) \in Nat
      BY <2>1, LenProperties
         DEF NewContext, Context, Base, TypeInv, TypeOK, LocalsOK, CallOK, CallType
    <2>3. Len(ctx') = Len(ctx) + 1 /\ \A i \in 1 .. Len(ctx) : ctx'[i] = ctx[i]
      BY <2>1, <2>2, AppendProperties
    <2>4. ContextsOf(r) \subseteq ContextsOf(r)'
      BY <2>2, <2>3 DEF ContextsOf
    <2> QED BY <2>4
  <1> QED BY <1>1, <1>2

\* Two threads never work on tasks of the same request.
LEMMA OneThread ==
  ASSUME Base, NEW v \in Workers, NEW w \in Workers, Running(v), Running(w),
         thr[v].task.req = thr[w].task.req
  PROVE  v = w
PROOF
  <1>1. thr[v].task.req \in Reqs
    BY DEF Base, TypeInv, LocalsOK, Task
  <1>2. ContextsOf(thr[v].task.req) # {}
    BY <1>1 DEF Base, RequestInv, TableInv, Unbound
  <1>3. PICK i \in 1 .. Len(ctx) : ctx[i].request_id = thr[v].task.req
    BY <1>2 DEF ContextsOf
  <1> QED BY <1>3 DEF Base, RequestInv, TableInv, Home

\* After the callback nothing of the request is left; the thread that is about
\* to call it is the first to do so.
CallbackInv ==
    /\ \A r \in Reqs : fired[r] # 0 => /\ fired[r] = 1
                                       /\ ContextsOf(r) # {} /\ Settled(r)
    /\ \A w \in Workers : thr[w].pc = "cb" => fired[thr[w].task.req] = 0

\* The callback comes at the decrement to zero, and the count never rises again.
LEMMA CallbackStep ==
  ASSUME Base, [Next]_vars, CallbackInv
  PROVE  CallbackInv'
PROOF
  <1>0. fired \in [Reqs -> Nat] /\ thr \in [Workers -> ThreadType]
    BY DEF Base, TypeInv, TypeOK
  <1>1. \A w \in Workers : thr[w].pc \in {"dec", "cb"} => thr[w].task.req \in Reqs
    BY DEF Base, TypeInv, LocalsOK, Running, Task
  <1>2. ASSUME NEW r \in Reqs, ContextsOf(r) # {}, Settled(r)
        PROVE  ContextsOf(r)' # {} /\ Settled(r)'
    BY <1>2, ContextStays, SettledStays
  <1>3. ASSUME NEW w \in Workers, thr'[w].pc = "cb"
        PROVE  fired[thr'[w].task.req] = 0
    <2>1. thr[w].pc = "cb" \/ WorkerDec(w)
      BY <1>3, CallbackSteps
    <2>2. thr'[w].task = thr[w].task
      BY <1>3, CallbackSteps
    <2>3. CASE thr[w].pc = "cb"
      BY <2>2, <2>3 DEF CallbackInv
    <2>4. CASE WorkerDec(w)
      <3>1. thr[w].pc = "dec"
        BY <2>4 DEF WorkerDec
      <3>2. w \in Undecremented(thr[w].task.req)
        BY <3>1 DEF Undecremented
      <3> QED BY <1>1, <2>2, <3>1, <3>2 DEF CallbackInv, Settled
    <2> QED BY <2>1, <2>3, <2>4
  <1>4. ASSUME NEW w \in Workers, WorkerBatchCb(w)
        PROVE  CallbackInv'
    <2>1. /\ thr[w].pc = "cb"
          /\ fired' = fired \/ fired' = [fired EXCEPT ![thr[w].task.req] = @ + 1]
          /\ thr' = [thr EXCEPT ![w].pc = "remove"]
      BY <1>4 DEF WorkerBatchCb
    <2>2. PICK r \in Reqs : r = thr[w].task.req
      BY <1>1, <2>1
    <2>3. ContextsOf(r) # {} /\ Settled(r) /\ fired[r] = 0
      BY <2>1, <2>2 DEF Base, RequestInv, TableInv, Holds, CallbackInv
    <2>4. fired'[r] \in {0, 1} /\ \A q \in Reqs : q # r => fired'[q] = fired[q]
      BY <1>0, <2>1, <2>2, <2>3
    <2>5. ASSUME NEW v \in Workers, thr'[v].pc = "cb"
          PROVE  thr'[v].task.req # r /\ thr'[v].task.req \in Reqs
      <3>1. v # w /\ thr'[v] = thr[v]
        BY <1>0, <2>1, <2>5 DEF ThreadType
      <3>2. Running(v) /\ Running(w)
        BY <2>1, <2>5, <3>1 DEF Running
      <3> QED BY <1>1, <2>2, <2>5, <3>1, <3>2, OneThread
    <2> QED BY <1>2, <1>3, <2>3, <2>4, <2>5 DEF CallbackInv
  <1>5. CASE \A w \in Workers : ~WorkerBatchCb(w)
    <2>1. UNCHANGED fired
      BY <1>5, CallbackSteps
    <2> QED BY <1>2, <1>3, <2>1 DEF CallbackInv
  <1> QED BY <1>4, <1>5

\* Only the thread that holds a task executes it.
LEMMA RanSteps ==
  ASSUME Base, [Next]_vars
  PROVE  \A t \in ran' : t \in ran \/ \E w \in Workers : Running(w) /\ t = thr[w].task
PROOF
  <1>1. ASSUME NEW w \in Workers, WorkerRun(w)
        PROVE  ran' = ran \cup {thr[w].task} /\ Running(w)
    BY <1>1 DEF WorkerRun, Running
  <1>2. CASE \A w \in Workers : ~WorkerRun(w)
    <2>1. ASSUME NEW w \in Workers, WorkerStep(w) \/ SpuriousWakeup(w)
          PROVE  ran' = ran
      BY <1>2, <2>1 DEF WorkerStep, WorkerStart, WorkerWait, WorkerExit, WorkerTake,
           WorkerTakeNone, WorkerFindCtx, WorkerDec, WorkerBatchCb,
           WorkerRemoveCtx, WorkerFinish, SpuriousWakeup, ghostVars
    <2>2. ASSUME OwnerStep \/ BeginDestroy \/ Gone \/ UNCHANGED vars
          PROVE  ran' = ran
      BY <2>2 DEF OwnerStep, CreateWorker, CreateFailed, AwaitWorker, Start,
           ShutdownSignal, Join, FreePool, BeginDestroy, Gone, vars, ghostVars
    <2>3. ASSUME NEW c \in Callers, NewCall(c) \/ CallStep(c)
          PROVE  ran' = ran
      BY <2>3 DEF NewCall, SubmitTask, SubmitBatch, Submit, Wake, Cancel, CallStep,
           Scan, AllocFail, Attach, FindCtx, AddCtx, InsertCtx, InsertFail, ReadId,
           Stray, Deref,
           WakeSet, CancelQueue, CancelCtx, ghostVars
    <2>4. ran' = ran
      BY <2>1, <2>2, <2>3 DEF Next
    <2> QED BY <2>4
  <1> QED BY <1>1, <1>2

\* A task of the request was taken away before it executed.
Dropped(r) == \E t \in freed \ ran : t.req = r

DroppedNext(r) == \E t \in freed' \ ran' : t.req = r

\* A context with a callback only goes after the call, or when a cancel (or the
\* end of the pool) took a task of its request.
DueInv ==
    /\ \A w \in Workers : thr[w].pc = "remove" /\ ctx[thr[w].ctx].batch_cb
                          => fired[thr[w].task.req] # 0
    /\ \A i \in 1 .. Len(ctx) : i \notin req_hash /\ ctx[i].batch_cb
          => fired[ctx[i].request_id] # 0 \/ Dropped(ctx[i].request_id)
    /\ \A c \in Callers : call[c].pc = "cupdate" => Dropped(call[c].req)

\* A thread comes to the removal from the callback only.
LEMMA RemoveSteps ==
  ASSUME Base, [Next]_vars
  PROVE  \A w \in Workers : thr'[w].pc = "remove" => thr'[w] = thr[w] \/ WorkerBatchCb(w)
PROOF
  <1> SUFFICES ASSUME NEW w \in Workers, thr'[w].pc = "remove"
               PROVE  thr'[w] = thr[w] \/ WorkerBatchCb(w)
    OBVIOUS
  <1>0. thr \in [Workers -> ThreadType] /\ own.i \in Workers
    BY DEF Base, TypeInv, TypeOK
  <1>1. ASSUME NEW v \in Workers, v # w, WorkerStep(v) \/ SpuriousWakeup(v)
        PROVE  thr'[w] = thr[w]
    BY <1>0, <1>1 DEF WorkerStep, WorkerStart, WorkerWait, WorkerExit, WorkerTake,
         WorkerTakeNone, WorkerRun, WorkerFindCtx, WorkerDec, WorkerBatchCb,
         WorkerRemoveCtx, WorkerFinish, SpuriousWakeup
  <1>2. CASE WorkerStep(w) \/ SpuriousWakeup(w)
    <2>1. CASE WorkerDec(w)
      <3>1. PICK pc \in {"cb", "fin"} : thr' = [thr EXCEPT ![w].pc = pc]
        BY <2>1 DEF WorkerDec
      <3>2. thr'[w].pc = pc
        BY <1>0, <3>1 DEF ThreadType
      <3> QED BY <1>0, <3>2
    <2>2. CASE WorkerFindCtx(w)
      <3>1. PICK pc \in {"dec", "fin"}, i \in Lookup(thr[w].task.req) :
               thr' = [thr EXCEPT ![w].pc = pc, ![w].ctx = i]
        BY <2>2 DEF WorkerFindCtx
      <3>2. thr'[w] = [thr[w] EXCEPT !.pc = pc, !.ctx = i]
        BY <1>0, <3>1
      <3>3. thr'[w].pc = pc
        BY <1>0, <3>2 DEF ThreadType
      <3> QED BY <1>0, <3>3
    <2>3. CASE WorkerBatchCb(w)
      BY <2>3
    <2>4. CASE ~WorkerDec(w) /\ ~WorkerFindCtx(w) /\ ~WorkerBatchCb(w)
      <3>1. thr'[w].pc # "remove"
        BY <1>0, <1>2, <2>4 DEF WorkerStep, WorkerStart, WorkerWait, WorkerExit, WorkerTake,
             WorkerTakeNone, WorkerRun, WorkerRemoveCtx, WorkerFinish, SpuriousWakeup,
             ThreadType, NoThread
      <3> QED BY <1>0, <3>1
    <2> QED BY <2>1, <2>2, <2>3, <2>4
  <1>3. CASE OwnerStep \/ BeginDestroy \/ Gone \/ UNCHANGED vars
    <2>1. thr'[w] = thr[w] \/ thr'[w].pc # "remove"
      BY <1>0, <1>3 DEF OwnerStep, CreateWorker, CreateFailed, AwaitWorker, Start,
           ShutdownSignal, Join, FreePool, BeginDestroy, Gone, vars, workerVars, Signal,
           ThreadType
    <2> QED BY <1>0, <2>1
  <1>4. ASSUME NEW c \in Callers, NewCall(c) \/ CallStep(c)
        PROVE  thr'[w] = thr[w]
    <2>1. CASE WakeSet(c)
      <3>1. thr' = Signal(call[c].best)
        BY <2>1 DEF WakeSet
      <3>2. thr'[w] = thr[w] \/ thr'[w].pc = "woken"
        BY <1>0, <3>1 DEF Signal, ThreadType
      <3> QED BY <1>0, <3>2
    <2>2. CASE ~WakeSet(c)
      <3>1. UNCHANGED thr
        BY <1>4, <2>2 DEF NewCall, SubmitTask, SubmitBatch, Submit, Wake, Cancel, CallStep,
             Scan, AllocFail, Attach, FindCtx, AddCtx, InsertCtx, InsertFail, ReadId, Stray,
             Deref, CancelQueue, CancelCtx, workerVars
      <3> QED BY <3>1
    <2> QED BY <2>1, <2>2
  <1> QED BY <1>1, <1>2, <1>3, <1>4 DEF Next

\* A task that was taken away stays so.
LEMMA DroppedStays ==
  ASSUME Base, OnceInv, [Next]_vars
  PROVE  \A r : Dropped(r) => DroppedNext(r)
PROOF
  <1> SUFFICES ASSUME NEW r, Dropped(r) PROVE DroppedNext(r)
    OBVIOUS
  <1>1. PICK t \in freed : t \notin ran /\ t.req = r
    BY DEF Dropped
  <1>2. \A w \in Workers : Running(w) => thr[w].task \notin freed
    BY DEF OnceInv, TaskOnce
  <1>3. t \notin ran'
    BY <1>1, <1>2, RanSteps
  <1>4. freed \subseteq freed'
    <2>1. ASSUME NEW w \in Workers, WorkerStep(w) \/ SpuriousWakeup(w)
          PROVE  freed \subseteq freed'
      BY <2>1 DEF WorkerStep, WorkerStart, WorkerWait, WorkerExit, WorkerTake,
           WorkerTakeNone, WorkerRun, WorkerFindCtx, WorkerDec, WorkerBatchCb,
           WorkerRemoveCtx, WorkerFinish, SpuriousWakeup, ghostVars
    <2>2. CASE OwnerStep \/ BeginDestroy \/ Gone \/ UNCHANGED vars
      BY <2>2 DEF OwnerStep, CreateWorker, CreateFailed, AwaitWorker, Start,
           ShutdownSignal, Join, FreePool, BeginDestroy, Gone, vars, ghostVars
    <2>3. ASSUME NEW c \in Callers, NewCall(c) \/ CallStep(c)
          PROVE  freed \subseteq freed'
      BY <2>3 DEF NewCall, SubmitTask, SubmitBatch, Submit, Wake, Cancel, CallStep,
           Scan, AllocFail, Attach, FindCtx, AddCtx, InsertCtx, InsertFail, ReadId, Stray,
           Deref, WakeSet, CancelQueue, CancelCtx, ghostVars
    <2> QED BY <2>1, <2>2, <2>3 DEF Next
  <1> QED BY <1>1, <1>3, <1>4 DEF DroppedNext

\* When nothing of a request is left, its context has nothing to count.
LEMMA CountedOut ==
  ASSUME Base, NEW i \in req_hash, Settled(ctx[i].request_id)
  PROVE  ctx[i].pending_count = 0
PROOF
  <1> DEFINE r == ctx[i].request_id
  <1>1. /\ Cardinality(Queued(r)) = 0 /\ Cardinality(Undecremented(r)) = 0
        /\ Cardinality(Unsubtracted(r)) = 0
    BY FS_EmptySet DEF Settled
  <1>2. ctx[i].pending_count = Cardinality(Queued(r))
            + Cardinality(Undecremented(r)) + Cardinality(Unsubtracted(r))
    BY DEF Base, RequestInv, TableInv, CountExact
  <1> QED BY <1>1, <1>2

\* Who takes a context from the table: the worker after its callback, a cancel
\* that took the last tasks, the end of the pool.
LEMMA TableLoses ==
  ASSUME Base, [Next]_vars, NEW i \in req_hash, i \notin req_hash'
  PROVE  \/ \E w \in Workers : /\ WorkerRemoveCtx(w) /\ Running(w)
                               /\ thr[w].task.req = ctx[i].request_id
         \/ \E c \in Callers : /\ CancelCtx(c) /\ call[c].ctx = i
                               /\ call[c].req = ctx[i].request_id
         \/ FreePool
PROOF
  <1>1. ASSUME NEW w \in Workers, WorkerRemoveCtx(w)
        PROVE  Running(w) /\ thr[w].task.req = ctx[i].request_id
    <2>1. thr[w].pc = "remove" /\ i \in Newest(thr[w].task.req)
      BY <1>1 DEF WorkerRemoveCtx
    <2> QED BY <2>1 DEF Newest, Running
  <1>2. ASSUME NEW c \in Callers, CancelCtx(c)
        PROVE  call[c].ctx = i /\ call[c].req = ctx[i].request_id
    <2>1. /\ req_hash' \in {req_hash, req_hash \ {call[c].ctx}}
          /\ call[c].ctx \in ContextsOf(call[c].req)
      BY <1>2, CancelCtxFacts
    <2>2. i = call[c].ctx
      BY <2>1
    <2> QED BY <2>1, <2>2 DEF ContextsOf
  <1>3. CASE /\ \A w \in Workers : ~WorkerRemoveCtx(w)
             /\ \A c \in Callers : ~CancelCtx(c)
             /\ ~FreePool
    <2>1. ASSUME NEW w \in Workers, WorkerStep(w) \/ SpuriousWakeup(w)
          PROVE  req_hash \subseteq req_hash'
      BY <1>3, <2>1 DEF WorkerStep, WorkerStart, WorkerWait, WorkerExit, WorkerTake,
           WorkerTakeNone, WorkerRun, WorkerFindCtx, WorkerDec, WorkerBatchCb,
           WorkerFinish, SpuriousWakeup, tableVars
    <2>2. ASSUME OwnerStep \/ BeginDestroy \/ Gone \/ UNCHANGED vars
          PROVE  req_hash \subseteq req_hash'
      BY <1>3, <2>2 DEF OwnerStep, CreateWorker, CreateFailed, AwaitWorker, Start,
           ShutdownSignal, Join, BeginDestroy, Gone, vars, tableVars
    <2>3. ASSUME NEW c \in Callers, NewCall(c) \/ CallStep(c)
          PROVE  req_hash \subseteq req_hash'
      BY <1>3, <2>3 DEF NewCall, SubmitTask, SubmitBatch, Submit, Wake, Cancel, CallStep,
           Scan, AllocFail, Attach, FindCtx, AddCtx, InsertCtx, InsertFail, ReadId, Stray,
           Deref, WakeSet, CancelQueue, tableVars
    <2>4. req_hash \subseteq req_hash'
      BY <2>1, <2>2, <2>3 DEF Next
    <2> QED BY <2>4
  <1> QED BY <1>1, <1>2, <1>3

\* None of them leaves the callback of a request out, unless a task was dropped.
LEMMA GoneSteps ==
  ASSUME Base, OnceInv, NoIdleContext, DueInv, [Next]_vars,
         NEW i \in req_hash, i \notin req_hash', ctx[i].batch_cb
  PROVE  fired[ctx[i].request_id] # 0 \/ DroppedNext(ctx[i].request_id)
PROOF
  <1>0. /\ i \in 1 .. Len(ctx) /\ ctx[i].request_id \in Reqs
        /\ queue \in [Workers -> SUBSET Task] /\ \A j \in ContextsOf(ctx[i].request_id) : j = i
    BY ContextType DEF Base, TypeInv, TypeOK, RequestInv, TableInv, OneContext, ContextsOf
  <1> DEFINE r == ctx[i].request_id
  <1>1. ASSUME NEW w \in Workers, WorkerRemoveCtx(w)
        PROVE  fired[r] # 0
    <2>1. thr[w].pc = "remove" /\ i \in Newest(thr[w].task.req)
      BY <1>1 DEF WorkerRemoveCtx
    <2>2. thr[w].task.req = r /\ thr[w].ctx \in ContextsOf(r)
      BY <2>1 DEF Newest, Base, RequestInv, TableInv, Holds
    <2>3. thr[w].ctx = i
      BY <1>0, <2>2
    <2> QED BY <2>1, <2>2, <2>3 DEF DueInv
  <1>2. ASSUME NEW c \in Callers, CancelCtx(c), call[c].req = r
        PROVE  DroppedNext(r)
    <2>1. Dropped(r)
      BY <1>2 DEF DueInv, CancelCtx
    <2> QED BY <2>1, DroppedStays
  <1>3. CASE FreePool
    <2>1. /\ freed' = freed \cup UNION {queue[w] : w \in Workers} /\ UNCHANGED ran
          /\ own.pc = "free"
      BY <1>3 DEF FreePool
    <2>2. CASE Queued(r) # {}
      <3>1. PICK w \in Workers : \E t \in queue[w] : t.req = r
        BY <2>2 DEF Queued
      <3>2. PICK t \in queue[w] : t.req = r
        BY <3>1
      <3>3. t \notin ran
        BY <3>2 DEF OnceInv, TaskOnce
      <3> QED BY <2>1, <3>2, <3>3 DEF DroppedNext
    <2>3. CASE Queued(r) = {}
      <3>1. /\ \A w \in Workers : thr[w].pc \in {"none", "failed", "exited"}
            /\ \A c \in Callers : call[c].pc = "idle"
        BY <2>1 DEF Base, RequestInv, Shutdown, Quitted
      <3>2. Undecremented(r) = {} /\ Unsubtracted(r) = {}
        BY <3>1 DEF Undecremented, Unsubtracted
      <3>3. ctx[i].pending_count = 0
        BY <2>3, <3>2, CountedOut DEF Settled
      <3> QED BY <3>1, <3>3 DEF NoIdleContext
    <2> QED BY <2>2, <2>3
  <1> QED BY <1>1, <1>2, <1>3, TableLoses

\* A context keeps its callback, and a new one is in the table.
LEMMA CallbackKept ==
  ASSUME Base, Base', [Next]_vars
  PROVE  /\ \A i \in 1 .. Len(ctx) : /\ i \in 1 .. Len(ctx')
                                     /\ ctx'[i].batch_cb = ctx[i].batch_cb
                                     /\ ctx'[i].request_id = ctx[i].request_id
         /\ \A i \in 1 .. Len(ctx') : i \in 1 .. Len(ctx) \/ i \in req_hash'
PROOF
  <1>0. /\ ctx \in Seq(Context) /\ Len(ctx) \in Nat /\ DOMAIN ctx = 1 .. Len(ctx)
        /\ \A i \in 1 .. Len(ctx) : ctx[i] \in Context
        /\ req_hash \subseteq 1 .. Len(ctx)
    BY LenProperties, ContextType DEF Base, TypeInv, TypeOK
  <1>1. ASSUME NEW c \in Callers, InsertCtx(c)
        PROVE  /\ Len(ctx') = Len(ctx) + 1 /\ Len(ctx) + 1 \in req_hash'
               /\ \A i \in 1 .. Len(ctx) : ctx'[i] = ctx[i]
    <2>1. /\ ctx' = Append(ctx, NewContext(call[c])) /\ call[c].pc = "insert"
          /\ Len(ctx) + 1 \in req_hash'
      BY <1>1 DEF InsertCtx
    <2>2. NewContext(call[c]) \in Context
      BY <2>1 DEF NewContext, Context, Base, TypeInv, TypeOK, LocalsOK, CallOK, CallType
    <2> QED BY <1>0, <2>1, <2>2, AppendProperties
  <1>2. ASSUME NEW i \in req_hash, NEW k \in Int, ctx' = [ctx EXCEPT ![i].pending_count = k]
        PROVE  /\ Len(ctx') = Len(ctx)
               /\ \A j \in 1 .. Len(ctx) : /\ ctx'[j].batch_cb = ctx[j].batch_cb
                                           /\ ctx'[j].request_id = ctx[j].request_id
    <2>1. Len(ctx') = Len(ctx)
      BY <1>0, <1>2, ContextCounts
    <2>2. \A j \in 1 .. Len(ctx) : /\ ctx'[j].batch_cb = ctx[j].batch_cb
                                   /\ ctx'[j].request_id = ctx[j].request_id
      BY <1>0, <1>2 DEF Context
    <2> QED BY <2>1, <2>2
  <1>3. ASSUME NEW w \in Workers, WorkerDec(w)
        PROVE  \E i \in req_hash, k \in Int : ctx' = [ctx EXCEPT ![i].pending_count = k]
    <2>1. /\ thr[w].ctx \in req_hash
          /\ ctx' = [ctx EXCEPT ![thr[w].ctx].pending_count = @ - 1]
      BY <1>3, DecRequest DEF Base
    <2>2. ctx[thr[w].ctx].pending_count - 1 \in Int
      BY <1>0, <2>1 DEF Context
    <2> QED BY <2>1, <2>2
  <1>4. ASSUME NEW c \in Callers, CancelCtx(c)
        PROVE  \E i \in req_hash, k \in Int : ctx' = [ctx EXCEPT ![i].pending_count = k]
    <2>1. /\ call[c].ctx \in req_hash
          /\ ctx' = [ctx EXCEPT ![call[c].ctx].pending_count = @ - call[c].k]
      BY <1>4, CancelCtxFacts
    <2>2. call[c].k \in Nat
      BY DEF Base, TypeInv, TypeOK, CallType
    <2>3. ctx[call[c].ctx].pending_count - call[c].k \in Int
      BY <1>0, <2>1, <2>2 DEF Context
    <2> QED BY <2>1, <2>3
  <1>5. CASE \E c \in Callers : InsertCtx(c)
    BY <1>0, <1>1, <1>5
  <1>6. CASE \E i \in req_hash, k \in Int : ctx' = [ctx EXCEPT ![i].pending_count = k]
    BY <1>0, <1>2, <1>6
  <1>7. CASE ctx' = ctx
    BY <1>7
  <1> QED BY <1>3, <1>4, <1>5, <1>6, <1>7, TableSteps

\* Every step keeps it.
LEMMA DueStep ==
  ASSUME Base, Base', OnceInv, NoIdleContext, CallbackInv, DueInv, [Next]_vars
  PROVE  DueInv'
PROOF
  <1>0. /\ fired \in [Reqs -> Nat] /\ thr \in [Workers -> ThreadType]
        /\ call \in [Callers -> CallType] /\ queue \in [Workers -> SUBSET Task]
    BY DEF Base, TypeInv, TypeOK
  <1>1. ASSUME NEW r \in Reqs, fired[r] # 0 PROVE fired'[r] # 0
    <2>1. CASE \A w \in Workers : ~WorkerBatchCb(w)
      BY <1>1, <2>1, CallbackSteps
    <2>2. ASSUME NEW w \in Workers, WorkerBatchCb(w) PROVE fired'[r] # 0
      <3>1. \/ fired' = fired
            \/ fired' = [fired EXCEPT ![thr[w].task.req] = @ + 1]
        BY <2>2 DEF WorkerBatchCb
      <3>2. thr[w].task.req \in Reqs /\ fired[thr[w].task.req] + 1 # 0
        BY <1>0, <2>2 DEF WorkerBatchCb, Base, TypeInv, LocalsOK, Running, Task
      <3> QED BY <1>0, <1>1, <3>1, <3>2
    <2> QED BY <2>1, <2>2
  <1>2. ASSUME NEW w \in Workers, thr'[w].pc = "remove", ctx'[thr'[w].ctx].batch_cb
        PROVE  fired'[thr'[w].task.req] # 0
    <2>1. ASSUME WorkerBatchCb(w) PROVE fired'[thr'[w].task.req] # 0
      <3>1. /\ thr[w].pc = "cb" /\ thr' = [thr EXCEPT ![w].pc = "remove"]
            /\ fired' = IF ctx[thr[w].ctx].batch_cb
                        THEN [fired EXCEPT ![thr[w].task.req] = @ + 1] ELSE fired
            /\ UNCHANGED ctx
        BY <2>1 DEF WorkerBatchCb, tableVars
      <3>2. thr'[w].ctx = thr[w].ctx /\ thr'[w].task = thr[w].task
        BY <1>0, <3>1 DEF ThreadType
      <3>3. thr[w].task.req \in Reqs /\ fired[thr[w].task.req] + 1 # 0
        BY <1>0, <3>1 DEF Base, TypeInv, LocalsOK, Running, Task
      <3> QED BY <1>0, <1>2, <3>1, <3>2, <3>3
    <2>2. ASSUME thr'[w] = thr[w] PROVE fired'[thr'[w].task.req] # 0
      <3>1. thr[w].ctx \in 1 .. Len(ctx) /\ thr[w].pc = "remove"
        BY <1>2, <2>2 DEF Base, RequestInv, TableInv, Holds, ContextsOf
      <3>2. ctx[thr[w].ctx].batch_cb
        BY <1>2, <2>2, <3>1, CallbackKept
      <3>3. fired[thr[w].task.req] # 0
        BY <3>1, <3>2 DEF DueInv
      <3>4. thr[w].task.req \in Reqs
        BY <3>1 DEF Base, TypeInv, LocalsOK, Running, Task
      <3> QED BY <1>1, <2>2, <3>3, <3>4
    <2> QED BY <1>2, <2>1, <2>2, RemoveSteps
  <1>3. ASSUME NEW i \in 1 .. Len(ctx'), i \notin req_hash', ctx'[i].batch_cb
        PROVE  fired'[ctx'[i].request_id] # 0 \/ DroppedNext(ctx'[i].request_id)
    <2>1. /\ i \in 1 .. Len(ctx) /\ ctx[i].batch_cb
          /\ ctx'[i].request_id = ctx[i].request_id /\ ctx[i].request_id \in Reqs
      BY <1>3, CallbackKept, ContextType DEF Base
    <2>2. fired[ctx[i].request_id] # 0 \/ DroppedNext(ctx[i].request_id)
      <3>1. CASE i \in req_hash
        BY <1>3, <2>1, <3>1, GoneSteps
      <3>2. CASE i \notin req_hash
        <4>1. fired[ctx[i].request_id] # 0 \/ Dropped(ctx[i].request_id)
          BY <2>1, <3>2 DEF DueInv
        <4> QED BY <4>1, DroppedStays
      <3> QED BY <3>1, <3>2
    <2> QED BY <1>1, <2>1, <2>2
  <1>4. ASSUME NEW c \in Callers, call'[c].pc = "cupdate"
        PROVE  DroppedNext(call'[c].req)
    <2>1. ASSUME call'[c] = call[c] PROVE DroppedNext(call[c].req)
      <3>1. Dropped(call[c].req)
        BY <1>4, <2>1 DEF DueInv
      <3> QED BY <3>1, DroppedStays
    <2>2. ASSUME CancelQueue(c)
          PROVE  DroppedNext(call[c].req) /\ call'[c].req = call[c].req
      <3> DEFINE gone == OfReq(call[c].best, call[c].req)
                 k == Cardinality(gone)
      <3>1. /\ call' = [call EXCEPT ![c] = Removed(call[c], k)]
            /\ freed' = freed \cup gone /\ UNCHANGED ran
            /\ call[c] \in CallType /\ call[c].best \in Workers
        BY <2>2 DEF CancelQueue, Base, TypeInv, TypeOK, LocalsOK, CallOK
      <3>2. k > 0 /\ call'[c].req = call[c].req
        <4> HIDE DEF k
        <4> QED BY <1>0, <1>4, <3>1 DEF Removed, NoCall, CallType
      <3>3. gone # {}
        BY <3>2, FS_EmptySet
      <3>4. PICK t \in queue[call[c].best] : t \in gone /\ t.req = call[c].req
        BY <3>3 DEF OfReq
      <3>5. t \notin ran
        BY <3>1, <3>4 DEF OnceInv, TaskOnce
      <3>6. t \in freed' \ ran'
        BY <3>1, <3>4, <3>5
      <3> QED BY <3>2, <3>4, <3>6 DEF DroppedNext
    <2> QED BY <1>4, <2>1, <2>2, StepGains
  <1> QED BY <1>2, <1>3, <1>4 DEF DueInv, Dropped, DroppedNext

\* When no request id is submitted twice, the batch callback of a request comes
\* once when all its tasks executed, whatever worker and cancel race to the last
\* one, never twice, and never before nothing of the batch is queued or executing.
THEOREM BatchCbOnceHolds == SubmitOnce /\ Spec => []BatchCbOnce
PROOF
  <1>1. Init => CallbackInv
    <2> SUFFICES ASSUME Init PROVE CallbackInv
      OBVIOUS
    <2>1. \A r \in Reqs : fired[r] = 0
      BY DEF Init
    <2>2. \A w \in Workers : thr[w].pc = "none"
      BY DEF Init, NoThread
    <2> QED BY <2>1, <2>2 DEF CallbackInv
  <1>2. Base /\ [Next]_vars /\ CallbackInv => CallbackInv'
    BY CallbackStep
  <1>3. Init => DueInv
    <2> SUFFICES ASSUME Init PROVE DueInv
      OBVIOUS
    <2>1. /\ \A w \in Workers : thr[w].pc = "none"
          /\ \A c \in Callers : call[c].pc = "idle" /\ ctx = <<>>
      BY DEF Init, NoThread, NoCall
    <2>2. ctx = <<>> /\ 1 .. Len(ctx) = {}
      BY EmptySeq DEF Init
    <2> QED BY <2>1, <2>2 DEF DueInv
  <1>4. Base /\ Base' /\ OnceInv /\ NoIdleContext /\ CallbackInv /\ DueInv /\ [Next]_vars
           => DueInv'
    BY DueStep
  <1>5. Base /\ OnceInv /\ NoIdleContext /\ CallbackInv /\ DueInv => BatchCbOnce
    <2> SUFFICES ASSUME Base, OnceInv, NoIdleContext, CallbackInv, DueInv, NEW r \in Reqs
                 PROVE  /\ fired[r] <= 1
                        /\ fired[r] = 1 => Queued(r) = {} /\ InHand(r) = {}
                        /\ HasBatchCb(r) /\ Accepted(r) \subseteq ran /\ ~Settling(r)
                           => fired[r] = 1
      BY DEF BatchCbOnce
    <2>1. fired[r] \in Nat
      BY DEF Base, TypeInv, TypeOK
    <2>2. Settled(r) => Queued(r) = {} /\ InHand(r) = {}
      BY DEF Settled, Undecremented, InHand
    <2>3. ASSUME HasBatchCb(r), Accepted(r) \subseteq ran, ~Settling(r)
          PROVE  fired[r] # 0
      <3>1. PICK i \in 1 .. Len(ctx) : ctx[i].request_id = r /\ ctx[i].batch_cb
        BY <2>3 DEF HasBatchCb
      <3>2. ~Dropped(r)
        BY <2>3 DEF Dropped, Accepted
      <3>3. CASE i \notin req_hash
        BY <3>1, <3>2, <3>3 DEF DueInv
      <3>4. CASE i \in req_hash
        <4>1. Queued(r) = {}
          BY <2>3 DEF Accepted, Queued, OnceInv, TaskOnce
        <4>2. Undecremented(r) = {}
          BY <2>3 DEF Settling, Undecremented
        <4>3. Unsubtracted(r) = {}
          BY <3>2 DEF DueInv, Unsubtracted
        <4>4. ctx[i].pending_count = 0
          BY <3>1, <3>4, <4>1, <4>2, <4>3, CountedOut DEF Settled
        <4>5. PICK w \in Workers : thr[w].pc \in {"cb", "remove"} /\ thr[w].ctx = i
          BY <3>4, <4>4 DEF NoIdleContext
        <4>6. thr[w].task.req = r
          BY <3>1, <4>5 DEF Base, RequestInv, TableInv, Holds, ContextsOf
        <4>7. thr[w].pc = "remove"
          BY <2>3, <4>5, <4>6 DEF Settling
        <4> QED BY <3>1, <4>5, <4>6, <4>7 DEF DueInv
      <3> QED BY <3>3, <3>4
    <2> QED BY <2>1, <2>2, <2>3 DEF CallbackInv
  <1> QED BY <1>1, <1>2, <1>3, <1>4, <1>5, BaseInvariant, OnceInvariant, NoIdleContextHolds,
             PTL DEF Spec

-----------------------------------------------------------------------------
(* The order of the tasks of a request.                                    *)

\* What is queued comes after what a worker holds, not only after what has run.
OrderInv ==
    /\ InOrder
    /\ \A v, w \in Workers : \A u \in queue[v] :
          Running(w) /\ thr[w].task.req = u.req => thr[w].task.id < u.id

\* A request is queued at one worker, from which its first task is taken, and
\* none is added after the first was taken.
LEMMA OrderStep ==
  ASSUME Base, Base', [Next]_vars, OrderInv
  PROVE  OrderInv'
PROOF
  <1>0. queue \in [Workers -> SUBSET Task] /\ queue' \in [Workers -> SUBSET Task]
    BY DEF Base, TypeInv, TypeOK
  <1>1. ASSUME NEW v \in Workers, NEW u \in queue'[v], u \in queue[v], NEW t,
               t \in ran \/ \E w \in Workers : Running(w) /\ t = thr[w].task,
               t.req = u.req
        PROVE  t.id < u.id
    BY <1>1 DEF OrderInv, InOrder
  <1>2. ASSUME NEW v \in Workers, NEW u \in queue'[v], u \notin queue[v]
        PROVE  /\ \A t \in ran : t.req # u.req
               /\ \A w \in Workers : Running(w) => thr[w].task.req # u.req
               /\ UNCHANGED <<ran, thr>>
    <2>1. PICK c \in Callers : Attach(c)
      BY <1>2, StepGains
    <2>2. u.req = call[c].req /\ call[c].req \in Reqs
      BY <1>2, <2>1, AttachFacts
    <2>3. Accepted(call[c].req) = {} /\ ContextsOf(call[c].req) = {} /\ UNCHANGED <<ran, thr>>
      BY <2>1, AttachFacts
    <2> QED BY <2>2, <2>3 DEF Accepted, RanOf, Base, RequestInv, TableInv, Unbound
  <1>3. ASSUME NEW v \in Workers, NEW u \in queue'[v], NEW t \in ran', t.req = u.req
        PROVE  t.id < u.id
    <2>1. CASE u \in queue[v]
      BY <1>1, <1>3, <2>1, RanSteps
    <2>2. CASE u \notin queue[v]
      BY <1>2, <1>3, <2>2
    <2> QED BY <2>1, <2>2
  <1>4. ASSUME NEW v \in Workers, NEW u \in queue'[v], NEW w \in Workers, Running(w)',
               thr'[w].task.req = u.req
        PROVE  thr'[w].task.id < u.id
    <2>1. CASE u \notin queue[v]
      BY <1>2, <1>4, <2>1 DEF Running
    <2>2. CASE u \in queue[v] /\ ~WorkerTake(w)
      <3>1. Running(w) /\ thr'[w].task = thr[w].task
        BY <1>4, <2>2, StepGains
      <3> QED BY <1>1, <1>4, <2>2, <3>1
    <2>3. CASE u \in queue[v] /\ WorkerTake(w)
      <3> DEFINE t == thr'[w].task
      <3>1. /\ t \in queue[w] /\ t.req = pending_req[w] /\ pending_req[w] # 0
            /\ pending_req[w] \in Reqs
            /\ \A x \in queue[w] : x.req = pending_req[w] => t.id <= x.id
            /\ queue' = [queue EXCEPT ![w] = @ \ {t}]
        BY <2>3, TakeFacts
      <3>2. ContextsOf(t.req) # {}
        BY <3>1 DEF Base, RequestInv, TableInv, Unbound
      <3>3. PICK i \in 1 .. Len(ctx) : ctx[i].request_id = t.req
        BY <3>2 DEF ContextsOf
      <3>4. t \in OfReq(w, t.req) /\ u \in OfReq(v, t.req)
        BY <1>4, <2>3, <3>1 DEF OfReq
      <3>5. v = w
        BY <3>3, <3>4 DEF Base, RequestInv, TableInv, Home
      <3>6. u # t /\ t.id <= u.id
        BY <1>0, <1>4, <2>3, <3>1, <3>5
      <3>7. u \in Task /\ t \in Task
        BY <1>0, <2>3, <3>1
      <3>8. t.id # u.id
        BY <1>4, <3>6, <3>7 DEF Task
      <3> QED BY <3>6, <3>7, <3>8 DEF Task
    <2> QED BY <2>1, <2>2, <2>3
  <1> QED BY <1>3, <1>4 DEF OrderInv, InOrder

\* When no request id is submitted twice, the tasks of a request execute in the
\* order they were submitted, whichever wake-up each of them is run for.
THEOREM InOrderHolds == SubmitOnce /\ Spec => []InOrder
PROOF
  <1>1. Init => OrderInv
    BY DEF Init, OrderInv, InOrder
  <1>2. Base /\ Base' /\ [Next]_vars /\ OrderInv => OrderInv'
    BY OrderStep
  <1>3. OrderInv => InOrder
    BY DEF OrderInv
  <1> QED BY <1>1, <1>2, <1>3, BaseInvariant, PTL DEF Spec

-----------------------------------------------------------------------------
(* No task is stranded, while there is memory.                             *)

\* A call changes by its own steps only.
LEMMA CallMovesItself ==
  ASSUME Base, [Next]_vars, NEW c \in Callers
  PROVE  call'[c] = call[c] \/ NewCall(c) \/ CallStep(c)
PROOF
  <1>0. call \in [Callers -> CallType]
    BY DEF Base, TypeInv, TypeOK
  <1>1. ASSUME NEW w \in Workers, WorkerStep(w) \/ SpuriousWakeup(w)
        PROVE  call' = call
    BY <1>1 DEF WorkerStep, WorkerStart, WorkerWait, WorkerExit, WorkerTake,
         WorkerTakeNone, WorkerRun, WorkerFindCtx, WorkerDec, WorkerBatchCb,
         WorkerRemoveCtx, WorkerFinish, SpuriousWakeup
  <1>2. ASSUME OwnerStep \/ BeginDestroy \/ Gone \/ UNCHANGED vars
        PROVE  call' = call
    BY <1>2 DEF OwnerStep, CreateWorker, CreateFailed, AwaitWorker, Start,
         ShutdownSignal, Join, FreePool, BeginDestroy, Gone, vars
  <1>3. ASSUME NEW d \in Callers, d # c, NewCall(d) \/ CallStep(d)
        PROVE  call'[c] = call[c]
    BY <1>0, <1>3 DEF NewCall, SubmitTask, SubmitBatch, Submit, Wake, Cancel, CallStep,
         Scan, AllocFail, Attach, FindCtx, AddCtx, InsertCtx, InsertFail, ReadId, Stray,
         Deref,
         WakeSet, CancelQueue, CancelCtx
  <1> QED BY <1>1, <1>2, <1>3 DEF Next

\* Queued tasks without a context belong to a submit that will make one.
BoundInv == \A r \in Reqs : Queued(r) # {} /\ ContextsOf(r) = {} =>
    \E c \in Callers : call[c].pc \in {"find", "insert"} /\ call[c].req = r

\* A submit that queued tasks goes on to their context: no allocation fails.
LEMMA BoundStep ==
  ASSUME Base, Base', [Next]_vars, BoundInv, ~AllocFails
  PROVE  BoundInv'
PROOF
  <1> SUFFICES ASSUME NEW r \in Reqs, Queued(r)' # {}, ContextsOf(r)' = {}
               PROVE  \E c \in Callers : call'[c].pc \in {"find", "insert"}
                                         /\ call'[c].req = r
    BY DEF BoundInv
  <1>0. call \in [Callers -> CallType]
    BY DEF Base, TypeInv, TypeOK
  <1>1. ContextsOf(r) = {}
    BY ContextStays
  <1>2. CASE Queued(r) = {}
    <2>1. PICK w \in Workers : \E t \in queue'[w] : t.req = r
      BY DEF Queued
    <2>2. PICK t \in queue'[w] : t.req = r /\ t \notin queue[w]
      BY <1>2, <2>1 DEF Queued
    <2>3. PICK c \in Callers : Attach(c)
      BY <2>1, <2>2, StepGains
    <2>4. call[c].req = r /\ call' = [call EXCEPT ![c].pc = "find", ![c].k = next_task_id]
      BY <2>1, <2>2, <2>3, AttachFacts
    <2>5. call'[c].pc = "find" /\ call'[c].req = r
      BY <1>0, <2>4 DEF CallType
    <2> QED BY <2>5
  <1>3. CASE Queued(r) # {}
    <2>1. PICK c \in Callers : call[c].pc \in {"find", "insert"} /\ call[c].req = r
      BY <1>1, <1>3 DEF BoundInv
    <2>2. CASE call'[c] = call[c]
      BY <2>1, <2>2
    <2>3. CASE NewCall(c) \/ CallStep(c)
      <3>1. FindCtx(c) \/ InsertCtx(c)
        BY <2>1, <2>3 DEF NewCall, SubmitTask, SubmitBatch, Submit, Wake, Cancel, CallStep,
             Scan, AllocFail, Attach, AddCtx, InsertFail, ReadId, Stray, Deref,
             WakeSet, CancelQueue, CancelCtx
      <3>2. CASE FindCtx(c)
        <4>1. PICK i \in Lookup(r) :
                 call' = [call EXCEPT ![c].pc = IF i = 0 THEN "insert" ELSE "add",
                                      ![c].ctx = i]
          BY <2>1, <3>2 DEF FindCtx
        <4>2. i = 0
          BY <1>1, LookupOne DEF Base, RequestInv, TableInv
        <4>3. call'[c].pc = "insert" /\ call'[c].req = call[c].req
          BY <1>0, <4>1, <4>2 DEF CallType
        <4> QED BY <2>1, <4>3
      <3>3. CASE InsertCtx(c)
        <4>1. ctx' = Append(ctx, NewContext(call[c])) /\ call[c].pc = "insert"
          BY <3>3 DEF InsertCtx
        <4>2. /\ NewContext(call[c]) \in Context /\ ctx \in Seq(Context) /\ Len(ctx) \in Nat
              /\ NewContext(call[c]).request_id = r
          BY <2>1, <4>1, LenProperties
             DEF NewContext, Context, Base, TypeInv, TypeOK, LocalsOK, CallOK, CallType
        <4>3. Len(ctx') = Len(ctx) + 1 /\ ctx'[Len(ctx) + 1] = NewContext(call[c])
          BY <4>1, <4>2, AppendProperties
        <4>4. Len(ctx) + 1 \in ContextsOf(r)'
          BY <4>2, <4>3 DEF ContextsOf
        <4> QED BY <4>4
      <3> QED BY <3>1, <3>2, <3>3
    <2> QED BY <2>2, <2>3, CallMovesItself
  <1> QED BY <1>2, <1>3

\* Queued tasks without a context belong to a submit that is about to make it.
LEMMA BoundInvariant == SubmitOnce /\ ~AllocFails /\ Spec => []BoundInv
PROOF
  <1> SUFFICES ASSUME ~AllocFails PROVE SubmitOnce /\ Spec => []BoundInv
    OBVIOUS
  <1>1. Init => BoundInv
    <2> SUFFICES ASSUME Init, NEW r PROVE Queued(r) = {}
      BY DEF BoundInv
    <2>1. \A w \in Workers : queue[w] = {}
      BY DEF Init
    <2> QED BY <2>1 DEF Queued
  <1>2. Base /\ Base' /\ [Next]_vars /\ BoundInv => BoundInv'
    BY BoundStep
  <1> QED BY <1>1, <1>2, BaseInvariant, PTL DEF Spec

\* When no request id is submitted twice and no allocation fails, a queued task
\* can be reached by a wake-up: the context of its request is in the table and
\* names the worker that holds it, once the submit has returned.
THEOREM NoStrandedHolds == SubmitOnce /\ ~AllocFails /\ Spec => []NoStranded
PROOF
  <1>1. Base /\ BoundInv => NoStranded
    <2> SUFFICES ASSUME Base, BoundInv, NEW w \in Workers, NEW t \in queue[w],
                        InCall(t.req, {"batch", "task"}) = {}
                 PROVE  \E i \in Newest(t.req) : ctx[i].worker_idx = w
      BY DEF NoStranded
    <2> DEFINE r == t.req
    <2>1. r \in Reqs /\ t \in Queued(r) /\ t \in OfReq(w, r)
      BY DEF Base, TypeInv, TypeOK, Task, Queued, OfReq
    <2>2. ContextsOf(r) # {}
      <3> SUFFICES ASSUME ContextsOf(r) = {} PROVE FALSE
        OBVIOUS
      <3>1. PICK c \in Callers : call[c].pc \in {"find", "insert"} /\ call[c].req = r
        BY <2>1 DEF BoundInv
      <3>2. call[c].op \in {"batch", "task"}
        BY <3>1 DEF Base, RequestInv, CallsOK, CallInv, SubmitPc
      <3> QED BY <3>1, <3>2 DEF InCall
    <2>3. ~Settled(r)
      BY <2>1 DEF Settled
    <2>4. PICK i \in ContextsOf(r) : i \in req_hash
      BY <2>1, <2>2, <2>3, FindsOne DEF Base
    <2>5. i \in Newest(r)
      BY <2>4, NewestOne DEF Base, RequestInv, TableInv
    <2>6. ctx[i].worker_idx = w
      BY <2>1, <2>4 DEF Base, RequestInv, TableInv, Home, ContextsOf
    <2> QED BY <2>5, <2>6
  <1> QED BY <1>1, BaseInvariant, BoundInvariant, PTL

-----------------------------------------------------------------------------
(* A cancel that returns has settled its request.                          *)

\* Whatever a cancel looks at: a request that has no context in the table has
\* nothing queued and nothing executing, unless its submit is still going on.
LEMMA NothingUnbound ==
  ASSUME Base, BoundInv, NEW r \in Reqs, ContextsOf(r) \cap req_hash = {},
         InCall(r, {"batch", "task"}) = {}
  PROVE  Queued(r) = {} /\ InHand(r) = {}
PROOF
  <1>1. CASE ContextsOf(r) = {}
    <2>1. Queued(r) = {}
      <3> SUFFICES ASSUME Queued(r) # {} PROVE FALSE
        OBVIOUS
      <3>1. PICK c \in Callers : call[c].pc \in {"find", "insert"} /\ call[c].req = r
        BY <1>1 DEF BoundInv
      <3>2. call[c].op \in {"batch", "task"}
        BY <3>1 DEF Base, RequestInv, CallsOK, CallInv, SubmitPc
      <3> QED BY <3>1, <3>2 DEF InCall
    <2>2. InHand(r) = {}
      BY <1>1 DEF Base, RequestInv, TableInv, Unbound, InHand, Running
    <2> QED BY <2>1, <2>2
  <1>2. CASE ContextsOf(r) # {}
    <2>1. PICK i \in ContextsOf(r) : i \notin req_hash
      BY <1>2
    <2>2. Settled(r)
      BY <2>1 DEF Base, RequestInv, TableInv, FreedSettled, ContextsOf
    <2> QED BY <2>2 DEF Settled, Undecremented, InHand
  <1> QED BY <1>1, <1>2

\* A cancel that holds the mutex of its worker finds all there is of the request.
LEMMA NothingElsewhere ==
  ASSUME Base, NEW c \in Callers, call[c].pc = "cremove", LockFree(call[c].best),
         OfReq(call[c].best, call[c].req) = {}
  PROVE  Queued(call[c].req) = {} /\ InHand(call[c].req) = {}
PROOF
  <1> DEFINE r == call[c].req
             b == call[c].best
  <1>1. CallInv(call[c])
    BY DEF Base, RequestInv, CallsOK
  <1>2. CASE Settled(r)
    BY <1>2 DEF Settled, Undecremented, InHand
  <1>3. CASE ~Settled(r)
    <2>1. PICK i \in ContextsOf(r) : b = ctx[i].worker_idx
      BY <1>1, <1>3 DEF CallInv, FoundPc
    <2>2. i \in 1 .. Len(ctx) /\ ctx[i].request_id = r
      BY <2>1 DEF ContextsOf
    <2>3. \A w \in Workers : w # b => /\ OfReq(w, r) = {}
                                      /\ Running(w) => thr[w].task.req # r
      BY <2>1, <2>2 DEF Base, RequestInv, TableInv, Home
    <2>4. Queued(r) = {}
      BY <2>3 DEF Queued, OfReq
    <2>5. InHand(r) = {}
      <3>1. thr[b].pc # "run"
        BY DEF LockFree
      <3> QED BY <2>3, <3>1 DEF InHand, Running
    <2> QED BY <2>4, <2>5
  <1> QED BY <1>2, <1>3

\* The three places where thread_pool_cancel_tasks_by_req returns.
LEMMA CancelStepSettles ==
  ASSUME Base, BoundInv, [Next]_vars, NEW c \in Callers, NEW r \in Reqs,
         CancelReturns(c, r), InCall(r, {"batch", "task"}) = {}
  PROVE  Queued(r)' = {} /\ InHand(r)' = {}
PROOF
  <1>0. call \in [Callers -> CallType] /\ queue \in [Workers -> SUBSET Task]
    BY DEF Base, TypeInv, TypeOK
  <1>1. CASE Cancel(c, r)
    <2>1. PICK i \in Lookup(r) :
             call' = [call EXCEPT ![c] =
                        IF i = 0 THEN NoCall
                        ELSE [NoCall EXCEPT !.pc = "cderef", !.op = "cancel",
                                            !.req = r, !.ctx = i]]
      BY <1>1 DEF Cancel
    <2>2. i = 0
      BY <1>0, <2>1 DEF CancelReturns, NoCall
    <2>3. ContextsOf(r) \cap req_hash = {}
      BY <2>2, LookupOne DEF Base, RequestInv, TableInv
    <2>4. UNCHANGED <<queue, thr>>
      BY <1>1 DEF Cancel, workerVars
    <2> QED BY <2>3, <2>4, NothingUnbound DEF Queued, InHand
  <1>2. CASE call[c].op = "cancel" /\ call[c].req = r
    <2>1. CallInv(call[c]) /\ call[c].pc \in {"cderef", "cremove", "cupdate"}
      BY <1>2 DEF Base, RequestInv, CallsOK, CallInv
    <2>2. call'[c].pc = "idle"
      BY DEF CancelReturns
    <2>3. Deref(c) \/ Stray(c) \/ CancelQueue(c) \/ CancelCtx(c)
      <3>1. NewCall(c) \/ CallStep(c)
        BY <2>1, <2>2, CallMovesItself
      <3> QED BY <2>1, <3>1 DEF NewCall, SubmitTask, SubmitBatch, Submit, Wake, Cancel,
                CallStep, Scan, AllocFail, Attach, FindCtx, AddCtx, InsertCtx, InsertFail,
                ReadId, WakeSet
    <2>4. ~Deref(c)
      <3> SUFFICES ASSUME Deref(c) PROVE FALSE
        OBVIOUS
      <3>1. PICK pc \in {"wset", "cremove"}, w \in BoundTo(call[c].ctx) :
               call' = [call EXCEPT ![c].best = w, ![c].pc = pc]
        BY DEF Deref
      <3> QED BY <1>0, <2>2, <3>1 DEF CallType
    <2>5. CASE CancelQueue(c)
      <3> DEFINE gone == OfReq(call[c].best, call[c].req)
                 k == Cardinality(gone)
      <3>1. /\ call[c].pc = "cremove" /\ LockFree(call[c].best)
            /\ queue' = [queue EXCEPT ![call[c].best] = @ \ gone]
            /\ UNCHANGED thr
            /\ call' = [call EXCEPT ![c] = Removed(call[c], k)]
        BY <2>5 DEF CancelQueue
      <3>2. call'[c] = Removed(call[c], k)
        BY <1>0, <3>1
      <3>3. ~(k > 0)
        <4> HIDE DEF k
        <4> QED BY <1>0, <2>2, <3>2 DEF Removed, CallType
      <3>4. call[c].best \in Workers
        BY <3>1 DEF Base, TypeInv, LocalsOK, CallOK
      <3>5. gone \subseteq Queued(r)
        BY <1>2, <3>4 DEF OfReq, Queued
      <3>6. IsFiniteSet(gone) /\ k \in Nat
        BY <3>5, QueuedFinite, FS_Subset, FS_CardinalityType DEF Base
      <3>7. gone = {}
        <4>1. k = 0
          <5> HIDE DEF k
          <5> QED BY <3>3, <3>6
        <4> QED BY <3>6, <4>1, FS_EmptySet
      <3>8. Queued(r) = {} /\ InHand(r) = {}
        BY <1>2, <3>1, <3>7, NothingElsewhere
      <3>9. queue' = queue
        BY <1>0, <3>1, <3>4, <3>7
      <3> QED BY <3>1, <3>8, <3>9 DEF Queued, InHand
    <2>6. CASE CancelCtx(c)
      <3>1. call[c].pc = "cupdate" /\ UNCHANGED <<queue, thr>>
        BY <2>6 DEF CancelCtx, workerVars
      <3>2. Queued(r) = {} /\ InHand(r) = {}
        BY <1>2, <2>1, <3>1 DEF CallInv
      <3> QED BY <3>1, <3>2 DEF Queued, InHand
    <2>7. CASE Stray(c)
      <3>1. call[c].ctx \in ContextsOf(r) /\ call[c].ctx \notin req_hash
        BY <1>2, <2>1, <2>7 DEF Stray, Live, CallInv, FoundPc
      <3>2. Settled(r)
        BY <3>1 DEF Base, RequestInv, TableInv, FreedSettled, ContextsOf
      <3>3. Queued(r) = {} /\ InHand(r) = {} /\ UNCHANGED <<queue, thr>>
        BY <2>7, <3>2 DEF Settled, Undecremented, InHand, Stray, workerVars
      <3> QED BY <3>3 DEF Queued, InHand
    <2> QED BY <2>3, <2>4, <2>5, <2>6, <2>7
  <1> QED BY <1>1, <1>2 DEF CancelReturns

\* When no request id is submitted twice and no allocation fails, nothing of a
\* request is queued or executing when thread_pool_cancel_tasks_by_req returns,
\* also when it returned early because it found no context or removed nothing.
THEOREM CancelSettlesHolds == SubmitOnce /\ ~AllocFails /\ Spec => CancelSettles
PROOF
  <1>1. Base /\ BoundInv /\ [Next]_vars =>
          [\A c \in Callers, r \in Reqs :
              CancelReturns(c, r) /\ InCall(r, {"batch", "task"}) = {}
              => Queued(r)' = {} /\ InHand(r)' = {}]_vars
    BY CancelStepSettles
  <1> QED BY <1>1, BaseInvariant, BoundInvariant, PTL DEF Spec, CancelSettles

-----------------------------------------------------------------------------
(* The service.                                                            *)

\* What the service sees: Waiting, the notified requests, the executing tasks.
Slot  == {r \in Reqs : \E w \in Workers : pending_req[w] = r}
Hands == {thr[w].task : w \in {v \in Workers : thr[v].pc = "run"}}
OfR(S, r) == {t \in S : t.req = r}

\* No wake-up replaces the notification of another request.
NoOverwrite == \A c \in Callers :
    WakeSet(c) => pending_req[call[c].best] \in {0, call[c].req}

\* Steps inside the pool: the service sees nothing of them.
LEMMA ServiceSleeps ==
  ASSUME UNCHANGED <<queue, pending_req>>,
         \A w \in Workers : /\ thr'[w].pc = "run" <=> thr[w].pc = "run"
                            /\ thr[w].pc = "run" => thr'[w].task = thr[w].task
  PROVE  UNCHANGED <<Waiting, Slot, Hands>>
PROOF
  <1>1. UNCHANGED Waiting /\ UNCHANGED Slot
    BY DEF Waiting, Slot
  <1>2. UNCHANGED Hands
    BY DEF Hands
  <1> QED BY <1>1, <1>2

\* The service names things by the variables it is instantiated with.
LEMMA ServiceSame ==
  ASSUME UNCHANGED <<Waiting, Slot, Hands>>
  PROVE  UNCHANGED Service!vars
  BY DEF Service!vars, Waiting, Slot, Hands

\* What waits at the workers is what is queued, request by request.
LEMMA ServiceWaiting == \A r : OfR(Waiting, r) = Queued(r)
  BY DEF OfR, Waiting, Queued

\* A task of a request that is executing is in the hands of a worker.
LEMMA ServiceHands == \A r : OfR(Hands, r) = InHand(r)
  BY DEF OfR, Hands, InHand

\* All that is queued of a request is at its worker, or there is nothing.
LEMMA AtHome ==
  ASSUME Base, NEW r \in Reqs, ContextsOf(r) # {}
  PROVE  \E h \in Workers : \A w \in Workers : w # h =>
            /\ OfReq(w, r) = {}
            /\ Running(w) => thr[w].task.req # r
            /\ pending_req[w] = r /\ pending_req[w] # 0 => Settled(r)
PROOF
  <1>1. PICK i \in 1 .. Len(ctx) : ctx[i].request_id = r
    BY DEF ContextsOf
  <1>2. ctx[i].worker_idx \in Workers
    BY <1>1, ContextType DEF Base
  <1> QED BY <1>1, <1>2 DEF Base, RequestInv, TableInv, Home

\* worker_routine takes the notification and the first task of the request.
LEMMA ServiceTake ==
  ASSUME Base, 0 \notin Reqs, NEW w \in Workers, WorkerTake(w)
  PROVE  \E r \in Reqs : \E t \in OfR(Waiting, r) : Service!Take(t)
PROOF
  <1>t. PICK t : t = thr'[w].task
    OBVIOUS
  <1>r. PICK r : r = pending_req[w]
    OBVIOUS
  <1>1. /\ thr[w].pc \in {"loop", "woken"} /\ thr'[w].pc = "run"
        /\ t \in queue[w] /\ t.req = r /\ r \in Reqs /\ r # 0
        /\ \A u \in queue[w] : u.req = r => t.id <= u.id
        /\ queue' = [queue EXCEPT ![w] = @ \ {t}]
        /\ \A v \in Workers : v # w => thr'[v] = thr[v]
        /\ pending_req' = [pending_req EXCEPT ![w] = 0] /\ r = pending_req[w]
        /\ t = thr'[w].task
    BY <1>t, <1>r, TakeFacts
  <1>2. /\ queue \in [Workers -> SUBSET Task] /\ pending_req \in [Workers -> Reqs \cup {0}]
    BY DEF Base, TypeInv, TypeOK
  <1>3. ContextsOf(r) # {}
    BY <1>1 DEF Base, RequestInv, TableInv, Unbound
  <1>4. t \in Queued(r)
    BY <1>1 DEF Queued
  <1>5. \A v \in Workers : v # w => /\ OfReq(v, r) = {}
                                    /\ Running(v) => thr[v].task.req # r
                                    /\ pending_req[v] # r
    <2>1. PICK h \in Workers : \A v \in Workers : v # h =>
             /\ OfReq(v, r) = {}
             /\ Running(v) => thr[v].task.req # r
             /\ pending_req[v] = r /\ pending_req[v] # 0 => Settled(r)
      BY <1>1, <1>3, AtHome
    <2>2. h = w
      BY <1>1, <2>1 DEF OfReq
    <2> QED BY <1>1, <1>4, <2>1, <2>2 DEF Settled
  <1>6. t \in OfR(Waiting, r) /\ t \in Waiting
    BY <1>1 DEF OfR, Waiting
  <1>7. r \in Slot /\ Slot' = Slot \ {r}
    <2>1. \A v \in Workers : pending_req'[v] = IF v = w THEN 0 ELSE pending_req[v]
      BY <1>1, <1>2
    <2> QED BY <1>1, <1>5, <2>1 DEF Slot
  <1>8. Waiting' = Waiting \ {t}
    <2>1. \A v \in Workers : v # w => t \notin queue[v]
      BY <1>1, <1>5 DEF OfReq
    <2>2. \A v \in Workers : queue'[v] = queue[v] \ {t}
      BY <1>1, <1>2, <2>1
    <2> QED BY <2>2 DEF Waiting
  <1>9. Hands' = Hands \cup {t} /\ OfR(Hands, r) = {}
    <2>1. Hands' = Hands \cup {t}
      BY <1>1 DEF Hands
    <2>2. InHand(r) = {}
      BY <1>1, <1>5 DEF InHand, Running
    <2> QED BY <2>1, <2>2, ServiceHands
  <1>10. \A u \in OfR(Waiting, r) : t.id <= u.id
    BY <1>1, <1>5 DEF OfR, Waiting, OfReq
  <1>11. Service!Take(t)
    <2>1. t \in Service!First(t.req)
      BY <1>1, <1>6, <1>10 DEF Service!First, Service!Of, OfR, Waiting
    <2>2. Service!Resting(t.req)
      BY <1>1, <1>9 DEF Service!Resting, Service!Of, OfR, Hands
    <2> QED BY <1>1, <1>7, <1>8, <1>9, <2>1, <2>2 DEF Service!Take, Waiting, Slot, Hands
  <1> QED BY <1>1, <1>6, <1>11

\* A notification of a request of which nothing is queued is dropped; when another
\* worker has one for it too, the service sees nothing yet.
LEMMA ServiceIgnore ==
  ASSUME Base, 0 \notin Reqs, NEW w \in Workers, WorkerTakeNone(w)
  PROVE  (\E r \in Reqs : Service!Ignore(r)) \/ UNCHANGED <<Waiting, Slot, Hands>>
PROOF
  <1>r. PICK r : r = pending_req[w]
    OBVIOUS
  <1>0. /\ pending_req \in [Workers -> Reqs \cup {0}] /\ thr \in [Workers -> ThreadType]
    BY DEF Base, TypeInv, TypeOK
  <1>1. /\ r = pending_req[w] /\ r # 0 /\ OfReq(w, r) = {} /\ AtLoop(w) /\ UNCHANGED queue
        /\ pending_req' = [pending_req EXCEPT ![w] = 0]
        /\ thr' = [thr EXCEPT ![w].pc = "loop"]
    BY <1>r DEF WorkerTakeNone, Consumed
  <1>2. r \in Reqs /\ ContextsOf(r) # {}
    BY <1>0, <1>1 DEF Base, RequestInv, TableInv, Unbound
  <1>3. UNCHANGED <<Waiting, Hands>>
    <2>1. \A v \in Workers : /\ thr'[v].pc = "run" <=> thr[v].pc = "run"
                             /\ thr[v].pc = "run" => thr'[v].task = thr[v].task
      BY <1>0, <1>1 DEF AtLoop, ThreadType
    <2> QED BY <1>1, <2>1 DEF Waiting, Hands
  <1>4. Queued(r) = {}
    <2>1. PICK h \in Workers : \A v \in Workers : v # h =>
             /\ OfReq(v, r) = {}
             /\ Running(v) => thr[v].task.req # r
             /\ pending_req[v] = r /\ pending_req[v] # 0 => Settled(r)
      BY <1>2, AtHome
    <2>2. CASE h = w
      BY <1>1, <2>1, <2>2, QueuedDef
    <2>3. CASE h # w
      BY <1>1, <2>1, <2>3 DEF Settled
    <2> QED BY <2>2, <2>3
  <1>5. \A v \in Workers : pending_req'[v] = IF v = w THEN 0 ELSE pending_req[v]
    BY <1>0, <1>1
  <1>6. CASE \E v \in Workers : v # w /\ pending_req[v] = r
    <2>1. PICK v \in Workers : v # w /\ pending_req[v] = r
      BY <1>6
    <2>2. pending_req'[v] = r /\ r \in Reqs
      BY <1>2, <1>5, <2>1
    <2>3. ASSUME NEW q \in Reqs, q # r
          PROVE  q \in Slot' <=> q \in Slot
      <3>1. \A x \in Workers : pending_req'[x] = q <=> pending_req[x] = q
        BY <1>1, <1>5, <2>3
      <3> QED BY <3>1 DEF Slot
    <2>4. r \in Slot' /\ r \in Slot
      BY <2>1, <2>2 DEF Slot
    <2>5. Slot' = Slot
      BY <2>3, <2>4 DEF Slot
    <2> QED BY <1>3, <2>5
  <1>7. CASE ~\E v \in Workers : v # w /\ pending_req[v] = r
    <2>1. ASSUME NEW q \in Reqs, q # r
          PROVE  q \in Slot' <=> q \in Slot
      <3>1. \A x \in Workers : pending_req'[x] = q <=> pending_req[x] = q
        BY <1>1, <1>5, <2>1
      <3> QED BY <3>1 DEF Slot
    <2>2. r \in Slot /\ r \notin Slot'
      BY <1>1, <1>2, <1>5, <1>7 DEF Slot
    <2>3. r \in Slot /\ Slot' = Slot \ {r}
      BY <2>1, <2>2 DEF Slot
    <2>4. OfR(Waiting, r) = {}
      BY <1>4, ServiceWaiting
    <2>5. Service!Ignore(r)
      BY <1>3, <2>3, <2>4 DEF Service!Ignore, Service!Of, OfR, Waiting, Slot, Hands
    <2> QED BY <1>2, <2>5
  <1> QED BY <1>6, <1>7

\* internal_task_wrapper has called the task function.
LEMMA ServiceReturn ==
  ASSUME Base, NEW w \in Workers, WorkerRun(w)
  PROVE  \E r \in Reqs : \E t \in OfR(Hands, r) : Service!Return(t)
PROOF
  <1>t. PICK t : t = thr[w].task
    OBVIOUS
  <1>1. /\ t = thr[w].task /\ thr[w].pc = "run" /\ UNCHANGED <<queue, pending_req>>
        /\ thr' = [thr EXCEPT ![w].pc = "find"] /\ thr \in [Workers -> ThreadType]
    BY <1>t DEF WorkerRun, Base, TypeInv, TypeOK
  <1>2. Running(w) /\ t \in Task /\ t = thr[w].task
    BY <1>1 DEF Running, Base, TypeInv, LocalsOK
  <1>3. \A v \in Workers : v # w /\ thr[v].pc = "run" => thr[v].task # t
    BY <1>2, OneThread DEF Running
  <1>4. thr'[w].pc = "find" /\ \A v \in Workers : v # w => thr'[v] = thr[v]
    BY <1>1 DEF ThreadType
  <1>5. t \in Hands /\ Hands' = Hands \ {t}
    BY <1>1, <1>3, <1>4 DEF Hands
  <1>6. UNCHANGED <<Waiting, Slot>>
    BY <1>1 DEF Waiting, Slot
  <1>7. Service!Return(t)
    BY <1>5, <1>6 DEF Service!Return, Waiting, Slot, Hands
  <1> QED BY <1>2, <1>5, <1>7 DEF OfR, Task

\* worker_queue_attach_list: the tasks of a new request.
LEMMA ServiceSubmit ==
  ASSUME Base, NEW c \in Callers, Attach(c)
  PROVE  \E r \in Reqs : Service!Submit(r)
PROOF
  <1>r. PICK r, b, N : r = call[c].req /\ b = call[c].best /\ N = NewTasks(call[c])
    OBVIOUS
  <1>1. /\ r \in Reqs /\ Accepted(r) = {} /\ b \in Workers
        /\ \A t \in N : t.req = r
        /\ \A w \in Workers : queue'[w] = IF w = b THEN queue[w] \cup N ELSE queue[w]
        /\ UNCHANGED <<pending_req, thr>>
    BY <1>r, AttachFacts
  <1>2. Waiting' = Waiting \cup N
    BY <1>1 DEF Waiting
  <1>3. UNCHANGED <<Slot, Hands>>
    BY <1>1 DEF Slot, Hands
  <1>4. OfR(Waiting \cup Hands, r) = {}
    BY <1>1, ServiceWaiting, ServiceHands DEF OfR, Accepted
  <1>5. \A t \in Waiting' \ Waiting : t.req = r
    BY <1>1, <1>2
  <1>6. Waiting' = Waiting \cup (Waiting' \ Waiting)
    BY <1>2
  <1>7. \A t \in Waiting' \ Waiting : Service!Newer(t)
    BY <1>4, <1>5 DEF Service!Newer, Service!Of, OfR, Waiting, Hands
  <1>8. Service!Accept(r, Waiting' \ Waiting)
    BY <1>3, <1>5, <1>6, <1>7 DEF Service!Accept, Waiting, Slot, Hands
  <1> QED BY <1>1, <1>8 DEF Service!Submit, Waiting

\* thread_pool_wake_up_worker_by_req_id, at the mutex of the worker: nothing of
\* the request executes.
LEMMA ServiceNotify ==
  ASSUME Base, 0 \notin Reqs, NEW c \in Callers, WakeSet(c), NoOverwrite
  PROVE  \E r \in Reqs : Service!Notify(r)
PROOF
  <1>r. PICK r : r = call[c].req
    OBVIOUS
  <1> DEFINE b == call[c].best
  <1>0. /\ pending_req \in [Workers -> Reqs \cup {0}] /\ thr \in [Workers -> ThreadType]
        /\ r = call[c].req /\ r \in Reqs /\ b \in Workers /\ CallInv(call[c]) /\ call[c].pc = "wset"
    BY <1>r DEF Base, TypeInv, TypeOK, LocalsOK, CallOK, WakeSet, RequestInv, CallsOK
  <1>1. /\ LockFree(b) /\ thr' = Signal(b) /\ UNCHANGED queue
        /\ pending_req' = [pending_req EXCEPT ![b] = r] /\ pending_req[b] \in {0, r}
    BY <1>0 DEF WakeSet, NoOverwrite
  <1>2. UNCHANGED <<Waiting, Hands>>
    <2>1. \A v \in Workers : /\ thr'[v].pc = "run" <=> thr[v].pc = "run"
                             /\ thr[v].pc = "run" => thr'[v].task = thr[v].task
      BY <1>0, <1>1 DEF Signal, ThreadType
    <2> QED BY <1>1, <2>1 DEF Waiting, Hands
  <1>3. Slot' = Slot \cup {r}
    BY <1>0, <1>1 DEF Slot
  <1>4. InHand(r) = {}
    <2>1. CASE Settled(r)
      BY <2>1 DEF Settled, Undecremented, InHand
    <2>2. CASE ~Settled(r)
      <3>1. PICK i \in ContextsOf(r) : b = ctx[i].worker_idx
        BY <1>0, <2>2 DEF CallInv, FoundPc
      <3>2. i \in 1 .. Len(ctx) /\ ctx[i].request_id = r
        BY <3>1 DEF ContextsOf
      <3>3. \A v \in Workers : v # b => (Running(v) => thr[v].task.req # r)
        BY <3>1, <3>2 DEF Base, RequestInv, TableInv, Home
      <3>4. thr[b].pc # "run"
        BY <1>1 DEF LockFree
      <3> QED BY <3>3, <3>4 DEF InHand, Running
    <2> QED BY <2>1, <2>2
  <1>5. OfR(Hands, r) = {}
    BY <1>4, ServiceHands
  <1>6. Service!Notify(r)
    BY <1>2, <1>3, <1>5
       DEF Service!Notify, Service!Resting, Service!Of, OfR, Waiting, Slot, Hands
  <1> QED BY <1>0, <1>6

\* cancel_in_worker_queue, at the mutex of the worker: all that is waiting of the
\* request goes, and nothing of it executes.
LEMMA ServiceCancel ==
  ASSUME Base, NEW c \in Callers, CancelQueue(c)
  PROVE  \E r \in Reqs : Service!Cancel(r)
PROOF
  <1>r. PICK r : r = call[c].req
    OBVIOUS
  <1> DEFINE b == call[c].best
             gone == OfReq(b, r)
  <1>0. /\ queue \in [Workers -> SUBSET Task]
        /\ r = call[c].req /\ r \in Reqs /\ b \in Workers /\ CallInv(call[c]) /\ call[c].pc = "cremove"
    BY <1>r DEF Base, TypeInv, TypeOK, LocalsOK, CallOK, CancelQueue, RequestInv, CallsOK
  <1>1. /\ LockFree(b) /\ UNCHANGED <<thr, pending_req>>
        /\ queue' = [queue EXCEPT ![b] = @ \ gone]
    BY <1>0 DEF CancelQueue
  <1>2. UNCHANGED <<Slot, Hands>>
    BY <1>1 DEF Slot, Hands
  <1>3. /\ InHand(r) = {} /\ \A v \in Workers : v # b => OfReq(v, r) = {}
    <2>1. CASE Settled(r)
      BY <2>1 DEF Settled, Undecremented, InHand, Queued, OfReq
    <2>2. CASE ~Settled(r)
      <3>1. PICK i \in ContextsOf(r) : b = ctx[i].worker_idx
        BY <1>0, <2>2 DEF CallInv, FoundPc
      <3>2. i \in 1 .. Len(ctx) /\ ctx[i].request_id = r
        BY <3>1 DEF ContextsOf
      <3>3. \A v \in Workers : v # b => /\ OfReq(v, r) = {}
                                        /\ Running(v) => thr[v].task.req # r
        BY <3>1, <3>2 DEF Base, RequestInv, TableInv, Home
      <3>4. thr[b].pc # "run"
        BY <1>1 DEF LockFree
      <3> QED BY <3>3, <3>4 DEF InHand, Running
    <2> QED BY <2>1, <2>2
  <1>4. \A v \in Workers : queue'[v] = {t \in queue[v] : t.req # r}
    <2>1. queue'[b] = {t \in queue[b] : t.req # r}
      BY <1>0, <1>1 DEF OfReq
    <2>2. \A v \in Workers : v # b => queue'[v] = {t \in queue[v] : t.req # r}
      BY <1>0, <1>1, <1>3 DEF OfReq
    <2> QED BY <2>1, <2>2
  <1>5. Waiting' = Waiting \ OfR(Waiting, r)
    BY <1>4 DEF Waiting, OfR
  <1>6. OfR(Hands, r) = {}
    BY <1>3, ServiceHands
  <1>7. Service!Cancel(r)
    BY <1>2, <1>5, <1>6
       DEF Service!Cancel, Service!Resting, Service!Of, OfR, Waiting, Slot, Hands
  <1> QED BY <1>0, <1>7

\* destroy_all_workers frees what is queued, after all threads were joined.
LEMMA ServiceClose ==
  ASSUME Base, FreePool
  PROVE  Service!Close
PROOF
  <1>1. /\ own.pc = "free" /\ queue' = [w \in Workers |-> {}]
        /\ UNCHANGED <<pending_req, thr>>
    BY DEF FreePool
  <1>2. \A w \in Workers : Quitted(w)
    BY <1>1 DEF Base, RequestInv, Shutdown
  <1>3. Hands = {} /\ Waiting' = {} /\ UNCHANGED <<Slot, Hands>>
    BY <1>1, <1>2 DEF Hands, Waiting, Slot, Quitted
  <1> QED BY <1>3 DEF Service!Close, Waiting, Slot, Hands

\* All other steps: threads come, go, wait and tidy up, calls look and decide.
LEMMA ServiceInside ==
  ASSUME Base, [Next]_vars, ~FreePool,
         \A w \in Workers : ~WorkerTake(w) /\ ~WorkerTakeNone(w) /\ ~WorkerRun(w),
         \A c \in Callers : ~Attach(c) /\ ~WakeSet(c) /\ ~CancelQueue(c)
  PROVE  UNCHANGED <<Waiting, Slot, Hands>>
PROOF
  <1>0. thr \in [Workers -> ThreadType] /\ own.i \in Workers
    BY DEF Base, TypeInv, TypeOK
  <1>1. ASSUME NEW w \in Workers, WorkerStep(w) \/ SpuriousWakeup(w)
        PROVE  UNCHANGED <<Waiting, Slot, Hands>>
    <2>1. UNCHANGED <<queue, pending_req>>
      BY <1>1 DEF WorkerStep, WorkerStart, WorkerWait, WorkerExit, WorkerFindCtx, WorkerDec,
           WorkerBatchCb, WorkerRemoveCtx, WorkerFinish, SpuriousWakeup
    <2>2. thr[w].pc # "run"
      BY <1>1 DEF WorkerStep, WorkerStart, WorkerWait, WorkerExit, WorkerFindCtx, WorkerDec,
           WorkerBatchCb, WorkerRemoveCtx, WorkerFinish, SpuriousWakeup, AtLoop
    <2>3. thr'[w].pc # "run"
      <3>1. CASE WorkerFindCtx(w)
        <4>1. PICK pc \in {"dec", "fin"}, i \in Lookup(thr[w].task.req) :
                 thr' = [thr EXCEPT ![w].pc = pc, ![w].ctx = i]
          BY <3>1 DEF WorkerFindCtx
        <4>2. thr'[w] = [thr[w] EXCEPT !.pc = pc, !.ctx = i]
          BY <1>0, <4>1
        <4> QED BY <1>0, <4>2 DEF ThreadType
      <3>2. CASE WorkerDec(w)
        <4>1. PICK pc \in {"cb", "fin"} : thr' = [thr EXCEPT ![w].pc = pc]
          BY <3>2 DEF WorkerDec
        <4> QED BY <1>0, <4>1 DEF ThreadType
      <3>3. CASE ~WorkerFindCtx(w) /\ ~WorkerDec(w)
        BY <1>0, <1>1, <3>3 DEF WorkerStep, WorkerStart, WorkerWait, WorkerExit,
             WorkerBatchCb, WorkerRemoveCtx, WorkerFinish, SpuriousWakeup, ThreadType, NoThread
      <3> QED BY <3>1, <3>2, <3>3
    <2>4. \A v \in Workers : v # w => thr'[v] = thr[v]
      BY <1>0, <1>1 DEF WorkerStep, WorkerStart, WorkerWait, WorkerExit, WorkerFindCtx,
           WorkerDec, WorkerBatchCb, WorkerRemoveCtx, WorkerFinish, SpuriousWakeup
    <2> QED BY <2>1, <2>2, <2>3, <2>4, ServiceSleeps
  <1>2. CASE OwnerStep \/ BeginDestroy \/ Gone \/ UNCHANGED vars
    <2>1. UNCHANGED <<queue, pending_req>>
      BY <1>2 DEF OwnerStep, CreateWorker, CreateFailed, AwaitWorker, Start,
           ShutdownSignal, Join, BeginDestroy, Gone, vars, workerVars
    <2>2. CASE CreateWorker \/ CreateFailed
      <3>1. own.pc = "create" /\ own.i <= own.i
        BY <1>0, <2>2, WorkersFacts DEF CreateWorker, CreateFailed
      <3>2. thr[own.i].pc = "none"
        BY <1>0, <3>1 DEF Base, BusyInv, Uncreated
      <3>3. PICK pc \in {"new", "none", "failed"} : thr' = [thr EXCEPT ![own.i].pc = pc]
        BY <2>2 DEF CreateWorker, CreateFailed
      <3>4. \A v \in Workers : /\ thr'[v].pc = "run" <=> thr[v].pc = "run"
                               /\ thr[v].pc = "run" => thr'[v].task = thr[v].task
        BY <1>0, <3>2, <3>3 DEF ThreadType
      <3> QED BY <2>1, <3>4, ServiceSleeps
    <2>3. CASE ShutdownSignal
      <3>1. thr' = Signal(own.i)
        BY <2>3 DEF ShutdownSignal
      <3>2. \A v \in Workers : /\ thr'[v].pc = "run" <=> thr[v].pc = "run"
                               /\ thr[v].pc = "run" => thr'[v].task = thr[v].task
        BY <1>0, <3>1 DEF Signal, ThreadType
      <3> QED BY <2>1, <3>2, ServiceSleeps
    <2>4. CASE ~(CreateWorker \/ CreateFailed \/ ShutdownSignal)
      <3>1. UNCHANGED thr
        BY <1>2, <2>4 DEF OwnerStep, AwaitWorker, Start, Join, BeginDestroy,
             Gone, vars, workerVars
      <3> QED BY <2>1, <3>1, ServiceSleeps
    <2> QED BY <2>2, <2>3, <2>4
  <1>3. ASSUME NEW c \in Callers, NewCall(c) \/ CallStep(c)
        PROVE  UNCHANGED <<Waiting, Slot, Hands>>
    <2>1. UNCHANGED <<queue, pending_req, thr>>
      BY <1>3 DEF NewCall, SubmitTask, SubmitBatch, Submit, Wake, Cancel, CallStep, Scan,
           AllocFail, FindCtx, AddCtx, InsertCtx, InsertFail, ReadId, Stray, Deref,
           CancelCtx, workerVars
    <2> QED BY <2>1, ServiceSleeps
  <1> QED BY <1>1, <1>2, <1>3 DEF Next

\* Step by step.
LEMMA ServiceStep ==
  ASSUME Base, 0 \notin Reqs, [Next]_vars, [NoOverwrite]_vars
  PROVE  [Service!Next]_(Service!vars)
PROOF
  <1>1. ASSUME NEW w \in Workers, WorkerTake(w) \/ WorkerTakeNone(w) \/ WorkerRun(w)
        PROVE  (\E r \in Reqs : Service!Serve(r)) \/ UNCHANGED <<Waiting, Slot, Hands>>
    <2>1. CASE WorkerTake(w)
      BY <2>1, ServiceTake DEF Service!Serve, Service!Of, OfR, Waiting
    <2>2. CASE WorkerTakeNone(w)
      BY <2>2, ServiceIgnore DEF Service!Serve
    <2>3. CASE WorkerRun(w)
      BY <2>3, ServiceReturn DEF Service!Serve, Service!Of, OfR, Hands
    <2> QED BY <1>1, <2>1, <2>2, <2>3
  <1>2. ASSUME NEW c \in Callers, Attach(c)
        PROVE  \E r \in Reqs : Service!Submit(r)
    BY <1>2, ServiceSubmit
  <1>3. ASSUME NEW c \in Callers, WakeSet(c)
        PROVE  (\E r \in Reqs : Service!Notify(r)) \/ UNCHANGED <<Waiting, Slot, Hands>>
    <2>1. CASE NoOverwrite
      BY <1>3, <2>1, ServiceNotify
    <2>2. CASE UNCHANGED vars
      BY <2>2 DEF vars, workerVars, Waiting, Slot, Hands
    <2> QED BY <2>1, <2>2
  <1>4. ASSUME NEW c \in Callers, CancelQueue(c)
        PROVE  \E r \in Reqs : Service!Cancel(r)
    BY <1>4, ServiceCancel
  <1>5. CASE \/ \E r \in Reqs : \/ Service!Submit(r) \/ Service!Notify(r)
                                \/ Service!Cancel(r) \/ Service!Serve(r)
             \/ FreePool
    BY <1>5, ServiceClose DEF Service!Next
  <1>6. CASE UNCHANGED <<Waiting, Slot, Hands>>
    BY <1>6, ServiceSame
  <1> QED BY <1>1, <1>2, <1>3, <1>4, <1>5, <1>6, ServiceInside

\* As long as no wake-up replaces the notification of another request, the pool
\* is the service: it takes one step of it, or none, in each of its own, whatever
\* lookups, contexts, stale pointers and races are in between.
THEOREM RefinesService ==
  SubmitOnce /\ 0 \notin Reqs /\ Spec /\ [][NoOverwrite]_vars => ImplementsService
PROOF
  <1> SUFFICES ASSUME 0 \notin Reqs
               PROVE  SubmitOnce /\ Spec /\ [][NoOverwrite]_vars => ImplementsService
    OBVIOUS
  <1>1. Init => Service!Init
    <2> SUFFICES ASSUME Init PROVE Service!Init
      OBVIOUS
    <2>1. Waiting = {} /\ Slot = {} /\ Hands = {}
      BY DEF Init, Waiting, Slot, Hands, NoThread
    <2> QED BY <2>1 DEF Service!Init, Waiting, Slot, Hands
  <1>2. Base /\ [Next]_vars /\ [NoOverwrite]_vars => [Service!Next]_(Service!vars)
    BY ServiceStep
  <1> QED BY <1>1, <1>2, BaseInvariant, PTL DEF Spec, ImplementsService, Service!Spec

\* One request id alone cannot be overwritten: then it holds for any number of
\* callers that race.
THEOREM RefinesServiceAlone ==
  SubmitOnce /\ 0 \notin Reqs /\ (\A q, r \in Reqs : q = r) /\ Spec => ImplementsService
PROOF
  <1> SUFFICES ASSUME 0 \notin Reqs, \A q, r \in Reqs : q = r
               PROVE  SubmitOnce /\ Spec => ImplementsService
    OBVIOUS
  <1>1. Base => NoOverwrite
    <2> SUFFICES ASSUME Base, NEW c \in Callers, WakeSet(c)
                 PROVE  pending_req[call[c].best] \in {0, call[c].req}
      BY DEF NoOverwrite
    <2>1. call[c].req \in Reqs /\ call[c].best \in Workers
      BY DEF WakeSet, Base, TypeInv, LocalsOK, CallOK
    <2>2. pending_req[call[c].best] \in Reqs \cup {0}
      BY <2>1 DEF Base, TypeInv, TypeOK
    <2> QED BY <2>1, <2>2
  <1>2. Base => [NoOverwrite]_vars
    BY <1>1
  <1> QED BY <1>2, BaseInvariant, RefinesService, PTL

-----------------------------------------------------------------------------
(* Which callers can meet freed memory.  The pool protects neither the     *)
(* context a wake-up or a cancel found nor the task a submit returns the   *)
(* id of.  It is enough that a request gets no more wake-ups than it has   *)
(* tasks, is not cancelled while something of it goes on, is not submitted *)
(* again and, if it is a single task, is not woken before its submit       *)
(* returned: any number of threads may submit, wake and cancel together,   *)
(* and wake-ups may come in bursts.                                        *)

Polite == /\ Liberties \subseteq {"race", "burst", "early_wake"}
          /\ "early_wake" \in Liberties => "task" \notin SubmitOps

\* No worker has a notification for the request, none is at a task of it.
Unnotified(r) == r # 0 => \A w \in Workers : pending_req[w] # r
Untouched(r)  == Unnotified(r) /\ \A w \in Workers : Running(w) => thr[w].task.req # r
FreedOf(r)    == {t \in freed : t.req = r}

Preparing == {"scan", "attach", "find", "insert"}

OpCare(s) ==
    /\ s.op = "wake" <=> s.pc \in {"wderef", "wset"}
    /\ s.op = "task" => "early_wake" \notin Liberties
    /\ s.pc = "readid" => s.op = "task"

\* What a call relies on while it is in progress.
CallCare(s) ==
    /\ s.op \in {"task", "cancel"} => Untouched(s.req)
    /\ s.op = "task" \/ s.pc \in Preparing => FreedOf(s.req) = {}
    /\ s.pc = "cderef" => Live(s.ctx)
    /\ s.op = "wake" => ~Dropped(s.req)

\* Calls for one request that do not meet.
Apart(s, t) == s.req = t.req =>
    /\ ~(s.op = "cancel" /\ t.op \in {"batch", "task", "wake", "cancel"})
    /\ ~(s.op = "task" /\ t.op = "wake")

CallsCare == /\ \A c \in Callers : OpCare(call[c]) /\ CallCare(call[c])
             /\ \A c, d \in Callers : c # d => Apart(call[c], call[d])

\* A task is executed before its thread goes on.
RanHeld == \A w \in Workers : Running(w) /\ thr[w].pc # "run" => thr[w].task \in ran

\* A cancel that took tasks removes the context before it returns.
NotDropped == \A r \in Reqs :
    Dropped(r) /\ ContextsOf(r) \cap req_hash # {}
    => \E c \in Callers : call[c].pc = "cupdate" /\ call[c].req = r

\* The wake-ups delivered and those on their way are no more than the tasks.
Wakes == \A r \in Reqs :
    /\ IsFiniteSet(InCall(r, {"wake"}))
    /\ notified[r] + Cardinality(InCall(r, {"wake"})) <= Cardinality(Accepted(r))

PoliteInv == CallsCare /\ RanHeld /\ NotDropped /\ Wakes

\* Only the execution of its task moves a thread from "run".
LEMMA RunLeaves ==
  ASSUME Base, [Next]_vars, NEW w \in Workers, thr[w].pc = "run", thr'[w] # thr[w]
  PROVE  WorkerRun(w)
PROOF
  <1>0. thr \in [Workers -> ThreadType] /\ own \in [pc : OwnPc, i : Workers]
    BY DEF Base, TypeInv, TypeOK
  <1>1. ASSUME NEW v \in Workers, WorkerStep(v) \/ SpuriousWakeup(v), v # w
        PROVE  thr'[w] = thr[w]
    BY <1>0, <1>1 DEF WorkerStep, WorkerStart, WorkerWait, WorkerExit, WorkerTake,
         WorkerTakeNone, WorkerRun, WorkerFindCtx, WorkerDec, WorkerBatchCb,
         WorkerRemoveCtx, WorkerFinish, SpuriousWakeup
  <1>2. ASSUME WorkerStep(w) \/ SpuriousWakeup(w)
        PROVE  WorkerRun(w)
    BY <1>2 DEF WorkerStep, WorkerStart, WorkerWait, WorkerExit, WorkerTake,
         WorkerTakeNone, WorkerFindCtx, WorkerDec, WorkerBatchCb,
         WorkerRemoveCtx, WorkerFinish, SpuriousWakeup, AtLoop
  <1>3. ASSUME OwnerStep \/ BeginDestroy \/ Gone \/ UNCHANGED vars
        PROVE  thr'[w] = thr[w]
    <2>1. CASE CreateWorker \/ CreateFailed
      <3>1. own.pc = "create" /\ own.i \in Workers /\ own.i <= own.i
        BY <1>0, <2>1, WorkersFacts DEF CreateWorker, CreateFailed
      <3>2. thr[own.i].pc = "none"
        BY <3>1 DEF Base, BusyInv, Uncreated
      <3>3. w # own.i
        BY <3>2
      <3> QED BY <1>0, <2>1, <3>3 DEF CreateWorker, CreateFailed
    <2>2. CASE ShutdownSignal
      BY <1>0, <2>2 DEF ShutdownSignal, Signal
    <2>3. CASE ~(CreateWorker \/ CreateFailed \/ ShutdownSignal)
      <3>1. UNCHANGED thr
        BY <1>3, <2>3 DEF OwnerStep, AwaitWorker, Start, Join, FreePool, BeginDestroy,
             Gone, vars, workerVars
      <3> QED BY <3>1
    <2> QED BY <2>1, <2>2, <2>3
  <1>4. ASSUME NEW c \in Callers, NewCall(c) \/ CallStep(c)
        PROVE  thr'[w] = thr[w]
    <2>1. CASE WakeSet(c)
      <3>1. thr' = Signal(call[c].best)
        BY <2>1 DEF WakeSet
      <3> QED BY <1>0, <3>1 DEF Signal
    <2>2. CASE ~WakeSet(c)
      <3>1. UNCHANGED thr
        BY <1>4, <2>2 DEF NewCall, SubmitTask, SubmitBatch, Submit, Wake, Cancel, CallStep,
             Scan, AllocFail, Attach, FindCtx, AddCtx, InsertCtx, InsertFail, ReadId, Stray,
             Deref, CancelQueue, CancelCtx, workerVars
      <3> QED BY <3>1
    <2> QED BY <2>1, <2>2
  <1> QED BY <1>1, <1>2, <1>3, <1>4 DEF Next

\* A thread past the execution has executed its task.
LEMMA RanHeldStep ==
  ASSUME Base, [Next]_vars, RanHeld
  PROVE  RanHeld' /\ ran \subseteq ran'
PROOF
  <1>0. thr \in [Workers -> ThreadType]
    BY DEF Base, TypeInv, TypeOK
  <1>1. ran \subseteq ran'
    <2>1. ASSUME NEW w \in Workers, WorkerStep(w) \/ SpuriousWakeup(w)
          PROVE  ran \subseteq ran'
      BY <2>1 DEF WorkerStep, WorkerStart, WorkerWait, WorkerExit, WorkerTake,
           WorkerTakeNone, WorkerRun, WorkerFindCtx, WorkerDec, WorkerBatchCb,
           WorkerRemoveCtx, WorkerFinish, SpuriousWakeup, ghostVars
    <2>2. CASE OwnerStep \/ BeginDestroy \/ Gone \/ UNCHANGED vars
      BY <2>2 DEF OwnerStep, CreateWorker, CreateFailed, AwaitWorker, Start,
           ShutdownSignal, Join, FreePool, BeginDestroy, Gone, vars, ghostVars
    <2>3. ASSUME NEW c \in Callers, NewCall(c) \/ CallStep(c)
          PROVE  ran \subseteq ran'
      BY <2>3 DEF NewCall, SubmitTask, SubmitBatch, Submit, Wake, Cancel, CallStep,
           Scan, AllocFail, Attach, FindCtx, AddCtx, InsertCtx, InsertFail, ReadId,
           Stray, Deref,
           WakeSet, CancelQueue, CancelCtx, ghostVars
    <2> QED BY <2>1, <2>2, <2>3 DEF Next
  <1>2. ASSUME NEW w \in Workers, Running(w)', thr'[w].pc # "run"
        PROVE  thr'[w].task \in ran'
    <2>1. Running(w) /\ thr'[w].task = thr[w].task
      BY <1>2, StepGains, TakeFacts
    <2>2. CASE thr[w].pc = "run"
      <3>1. WorkerRun(w)
        BY <1>2, <2>2, RunLeaves
      <3> QED BY <2>1, <3>1 DEF WorkerRun
    <2>3. CASE thr[w].pc # "run"
      BY <1>1, <2>1, <2>3 DEF RanHeld
    <2> QED BY <2>2, <2>3
  <1> QED BY <1>1, <1>2 DEF RanHeld

\* Before a request has a context nothing of it moves.
LEMMA UnboundUntouched ==
  ASSUME Base, NEW r \in Reqs, ContextsOf(r) = {}
  PROVE  Untouched(r)
  BY DEF Base, RequestInv, TableInv, Unbound, Untouched, Unnotified

\* A step of a call changes its own place only.
LEMMA CallStepMoves ==
  ASSUME Base, Base', NEW c \in Callers, CallStep(c)
  PROVE  \/ call'[c] = NoCall
         \/ /\ call'[c].op = call[c].op /\ call'[c].req = call[c].req
            /\ \/ call[c].pc \in Preparing /\ call'[c].pc \in Preparing
               \/ call[c].pc = "insert" /\ call'[c].pc = "readid" /\ call[c].op = "task"
               \/ call[c].pc = "wderef" /\ call'[c].pc = "wset"
               \/ call[c].pc = "cderef" /\ call'[c].pc = "cremove"
               \/ call[c].pc = "cremove" /\ call'[c].pc = "cupdate"
PROOF
  <1>0. /\ call \in [Callers -> CallType] /\ call[c] \in CallType
        /\ call[c].pc # "add" /\ call'[c].pc # "add"
    BY DEF Base, TypeInv, TypeOK, RequestInv, CallsOK, CallInv
  <1>1. CASE AllocFail(c) \/ InsertFail(c) \/ ReadId(c) \/ Stray(c) \/ WakeSet(c) \/ CancelCtx(c)
    BY <1>0, <1>1 DEF AllocFail, InsertFail, ReadId, Stray, WakeSet, CancelCtx
  <1>2. CASE Scan(c)
    <2>1. call'[c] = Scanned(call[c]) /\ call[c].pc = "scan"
      BY <1>0, <1>2 DEF Scan
    <2>2. Considered(call[c]) = call[c]
          \/ Considered(call[c]) = [call[c] EXCEPT !.best = call[c].i,
                                                   !.min = queue_size[call[c].i]]
      BY DEF Considered
    <2>3. /\ Considered(call[c]).op = call[c].op /\ Considered(call[c]).req = call[c].req
          /\ Considered(call[c]).pc = "scan"
          /\ [Considered(call[c]) EXCEPT !.i = call[c].i + 1].pc = "scan"
          /\ [Considered(call[c]) EXCEPT !.i = call[c].i + 1].op = call[c].op
          /\ [Considered(call[c]) EXCEPT !.i = call[c].i + 1].req = call[c].req
          /\ [Considered(call[c]) EXCEPT !.pc = "attach"].pc = "attach"
          /\ [Considered(call[c]) EXCEPT !.pc = "attach"].op = call[c].op
          /\ [Considered(call[c]) EXCEPT !.pc = "attach"].req = call[c].req
      BY <1>0, <2>1, <2>2 DEF CallType
    <2>4. LET s == [call[c] EXCEPT !.pc = "attach", !.best = call[c].i] IN
          s.pc = "attach" /\ s.op = call[c].op /\ s.req = call[c].req
      BY <1>0 DEF CallType
    <2> QED BY <2>1, <2>3, <2>4 DEF Scanned, Preparing
  <1>3. CASE Attach(c)
    <2>1. call'[c] = [call[c] EXCEPT !.pc = "find", !.k = next_task_id] /\ call[c].pc = "attach"
      BY <1>0, <1>3 DEF Attach
    <2> QED BY <1>0, <2>1 DEF CallType, Preparing
  <1>4. CASE FindCtx(c)
    <2>1. PICK i \in Lookup(call[c].req) :
             call' = [call EXCEPT ![c].pc = IF i = 0 THEN "insert" ELSE "add", ![c].ctx = i]
      BY <1>4 DEF FindCtx
    <2>2. call'[c] = [call[c] EXCEPT !.pc = IF i = 0 THEN "insert" ELSE "add", !.ctx = i]
      BY <1>0, <2>1
    <2>3. /\ call'[c].pc \in {"insert", "add"} /\ call[c].pc = "find"
          /\ call'[c].op = call[c].op /\ call'[c].req = call[c].req
      BY <1>0, <1>4, <2>2 DEF CallType, FindCtx
    <2> QED BY <1>0, <2>3 DEF Preparing
  <1>5. CASE InsertCtx(c)
    <2>1. call'[c] = Recorded(call[c]) /\ call[c].pc = "insert"
      BY <1>0, <1>5 DEF InsertCtx
    <2> QED BY <1>0, <2>1 DEF Recorded, CallType
  <1>6. CASE Deref(c)
    <2>1. PICK w \in BoundTo(call[c].ctx) :
             call' = [call EXCEPT ![c].best = w,
                        ![c].pc = IF call[c].pc = "wderef" THEN "wset" ELSE "cremove"]
      BY <1>6 DEF Deref
    <2>2. call'[c] = [call[c] EXCEPT !.best = w,
                        !.pc = IF call[c].pc = "wderef" THEN "wset" ELSE "cremove"]
      BY <1>0, <2>1
    <2>3. /\ call'[c].pc = IF call[c].pc = "wderef" THEN "wset" ELSE "cremove"
          /\ call'[c].op = call[c].op /\ call'[c].req = call[c].req
      BY <1>0, <2>2 DEF CallType
    <2> QED BY <1>6, <2>3 DEF Deref
  <1>7. CASE CancelQueue(c)
    <2> PICK k : k = Cardinality(OfReq(call[c].best, call[c].req))
      OBVIOUS
    <2>1. call'[c] = Removed(call[c], k) /\ call[c].pc = "cremove"
      BY <1>0, <1>7 DEF CancelQueue
    <2> QED BY <1>0, <2>1 DEF Removed, CallType
  <1> QED BY <1>0, <1>1, <1>2, <1>3, <1>4, <1>5, <1>6, <1>7 DEF CallStep, AddCtx

\* A call that begins finds what its caller waits for.
LEMMA NewCallMoves ==
  ASSUME Base, Polite, NEW c \in Callers, NewCall(c)
  PROVE  /\ call[c].pc = "idle"
         /\ UNCHANGED <<queue, pending_req, thr, freed, ran, own, ctx, req_hash, notified>>
         /\ \/ call'[c] = NoCall
            \/ \E r \in Reqs :
                  /\ call'[c].req = r
                  /\ \/ /\ call'[c].pc = "scan" /\ call'[c].op \in {"batch", "task"}
                        /\ call'[c].op = "task" => "task" \in SubmitOps
                        /\ Accepted(r) = {}
                     \/ /\ call'[c].pc = "wderef" /\ call'[c].op = "wake" /\ MayWake(r)
                        /\ ContextsOf(r) \cap req_hash # {}
                     \/ /\ call'[c].pc = "cderef" /\ call'[c].op = "cancel" /\ Quiet(r)
                        /\ Live(call'[c].ctx)
PROOF
  <1>0. /\ call \in [Callers -> CallType] /\ call[c].pc = "idle"
        /\ UNCHANGED <<queue, pending_req, thr, freed, ran, own, ctx, req_hash, notified>>
    BY DEF Base, TypeInv, TypeOK, NewCall, SubmitTask, SubmitBatch, Submit, Wake, Cancel,
         workerVars, tableVars, ghostVars
  <1>1. ASSUME NEW op \in {"batch", "task"}, op \in SubmitOps, NEW r \in Reqs, NEW n, NEW cb,
               Submit(c, op, r, n, cb)
        PROVE  /\ call'[c].pc = "scan" /\ call'[c].op = op /\ call'[c].req = r
               /\ Accepted(r) = {}
    <2>1. call'[c] = [NoCall EXCEPT !.pc = "scan", !.op = op, !.req = r, !.n = n, !.cb = cb]
      BY <1>0, <1>1 DEF Submit
    <2>2. Accepted(r) = {}
      BY <1>1 DEF Submit, MaySubmit, Polite
    <2> QED BY <2>1, <2>2 DEF NoCall
  <1>2. ASSUME NEW r \in Reqs, Wake(c, r)
        PROVE  \/ call'[c] = NoCall
               \/ /\ call'[c].pc = "wderef" /\ call'[c].op = "wake" /\ call'[c].req = r
                  /\ MayWake(r) /\ ContextsOf(r) \cap req_hash # {}
    <2>1. PICK i \in Lookup(r) :
             call' = [call EXCEPT ![c] = IF i = 0 THEN NoCall
                        ELSE [NoCall EXCEPT !.pc = "wderef", !.op = "wake",
                                            !.req = r, !.ctx = i]]
      BY <1>2 DEF Wake
    <2>2. MayWake(r) /\ (i # 0 => ContextsOf(r) \cap req_hash # {})
      BY <1>2, LookupOne DEF Wake, Base, RequestInv, TableInv
    <2> QED BY <1>0, <2>1, <2>2 DEF NoCall
  <1>3. ASSUME NEW r \in Reqs, Cancel(c, r)
        PROVE  \/ call'[c] = NoCall
               \/ /\ call'[c].pc = "cderef" /\ call'[c].op = "cancel" /\ call'[c].req = r
                  /\ Quiet(r) /\ Live(call'[c].ctx)
    <2>1. PICK i \in Lookup(r) :
             call' = [call EXCEPT ![c] = IF i = 0 THEN NoCall
                        ELSE [NoCall EXCEPT !.pc = "cderef", !.op = "cancel",
                                            !.req = r, !.ctx = i]]
      BY <1>3 DEF Cancel
    <2>2. Quiet(r) /\ (i # 0 => i \in req_hash)
      BY <1>3, LookupOne DEF Cancel, MayCancel, Polite, Base, RequestInv, TableInv
    <2> QED BY <1>0, <2>1, <2>2 DEF NoCall, Live
  <1>4. CASE SubmitTask(c) \/ SubmitBatch(c)
    <2>1. PICK op \in {"batch", "task"}, r \in Reqs :
             op \in SubmitOps /\ \E n, cb : Submit(c, op, r, n, cb)
      BY <1>4 DEF SubmitTask, SubmitBatch
    <2>2. /\ call'[c].pc = "scan" /\ call'[c].op = op /\ call'[c].req = r
          /\ Accepted(r) = {}
      BY <1>1, <2>1
    <2> QED BY <1>0, <2>1, <2>2
  <1>5. ASSUME NEW r \in Reqs, Wake(c, r) \/ Cancel(c, r)
        PROVE  \/ call'[c] = NoCall
               \/ /\ call'[c].req = r
                  /\ \/ /\ call'[c].pc = "wderef" /\ call'[c].op = "wake" /\ MayWake(r)
                        /\ ContextsOf(r) \cap req_hash # {}
                     \/ /\ call'[c].pc = "cderef" /\ call'[c].op = "cancel" /\ Quiet(r)
                        /\ Live(call'[c].ctx)
    BY <1>2, <1>3, <1>5
  <1>6. CASE \E r \in Reqs : Wake(c, r) \/ Cancel(c, r)
    BY <1>0, <1>5, <1>6
  <1> QED BY <1>4, <1>6 DEF NewCall

\* One call moves at a time.
LEMMA OneMoves ==
  ASSUME Base, NEW c \in Callers, NewCall(c) \/ CallStep(c)
  PROVE  \A d \in Callers : d # c => call'[d] = call[d]
PROOF
  <1>0. call \in [Callers -> CallType]
    BY DEF Base, TypeInv, TypeOK
  <1> QED BY <1>0 DEF NewCall, SubmitTask, SubmitBatch, Submit, Wake, Cancel, CallStep,
           Scan, AllocFail, Attach, FindCtx, AddCtx, InsertCtx, InsertFail, ReadId, Stray,
           Deref, WakeSet, CancelQueue, CancelCtx

\* Nothing of a request begins to move but by a wake-up.
LEMMA UntouchedStays ==
  ASSUME Base, [Next]_vars, NEW r \in Reqs, Untouched(r),
         \A c \in Callers : WakeSet(c) => call[c].req # r
  PROVE  Untouched(r)'
PROOF
  <1>0. pending_req \in [Workers -> Reqs \cup {0}]
    BY DEF Base, TypeInv, TypeOK
  <1>1. ASSUME r # 0, NEW w \in Workers PROVE pending_req'[w] # r
    <2>0. pending_req[w] # r
      BY <1>1 DEF Untouched, Unnotified
    <2>1. CASE OwnerStep \/ BeginDestroy \/ Gone \/ UNCHANGED vars
      BY <2>0, <2>1 DEF OwnerStep, CreateWorker, CreateFailed, AwaitWorker, Start,
           ShutdownSignal, Join, FreePool, BeginDestroy, Gone, vars, workerVars
    <2>2. ASSUME NEW v \in Workers, WorkerStep(v) \/ SpuriousWakeup(v)
          PROVE  pending_req'[w] # r
      <3>1. pending_req'[w] \in {pending_req[w], 0}
        BY <1>0, <2>2 DEF WorkerStep, WorkerStart, WorkerWait, WorkerExit, WorkerTake,
             WorkerTakeNone, WorkerRun, WorkerFindCtx, WorkerDec, WorkerBatchCb,
             WorkerRemoveCtx, WorkerFinish, SpuriousWakeup, Consumed
      <3> QED BY <1>1, <2>0, <3>1
    <2>3. ASSUME NEW c \in Callers, NewCall(c) \/ CallStep(c)
          PROVE  pending_req'[w] # r
      <3>1. CASE WakeSet(c)
        BY <1>0, <2>0, <3>1 DEF WakeSet
      <3>2. CASE ~WakeSet(c)
        <4>1. UNCHANGED pending_req
          BY <2>3, <3>2 DEF NewCall, SubmitTask, SubmitBatch, Submit, Wake, Cancel,
             CallStep,
               Scan, AllocFail, Attach, FindCtx, AddCtx, InsertCtx, InsertFail, ReadId,
               Stray,
               Deref, CancelQueue, CancelCtx, workerVars
        <4> QED BY <2>0, <4>1
      <3> QED BY <3>1, <3>2
    <2> QED BY <2>1, <2>2, <2>3 DEF Next
  <1>2. ASSUME NEW w \in Workers, Running(w)' PROVE thr'[w].task.req # r
    <2>1. CASE WorkerTake(w)
      <3>1. thr'[w].task.req = pending_req[w] /\ pending_req[w] # 0
        BY <2>1, TakeFacts
      <3> QED BY <3>1 DEF Untouched, Unnotified
    <2>2. CASE ~WorkerTake(w)
      BY <1>2, <2>2, StepGains DEF Untouched
    <2> QED BY <2>1, <2>2
  <1> QED BY <1>1, <1>2 DEF Untouched, Unnotified

\* Who frees a task.
LEMMA FreedGains ==
  ASSUME Base, [Next]_vars, NEW t \in freed', t \notin freed
  PROVE  \/ \E w \in Workers : Running(w) /\ thr[w].pc = "fin" /\ t = thr[w].task
         \/ \E c \in Callers : CancelQueue(c) /\ t.req = call[c].req
         \/ FreePool
PROOF
  <1>1. ASSUME NEW w \in Workers, WorkerStep(w) \/ SpuriousWakeup(w)
        PROVE  Running(w) /\ thr[w].pc = "fin" /\ t = thr[w].task
    <2>1. CASE WorkerFinish(w)
      <3>1. freed' = freed \cup {thr[w].task} /\ thr[w].pc = "fin"
        BY <2>1 DEF WorkerFinish
      <3> QED BY <3>1 DEF Running
    <2>2. CASE ~WorkerFinish(w)
      <3>1. freed' = freed
        BY <1>1, <2>2 DEF WorkerStep, WorkerStart, WorkerWait, WorkerExit, WorkerTake,
             WorkerTakeNone, WorkerRun, WorkerFindCtx, WorkerDec, WorkerBatchCb,
             WorkerRemoveCtx, SpuriousWakeup, ghostVars
      <3> QED BY <3>1
    <2> QED BY <2>1, <2>2
  <1>2. ASSUME OwnerStep \/ BeginDestroy \/ Gone \/ UNCHANGED vars
        PROVE  FreePool
    <2> SUFFICES ASSUME ~FreePool PROVE freed' = freed
      OBVIOUS
    <2> QED BY <1>2 DEF OwnerStep, CreateWorker, CreateFailed, AwaitWorker, Start,
           ShutdownSignal, Join, BeginDestroy, Gone, vars, ghostVars
  <1>3. ASSUME NEW c \in Callers, NewCall(c) \/ CallStep(c)
        PROVE  CancelQueue(c) /\ t.req = call[c].req
    <2>1. CASE CancelQueue(c)
      <3>1. freed' = freed \cup OfReq(call[c].best, call[c].req)
        BY <2>1 DEF CancelQueue
      <3> QED BY <2>1, <3>1 DEF OfReq
    <2>2. CASE ~CancelQueue(c)
      <3>1. freed' = freed
        BY <1>3, <2>2 DEF NewCall, SubmitTask, SubmitBatch, Submit, Wake, Cancel, CallStep,
             Scan, AllocFail, Attach, FindCtx, AddCtx, InsertCtx, InsertFail, ReadId, Stray,
             Deref, WakeSet, CancelCtx, ghostVars
      <3> QED BY <3>1
    <2> QED BY <2>1, <2>2
  <1>4. CASE \E w \in Workers : WorkerStep(w) \/ SpuriousWakeup(w)
    BY <1>1, <1>4
  <1>5. CASE OwnerStep \/ BeginDestroy \/ Gone \/ UNCHANGED vars
    BY <1>2, <1>5
  <1>6. CASE \E c \in Callers : NewCall(c) \/ CallStep(c)
    BY <1>3, <1>6
  <1> QED BY <1>4, <1>5, <1>6 DEF Next

\* While a call is in progress the pool is not taken down.
LEMMA InPlace ==
  ASSUME Base, NEW c \in Callers, call[c].pc # "idle"
  PROVE  ~FreePool
  BY InUse DEF Base, FreePool

\* What a step leaves of the request of a call in progress.
LEMMA CareKept ==
  ASSUME Base, [Next]_vars, CallsCare, RanHeld, NEW c \in Callers, call[c].pc # "idle",
         NEW r \in Reqs, r = call[c].req
  PROVE  /\ call[c].op \in {"task", "cancel"} => Untouched(r)'
         /\ call[c].op = "task" \/ call[c].pc \in Preparing => FreedOf(r)' = {}
         /\ call[c].op = "wake" => ~DroppedNext(r)
         /\ call[c].pc = "cderef" => call[c].ctx \in req_hash'
PROOF
  <1>0. CallCare(call[c]) /\ OpCare(call[c]) /\ CallInv(call[c]) /\ ~FreePool
    BY InPlace DEF CallsCare, Base, RequestInv, CallsOK
  <1>1. ASSUME NEW d \in Callers, call[d].req = r, d # c
        PROVE  /\ Apart(call[c], call[d]) /\ Apart(call[d], call[c])
               /\ OpCare(call[d]) /\ CallInv(call[d])
    BY <1>1 DEF CallsCare, Base, RequestInv, CallsOK
  <1>2. ASSUME NEW d \in Callers, CancelQueue(d) \/ CancelCtx(d), call[d].req = r
        PROVE  d = c \/ call[c].op \notin {"batch", "task", "wake", "cancel"}
    <2>1. call[d].pc \in {"cremove", "cupdate"}
      BY <1>2 DEF CancelQueue, CancelCtx
    <2>2. d # c => call[d].op = "cancel"
      BY <1>1, <1>2, <2>1 DEF CallInv
    <2> QED BY <1>1, <1>2, <2>2 DEF Apart
  <1>3. ASSUME call[c].op \in {"task", "cancel"} PROVE Untouched(r)'
    <2>1. ASSUME NEW d \in Callers, WakeSet(d), call[d].req = r PROVE FALSE
      <3>1. call[d].pc = "wset"
        BY <2>1 DEF WakeSet
      <3>2. d # c
        BY <1>0, <1>3, <3>1 DEF OpCare
      <3>3. call[d].op = "wake"
        BY <1>1, <2>1, <3>1, <3>2 DEF OpCare
      <3> QED BY <1>1, <1>3, <2>1, <3>2, <3>3 DEF Apart
    <2>2. Untouched(r)
      BY <1>0, <1>3 DEF CallCare
    <2> QED BY <2>1, <2>2, UntouchedStays
  <1>4. ASSUME call[c].op = "task" \/ call[c].pc \in Preparing PROVE FreedOf(r)' = {}
    <2>1. FreedOf(r) = {} /\ call[c].op \in {"batch", "task"}
      BY <1>0, <1>4 DEF CallCare, CallInv, SubmitPc, Preparing
    <2>2. Untouched(r)
      BY <1>0, <1>4, UnboundUntouched DEF CallCare, CallInv, Preparing
    <2>3. ASSUME NEW t \in freed', t.req = r PROVE FALSE
      <3>1. t \notin freed
        BY <2>1, <2>3 DEF FreedOf
      <3>2. \A w \in Workers : Running(w) => t # thr[w].task
        BY <2>2, <2>3 DEF Untouched
      <3>3. \A d \in Callers : CancelQueue(d) => t.req # call[d].req
        <4> SUFFICES ASSUME NEW d \in Callers, CancelQueue(d), call[d].req = r PROVE FALSE
          BY <2>3
        <4>1. d = c
          BY <1>2, <2>1
        <4>2. call[c].pc = "cremove"
          BY <4>1 DEF CancelQueue
        <4> QED BY <1>0, <2>1, <4>2 DEF CallInv, SubmitPc
      <3> QED BY <1>0, <3>1, <3>2, <3>3, FreedGains
    <2> QED BY <2>3 DEF FreedOf
  <1>5. ASSUME call[c].op = "wake", DroppedNext(r) PROVE FALSE
    <2>1. PICK t \in freed' : t \notin ran' /\ t.req = r
      BY <1>5 DEF DroppedNext
    <2>2. ran \subseteq ran'
      BY RanHeldStep
    <2>3. t \notin ran
      BY <2>1, <2>2
    <2>4. t \notin freed
      BY <1>0, <1>5, <2>1, <2>3 DEF CallCare, Dropped
    <2>5. \A w \in Workers : Running(w) /\ thr[w].pc = "fin" => t # thr[w].task
      BY <2>3 DEF RanHeld
    <2>6. \A d \in Callers : CancelQueue(d) => t.req # call[d].req
      <3> SUFFICES ASSUME NEW d \in Callers, CancelQueue(d), call[d].req = r PROVE FALSE
        BY <2>1
      <3>1. d = c /\ call[d].pc = "cremove"
        BY <1>2, <1>5 DEF CancelQueue
      <3> QED BY <1>0, <1>5, <3>1 DEF OpCare
    <2> QED BY <1>0, <2>4, <2>5, <2>6, FreedGains
  <1>6. ASSUME call[c].pc = "cderef", call[c].ctx \notin req_hash' PROVE FALSE
    <2>1. /\ call[c].op = "cancel" /\ call[c].ctx \in req_hash
          /\ call[c].ctx \in ContextsOf(r)
      BY <1>0, <1>6 DEF CallCare, CallInv, FoundPc, Live
    <2>2. Untouched(r)
      BY <1>0, <2>1 DEF CallCare
    <2>3. \A w \in Workers : Running(w) => thr[w].task.req # r
      BY <2>2 DEF Untouched
    <2>4. ASSUME NEW d \in Callers, CancelCtx(d), call[d].req = r PROVE FALSE
      <3>1. d = c /\ call[d].pc = "cupdate"
        BY <1>2, <2>1, <2>4 DEF CancelCtx
      <3> QED BY <1>6, <3>1
    <2>5. ctx[call[c].ctx].request_id = r
      BY <2>1 DEF ContextsOf
    <2>6. \/ \E w \in Workers : Running(w) /\ thr[w].task.req = r
          \/ \E d \in Callers : CancelCtx(d) /\ call[d].req = r
      BY <1>0, <1>6, <2>1, <2>5, TableLoses
    <2> QED BY <2>3, <2>4, <2>6
  <1> QED BY <1>3, <1>4, <1>5, <1>6

\* Every step keeps what the calls rely on.
LEMMA CareStep ==
  ASSUME Base, Base', [Next]_vars, Polite, CallsCare, RanHeld, NotDropped
  PROVE  CallsCare'
PROOF
  <1>1. ASSUME NEW c \in Callers, ~NewCall(c), ~CallStep(c)
        PROVE  (OpCare(call[c]) /\ CallCare(call[c]))'
    <2>1. call'[c] = call[c] /\ OpCare(call[c]) /\ CallCare(call[c]) /\ CallInv(call[c])
      BY <1>1, CallMovesItself DEF CallsCare, Base, RequestInv, CallsOK
    <2>2. CASE call[c].pc = "idle"
      BY <2>1, <2>2 DEF OpCare, CallCare, CallInv, SubmitPc, Preparing
    <2>3. CASE call[c].pc # "idle"
      <3> PICK r \in Reqs : r = call[c].req
        BY <2>3 DEF Base, TypeInv, LocalsOK, CallOK
      <3>1. /\ call[c].op \in {"task", "cancel"} => Untouched(r)'
            /\ call[c].op = "task" \/ call[c].pc \in Preparing => FreedOf(r)' = {}
            /\ call[c].op = "wake" => ~DroppedNext(r)
            /\ call[c].pc = "cderef" => call[c].ctx \in req_hash'
        BY <2>3, CareKept
      <3>2. OpCare(call[c])'
        BY <2>1 DEF OpCare
      <3> QED BY <2>1, <3>1, <3>2
              DEF CallCare, Untouched, Unnotified, Running, FreedOf, Dropped,
              DroppedNext, Live
    <2> QED BY <2>2, <2>3
  <1>2. ASSUME NEW c \in Callers, CallStep(c)
        PROVE  (OpCare(call[c]) /\ CallCare(call[c]))'
    <2>0. /\ OpCare(call[c]) /\ CallInv(call[c]) /\ call[c].pc # "idle"
          /\ CallInv(call[c])'
      BY <1>2 DEF CallsCare, Base, RequestInv, CallsOK, CallStep, Scan, AllocFail, Attach,
         FindCtx, AddCtx, InsertCtx, InsertFail, ReadId, Deref, Stray, WakeSet, CancelQueue,
         CancelCtx
    <2>1. CASE call'[c] = NoCall
      BY <2>1 DEF NoCall, OpCare, CallCare, Preparing
    <2>2. CASE call'[c] # NoCall
      <3> PICK r \in Reqs : r = call[c].req
        BY <2>0 DEF Base, TypeInv, LocalsOK, CallOK
      <3>1. /\ call[c].op \in {"task", "cancel"} => Untouched(r)'
            /\ call[c].op = "task" \/ call[c].pc \in Preparing => FreedOf(r)' = {}
            /\ call[c].op = "wake" => ~DroppedNext(r)
        BY <2>0, CareKept
      <3>2. /\ call'[c].op = call[c].op /\ call'[c].req = r
            /\ \/ call[c].pc \in Preparing /\ call'[c].pc \in Preparing
               \/ call[c].pc = "insert" /\ call'[c].pc = "readid" /\ call[c].op = "task"
               \/ call[c].pc = "wderef" /\ call'[c].pc = "wset"
               \/ call[c].pc = "cderef" /\ call'[c].pc = "cremove"
               \/ call[c].pc = "cremove" /\ call'[c].pc = "cupdate"
        BY <1>2, <2>2, CallStepMoves
      <3>3. OpCare(call[c])'
        BY <2>0, <3>2 DEF OpCare, Preparing
      <3>4. call'[c].pc # "cderef" /\ (call'[c].pc \in Preparing => call[c].pc \in Preparing)
        BY <3>2 DEF Preparing
      <3> QED BY <3>1, <3>2, <3>3, <3>4
              DEF CallCare, Untouched, Unnotified, Running, FreedOf, Dropped, DroppedNext
    <2> QED BY <2>1, <2>2
  <1>3. ASSUME NEW c \in Callers, NewCall(c)
        PROVE  (OpCare(call[c]) /\ CallCare(call[c]))'
    <2>1. /\ call[c].pc = "idle"
          /\ UNCHANGED <<queue, pending_req, thr, freed, ran, own, ctx, req_hash, notified>>
      BY <1>3, NewCallMoves
    <2>2. CASE call'[c] = NoCall
      BY <2>2 DEF NoCall, OpCare, CallCare, Preparing
    <2>3. CASE call'[c] # NoCall
      <3>1. PICK r \in Reqs :
               /\ call'[c].req = r
               /\ \/ /\ call'[c].pc = "scan" /\ call'[c].op \in {"batch", "task"}
                     /\ call'[c].op = "task" => "task" \in SubmitOps
                     /\ Accepted(r) = {}
                  \/ /\ call'[c].pc = "wderef" /\ call'[c].op = "wake" /\ MayWake(r)
                     /\ ContextsOf(r) \cap req_hash # {}
                  \/ /\ call'[c].pc = "cderef" /\ call'[c].op = "cancel" /\ Quiet(r)
                     /\ Live(call'[c].ctx)
        BY <1>3, <2>3, NewCallMoves
      <3>2. CASE call'[c].pc = "scan"
        <4>1. /\ Accepted(r) = {} /\ call'[c].op \in {"batch", "task"}
              /\ call'[c].op = "task" => "early_wake" \notin Liberties
          BY <3>1, <3>2 DEF Polite
        <4>2. FreedOf(r) = {} /\ Untouched(r)
          BY <4>1, UnboundUntouched DEF Accepted, FreedOf, Base, Remembered
        <4> QED BY <2>1, <3>1, <3>2, <4>1, <4>2
                DEF OpCare, CallCare, Untouched, Unnotified, Running, FreedOf
      <3>3. CASE call'[c].pc = "wderef"
        <4>1. call'[c].op = "wake" /\ MayWake(r) /\ ContextsOf(r) \cap req_hash # {}
          BY <3>1, <3>3
        <4>2. InCall(r, {"cancel"}) = {}
          BY <4>1 DEF MayWake, Polite
        <4>3. \A d \in Callers : call[d].pc = "cupdate" => call[d].op = "cancel"
          BY DEF Base, RequestInv, CallsOK, CallInv
        <4>4. ~Dropped(r)
          BY <4>1, <4>2, <4>3 DEF NotDropped, InCall
        <4> QED BY <2>1, <3>1, <3>3, <4>1, <4>4 DEF OpCare, CallCare, Preparing, Dropped
      <3>4. CASE call'[c].pc = "cderef"
        <4>1. call'[c].op = "cancel" /\ Quiet(r) /\ Live(call'[c].ctx)
          BY <3>1, <3>4
        <4>2. Untouched(r)
          BY <4>1 DEF Quiet, Untouched, Unnotified
        <4> QED BY <2>1, <3>1, <3>4, <4>1, <4>2
                DEF OpCare, CallCare, Preparing, Untouched, Unnotified, Running, Live
      <3> QED BY <3>1, <3>2, <3>3, <3>4
    <2> QED BY <2>2, <2>3
  <1>4. ASSUME NEW c \in Callers, NEW d \in Callers, c # d, call'[d] = call[d]
        PROVE  Apart(call'[c], call[d]) /\ Apart(call[d], call'[c])
    <2>0. /\ Apart(call[c], call[d]) /\ Apart(call[d], call[c]) /\ OpCare(call[d])
          /\ CallInv(call[d])
      BY <1>4 DEF CallsCare, Base, RequestInv, CallsOK
    <2>1. CASE call'[c] = call[c]
      BY <2>0, <2>1
    <2>2. CASE call'[c] = NoCall
      BY <2>2 DEF Apart, NoCall
    <2>3. CASE call'[c].op = call[c].op /\ call'[c].req = call[c].req
      BY <2>0, <2>3 DEF Apart
    <2>4. ASSUME NewCall(c), call'[c] # NoCall, call'[c].req = call[d].req
          PROVE  /\ call[d].op = "cancel" => call'[c].op \notin {"batch", "task", "wake", "cancel"}
                 /\ call'[c].op = "cancel" => call[d].op \notin {"batch", "task", "wake", "cancel"}
                 /\ ~(call[d].op = "task" /\ call'[c].op = "wake")
                 /\ ~(call'[c].op = "task" /\ call[d].op = "wake")
      <3>1. PICK r \in Reqs :
               /\ call'[c].req = r
               /\ \/ /\ call'[c].pc = "scan" /\ call'[c].op \in {"batch", "task"}
                     /\ call'[c].op = "task" => "task" \in SubmitOps
                     /\ Accepted(r) = {}
                  \/ /\ call'[c].pc = "wderef" /\ call'[c].op = "wake" /\ MayWake(r)
                     /\ ContextsOf(r) \cap req_hash # {}
                  \/ /\ call'[c].pc = "cderef" /\ call'[c].op = "cancel" /\ Quiet(r)
                     /\ Live(call'[c].ctx)
        BY <2>4, NewCallMoves
      <3>2. CASE call'[c].op \in {"batch", "task"}
        <4>1. ContextsOf(r) = {}
          BY <3>1, <3>2 DEF Base, Remembered
        <4>2. call[d].op \notin {"wake", "cancel"}
          BY <2>0, <2>4, <3>1, <4>1 DEF CallInv, OpCare, FoundPc
        <4> QED BY <3>2, <4>2
      <3>3. CASE call'[c].op = "wake"
        <4>1. MayWake(r)
          BY <3>1, <3>3
        <4>2. call[d].op # "cancel"
          BY <2>4, <3>1, <4>1 DEF MayWake, Polite, InCall
        <4>3. call[d].op # "task"
          BY <2>0, <2>4, <3>1, <4>1 DEF MayWake, OpCare, InCall
        <4> QED BY <3>3, <4>2, <4>3
      <3>4. CASE call'[c].op = "cancel"
        <4>1. Quiet(r)
          BY <3>1, <3>4
        <4>2. call[d].op \notin {"batch", "task", "wake", "cancel"}
          BY <2>4, <3>1, <4>1 DEF Quiet, InCall
        <4> QED BY <3>4, <4>2
      <3> QED BY <3>1, <3>2, <3>3, <3>4
    <2>5. CASE NewCall(c)
      BY <2>2, <2>4, <2>5 DEF Apart
    <2>6. CASE CallStep(c)
      BY <2>2, <2>3, <2>6, CallStepMoves
    <2> QED BY <2>1, <2>5, <2>6, CallMovesItself
  <1>5. ASSUME NEW c \in Callers, NEW d \in Callers, c # d
        PROVE  Apart(call'[c], call'[d])
    <2>1. CASE call'[d] = call[d]
      BY <1>4, <1>5, <2>1
    <2>2. CASE call'[c] = call[c]
      BY <1>4, <1>5, <2>2
    <2>3. CASE NewCall(c) \/ CallStep(c)
      BY <1>5, <2>1, <2>3, OneMoves
    <2> QED BY <2>2, <2>3, CallMovesItself
  <1>6. \A c \in Callers : (OpCare(call[c]) /\ CallCare(call[c]))'
    BY <1>1, <1>2, <1>3
  <1> QED BY <1>5, <1>6 DEF CallsCare, Apart

\* The cancel that took the tasks finds nothing else to count: it removes the
\* context.
LEMMA CancelRemoves ==
  ASSUME Base, Base', CallsCare, NEW c \in Callers, CancelCtx(c),
         NEW r \in Reqs, r = call[c].req
  PROVE  ContextsOf(r)' \cap req_hash' = {}
PROOF
  <1>0. /\ call[c].pc = "cupdate" /\ CallInv(call[c]) /\ CallCare(call[c]) /\ [Next]_vars
        /\ UNCHANGED <<queue, thr>>
        /\ call' = [call EXCEPT ![c] = NoCall] /\ call \in [Callers -> CallType]
    BY DEF CancelCtx, Base, TypeInv, TypeOK, RequestInv, CallsOK, CallsCare, Next, CallStep,
           workerVars
  <1>1. /\ call[c].ctx \in req_hash /\ call[c].ctx \in ContextsOf(r)
        /\ ctx' = [ctx EXCEPT ![call[c].ctx].pending_count = @ - call[c].k]
        /\ req_hash' = IF ctx'[call[c].ctx].pending_count = 0
                       THEN req_hash \ {call[c].ctx} ELSE req_hash
    BY CancelCtxFacts
  <1>2. \A i \in ContextsOf(r) : i = call[c].ctx
    BY <1>1 DEF Base, RequestInv, TableInv, OneContext, ContextsOf
  <1>3. ContextsOf(r)' = ContextsOf(r)
    <2>1. \A d \in Callers : ~InsertCtx(d)
      <3> SUFFICES ASSUME NEW d \in Callers, InsertCtx(d) PROVE FALSE
        OBVIOUS
      <3>1. call[d].pc = "insert" /\ (d = c \/ call'[d] = call[d])
        BY <1>0 DEF InsertCtx
      <3>2. call'[d] = Recorded(call[d]) /\ call[d] \in CallType
        BY <1>0 DEF InsertCtx
      <3>3. call'[d].pc # "insert"
        BY <3>1, <3>2 DEF Recorded, NoCall, CallType
      <3> QED BY <1>0, <3>1, <3>3
    <2> QED BY <1>0, <2>1, ContextsGrow, ContextsKept DEF Base
  <1>4. ASSUME call[c].ctx \in req_hash' PROVE FALSE
    <2>1. Queued(r)' = {}
      BY <1>0 DEF CallInv, Queued
    <2>2. Undecremented(r)' = {}
      BY <1>0 DEF CallInv, CallCare, Untouched, Undecremented, Running
    <2>3. Unsubtracted(r)' = {}
      <3> SUFFICES ASSUME NEW d \in Callers, call'[d].pc = "cupdate", call'[d].req = r
                   PROVE  FALSE
        BY DEF Unsubtracted
      <3>1. d # c
        BY <1>0 DEF NoCall
      <3>2. call[d].pc = "cupdate" /\ call[d].req = r
        BY <1>0, <3>1
      <3>3. call[d].op = "cancel" /\ call[c].op = "cancel"
        BY <1>0, <3>2 DEF Base, RequestInv, CallsOK, CallInv
      <3> QED BY <3>1, <3>2, <3>3 DEF CallsCare, Apart
    <2>4. ctx'[call[c].ctx].request_id = r
      BY <1>1, <1>3 DEF ContextsOf
    <2> PICK i : i = call[c].ctx
      OBVIOUS
    <2>5. ctx'[i].pending_count = Cardinality(Queued(r)')
             + Cardinality(Undecremented(r)') + Cardinality(Unsubtracted(r)')
      <3> DEFINE Due(x) ==
               Cardinality({t \in UNION {queue'[w] : w \in Workers} : t.req = x})
               + Cardinality({w \in Workers : /\ thr'[w].pc \in {"run", "find", "dec"}
                                              /\ thr'[w].task.req = x})
               + Cardinality({x1 \in Callers \X (1 .. MaxTaskId) :
                                /\ call'[x1[1]].pc = "cupdate" /\ call'[x1[1]].req = x
                                /\ x1[2] <= call'[x1[1]].k})
      <3>1. CountExact' /\ i \in req_hash'
        BY <1>4 DEF Base, RequestInv, TableInv
      <3>2. ctx'[i].pending_count = Due(ctx'[i].request_id)
        BY <3>1 DEF CountExact, Queued, Undecremented, Unsubtracted
      <3>3. ctx'[i].request_id = r
        BY <2>4
      <3> HIDE DEF Due
      <3>4. ctx'[i].pending_count = Due(r)
        BY <3>2, <3>3
      <3> QED BY <3>4 DEF Due, Queued, Undecremented, Unsubtracted
    <2>6. Cardinality({}) = 0
      BY FS_EmptySet
    <2>7. ctx'[i].pending_count = Cardinality({}) + Cardinality({}) + Cardinality({})
      BY <2>1, <2>2, <2>3, <2>5
    <2>8. ctx'[i].pending_count = 0
      BY <2>6, <2>7
    <2> QED BY <1>1, <1>4, <2>8
  <1> QED BY <1>2, <1>3, <1>4

\* A step leaves no context to a request it, or a step before it, dropped tasks
\* of, but to the cancel that is about to remove it.
LEMMA NotDroppedStep ==
  ASSUME Base, Base', OnceInv, [Next]_vars, CallsCare, RanHeld, NotDropped
  PROVE  NotDropped'
PROOF
  <1> SUFFICES ASSUME NEW r \in Reqs, DroppedNext(r), ContextsOf(r)' \cap req_hash' # {}
               PROVE  \E c \in Callers : call'[c].pc = "cupdate" /\ call'[c].req = r
    BY DEF NotDropped, Dropped, DroppedNext
  <1>0. call \in [Callers -> CallType] /\ queue \in [Workers -> SUBSET Task]
    BY DEF Base, TypeInv, TypeOK
  <1>1. ASSUME NEW c \in Callers, InsertCtx(c), call[c].req = r PROVE FALSE
    <2>1. call[c].pc = "insert" /\ UNCHANGED <<ran, freed>>
      BY <1>1 DEF InsertCtx, ghostVars
    <2>2. FreedOf(r) = {}
      BY <1>1, <2>1 DEF CallsCare, CallCare, Preparing
    <2> QED BY <2>1, <2>2 DEF FreedOf, DroppedNext
  <1>2. ContextsOf(r) \cap req_hash # {}
    <2>1. SameContexts => ContextsOf(r)' = ContextsOf(r)
      BY ContextsKept
    <2>2. CASE \E c \in Callers : InsertCtx(c)
      <3>1. PICK c \in Callers : InsertCtx(c)
        BY <2>2
      <3>2. /\ ctx' = Append(ctx, NewContext(call[c])) /\ call[c].req # r
            /\ req_hash' = req_hash \cup {Len(ctx) + 1}
        BY <1>1, <3>1 DEF InsertCtx
      <3>3. ctx \in Seq(Context) /\ req_hash \subseteq 1 .. Len(ctx) /\ Len(ctx) \in Nat
        BY LenProperties DEF Base, TypeInv, TypeOK
      <3>4. /\ Len(ctx') = Len(ctx) + 1 /\ \A i \in 1 .. Len(ctx) : ctx'[i] = ctx[i]
            /\ ctx'[Len(ctx) + 1] = NewContext(call[c])
        BY <3>2, <3>3
      <3>5. NewContext(call[c]).request_id # r
        BY <3>2 DEF NewContext
      <3>6. PICK i \in req_hash' : i \in 1 .. Len(ctx') /\ ctx'[i].request_id = r
        BY DEF ContextsOf
      <3>7. i # Len(ctx) + 1
        BY <3>4, <3>5, <3>6
      <3>8. i \in req_hash /\ ctx[i].request_id = r /\ i \in 1 .. Len(ctx)
        BY <3>2, <3>3, <3>4, <3>6, <3>7
      <3> QED BY <3>8 DEF ContextsOf
    <2>3. CASE \A c \in Callers : ~InsertCtx(c)
      <3>1. SameContexts
        BY <2>3, ContextsGrow DEF Base
      <3>2. ContextsOf(r)' = ContextsOf(r)
        BY <2>1, <3>1
      <3>3. req_hash' \subseteq req_hash
        <4>1. CASE \E c \in Callers : CancelCtx(c)
          BY <4>1, CancelCtxFacts
        <4>2. CASE \E w \in Workers : WorkerDec(w)
          BY <4>2 DEF WorkerDec
        <4>3. CASE /\ \A c \in Callers : ~CancelCtx(c)
                   /\ \A w \in Workers : ~WorkerDec(w)
          BY <2>3, <4>3, TableSteps
        <4> QED BY <4>1, <4>2, <4>3
      <3> QED BY <3>2, <3>3
    <2> QED BY <2>2, <2>3
  <1>3. CASE Dropped(r)
    <2>1. PICK c \in Callers : call[c].pc = "cupdate" /\ call[c].req = r
      BY <1>2, <1>3 DEF NotDropped
    <2>2. CASE call'[c] = call[c]
      BY <2>1, <2>2
    <2>3. CASE call'[c] # call[c]
      <3>1. ~NewCall(c) /\ (CallStep(c) => CancelCtx(c))
        BY <2>1 DEF NewCall, SubmitTask, SubmitBatch, Submit, Wake, Cancel, CallStep, Scan,
           AllocFail, Attach, FindCtx, AddCtx, InsertCtx, InsertFail, ReadId, Deref, Stray,
           WakeSet, CancelQueue
      <3>2. CancelCtx(c)
        BY <2>3, <3>1, CallMovesItself
      <3> QED BY <2>1, <3>2, CancelRemoves
    <2> QED BY <2>2, <2>3
  <1>4. CASE ~Dropped(r)
    <2>1. PICK t \in freed' : t \notin ran' /\ t.req = r
      BY DEF DroppedNext
    <2>2. t \notin ran /\ t \notin freed
      BY <1>4, <2>1, RanHeldStep DEF Dropped
    <2>3. ~ \E w \in Workers : Running(w) /\ thr[w].pc = "fin" /\ t = thr[w].task
      BY <2>2 DEF RanHeld
    <2>4. ~FreePool
      BY DEF FreePool
    <2>5. PICK c \in Callers : CancelQueue(c) /\ t.req = call[c].req
      BY <2>1, <2>2, <2>3, <2>4, FreedGains
    <2>6. call'[c].pc = "cupdate" /\ call'[c].req = r
      <3> DEFINE gone == OfReq(call[c].best, call[c].req)
                 k == Cardinality(gone)
      <3>1. /\ call' = [call EXCEPT ![c] = Removed(call[c], k)]
            /\ freed' = freed \cup gone /\ call[c].pc = "cremove"
            /\ call[c] \in CallType /\ call[c].best \in Workers
        BY <2>5 DEF CancelQueue, Base, TypeInv, TypeOK, LocalsOK, CallOK
      <3>2. t \in gone
        BY <2>1, <2>2, <3>1
      <3>3. IsFiniteSet(gone) /\ k \in Nat
        <4>1. gone \subseteq Queued(r)
          BY <2>1, <2>5, <3>1 DEF OfReq, Queued
        <4>2. IsFiniteSet(Queued(r))
          BY QueuedFinite DEF Base, RequestInv
        <4> QED BY <4>1, <4>2, FS_Subset, FS_CardinalityType
      <3>4. k # 0
        BY <3>2, <3>3, FS_EmptySet
      <3>5. k > 0
        BY <3>3, <3>4
      <3>6. call'[c] = [call[c] EXCEPT !.pc = "cupdate", !.k = k]
        <4> HIDE DEF k
        <4> QED BY <1>0, <3>1, <3>5 DEF Removed
      <3>7. call[c] \in CallType /\ call[c].req = r
        BY <2>1, <2>5, <3>1
      <3> HIDE DEF k
      <3> QED BY <3>6, <3>7 DEF CallType
    <2> QED BY <2>6
  <1> QED BY <1>3, <1>4

\* Ids are numbers below the next one, so a request has finitely many tasks.
LEMMA AcceptedFinite ==
  ASSUME TypeInv', OnceInv', NEW r \in Reqs
  PROVE  IsFiniteSet(Accepted(r)')
PROOF
  <1> DEFINE Ids == 0 .. next_task_id'
             Tasks == {[id |-> k, req |-> r] : k \in Ids}
  <1>1. next_task_id' \in Nat /\ 0 \in Int /\ next_task_id' \in Int
    BY DEF TypeInv, TypeOK
  <1>2. IsFiniteSet(Ids)
    BY <1>1, FS_Interval
  <1>3. IsFiniteSet(Tasks)
    <2> DEFINE f == [k \in Ids |-> [id |-> k, req |-> r]]
    <2>1. f \in Surjection(Ids, Tasks)
      BY DEF Surjection
    <2> QED BY <1>2, <2>1, FS_Surjection
  <1>4. ASSUME NEW t \in Task, t.id < next_task_id', t.req = r PROVE t \in Tasks
    <2>1. t = [id |-> t.id, req |-> r] /\ t.id \in Ids
      BY <1>1, <1>4 DEF Task
    <2> QED BY <2>1
  <1>5. \A t \in Accepted(r)' : t \in Task /\ t.id < next_task_id' /\ t.req = r
    <2>1. ASSUME NEW t \in Queued(r)' PROVE t \in Task /\ t.id < next_task_id' /\ t.req = r
      <3>1. PICK w \in Workers : t \in queue'[w] /\ t.req = r
        BY <2>1 DEF Queued
      <3> QED BY <3>1 DEF TypeInv, TypeOK, OnceInv, IdsBelow
    <2>2. ASSUME NEW t \in InHand(r)' PROVE t \in Task /\ t.id < next_task_id' /\ t.req = r
      <3>1. PICK w \in Workers : thr'[w].pc = "run" /\ thr'[w].task = t /\ t.req = r
        BY <2>2 DEF InHand
      <3>2. thr'[w].task \in Task
        BY <3>1 DEF TypeInv, LocalsOK, Running
      <3>3. t.id < next_task_id'
        BY <3>1 DEF OnceInv, IdsBelow, Running
      <3> QED BY <3>1, <3>2, <3>3
    <2>3. ASSUME NEW t \in ran' \cup freed', t.req = r
          PROVE  t \in Task /\ t.id < next_task_id' /\ t.req = r
      BY <2>3 DEF TypeInv, TypeOK, OnceInv, IdsBelow
    <2> QED BY <2>1, <2>2, <2>3 DEF Accepted, RanOf
  <1>6. Accepted(r)' \subseteq Tasks
    BY <1>4, <1>5
  <1> QED BY <1>3, <1>6, FS_Subset

\* No request is owed a wake-up it has no task for.
LEMMA WakesStep ==
  ASSUME Base, Base', OnceInv, OnceInv', [Next]_vars, Polite, CallsCare, Wakes
  PROVE  Wakes'
PROOF
  <1> SUFFICES ASSUME NEW r \in Reqs
               PROVE  /\ IsFiniteSet(InCall(r, {"wake"})')
                      /\ notified'[r] + Cardinality(InCall(r, {"wake"})')
                            <= Cardinality(Accepted(r)')
    BY DEF Wakes, InCall
  <1> DEFINE Old == InCall(r, {"wake"})
             New == {c \in Callers : call'[c].req = r /\ call'[c].op = "wake"}
             Covered == /\ IsFiniteSet(New)
                        /\ notified'[r] + Cardinality(New) <= Cardinality(Accepted(r)')
  <1>0. /\ call \in [Callers -> CallType] /\ New = InCall(r, {"wake"})'
        /\ notified \in [Reqs -> Nat] /\ notified[r] \in Nat /\ notified'[r] \in Nat
        /\ IsFiniteSet(Old) /\ Cardinality(Old) \in Nat
        /\ notified[r] + Cardinality(Old) <= Cardinality(Accepted(r))
    BY FS_CardinalityType DEF Base, TypeInv, TypeOK, InCall, Wakes
  <1>1. Accepted(r) \subseteq Accepted(r)'
    BY AcceptedGrows DEF Base
  <1>2. IsFiniteSet(Accepted(r)')
    BY AcceptedFinite DEF Base
  <1>3. IsFiniteSet(Accepted(r)) /\ Cardinality(Accepted(r)) <= Cardinality(Accepted(r)')
    BY <1>1, <1>2, FS_Subset
  <1>4. Cardinality(Accepted(r)) \in Nat /\ Cardinality(Accepted(r)') \in Nat
    BY <1>2, <1>3, FS_CardinalityType
  <1>5. ASSUME New \subseteq Old, notified'[r] = notified[r]
        PROVE  Covered
    <2>1. IsFiniteSet(New) /\ Cardinality(New) <= Cardinality(Old)
      BY <1>0, <1>5, FS_Subset
    <2>2. Cardinality(New) \in Nat
      BY <2>1, FS_CardinalityType
    <2> QED BY <1>0, <1>3, <1>4, <1>5, <2>1, <2>2
  <1>6. ASSUME NEW c \in Callers, NewCall(c)
        PROVE  Covered
    <2>1. /\ notified'[r] = notified[r] /\ \A d \in Callers : d # c => call'[d] = call[d]
          /\ call[c].pc = "idle"
      BY <1>6, NewCallMoves, OneMoves
    <2>2. CASE call'[c].req = r /\ call'[c].op = "wake"
      <3>1. MayWake(r)
        BY <1>6, <2>2, NewCallMoves DEF NoCall
      <3>2. notified[r] + Cardinality(Old) < Cardinality(Accepted(r))
        BY <3>1 DEF MayWake, Polite
      <3>3. New \subseteq Old \cup {c}
        BY <2>1 DEF InCall
      <3>4. IsFiniteSet(Old \cup {c}) /\ Cardinality(Old \cup {c}) <= Cardinality(Old) + 1
        BY <1>0, OneMore
      <3>5. IsFiniteSet(New) /\ Cardinality(New) <= Cardinality(Old \cup {c})
        BY <3>3, <3>4, FS_Subset
      <3>6. Cardinality(New) \in Nat /\ Cardinality(Old \cup {c}) \in Nat
        BY <3>4, <3>5, FS_CardinalityType
      <3> QED BY <1>0, <1>3, <1>4, <2>1, <3>2, <3>4, <3>5, <3>6
    <2>3. CASE ~(call'[c].req = r /\ call'[c].op = "wake")
      <3>1. New \subseteq Old
        BY <2>1, <2>3 DEF InCall
      <3> QED BY <1>5, <2>1, <3>1
    <2> QED BY <2>2, <2>3
  <1>7. ASSUME NEW c \in Callers, CallStep(c)
        PROVE  Covered
    <2>1. \A d \in Callers : d # c => call'[d] = call[d]
      BY <1>7, OneMoves
    <2>2. call'[c] = NoCall \/ (call'[c].op = call[c].op /\ call'[c].req = call[c].req)
      BY <1>7, CallStepMoves
    <2>3. New \subseteq Old
      BY <2>1, <2>2 DEF InCall, NoCall
    <2>4. CASE WakeSet(c) /\ call[c].req = r
      <3>1. /\ call[c].pc = "wset" /\ notified' = [notified EXCEPT ![r] = @ + 1]
            /\ call' = [call EXCEPT ![c] = NoCall]
        BY <2>4 DEF WakeSet
      <3>2. call[c].op = "wake"
        BY <3>1 DEF CallsCare, OpCare
      <3>3. c \in Old /\ c \notin New
        BY <1>0, <2>4, <3>1, <3>2 DEF InCall, NoCall
      <3>4. New \subseteq Old \ {c} /\ IsFiniteSet(Old \ {c})
            /\ Cardinality(Old \ {c}) = Cardinality(Old) - 1
        BY <1>0, <2>3, <3>3, FS_RemoveElement
      <3>5. IsFiniteSet(New) /\ Cardinality(New) <= Cardinality(Old \ {c})
        BY <3>4, FS_Subset
      <3>6. Cardinality(New) \in Nat
        BY <3>5, FS_CardinalityType
      <3>7. notified'[r] = notified[r] + 1
        BY <1>0, <3>1
      <3> QED BY <1>0, <1>3, <1>4, <3>4, <3>5, <3>6, <3>7
    <2>5. CASE ~(WakeSet(c) /\ call[c].req = r)
      <3>1. notified'[r] = notified[r]
        <4>1. CASE WakeSet(c)
          BY <1>0, <2>5, <4>1 DEF WakeSet
        <4>2. CASE ~WakeSet(c)
          BY <1>7, <4>2 DEF CallStep, Scan, AllocFail, Attach, FindCtx, AddCtx, InsertCtx,
             InsertFail, ReadId, Stray, Deref, CancelQueue, CancelCtx, ghostVars
        <4> QED BY <4>1, <4>2
      <3> QED BY <1>5, <2>3, <3>1
    <2> QED BY <2>4, <2>5
  <1>8. ASSUME \A c \in Callers : ~NewCall(c) /\ ~CallStep(c)
        PROVE  Covered
    <2>1. \A c \in Callers : call'[c] = call[c]
      BY <1>8, CallMovesItself
    <2>2. New \subseteq Old
      BY <2>1 DEF InCall
    <2>3. notified'[r] = notified[r]
      <3>1. ASSUME NEW w \in Workers, WorkerStep(w) \/ SpuriousWakeup(w)
            PROVE  notified' = notified
        BY <3>1 DEF WorkerStep, WorkerStart, WorkerWait, WorkerExit, WorkerTake,
             WorkerTakeNone, WorkerRun, WorkerFindCtx, WorkerDec, WorkerBatchCb,
             WorkerRemoveCtx, WorkerFinish, SpuriousWakeup, ghostVars
      <3>2. ASSUME OwnerStep \/ BeginDestroy \/ Gone \/ UNCHANGED vars
            PROVE  notified' = notified
        BY <3>2 DEF OwnerStep, CreateWorker, CreateFailed, AwaitWorker, Start,
             ShutdownSignal, Join, FreePool, BeginDestroy, Gone, vars, ghostVars
      <3> QED BY <1>8, <3>1, <3>2 DEF Next
    <2> QED BY <1>5, <2>2, <2>3
  <1>9. Covered
    <2> HIDE DEF Covered
    <2> QED BY <1>6, <1>7, <1>8
  <1> QED BY <1>0, <1>9

\* Initially nobody calls, and no request has a task or a context.
LEMMA PoliteInit == Init => PoliteInv
PROOF
  <1> SUFFICES ASSUME Init PROVE PoliteInv
    OBVIOUS
  <1>1. CallsCare
    BY DEF Init, NoCall, CallsCare, OpCare, CallCare, Apart, Preparing
  <1>2. RanHeld
    BY DEF Init, NoThread, RanHeld, Running
  <1>3. NotDropped
    BY DEF Init, NotDropped
  <1>4. Wakes
    <2> SUFFICES ASSUME NEW r \in Reqs
                 PROVE  /\ IsFiniteSet(InCall(r, {"wake"}))
                        /\ notified[r] + Cardinality(InCall(r, {"wake"}))
                              <= Cardinality(Accepted(r))
      BY DEF Wakes
    <2>1. InCall(r, {"wake"}) = {} /\ notified[r] = 0
      BY DEF Init, NoCall, InCall
    <2>2. Accepted(r) = {}
      BY DEF Init, NoThread, Accepted, Queued, InHand, RanOf
    <2>3. IsFiniteSet({}) /\ Cardinality({}) = 0
      BY FS_EmptySet
    <2>4. Cardinality(InCall(r, {"wake"})) = 0 /\ Cardinality(Accepted(r)) = 0
      BY <2>1, <2>2, <2>3
    <2> QED BY <2>1, <2>3, <2>4
  <1> QED BY <1>1, <1>2, <1>3, <1>4 DEF PoliteInv

LEMMA PoliteInvariant == Polite /\ Spec => [](Base /\ OnceInv /\ PaidInv /\ PoliteInv)
PROOF
  <1> SUFFICES ASSUME Polite PROVE Spec => [](Base /\ OnceInv /\ PaidInv /\ PoliteInv)
    OBVIOUS
  <1>1. Init => PoliteInv
    BY PoliteInit
  <1>2. Base /\ Base' /\ OnceInv /\ OnceInv' /\ PoliteInv /\ [Next]_vars => PoliteInv'
    <2> SUFFICES ASSUME Base, Base', OnceInv, OnceInv', PoliteInv, [Next]_vars
                 PROVE  PoliteInv'
      OBVIOUS
    <2>1. CallsCare /\ RanHeld /\ NotDropped /\ Wakes
      BY DEF PoliteInv
    <2> QED BY <2>1, CareStep, RanHeldStep, NotDroppedStep, WakesStep DEF PoliteInv
  <1>3. SubmitOnce
    BY DEF Polite, SubmitOnce
  <1> QED BY <1>1, <1>2, <1>3, BaseInvariant, OnceInvariant, PaidInvariant, PTL DEF Spec

\* A wake-up on its way has a task that nobody took: the context it found is
\* not freed.
LEMMA WakeLive ==
  ASSUME Base, PaidInv, OnceInv, PoliteInv, NEW c \in Callers, call[c].pc = "wderef"
  PROVE  Live(call[c].ctx)
PROOF
  <1> SUFFICES ASSUME ~Live(call[c].ctx) PROVE FALSE
    OBVIOUS
  <1> PICK r \in Reqs : r = call[c].req
    BY DEF Base, TypeInv, LocalsOK, CallOK
  <1>1. CallInv(call[c]) /\ call[c].op = "wake" /\ ~Dropped(r)
    BY DEF Base, RequestInv, CallsOK, PoliteInv, CallsCare, OpCare, CallCare
  <1>2. Queued(r) = {} /\ InHand(r) = {}
    <2>1. Settled(r)
      BY <1>1 DEF CallInv, FoundPc, ContextsOf, Live, Base, RequestInv, TableInv,
         FreedSettled
    <2> QED BY <2>1 DEF Settled, Undecremented, InHand
  <1>3. Accepted(r) \subseteq Begun(r)
    BY <1>1, <1>2 DEF Accepted, Begun, RanOf, Dropped
  <1>4. /\ IsFiniteSet(Begun(r)) /\ notified[r] \in Nat
        /\ Cardinality(Begun(r)) + Cardinality(Pending(r)) <= notified[r]
        /\ Cardinality(Pending(r)) \in Nat
    BY PendingFinite DEF PaidInv, Base, TypeInv, TypeOK
  <1>5. IsFiniteSet(Accepted(r)) /\ Cardinality(Accepted(r)) <= Cardinality(Begun(r))
    BY <1>3, <1>4, FS_Subset
  <1>6. Cardinality(Begun(r)) \in Nat /\ Cardinality(Accepted(r)) \in Nat
    BY <1>4, <1>5, FS_CardinalityType
  <1>7. /\ c \in InCall(r, {"wake"}) /\ IsFiniteSet(InCall(r, {"wake"}))
        /\ notified[r] + Cardinality(InCall(r, {"wake"})) <= Cardinality(Accepted(r))
    BY <1>1 DEF InCall, PoliteInv, Wakes
  <1>8. Cardinality(InCall(r, {"wake"})) \in Nat \ {0}
    BY <1>7, FS_CardinalityType, FS_EmptySet
  <1> QED BY <1>4, <1>5, <1>6, <1>7, <1>8

\* No call reads or writes a request context, and no submit reads a task, that a
\* worker or a cancel has freed, though find_req_context lets go of
\* req_hash_mutex before its result is used: however many threads submit, wake
\* and cancel, as long as no request is submitted twice, gets more wake-ups than
\* it has tasks, is cancelled while something of it goes on, or, if it is a
\* single task, is woken before its submit returned.  Each of the four is needed.
THEOREM NoUseAfterFreeHolds == Polite /\ Spec => []NoUseAfterFree
PROOF
  <1> SUFFICES ASSUME Polite PROVE Spec => []NoUseAfterFree
    OBVIOUS
  <1>1. Init => NoUseAfterFree
    BY DEF Init, NoUseAfterFree
  <1>2. ASSUME Base, Base', OnceInv, PaidInv, PoliteInv, NoUseAfterFree, [Next]_vars
        PROVE  NoUseAfterFree'
    <2>1. ASSUME NEW w \in Workers, WorkerDec(w) PROVE faults' = faults
      BY <1>2, <2>1, DecRequest DEF Base
    <2>2. ASSUME NEW c \in Callers, CancelCtx(c) PROVE faults' = faults
      BY <1>2, <2>2, CancelCtxRequest DEF Base
    <2>3. \A c \in Callers : ~AddCtx(c)
      BY <1>2 DEF AddCtx, Base, RequestInv, CallsOK, CallInv
    <2>4. CASE OwnerStep \/ BeginDestroy \/ Gone \/ UNCHANGED vars
      BY <1>2, <2>4 DEF OwnerStep, CreateWorker, CreateFailed, AwaitWorker, Start,
           ShutdownSignal, Join, FreePool, BeginDestroy, Gone, vars, ghostVars,
           NoUseAfterFree
    <2>5. ASSUME NEW w \in Workers,
                 \/ WorkerStart(w) \/ WorkerWait(w) \/ WorkerExit(w) \/ WorkerTake(w)
                 \/ WorkerTakeNone(w) \/ WorkerRun(w) \/ WorkerFindCtx(w)
                 \/ WorkerBatchCb(w) \/ WorkerRemoveCtx(w) \/ WorkerFinish(w)
                 \/ SpuriousWakeup(w)
          PROVE  faults' = faults
      BY <2>5 DEF WorkerStart, WorkerWait, WorkerExit, WorkerTake, WorkerTakeNone,
           WorkerRun, WorkerFindCtx, WorkerBatchCb, WorkerRemoveCtx, WorkerFinish,
           SpuriousWakeup, ghostVars
    <2>6. ASSUME NEW c \in Callers,
                 \/ NewCall(c) \/ Scan(c) \/ AllocFail(c) \/ Attach(c) \/ FindCtx(c)
                 \/ InsertCtx(c) \/ WakeSet(c) \/ CancelQueue(c)
          PROVE  faults' = faults
      BY <2>6 DEF NewCall, SubmitTask, SubmitBatch, Submit, Wake, Cancel, Scan, AllocFail,
           Attach, FindCtx, InsertCtx, WakeSet, CancelQueue, ghostVars
    <2>7. ASSUME NEW c \in Callers, InsertFail(c) PROVE NoUseAfterFree'
      BY <1>2, <2>7 DEF InsertFail, NoUseAfterFree
    <2>8. ASSUME NEW c \in Callers, ReadId(c) PROVE faults' = faults
      <3>1. OpCare(call[c]) /\ CallCare(call[c]) /\ call[c].pc = "readid"
        BY <1>2, <2>8 DEF ReadId, PoliteInv, CallsCare
      <3>2. FreedOf(call[c].req) = {}
        BY <3>1 DEF OpCare, CallCare
      <3>3. [id |-> call[c].k, req |-> call[c].req] \notin freed
        BY <3>2 DEF FreedOf
      <3> QED BY <2>8, <3>3 DEF ReadId
    <2>9. ASSUME NEW c \in Callers, Deref(c) \/ Stray(c)
          PROVE  Deref(c) /\ faults' = faults
      <3>1. Live(call[c].ctx)
        <4>1. call[c].pc \in {"wderef", "cderef"}
          BY <2>9 DEF Deref, Stray
        <4>2. CASE call[c].pc = "wderef"
          BY <1>2, <4>2, WakeLive
        <4>3. CASE call[c].pc = "cderef"
          BY <1>2, <4>3 DEF PoliteInv, CallsCare, CallCare
        <4> QED BY <4>1, <4>2, <4>3
      <3> QED BY <2>9, <3>1 DEF Deref, Stray, StaleRead
    <2> QED BY <1>2, <2>1, <2>2, <2>3, <2>4, <2>5, <2>6, <2>7, <2>8, <2>9
            DEF Next, WorkerStep, CallStep, NoUseAfterFree
  <1> QED BY <1>1, <1>2, PoliteInvariant, PTL DEF Spec

=============================================================================

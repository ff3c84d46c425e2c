--------------------------- MODULE ThreadPoolProofs ---------------------------
(***************************************************************************)
(* Theorems about ThreadPool, for every number of workers, every set of    *)
(* callers and requests, every bound and every liberty of the callers.     *)
(***************************************************************************)
EXTENDS ThreadPool, FiniteSetTheorems, SequenceTheorems, TLAPS

(***************************************************************************)
(* What the local variables hold at the places where they are used: a call *)
(* in progress has a request, a call past the selection (or past the       *)
(* dereference of its context) has a worker, a worker past the pop has a   *)
(* task.  Queues are finite, so the number of cancelled tasks is a number. *)
(***************************************************************************)
CallOK(s) ==
    /\ s.pc # "idle" => s.req \in Reqs
    /\ s.pc \in {"attach", "find", "add", "insert", "wset", "cremove"}
          => s.best \in Workers

LocalsOK ==
    /\ \A c \in Callers : CallOK(call[c])
    /\ \A w \in Workers : Running(w) => thr[w].task \in Task
    /\ \A w \in Workers : IsFiniteSet(queue[w])

TypeInv == TypeOK /\ LocalsOK

\* The workers are numbered from 0, as the array of thread_pool_init.
LEMMA WorkersFacts == /\ Workers \subseteq Nat /\ 0 \in Workers
                      /\ NoWorker \in Int /\ MaxLoad \in Int
                      /\ \A i \in Workers : i + 1 < NumWorkers => i + 1 \in Workers
  BY PoolSize, BoundsNat DEF Workers, NoWorker, MaxLoad

\* The value of an idle call is well typed.
LEMMA NoCallType == NoCall \in CallType /\ CallOK(NoCall)
  BY WorkersFacts DEF NoCall, CallType, CallOK, CallPc

\* Linking n tasks gives tasks, and keeps a finite queue finite.
LEMMA NewTasksType ==
  ASSUME TypeOK, NEW c \in Callers, call[c].req \in Reqs
  PROVE  NewTasks(call[c]) \subseteq Task /\ IsFiniteSet(NewTasks(call[c]))
PROOF
  <1>1. call[c].n \in Nat /\ next_task_id \in Nat \ {0}
    BY DEF TypeOK, CallType
  <1>2. NewTasks(call[c]) \subseteq Task
    BY <1>1 DEF NewTasks, Task
  <1>3. IsFiniteSet(0 .. call[c].n - 1)
    BY <1>1, FS_Interval
  <1>4. IsFiniteSet(NewTasks(call[c]))
    <2> DEFINE f == [j \in 0 .. call[c].n - 1 |->
                        [id |-> next_task_id + j, req |-> call[c].req]]
    <2>1. f \in Surjection(0 .. call[c].n - 1, NewTasks(call[c]))
      BY DEF Surjection, NewTasks
    <2> QED BY <1>3, <2>1, FS_Surjection
  <1> QED BY <1>2, <1>4

\* Moving a worker thread to another place of its code.
LEMMA ThreadMoves ==
  ASSUME thr \in [Workers -> ThreadType], NEW w \in Workers, NEW pc \in ThreadPc
  PROVE  [thr EXCEPT ![w].pc = pc] \in [Workers -> ThreadType]
  BY DEF ThreadType

\* A step that leaves calls and queues alone, and gives no worker a new task,
\* keeps LocalsOK.
LEMMA LocalsKept ==
  ASSUME LocalsOK, UNCHANGED <<call, queue>>,
         \A v \in Workers : Running(v)' => Running(v) /\ thr'[v].task = thr[v].task
  PROVE  LocalsOK'
  BY DEF LocalsOK

\* A worker thread that only moves on keeps the task in its hands.
LEMMA ThreadMoveTasks ==
  ASSUME thr \in [Workers -> ThreadType], NEW w \in Workers, NEW pc,
         thr' = [thr EXCEPT ![w].pc = pc],
         pc \in {"run", "find", "dec", "cb", "remove", "fin"} => Running(w)
  PROVE  \A v \in Workers : Running(v)' => Running(v) /\ thr'[v].task = thr[v].task
  BY DEF ThreadType, Running

\* Changing the count of a context.
LEMMA ContextCounts ==
  ASSUME ctx \in Seq(Context), NEW i \in 1 .. Len(ctx), NEW k \in Int
  PROVE  LET new == [ctx EXCEPT ![i].pending_count = k]
         IN  new \in Seq(Context) /\ Len(new) = Len(ctx)
PROOF
  <1>1. ctx[i] \in Context
    BY ElementOfSeq
  <1>2. [ctx[i] EXCEPT !.pending_count = k] \in Context
    BY <1>1 DEF Context
  <1> QED BY <1>2, ExceptSeq

\* thread_pool_init and the loop around it start from typed values.
LEMMA InitType == Init => TypeInv
PROOF
  <1> SUFFICES ASSUME Init PROVE TypeOK /\ LocalsOK
    BY DEF TypeInv
  <1>1. NoThread \in ThreadType
    BY DEF NoThread, ThreadPc, ThreadType
  <1>2. /\ state \in [Workers -> WorkerState]
        /\ queue \in [Workers -> SUBSET Task]
        /\ queue_size \in [Workers -> Int]
        /\ pending_req \in [Workers -> Reqs \cup {0}]
        /\ thr \in [Workers -> ThreadType]
    BY <1>1 DEF Init, WorkerState
  <1>3. /\ ctx \in Seq(Context) /\ req_hash \subseteq 1 .. Len(ctx)
        /\ call \in [Callers -> CallType]
        /\ own \in [pc : OwnPc, i : Workers]
    BY WorkersFacts, NoCallType DEF Init, OwnPc
  <1>4. /\ next_task_id \in Nat \ {0}
        /\ notified \in [Reqs -> Nat] /\ fired \in [Reqs -> Nat]
    BY DEF Init
  <1>5. is_running \in BOOLEAN /\ is_destroying \in BOOLEAN
    BY DEF Init
  <1>6. /\ ran \subseteq Task /\ freed \subseteq Task
        /\ faults \subseteq {"stale_read", "stale_write", "stale_task", "stray",
                             "null_write", "bad_join"}
    BY DEF Init
  <1>7. TypeOK
    BY <1>2, <1>3, <1>4, <1>5, <1>6 DEF TypeOK
  <1>8. LocalsOK
    BY NoCallType, FS_EmptySet DEF Init, LocalsOK, Running, NoThread
  <1> QED BY <1>7, <1>8

-----------------------------------------------------------------------------
(* Type correctness of each group of steps.                                *)

\* The steps of the owner, thread_pool_start to thread_pool_destroy, keep the types.
LEMMA OwnerType == TypeInv /\ (OwnerStep \/ BeginDestroy \/ Gone) => TypeInv'
PROOF
  <1> SUFFICES ASSUME TypeInv, OwnerStep \/ BeginDestroy \/ Gone PROVE TypeInv'
    OBVIOUS
  <1> USE WorkersFacts DEF TypeInv
  <1>1. CASE CreateWorker
    <2> USE <1>1 DEF CreateWorker
    <2>1. own' \in [pc : OwnPc, i : Workers]
      BY DEF TypeOK, OwnPc
    <2>2. thr' \in [Workers -> ThreadType]
      BY ThreadMoves DEF TypeOK, ThreadPc
    <2>3. TypeOK'
      BY <2>1, <2>2 DEF TypeOK, tableVars, poolVars, ghostVars
    <2>4. \A w \in Workers : Running(w)' => Running(w) /\ thr'[w] = thr[w]
      BY DEF TypeOK, Running
    <2> QED BY <2>3, <2>4 DEF LocalsOK
  <1>2. CASE CreateFailed
    <2> USE <1>2 DEF CreateFailed
    <2>1. own' \in [pc : OwnPc, i : Workers]
      BY DEF TypeOK, OwnPc
    <2>2. PICK pc \in {"none", "failed"} : thr' = [thr EXCEPT ![own.i].pc = pc]
      OBVIOUS
    <2>3. pc \in ThreadPc /\ own.i \in Workers /\ thr \in [Workers -> ThreadType]
      BY DEF TypeOK, ThreadPc
    <2>4. thr' \in [Workers -> ThreadType]
      BY <2>2, <2>3, ThreadMoves
    <2>5. TypeOK'
      BY <2>1, <2>4 DEF TypeOK, tableVars, poolVars, ghostVars
    <2>6. \A w \in Workers : Running(w)' => Running(w) /\ thr'[w] = thr[w]
      BY DEF TypeOK, Running
    <2> QED BY <2>5, <2>6 DEF LocalsOK
  <1>3. CASE AwaitWorker
    BY <1>3 DEF AwaitWorker, TypeOK, LocalsOK, OwnPc, Running,
                workerVars, tableVars, poolVars, ghostVars
  <1>4. CASE Start
    BY <1>4 DEF Start, TypeOK, LocalsOK, OwnPc, Running,
                workerVars, tableVars, poolVars, ghostVars
  <1>5. CASE ShutdownSignal
    <2> USE <1>5 DEF ShutdownSignal, Signal
    <2>1. own' \in [pc : OwnPc, i : Workers]
      BY DEF TypeOK, OwnPc, NextOf
    <2>2. thr' \in [Workers -> ThreadType]
      BY ThreadMoves DEF TypeOK, ThreadPc
    <2>3. TypeOK'
      BY <2>1, <2>2 DEF TypeOK, tableVars, poolVars, ghostVars
    <2>4. \A w \in Workers : Running(w)' => Running(w) /\ thr'[w] = thr[w]
      BY DEF TypeOK, Running
    <2> QED BY <2>3, <2>4 DEF LocalsOK
  <1>6. CASE Join
    BY <1>6 DEF Join, NextOf, TypeOK, LocalsOK, OwnPc, Running,
                workerVars, tableVars, poolVars, ghostVars
  <1>7. CASE FreePool
    <2>1. freed' \subseteq Task
      BY <1>7 DEF FreePool, TypeOK
    <2>2. queue' \in [Workers -> SUBSET Task] /\ queue_size' \in [Workers -> Int]
      BY <1>7 DEF FreePool
    <2>3. own' \in [pc : OwnPc, i : Workers]
      BY <1>7 DEF FreePool, TypeOK, OwnPc
    <2>4. req_hash' \subseteq 1 .. Len(ctx')
      BY <1>7 DEF FreePool
    <2>5. UNCHANGED <<state, pending_req, thr, ctx, poolVars, call, ran, notified,
                      fired, faults>>
      BY <1>7 DEF FreePool
    <2>6. TypeOK'
      BY <2>1, <2>2, <2>3, <2>4, <2>5 DEF TypeOK, poolVars
    <2>7. LocalsOK'
      BY <1>7, FS_EmptySet DEF FreePool, LocalsOK, Running
    <2> QED BY <2>6, <2>7
  <1>8. CASE BeginDestroy
    BY <1>8 DEF BeginDestroy, TypeOK, LocalsOK, OwnPc, Running,
                workerVars, tableVars, poolVars, ghostVars
  <1>9. CASE Gone
    BY <1>9 DEF Gone, vars, TypeOK, LocalsOK, Running,
                workerVars, tableVars, poolVars, ghostVars
  <1> QED BY <1>1, <1>2, <1>3, <1>4, <1>5, <1>6, <1>7, <1>8, <1>9 DEF OwnerStep

\* The context a lookup returns is a pointer: 0 or an index of ctx.
LEMMA LookupType ==
  ASSUME TypeOK, NEW r
  PROVE  Lookup(r) \subseteq Nat /\ Newest(r) \subseteq req_hash
PROOF
  <1>1. Newest(r) \subseteq req_hash
    BY DEF Newest
  <1>2. req_hash \subseteq Nat
    BY LenProperties DEF TypeOK
  <1>3. Lookup(r) = {0} \/ Lookup(r) = Newest(r)
    BY DEF Lookup
  <1>4. {0} \subseteq Nat
    OBVIOUS
  <1>5. Lookup(r) \subseteq Nat
    BY <1>1, <1>2, <1>3, <1>4, Zenon
  <1> QED BY <1>1, <1>5

\* Every step of worker_thread keeps the types.
LEMMA WorkerType ==
  ASSUME TypeInv, NEW w \in Workers, WorkerStep(w) \/ SpuriousWakeup(w)
  PROVE  TypeInv'
PROOF
  <1> USE WorkersFacts DEF TypeInv
  <1>0. /\ thr \in [Workers -> ThreadType]
        /\ \A pc \in ThreadPc : [thr EXCEPT ![w].pc = pc] \in [Workers -> ThreadType]
    BY ThreadMoves DEF TypeOK
  <1>1. CASE WorkerStart(w)
    <2>1. thr' \in [Workers -> ThreadType] /\ state' \in [Workers -> WorkerState]
      BY <1>0, <1>1 DEF WorkerStart, ThreadPc, WorkerState, TypeOK
    <2>2. TypeOK'
      BY <1>1, <2>1 DEF WorkerStart, TypeOK, tableVars, poolVars, ghostVars
    <2>3. LocalsOK'
      BY <1>0, <1>1, ThreadMoveTasks, LocalsKept DEF WorkerStart, Running
    <2> QED BY <2>2, <2>3
  <1>2. CASE WorkerWait(w)
    <2>1. thr' \in [Workers -> ThreadType]
      BY <1>0, <1>2 DEF WorkerWait, ThreadPc
    <2>2. TypeOK'
      BY <1>2, <2>1 DEF WorkerWait, TypeOK, tableVars, poolVars, ghostVars
    <2>3. LocalsOK'
      BY <1>0, <1>2, ThreadMoveTasks, LocalsKept DEF WorkerWait, Running
    <2> QED BY <2>2, <2>3
  <1>3. CASE SpuriousWakeup(w)
    <2>1. thr' \in [Workers -> ThreadType]
      BY <1>0, <1>3 DEF SpuriousWakeup, ThreadPc
    <2>2. TypeOK'
      BY <1>3, <2>1 DEF SpuriousWakeup, TypeOK, tableVars, poolVars, ghostVars
    <2>3. LocalsOK'
      BY <1>0, <1>3, ThreadMoveTasks, LocalsKept DEF SpuriousWakeup, Running
    <2> QED BY <2>2, <2>3
  <1>4. CASE WorkerExit(w)
    <2>1. thr' \in [Workers -> ThreadType] /\ state' \in [Workers -> WorkerState]
      BY <1>0, <1>4 DEF WorkerExit, ThreadPc, WorkerState, TypeOK
    <2>2. TypeOK'
      BY <1>4, <2>1 DEF WorkerExit, TypeOK, tableVars, poolVars, ghostVars
    <2>3. LocalsOK'
      BY <1>0, <1>4, ThreadMoveTasks, LocalsKept DEF WorkerExit, Running
    <2> QED BY <2>2, <2>3
  <1>5. CASE WorkerTake(w)
    <2>1. PICK t \in queue[w] :
             /\ queue' = [queue EXCEPT ![w] = @ \ {t}]
             /\ thr' = [thr EXCEPT ![w] = [pc |-> "run", task |-> t, ctx |-> 0]]
      BY <1>5 DEF WorkerTake, Unlink
    <2>2. t \in Task
      BY DEF TypeOK
    <2>3. [pc |-> "run", task |-> t, ctx |-> 0] \in ThreadType
      BY <2>2 DEF ThreadType, ThreadPc
    <2>4. thr' \in [Workers -> ThreadType]
      BY <1>0, <2>1, <2>3
    <2>5. /\ queue' \in [Workers -> SUBSET Task]
          /\ state' \in [Workers -> WorkerState]
          /\ pending_req' \in [Workers -> Reqs \cup {0}]
          /\ queue_size' \in [Workers -> Int]
      BY <1>5, <2>1 DEF WorkerTake, Consumed, WorkerState, TypeOK
    <2>6. UNCHANGED <<tableVars, poolVars, call, own, ghostVars>>
      BY <1>5 DEF WorkerTake
    <2>7. TypeOK'
      BY <2>4, <2>5, <2>6 DEF TypeOK, tableVars, poolVars, ghostVars
    <2>8. \A v \in Workers : IsFiniteSet(queue[v])'
      BY <2>1, FS_Subset DEF LocalsOK, TypeOK
    <2> QED BY <1>0, <2>1, <2>2, <2>6, <2>7, <2>8 DEF LocalsOK, Running
  <1>6. CASE WorkerTakeNone(w)
    <2>1. /\ thr' \in [Workers -> ThreadType]
          /\ pending_req' \in [Workers -> Reqs \cup {0}]
      BY <1>0, <1>6 DEF WorkerTakeNone, Consumed, ThreadPc, TypeOK
    <2>2. TypeOK'
      BY <1>6, <2>1 DEF WorkerTakeNone, TypeOK, tableVars, poolVars, ghostVars
    <2>3. LocalsOK'
      BY <1>0, <1>6, ThreadMoveTasks, LocalsKept DEF WorkerTakeNone, Running
    <2> QED BY <2>2, <2>3
  <1>7. CASE WorkerRun(w)
    <2>1. thr' \in [Workers -> ThreadType]
      BY <1>0, <1>7 DEF WorkerRun, ThreadPc
    <2>2. ran' \subseteq Task
      BY <1>7 DEF WorkerRun, TypeOK, LocalsOK, Running
    <2>3. UNCHANGED <<state, queue, queue_size, pending_req, tableVars, poolVars,
                      call, own, freed, notified, fired, faults>>
      BY <1>7 DEF WorkerRun
    <2>4. TypeOK'
      BY <2>1, <2>2, <2>3 DEF TypeOK, tableVars, poolVars
    <2>5. LocalsOK'
      BY <1>0, <1>7, ThreadMoveTasks, LocalsKept DEF WorkerRun, Running
    <2> QED BY <2>4, <2>5
  <1>8. CASE WorkerFindCtx(w)
    <2>1. PICK i \in Lookup(thr[w].task.req) :
             thr' = [thr EXCEPT ![w].pc = IF i = 0 THEN "fin" ELSE "dec",
                                ![w].ctx = i]
      BY <1>8 DEF WorkerFindCtx
    <2>2. i \in Nat
      BY LookupType
    <2>3. thr' \in [Workers -> ThreadType]
      <3>1. thr[w] \in ThreadType
        BY <1>0
      <3>2. [thr[w] EXCEPT !.pc = IF i = 0 THEN "fin" ELSE "dec", !.ctx = i]
               \in ThreadType
        BY <2>2, <3>1 DEF ThreadType, ThreadPc
      <3> QED BY ONLY <1>0, <2>1, <3>2
    <2>4. TypeOK'
      BY <1>8, <2>3 DEF WorkerFindCtx, TypeOK, tableVars, poolVars, ghostVars
    <2> QED BY <1>0, <1>8, <2>1, <2>4 DEF WorkerFindCtx, LocalsOK, Running, ThreadType
  <1>9. CASE WorkerDec(w)
    <2>1. PICK pc \in {"cb", "fin"} : thr' = [thr EXCEPT ![w].pc = pc]
      BY <1>9 DEF WorkerDec
    <2>2. thr' \in [Workers -> ThreadType]
      BY <1>0, <2>1 DEF ThreadPc
    <2>3. ctx' \in Seq(Context) /\ Len(ctx') = Len(ctx)
      <3>1. CASE Live(thr[w].ctx)
        <4>1. thr[w].ctx \in 1 .. Len(ctx) /\ ctx \in Seq(Context)
          BY <3>1 DEF Live, TypeOK
        <4>2. ctx[thr[w].ctx] \in Context
          BY <4>1, ElementOfSeq
        <4>3. ctx[thr[w].ctx].pending_count - 1 \in Int
          BY <4>2 DEF Context
        <4>4. ctx' = [ctx EXCEPT ![thr[w].ctx].pending_count =
                                    ctx[thr[w].ctx].pending_count - 1]
          BY <1>9, <3>1, <4>1 DEF WorkerDec
        <4> QED BY ONLY <4>1, <4>3, <4>4, ContextCounts
      <3> QED BY <1>9, <3>1 DEF WorkerDec, TypeOK
    <2>4. faults' \subseteq faults \cup {"stale_write"}
      BY <1>9 DEF WorkerDec
    <2>5. UNCHANGED <<state, queue, queue_size, pending_req, req_hash, poolVars,
                      call, own, ran, freed, notified, fired>>
      BY <1>9 DEF WorkerDec
    <2>6. TypeOK'
      BY <2>2, <2>3, <2>4, <2>5 DEF TypeOK, poolVars
    <2>7. Running(w)
      BY <1>9 DEF WorkerDec, Running
    <2> QED BY <1>0, <2>1, <2>5, <2>6, <2>7 DEF LocalsOK, Running, ThreadType
  <1>10. CASE WorkerBatchCb(w)
    <2>1. thr' \in [Workers -> ThreadType]
      BY <1>0, <1>10 DEF WorkerBatchCb, ThreadPc
    <2>2. thr[w].task.req \in Reqs
      BY <1>10 DEF WorkerBatchCb, LocalsOK, Running, Task
    <2>3. fired' \in [Reqs -> Nat]
      <3>1. fired \in [Reqs -> Nat]
        BY DEF TypeOK
      <3>2. fired' = fired \/ fired' = [fired EXCEPT ![thr[w].task.req] = @ + 1]
        BY <1>10 DEF WorkerBatchCb
      <3> QED BY ONLY <2>2, <3>1, <3>2
    <2>4. UNCHANGED <<state, queue, queue_size, pending_req, tableVars, poolVars,
                      call, own, ran, freed, notified, faults>>
      BY <1>10 DEF WorkerBatchCb
    <2>5. TypeOK'
      BY <2>1, <2>3, <2>4 DEF TypeOK, tableVars, poolVars
    <2>6. LocalsOK'
      BY <1>0, <1>10, ThreadMoveTasks, LocalsKept DEF WorkerBatchCb, Running
    <2> QED BY <2>5, <2>6
  <1>11. CASE WorkerRemoveCtx(w)
    <2>1. thr' \in [Workers -> ThreadType]
      BY <1>0, <1>11 DEF WorkerRemoveCtx, ThreadPc
    <2>2. TypeOK'
      BY <1>11, <2>1 DEF WorkerRemoveCtx, TypeOK, poolVars, ghostVars
    <2>3. LocalsOK'
      BY <1>0, <1>11, ThreadMoveTasks, LocalsKept DEF WorkerRemoveCtx, Running
    <2> QED BY <2>2, <2>3
  <1>12. CASE WorkerFinish(w)
    <2>1. [NoThread EXCEPT !.pc = "loop"] \in ThreadType
      BY DEF NoThread, ThreadType, ThreadPc
    <2>2. thr' \in [Workers -> ThreadType] /\ state' \in [Workers -> WorkerState]
      BY <1>0, <1>12, <2>1 DEF WorkerFinish, Idled, WorkerState, TypeOK
    <2>3. freed' \subseteq Task
      BY <1>12 DEF WorkerFinish, TypeOK, LocalsOK, Running
    <2>4. TypeOK'
      BY <1>12, <2>2, <2>3 DEF WorkerFinish, TypeOK, tableVars, poolVars
    <2> QED BY <1>0, <1>12, <2>4 DEF WorkerFinish, NoThread, LocalsOK, Running
  <1> QED BY <1>1, <1>2, <1>3, <1>4, <1>5, <1>6, <1>7, <1>8, <1>9, <1>10, <1>11,
             <1>12 DEF WorkerStep

\* A caller moves on in its call.
LEMMA CallMoves ==
  ASSUME TypeInv, NEW c \in Callers, NEW s \in CallType, CallOK(s),
         call' = [call EXCEPT ![c] = s]
  PROVE  call' \in [Callers -> CallType] /\ \A d \in Callers : CallOK(call'[d])
PROOF
  <1>1. call \in [Callers -> CallType] /\ \A d \in Callers : CallOK(call[d])
    BY DEF TypeInv, TypeOK, LocalsOK
  <1>2. \A d \in Callers : call'[d] = IF d = c THEN s ELSE call[d]
    BY <1>1
  <1>3. \A d \in Callers : CallOK(call'[d])
    BY <1>1, <1>2, Zenon
  <1> QED BY <1>1, <1>3

\* A call that begins (its checks, and what it does under its first lock) keeps the
\* types.
LEMMA NewCallType ==
  ASSUME TypeInv, NEW c \in Callers, NewCall(c)
  PROVE  TypeInv'
PROOF
  <1>1. \E s \in CallType : CallOK(s) /\ call' = [call EXCEPT ![c] = s]
    <2>1. CASE SubmitTask(c)
      <3>1. PICK r \in Reqs : Submit(c, "task", r, 1, FALSE)
        BY <2>1 DEF SubmitTask
      <3> DEFINE s == [NoCall EXCEPT !.pc = "scan", !.op = "task", !.req = r,
                                     !.n = 1, !.cb = FALSE]
      <3>2. s \in CallType /\ CallOK(s)
        BY ReqIds, WorkersFacts DEF NoCall, CallType, CallPc, CallOK
      <3> QED BY <3>1, <3>2 DEF Submit
    <2>2. CASE SubmitBatch(c)
      <3>1. PICK r \in Reqs, n \in 1 .. MaxBatch, cb \in BOOLEAN :
                Submit(c, "batch", r, n, cb)
        BY <2>2 DEF SubmitBatch
      <3> DEFINE s == [NoCall EXCEPT !.pc = "scan", !.op = "batch", !.req = r,
                                     !.n = n, !.cb = cb]
      <3>2. n \in Nat
        BY BoundsNat
      <3>3. s \in CallType /\ CallOK(s)
        BY <3>2, ReqIds, WorkersFacts DEF NoCall, CallType, CallPc, CallOK
      <3> QED BY <3>1, <3>3 DEF Submit
    <2>3. ASSUME NEW r \in Reqs, Wake(c, r) \/ Cancel(c, r)
          PROVE  \E s \in CallType : CallOK(s) /\ call' = [call EXCEPT ![c] = s]
      <3>1. PICK i \in Lookup(r), pc \in {"wderef", "cderef"},
                 op \in {"wake", "cancel"} :
               call' = [call EXCEPT ![c] =
                          IF i = 0 THEN NoCall
                          ELSE [NoCall EXCEPT !.pc = pc, !.op = op,
                                              !.req = r, !.ctx = i]]
        BY <2>3 DEF Wake, Cancel
      <3>2. i \in Nat
        BY LookupType DEF TypeInv
      <3> DEFINE s == [NoCall EXCEPT !.pc = pc, !.op = op, !.req = r, !.ctx = i]
      <3>3. s \in CallType /\ CallOK(s)
        BY <3>2, ReqIds, WorkersFacts DEF NoCall, CallType, CallPc, CallOK
      <3> QED BY <3>1, <3>3, NoCallType
    <2> QED BY <2>1, <2>2, <2>3 DEF NewCall
  <1>2. call' \in [Callers -> CallType] /\ \A d \in Callers : CallOK(call'[d])
    BY <1>1, CallMoves
  <1>3. UNCHANGED <<workerVars, tableVars, poolVars, own, ghostVars>>
    BY DEF NewCall, SubmitTask, SubmitBatch, Submit, Wake, Cancel
  <1>4. TypeOK'
    BY <1>2, <1>3 DEF TypeInv, TypeOK, workerVars, tableVars, poolVars, ghostVars
  <1>5. LocalsOK'
    BY <1>2, <1>3 DEF TypeInv, LocalsOK, Running, workerVars
  <1> QED BY <1>4, <1>5 DEF TypeInv

\* The locals after a round of select_best_worker.
LEMMA ScannedType ==
  ASSUME TypeInv, NEW c \in Callers, call[c].pc = "scan"
  PROVE  Scanned(call[c]) \in CallType /\ CallOK(Scanned(call[c]))
PROOF
  <1> DEFINE s == call[c]
             b == Considered(s)
  <1>1. s \in CallType /\ s.req \in Reqs /\ s.i \in Workers
    BY DEF TypeInv, TypeOK, LocalsOK, CallOK, CallType
  <1>2. queue_size[s.i] \in Int
    BY <1>1 DEF TypeInv, TypeOK
  <1>3. b \in CallType /\ b.req \in Reqs /\ b.pc = "scan"
    BY <1>1, <1>2 DEF Considered, CallType
  <1>4. CASE Vacant(s.i)
    <2>1. Scanned(s) = [s EXCEPT !.pc = "attach", !.best = s.i]
      BY <1>4 DEF Scanned
    <2> QED BY <1>1, <2>1 DEF CallType, CallPc, CallOK
  <1>5. CASE ~Vacant(s.i) /\ s.i + 1 < NumWorkers
    <2>1. Scanned(s) = [b EXCEPT !.i = s.i + 1]
      BY <1>5 DEF Scanned
    <2>2. s.i + 1 \in Workers
      BY <1>1, <1>5, WorkersFacts
    <2> QED BY <1>3, <2>1, <2>2 DEF CallType, CallPc, CallOK
  <1>6. CASE ~Vacant(s.i) /\ ~(s.i + 1 < NumWorkers) /\ b.best # NoWorker
    <2>1. Scanned(s) = [b EXCEPT !.pc = "attach"]
      BY <1>6 DEF Scanned
    <2>2. b.best \in Workers
      BY <1>3, <1>6 DEF CallType
    <2> QED BY <1>3, <2>1, <2>2 DEF CallType, CallPc, CallOK
  <1>7. CASE ~Vacant(s.i) /\ ~(s.i + 1 < NumWorkers) /\ b.best = NoWorker
    BY <1>7, NoCallType DEF Scanned
  <1> QED BY <1>4, <1>5, <1>6, <1>7

\* After its record in the table, a submit goes on with a typed value or is over.
LEMMA RecordedType ==
  ASSUME NEW s \in CallType, CallOK(s), s.pc # "idle"
  PROVE  Recorded(s) \in CallType /\ CallOK(Recorded(s))
PROOF
  <1>1. [s EXCEPT !.pc = "readid"] \in CallType /\ CallOK([s EXCEPT !.pc = "readid"])
    BY DEF CallType, CallPc, CallOK
  <1> QED BY <1>1, NoCallType DEF Recorded

\* The later steps of a submit call keep the types.
LEMMA SubmitStepType ==
  ASSUME TypeInv, NEW c \in Callers,
         \/ Scan(c) \/ AllocFail(c) \/ Attach(c) \/ FindCtx(c) \/ AddCtx(c)
         \/ InsertCtx(c) \/ InsertFail(c) \/ ReadId(c) \/ Stray(c)
  PROVE  TypeInv'
PROOF
  <1> DEFINE s == call[c]
  <1>0. /\ s \in CallType /\ CallOK(s)
        /\ \A t \in CallType : CallOK(t) /\ call' = [call EXCEPT ![c] = t] =>
              call' \in [Callers -> CallType] /\ \A d \in Callers : CallOK(call'[d])
    BY CallMoves DEF TypeInv, TypeOK, LocalsOK
  <1>1. CASE Scan(c)
    <2>1. call' \in [Callers -> CallType] /\ \A d \in Callers : CallOK(call'[d])
      BY <1>0, <1>1, ScannedType DEF Scan
    <2>2. UNCHANGED <<workerVars, tableVars, poolVars, own, ghostVars>>
      BY <1>1 DEF Scan
    <2>3. TypeOK'
      BY <2>1, <2>2 DEF TypeInv, TypeOK, workerVars, tableVars, poolVars, ghostVars
    <2> QED BY <2>1, <2>2, <2>3 DEF TypeInv, LocalsOK, Running, workerVars
  <1>2. CASE AllocFail(c)
    <2>1. call' \in [Callers -> CallType] /\ \A d \in Callers : CallOK(call'[d])
      BY <1>0, <1>2, NoCallType DEF AllocFail
    <2>2. UNCHANGED <<workerVars, tableVars, poolVars, own, ghostVars>>
      BY <1>2 DEF AllocFail
    <2>3. TypeOK'
      BY <2>1, <2>2 DEF TypeInv, TypeOK, workerVars, tableVars, poolVars, ghostVars
    <2> QED BY <2>1, <2>2, <2>3 DEF TypeInv, LocalsOK, Running, workerVars
  <1>3. CASE Attach(c)
    <2>1. /\ s.best \in Workers /\ s.req \in Reqs /\ s.n \in Nat
          /\ next_task_id \in Nat \ {0}
      BY <1>0, <1>3 DEF Attach, CallOK, CallType, TypeInv, TypeOK
    <2>2. NewTasks(s) \subseteq Task /\ IsFiniteSet(NewTasks(s))
      BY <2>1, NewTasksType DEF TypeInv
    <2>3. /\ queue' = [queue EXCEPT ![s.best] = @ \cup NewTasks(s)]
          /\ queue' \in [Workers -> SUBSET Task]
      BY <1>3, <2>1, <2>2 DEF Attach, Linked, TypeInv, TypeOK
    <2>4. queue_size' \in [Workers -> Int] /\ next_task_id' \in Nat \ {0}
      BY <1>3, <2>1 DEF Attach, NextId, TypeInv, TypeOK
    <2> DEFINE t == [s EXCEPT !.pc = "find", !.k = next_task_id]
    <2>5. t \in CallType /\ CallOK(t)
      BY <1>0, <2>1 DEF CallType, CallPc, CallOK
    <2>6. call' = [call EXCEPT ![c] = t]
      BY <1>3 DEF Attach
    <2>7. call' \in [Callers -> CallType] /\ \A d \in Callers : CallOK(call'[d])
      BY <1>0, <2>5, <2>6
    <2>8. UNCHANGED <<state, pending_req, thr, tableVars, is_running,
                      is_destroying, own, ghostVars>>
      BY <1>3 DEF Attach
    <2>9. TypeOK'
      BY <2>3, <2>4, <2>7, <2>8 DEF TypeInv, TypeOK, tableVars, ghostVars
    <2>10. \A w \in Workers : IsFiniteSet(queue'[w])
      BY <2>1, <2>2, <2>3, FS_Union DEF TypeInv, TypeOK, LocalsOK
    <2> QED BY <2>7, <2>8, <2>9, <2>10 DEF TypeInv, LocalsOK, Running
  <1>4. CASE FindCtx(c)
    <2>1. PICK i \in Lookup(s.req) :
            call' = [call EXCEPT ![c].pc = IF i = 0 THEN "insert" ELSE "add",
                                 ![c].ctx = i]
      BY <1>4 DEF FindCtx
    <2> DEFINE t == [s EXCEPT !.pc = IF i = 0 THEN "insert" ELSE "add", !.ctx = i]
    <2>2. i \in Nat
      BY LookupType DEF TypeInv
    <2>3. t \in CallType /\ CallOK(t)
      BY <1>0, <1>4, <2>2 DEF FindCtx, CallType, CallPc, CallOK
    <2>4. call' \in [Callers -> CallType] /\ \A d \in Callers : CallOK(call'[d])
      BY <1>0, <2>1, <2>3
    <2>5. UNCHANGED <<workerVars, tableVars, poolVars, own, ghostVars>>
      BY <1>4 DEF FindCtx
    <2>6. TypeOK'
      BY <2>4, <2>5 DEF TypeInv, TypeOK, workerVars, tableVars, poolVars, ghostVars
    <2> QED BY <2>4, <2>5, <2>6 DEF TypeInv, LocalsOK, Running, workerVars
  <1>5. CASE AddCtx(c)
    <2>1. call' \in [Callers -> CallType] /\ \A d \in Callers : CallOK(call'[d])
      BY <1>0, <1>5, RecordedType DEF AddCtx
    <2>2. ctx' \in Seq(Context) /\ Len(ctx') = Len(ctx)
      <3>1. CASE Live(s.ctx)
        <4>1. s.ctx \in 1 .. Len(ctx) /\ ctx \in Seq(Context)
          BY <3>1 DEF Live, TypeInv, TypeOK
        <4>2. ctx[s.ctx] \in Context
          BY <4>1, ElementOfSeq
        <4>3. ctx[s.ctx].pending_count + s.n \in Int
          BY <1>0, <4>2 DEF Context, CallType
        <4>4. ctx' = [ctx EXCEPT ![s.ctx].pending_count =
                                    ctx[s.ctx].pending_count + s.n]
          BY <1>5, <3>1, <4>1 DEF AddCtx
        <4> QED BY ONLY <4>1, <4>3, <4>4, ContextCounts
      <3> QED BY <1>5, <3>1 DEF AddCtx, TypeInv, TypeOK
    <2>3. faults' \subseteq faults \cup {"stale_write"}
      BY <1>5 DEF AddCtx
    <2>4. UNCHANGED <<workerVars, req_hash, poolVars, own, ran, freed, notified,
                      fired>>
      BY <1>5 DEF AddCtx
    <2>5. TypeOK'
      BY <2>1, <2>2, <2>3, <2>4 DEF TypeInv, TypeOK, workerVars, poolVars
    <2> QED BY <2>1, <2>4, <2>5 DEF TypeInv, LocalsOK, Running, workerVars
  <1>6. CASE InsertCtx(c)
    <2>1. call' \in [Callers -> CallType] /\ \A d \in Callers : CallOK(call'[d])
      BY <1>0, <1>6, RecordedType DEF InsertCtx
    <2>2. NewContext(s) \in Context
      BY <1>0, <1>6 DEF InsertCtx, NewContext, Context, CallOK, CallType
    <2>3. ctx' \in Seq(Context) /\ Len(ctx') = Len(ctx) + 1 /\ Len(ctx) \in Nat
      BY <1>6, <2>2, AppendProperties, LenProperties DEF InsertCtx, TypeInv, TypeOK
    <2>4. req_hash' \subseteq 1 .. Len(ctx')
      <3>1. req_hash \subseteq 1 .. Len(ctx)
        BY DEF TypeInv, TypeOK
      <3>2. req_hash' = req_hash \cup {Len(ctx) + 1}
        BY <1>6 DEF InsertCtx
      <3>3. 1 .. Len(ctx) \subseteq 1 .. Len(ctx') /\ Len(ctx) + 1 \in 1 .. Len(ctx')
        BY <2>3
      <3> QED BY <3>1, <3>2, <3>3
    <2>5. UNCHANGED <<workerVars, poolVars, own, ghostVars>>
      BY <1>6 DEF InsertCtx
    <2>6. TypeOK'
      BY <2>1, <2>3, <2>4, <2>5 DEF TypeInv, TypeOK, workerVars, poolVars, ghostVars
    <2> QED BY <2>1, <2>5, <2>6 DEF TypeInv, LocalsOK, Running, workerVars
  <1>7. CASE InsertFail(c) \/ ReadId(c) \/ Stray(c)
    <2>1. call' \in [Callers -> CallType] /\ \A d \in Callers : CallOK(call'[d])
      BY <1>0, <1>7, NoCallType DEF InsertFail, ReadId, Stray
    <2>2. faults' \subseteq faults \cup {"null_write", "stale_task", "stale_read", "stray"}
      BY <1>7 DEF InsertFail, ReadId, Stray
    <2>3. UNCHANGED <<workerVars, tableVars, poolVars, own, ran, freed, notified,
                      fired>>
      BY <1>7 DEF InsertFail, ReadId, Stray
    <2>4. TypeOK'
      BY <2>1, <2>2, <2>3 DEF TypeInv, TypeOK, workerVars, tableVars, poolVars
    <2> QED BY <2>1, <2>3, <2>4 DEF TypeInv, LocalsOK, Running, workerVars
  <1> QED BY <1>1, <1>2, <1>3, <1>4, <1>5, <1>6, <1>7

\* The later steps of thread_pool_notify and thread_pool_cancel_task_queue keep the
\* types.
LEMMA WakeCancelType ==
  ASSUME TypeInv, NEW c \in Callers,
         Deref(c) \/ WakeSet(c) \/ CancelQueue(c) \/ CancelCtx(c)
  PROVE  TypeInv'
PROOF
  <1> DEFINE s == call[c]
  <1>0. /\ s \in CallType /\ CallOK(s)
        /\ \A t \in CallType : CallOK(t) /\ call' = [call EXCEPT ![c] = t] =>
              call' \in [Callers -> CallType] /\ \A d \in Callers : CallOK(call'[d])
    BY CallMoves DEF TypeInv, TypeOK, LocalsOK
  <1>1. CASE Deref(c)
    <2>1. PICK w \in BoundTo(s.ctx) :
            call' = [call EXCEPT ![c].best = w,
                       ![c].pc = IF s.pc = "wderef" THEN "wset" ELSE "cremove"]
      BY <1>1 DEF Deref
    <2>2. w \in Workers
      <3>1. CASE Live(s.ctx)
        <4>1. s.ctx \in 1 .. Len(ctx) /\ ctx \in Seq(Context)
          BY <3>1 DEF Live, TypeInv, TypeOK
        <4>2. ctx[s.ctx] \in Context
          BY <4>1, ElementOfSeq
        <4> QED BY <3>1, <4>2 DEF BoundTo, Context
      <3> QED BY <3>1 DEF BoundTo
    <2> DEFINE t == [s EXCEPT !.best = w,
                       !.pc = IF s.pc = "wderef" THEN "wset" ELSE "cremove"]
    <2>3. t \in CallType /\ CallOK(t)
      BY <1>0, <1>1, <2>2 DEF Deref, CallType, CallPc, CallOK
    <2>4. call' \in [Callers -> CallType] /\ \A d \in Callers : CallOK(call'[d])
      BY <1>0, <2>1, <2>3
    <2>5. faults' \subseteq faults \cup {"stale_read"}
      BY <1>1 DEF Deref, StaleRead
    <2>6. UNCHANGED <<workerVars, tableVars, poolVars, own, ran, freed, notified,
                      fired>>
      BY <1>1 DEF Deref
    <2>7. TypeOK'
      BY <2>4, <2>5, <2>6 DEF TypeInv, TypeOK, workerVars, tableVars, poolVars
    <2> QED BY <2>4, <2>6, <2>7 DEF TypeInv, LocalsOK, Running, workerVars
  <1>2. CASE WakeSet(c)
    <2>1. s.best \in Workers /\ s.req \in Reqs
      BY <1>0, <1>2 DEF WakeSet, CallOK
    <2>2. call' \in [Callers -> CallType] /\ \A d \in Callers : CallOK(call'[d])
      BY <1>0, <1>2, NoCallType DEF WakeSet
    <2>3. pending_req' \in [Workers -> Reqs \cup {0}] /\ notified' \in [Reqs -> Nat]
      BY <1>2, <2>1 DEF WakeSet, TypeInv, TypeOK
    <2>4. thr \in [Workers -> ThreadType]
      BY DEF TypeInv, TypeOK
    <2>5. thr' = thr \/ thr' = [thr EXCEPT ![s.best].pc = "woken"]
      BY <1>2 DEF WakeSet, Signal
    <2>6. thr' \in [Workers -> ThreadType]
      <3>1. "woken" \in ThreadPc
        BY DEF ThreadPc
      <3> QED BY <2>1, <2>4, <2>5, <3>1, ThreadMoves
    <2>7. UNCHANGED <<state, queue, queue_size, tableVars, poolVars, own, ran,
                      freed, fired, faults>>
      BY <1>2 DEF WakeSet
    <2>8. TypeOK'
      BY <2>2, <2>3, <2>6, <2>7 DEF TypeInv, TypeOK, tableVars, poolVars
    <2>9. \A v \in Workers : Running(v)' => Running(v) /\ thr'[v].task = thr[v].task
      BY <2>1, <2>4, <2>5 DEF Running, ThreadType
    <2> QED BY <2>2, <2>7, <2>8, <2>9 DEF TypeInv, LocalsOK
  <1>3. CASE CancelQueue(c)
    <2> DEFINE gone == OfReq(s.best, s.req)
    <2>1. s.best \in Workers /\ s.req \in Reqs
      BY <1>0, <1>3 DEF CancelQueue, CallOK
    <2>2. gone \subseteq queue[s.best] /\ gone \subseteq Task
      BY <2>1 DEF OfReq, TypeInv, TypeOK
    <2>3. Cardinality(gone) \in Nat
      BY <2>1, <2>2, FS_Subset, FS_CardinalityType DEF TypeInv, LocalsOK
    <2>4. /\ queue' = [queue EXCEPT ![s.best] = @ \ gone]
          /\ queue' \in [Workers -> SUBSET Task]
      BY <1>3, <2>1 DEF CancelQueue, TypeInv, TypeOK
    <2>5. queue_size' \in [Workers -> Int]
      BY <1>3, <2>1, <2>3 DEF CancelQueue, SizeAfterCancel, TypeInv, TypeOK
    <2>6. freed' \subseteq Task
      BY <1>3, <2>2 DEF CancelQueue, TypeInv, TypeOK
    <2>7. Removed(s, Cardinality(gone)) \in CallType /\ CallOK(Removed(s, Cardinality(gone)))
      <3>1. [s EXCEPT !.pc = "cupdate", !.k = Cardinality(gone)] \in CallType
        BY <1>0, <2>3 DEF CallType, CallPc
      <3>2. CallOK([s EXCEPT !.pc = "cupdate", !.k = Cardinality(gone)])
        BY <1>0, <2>1 DEF CallType, CallOK
      <3> QED BY <3>1, <3>2, NoCallType DEF Removed
    <2>8. call' \in [Callers -> CallType] /\ \A d \in Callers : CallOK(call'[d])
      BY <1>0, <1>3, <2>7 DEF CancelQueue
    <2>9. UNCHANGED <<state, pending_req, thr, tableVars, poolVars, own, ran,
                      notified, fired, faults>>
      BY <1>3 DEF CancelQueue
    <2>10. TypeOK'
      BY <2>4, <2>5, <2>6, <2>8, <2>9 DEF TypeInv, TypeOK, tableVars, poolVars
    <2>11. \A w \in Workers : IsFiniteSet(queue'[w])
      BY <2>1, <2>4, FS_Subset DEF TypeInv, TypeOK, LocalsOK
    <2> QED BY <2>8, <2>9, <2>10, <2>11 DEF TypeInv, LocalsOK, Running
  <1>4. CASE CancelCtx(c)
    <2>1. call' \in [Callers -> CallType] /\ \A d \in Callers : CallOK(call'[d])
      BY <1>0, <1>4, NoCallType DEF CancelCtx
    <2>2. ctx' \in Seq(Context) /\ Len(ctx') = Len(ctx)
      <3>1. CASE Live(s.ctx)
        <4>1. s.ctx \in 1 .. Len(ctx) /\ ctx \in Seq(Context)
          BY <3>1 DEF Live, TypeInv, TypeOK
        <4>2. ctx[s.ctx] \in Context
          BY <4>1, ElementOfSeq
        <4>3. ctx[s.ctx].pending_count - s.k \in Int
          BY <1>0, <4>2 DEF Context, CallType
        <4> QED BY <1>4, <3>1, <4>1, <4>3, ContextCounts DEF CancelCtx
      <3> QED BY <1>4, <3>1 DEF CancelCtx, TypeInv, TypeOK
    <2>3. req_hash' \subseteq req_hash /\ faults' \subseteq faults \cup {"stale_write"}
      BY <1>4 DEF CancelCtx
    <2>4. UNCHANGED <<workerVars, poolVars, own, ran, freed, notified, fired>>
      BY <1>4 DEF CancelCtx
    <2>5. TypeOK'
      BY <2>1, <2>2, <2>3, <2>4 DEF TypeInv, TypeOK, workerVars, poolVars
    <2> QED BY <2>1, <2>4, <2>5 DEF TypeInv, LocalsOK, Running, workerVars
  <1> QED BY <1>1, <1>2, <1>3, <1>4

\* TypeInv is inductive.
LEMMA TypeStep == TypeInv /\ [Next]_vars => TypeInv'
PROOF
  <1> SUFFICES ASSUME TypeInv, [Next]_vars PROVE TypeInv'
    OBVIOUS
  <1>1. CASE OwnerStep \/ BeginDestroy \/ Gone
    BY <1>1, OwnerType
  <1>2. ASSUME NEW w \in Workers, WorkerStep(w) \/ SpuriousWakeup(w)
        PROVE  TypeInv'
    BY <1>2, WorkerType
  <1>3. ASSUME NEW c \in Callers, NewCall(c) \/ CallStep(c)
        PROVE  TypeInv'
    BY <1>3, NewCallType, SubmitStepType, WakeCancelType DEF CallStep
  <1>4. CASE UNCHANGED vars
    BY <1>4 DEF vars, workerVars, tableVars, poolVars, ghostVars, TypeInv, TypeOK,
                LocalsOK, Running
  <1> QED BY <1>1, <1>2, <1>3, <1>4 DEF Next

\* Type correctness: the state of the pool keeps its types, every worker index
\* a function uses names a worker, and every context in the table is allocated.
THEOREM TypeCorrect == Spec => []TypeOK
PROOF
  <1>1. Spec => []TypeInv
    BY InitType, TypeStep, PTL DEF Spec
  <1>2. TypeInv => TypeOK
    BY DEF TypeInv
  <1> QED BY <1>1, <1>2, PTL

-----------------------------------------------------------------------------
(* A task is in one place.                                                 *)

\* Ids in use are below the next one, so new tasks are different from all others.
IdsBelow ==
    /\ \A w \in Workers : \A t \in queue[w] : t.id < next_task_id
    /\ \A w \in Workers : Running(w) => thr[w].task.id < next_task_id
    /\ \A t \in ran \cup freed : t.id < next_task_id

OnceInv == TaskOnce /\ IdsBelow

\* Steps that move no task.
LEMMA OnceKept ==
  ASSUME OnceInv, UNCHANGED <<queue, ran, freed, next_task_id>>,
         \A v \in Workers : Running(v)' =>
            /\ Running(v) /\ thr'[v].task = thr[v].task
            /\ thr'[v].pc = "run" => thr[v].pc = "run"
  PROVE  OnceInv'
PROOF
  <1>1. \A v \in Workers : thr'[v].pc = "run" =>
            thr[v].pc = "run" /\ thr'[v].task = thr[v].task
    BY DEF Running
  <1>2. TaskOnce'
    BY <1>1 DEF OnceInv, TaskOnce
  <1>3. IdsBelow'
    BY DEF OnceInv, IdsBelow
  <1> QED BY <1>2, <1>3 DEF OnceInv

\* Moving a thread to a place other than "run" starts no task.
LEMMA MoveStartsNone ==
  ASSUME thr \in [Workers -> ThreadType], NEW w \in Workers, NEW pc,
         thr' = [thr EXCEPT ![w].pc = pc], pc # "run",
         pc \in {"find", "dec", "cb", "remove", "fin"} => Running(w)
  PROVE  \A v \in Workers : Running(v)' =>
            /\ Running(v) /\ thr'[v].task = thr[v].task
            /\ thr'[v].pc = "run" => thr[v].pc = "run"
  BY DEF ThreadType, Running

\* Signalling a worker's condition puts no task in its hands.
LEMMA SignalStartsNone ==
  ASSUME thr \in [Workers -> ThreadType], NEW w \in Workers, thr' = Signal(w)
  PROVE  \A v \in Workers : Running(v)' =>
            /\ Running(v) /\ thr'[v].task = thr[v].task
            /\ thr'[v].pc = "run" => thr[v].pc = "run"
  BY MoveStartsNone DEF Signal, Running

\* Every step of worker_thread takes a task out of one place and into one other.
LEMMA OnceWorker ==
  ASSUME TypeInv, OnceInv, NEW w \in Workers, WorkerStep(w) \/ SpuriousWakeup(w)
  PROVE  OnceInv'
PROOF
  <1>0. thr \in [Workers -> ThreadType] /\ queue \in [Workers -> SUBSET Task]
    BY DEF TypeInv, TypeOK
  <1>1. CASE WorkerTake(w)
    <2>1. PICK t \in queue[w] :
             /\ queue' = [queue EXCEPT ![w] = @ \ {t}]
             /\ thr' = [thr EXCEPT ![w] = [pc |-> "run", task |-> t, ctx |-> 0]]
      BY <1>1 DEF WorkerTake, Unlink
    <2>2. UNCHANGED <<ran, freed, next_task_id>> /\ ~Running(w)
      BY <1>1 DEF WorkerTake, poolVars, ghostVars, AtLoop, Running
    <2>3. \A v \in Workers : queue'[v] = IF v = w THEN queue[w] \ {t} ELSE queue[v]
      BY <1>0, <2>1
    <2>4. \A v \in Workers : v # w => thr'[v] = thr[v]
      BY <1>0, <2>1
    <2>5. thr'[w].pc = "run" /\ thr'[w].task = t
      BY <1>0, <2>1
    <2> QED BY <2>1, <2>2, <2>3, <2>4, <2>5 DEF OnceInv, TaskOnce, IdsBelow, Running
  <1>2. CASE WorkerRun(w)
    <2>1. /\ thr[w].pc = "run" /\ Running(w)
          /\ ran' = ran \cup {thr[w].task}
          /\ UNCHANGED <<queue, freed, next_task_id>>
      BY <1>2 DEF WorkerRun, poolVars, Running
    <2>2. /\ thr'[w].pc = "find" /\ thr'[w].task = thr[w].task
          /\ \A v \in Workers : v # w => thr'[v] = thr[v]
      BY <1>0, <1>2 DEF WorkerRun, ThreadType
    <2> QED BY <2>1, <2>2 DEF OnceInv, TaskOnce, IdsBelow, Running
  <1>3. CASE WorkerFinish(w)
    <2>1. /\ Running(w) /\ freed' = freed \cup {thr[w].task}
          /\ UNCHANGED <<queue, ran, next_task_id>>
      BY <1>3 DEF WorkerFinish, poolVars, Running
    <2>2. /\ thr'[w].pc = "loop"
          /\ \A v \in Workers : v # w => thr'[v] = thr[v]
      BY <1>0, <1>3 DEF WorkerFinish, NoThread
    <2> QED BY <2>1, <2>2 DEF OnceInv, TaskOnce, IdsBelow, Running
  <1>4. CASE WorkerFindCtx(w)
    <2>1. PICK i \in Lookup(thr[w].task.req) :
             thr' = [thr EXCEPT ![w].pc = IF i = 0 THEN "fin" ELSE "dec",
                                ![w].ctx = i]
      BY <1>4 DEF WorkerFindCtx
    <2>2. \A v \in Workers : Running(v)' =>
            /\ Running(v) /\ thr'[v].task = thr[v].task
            /\ thr'[v].pc = "run" => thr[v].pc = "run"
      BY <1>0, <1>4, <2>1 DEF WorkerFindCtx, Running, ThreadType
    <2> QED BY <1>4, <2>2, OnceKept DEF WorkerFindCtx, poolVars, ghostVars
  <1>5. CASE WorkerDec(w)
    <2>1. PICK pc \in {"cb", "fin"} : thr' = [thr EXCEPT ![w].pc = pc]
      BY <1>5 DEF WorkerDec
    <2>2. Running(w)
      BY <1>5 DEF WorkerDec, Running
    <2>3. UNCHANGED <<queue, ran, freed, next_task_id>>
      BY <1>5 DEF WorkerDec, poolVars
    <2> QED BY <1>0, <2>1, <2>2, <2>3, MoveStartsNone, OnceKept
  <1>6. CASE \/ WorkerStart(w) \/ WorkerWait(w) \/ WorkerExit(w)
             \/ WorkerTakeNone(w) \/ WorkerBatchCb(w) \/ WorkerRemoveCtx(w)
             \/ SpuriousWakeup(w)
    <2>1. PICK pc \in {"loop", "wait", "exited", "woken", "remove", "fin"} :
             /\ thr' = [thr EXCEPT ![w].pc = pc]
             /\ pc \in {"remove", "fin"} => Running(w)
      BY <1>6 DEF WorkerStart, WorkerWait, WorkerExit, WorkerTakeNone,
                  WorkerBatchCb, WorkerRemoveCtx, SpuriousWakeup, Running
    <2>2. UNCHANGED <<queue, ran, freed, next_task_id>>
      BY <1>6 DEF WorkerStart, WorkerWait, WorkerExit, WorkerTakeNone,
                  WorkerBatchCb, WorkerRemoveCtx, SpuriousWakeup, poolVars, ghostVars
    <2> QED BY <1>0, <2>1, <2>2, MoveStartsNone, OnceKept
  <1> QED BY <1>1, <1>2, <1>3, <1>4, <1>5, <1>6 DEF WorkerStep

\* The owner and the callers start no task that was in a queue before.
LEMMA OnceOther ==
  ASSUME TypeInv, OnceInv,
         OwnerStep \/ BeginDestroy \/ Gone \/ \E c \in Callers : NewCall(c) \/ CallStep(c)
  PROVE  OnceInv'
PROOF
  <1>0. /\ thr \in [Workers -> ThreadType] /\ queue \in [Workers -> SUBSET Task]
        /\ own.i \in Workers
    BY DEF TypeInv, TypeOK
  <1>1. CASE CreateWorker \/ CreateFailed
    <2>1. PICK pc \in {"new", "none", "failed"} : thr' = [thr EXCEPT ![own.i].pc = pc]
      BY <1>1 DEF CreateWorker, CreateFailed
    <2>2. UNCHANGED <<queue, ran, freed, next_task_id>>
      BY <1>1 DEF CreateWorker, CreateFailed, poolVars, ghostVars
    <2> QED BY <1>0, <2>1, <2>2, MoveStartsNone, OnceKept
  <1>2. CASE ShutdownSignal
    <2>1. thr' = Signal(own.i) /\ UNCHANGED <<queue, ran, freed, next_task_id>>
      BY <1>2 DEF ShutdownSignal, poolVars, ghostVars
    <2> QED BY <1>0, <2>1, SignalStartsNone, OnceKept
  <1>3. CASE FreePool
    <2>1. /\ UNCHANGED <<thr, ran, next_task_id>>
          /\ \A w \in Workers : queue'[w] = {}
          /\ freed' = freed \cup UNION {queue[w] : w \in Workers}
      BY <1>3 DEF FreePool, poolVars
    <2> QED BY <2>1 DEF OnceInv, TaskOnce, IdsBelow, Running
  <1>4. CASE AwaitWorker \/ Start \/ Join \/ BeginDestroy \/ Gone
    <2>1. UNCHANGED <<thr, queue, ran, freed, next_task_id>>
      BY <1>4 DEF AwaitWorker, Start, Join, BeginDestroy, Gone, vars, workerVars,
                  poolVars, ghostVars
    <2> QED BY <2>1, OnceKept DEF Running
  <1>5. ASSUME NEW c \in Callers, Attach(c)
        PROVE  OnceInv'
    <2> DEFINE s == call[c]
    <2>1. /\ s.best \in Workers /\ s.n \in Nat /\ next_task_id \in Nat
      BY <1>5 DEF Attach, TypeInv, TypeOK, LocalsOK, CallOK, CallType
    <2>2. \A t \in NewTasks(s) : next_task_id <= t.id /\ t.id < next_task_id + s.n
      BY <2>1 DEF NewTasks
    <2>3. /\ UNCHANGED <<thr, ran, freed>> /\ next_task_id' = next_task_id + s.n
          /\ queue' = [queue EXCEPT ![s.best] = @ \cup NewTasks(s)]
      BY <1>5 DEF Attach, Linked, NextId, ghostVars
    <2>4. \A v \in Workers :
             queue'[v] = IF v = s.best THEN queue[v] \cup NewTasks(s) ELSE queue[v]
      BY <1>0, <2>1, <2>3
    <2>5. /\ \A v \in Workers : queue[v] \subseteq Task
          /\ ran \subseteq Task /\ freed \subseteq Task
          /\ \A v \in Workers : Running(v) => thr[v].task \in Task
      BY <1>0 DEF TypeInv, TypeOK, LocalsOK
    <2>6. /\ \A v \in Workers : queue[v] \cap NewTasks(s) = {}
          /\ (ran \cup freed) \cap NewTasks(s) = {}
          /\ \A v \in Workers : Running(v) => thr[v].task \notin NewTasks(s)
      BY <2>1, <2>2, <2>5 DEF OnceInv, IdsBelow, Task
    <2>7. TaskOnce'
      BY <2>3, <2>4, <2>6 DEF OnceInv, TaskOnce, Running
    <2>8. IdsBelow'
      BY <2>1, <2>2, <2>3, <2>4, <2>5 DEF OnceInv, IdsBelow, Running, Task
    <2> QED BY <2>7, <2>8 DEF OnceInv
  <1>6. ASSUME NEW c \in Callers, CancelQueue(c)
        PROVE  OnceInv'
    <2> DEFINE s == call[c]
               gone == OfReq(s.best, s.req)
    <2>1. s.best \in Workers
      BY <1>6 DEF CancelQueue, TypeInv, TypeOK, LocalsOK, CallOK, CallType
    <2>2. /\ UNCHANGED <<thr, ran, next_task_id>> /\ freed' = freed \cup gone
          /\ queue' = [queue EXCEPT ![s.best] = @ \ gone]
      BY <1>6 DEF CancelQueue, poolVars
    <2>3. gone \subseteq queue[s.best]
      BY DEF OfReq
    <2>4. \A v \in Workers :
             queue'[v] = IF v = s.best THEN queue[v] \ gone ELSE queue[v]
      BY <1>0, <2>1, <2>2
    <2>5. TaskOnce'
      <3>1. \A v \in Workers : queue'[v] \subseteq queue[v]
        BY <2>4
      <3>2. \A v \in Workers : queue'[v] \cap gone = {}
        <4>1. \A v \in Workers : v # s.best => queue[v] \cap queue[s.best] = {}
          BY <2>1 DEF OnceInv, TaskOnce
        <4> QED BY ONLY <2>3, <2>4, <4>1
      <3>3. \A v \in Workers : Running(v) => thr[v].task \notin gone
        BY <2>1, <2>3 DEF OnceInv, TaskOnce
      <3>4. \A v \in Workers : queue'[v] \cap (ran' \cup freed') = {}
        BY <2>2, <3>1, <3>2 DEF OnceInv, TaskOnce
      <3>5. \A v, w \in Workers : v # w => queue'[v] \cap queue'[w] = {}
        BY <3>1 DEF OnceInv, TaskOnce
      <3>6. /\ \A v \in Workers : Running(v)' = Running(v)
            /\ UNCHANGED <<thr, ran>> /\ freed' = freed \cup gone
        BY <2>2 DEF Running
      <3> QED BY <3>1, <3>3, <3>4, <3>5, <3>6 DEF OnceInv, TaskOnce
    <2>6. IdsBelow'
      BY <2>1, <2>2, <2>3, <2>4 DEF OnceInv, IdsBelow, Running
    <2> QED BY <2>5, <2>6 DEF OnceInv
  <1>7. ASSUME NEW c \in Callers, WakeSet(c)
        PROVE  OnceInv'
    <2>1. call[c].best \in Workers
      BY <1>7 DEF WakeSet, TypeInv, TypeOK, LocalsOK, CallOK, CallType
    <2>2. thr' = Signal(call[c].best) /\ UNCHANGED <<queue, ran, freed, next_task_id>>
      BY <1>7 DEF WakeSet, poolVars
    <2> QED BY <1>0, <2>1, <2>2, SignalStartsNone, OnceKept
  <1>8. ASSUME NEW c \in Callers,
               \/ NewCall(c) \/ Scan(c) \/ AllocFail(c) \/ FindCtx(c) \/ AddCtx(c)
               \/ InsertCtx(c) \/ InsertFail(c) \/ ReadId(c) \/ Stray(c) \/ Deref(c)
               \/ CancelCtx(c)
        PROVE  OnceInv'
    <2>1. UNCHANGED <<thr, queue, ran, freed, next_task_id>>
      BY <1>8 DEF NewCall, SubmitTask, SubmitBatch, Submit, Wake, Cancel, Scan,
                  AllocFail, FindCtx, AddCtx, InsertCtx, InsertFail, ReadId, Stray, Deref,
                  CancelCtx, workerVars, poolVars, ghostVars
    <2> QED BY <2>1, OnceKept DEF Running
  <1> QED BY <1>1, <1>2, <1>3, <1>4, <1>5, <1>6, <1>7, <1>8 DEF OwnerStep, CallStep

\* OnceInv is an invariant.
LEMMA OnceInvariant == Spec => []OnceInv
PROOF
  <1>1. Init => OnceInv
    BY DEF Init, OnceInv, TaskOnce, IdsBelow, Running, NoThread
  <1>2. TypeInv /\ OnceInv /\ [Next]_vars => OnceInv'
    <2> SUFFICES ASSUME TypeInv, OnceInv, [Next]_vars PROVE OnceInv'
      OBVIOUS
    <2>1. CASE UNCHANGED vars
      BY <2>1, OnceKept DEF vars, workerVars, poolVars, ghostVars, Running
    <2> QED BY <2>1, OnceWorker, OnceOther DEF Next
  <1> QED BY <1>1, <1>2, InitType, TypeStep, PTL DEF Spec

\* No task runs twice, runs after it was cancelled, or is freed while it is
\* queued or running: worker_queue_pop_by_req, cancel_in_worker_queue and
\* destroy_worker take each node exactly once, however the callers behave.
THEOREM TaskOnceHolds == Spec => []TaskOnce
PROOF
  <1>1. OnceInv => TaskOnce
    BY DEF OnceInv
  <1> QED BY <1>1, OnceInvariant, PTL

-----------------------------------------------------------------------------
(* BUSY is only seen by the worker itself.                                 *)

\* Workers that are still to be created have no thread: create_worker never
\* starts a second thread on a worker.
Uncreated == \A w \in Workers :
    \/ own.pc = "create" /\ w >= own.i
    \/ own.pc = "await" /\ w > own.i
    => thr[w].pc = "none"

BusyInv == BusyHidden /\ Uncreated

\* A step that moves no thread and no state keeps the link between them.
LEMMA BusyKept ==
  ASSUME BusyInv, UNCHANGED <<state, own>>,
         \A v \in Workers : Running(v)' = Running(v),
         \A v \in Workers : thr[v].pc = "none" => thr'[v].pc = "none"
  PROVE  BusyInv'
  BY DEF BusyInv, BusyHidden, Uncreated

\* worker_thread sets BUSY under the lock under which it takes a task.
LEMMA BusyWorker ==
  ASSUME TypeInv, BusyInv, NEW w \in Workers, WorkerStep(w) \/ SpuriousWakeup(w)
  PROVE  BusyInv'
PROOF
  <1>0. /\ thr \in [Workers -> ThreadType] /\ state \in [Workers -> WorkerState]
        /\ UNCHANGED own /\ thr[w].pc # "none"
    BY DEF TypeInv, TypeOK, WorkerStep, WorkerStart, WorkerWait, WorkerExit,
           WorkerTake, WorkerTakeNone, WorkerRun, WorkerFindCtx, WorkerDec,
           WorkerBatchCb, WorkerRemoveCtx, WorkerFinish, SpuriousWakeup, AtLoop
  <1>1. /\ \A v \in Workers : v # w => thr'[v] = thr[v] /\ state'[v] = state[v]
        /\ thr'[w].pc # "none"
        /\ (state'[w] = "BUSY") = Running(w)'
    <2>1. CASE WorkerTake(w)
      BY <1>0, <2>1 DEF WorkerTake, Running
    <2>2. CASE WorkerFinish(w)
      BY <1>0, <2>2 DEF WorkerFinish, Idled, NoThread, Running
    <2>3. CASE WorkerStart(w) \/ WorkerExit(w)
      BY <1>0, <2>3 DEF WorkerStart, WorkerExit, Running, ThreadType
    <2>4. CASE WorkerWait(w) \/ SpuriousWakeup(w) \/ WorkerTakeNone(w)
      BY <1>0, <2>4 DEF WorkerWait, SpuriousWakeup, WorkerTakeNone, AtLoop, Running,
                        ThreadType, BusyInv, BusyHidden
    <2>5. CASE WorkerRun(w) \/ WorkerBatchCb(w) \/ WorkerRemoveCtx(w)
      <3>1. PICK pc \in {"find", "remove", "fin"} : thr' = [thr EXCEPT ![w].pc = pc]
        BY <2>5 DEF WorkerRun, WorkerBatchCb, WorkerRemoveCtx
      <3>2. state' = state /\ Running(w)
        BY <2>5 DEF WorkerRun, WorkerBatchCb, WorkerRemoveCtx, Running
      <3> QED BY <1>0, <3>1, <3>2 DEF Running, ThreadType, BusyInv, BusyHidden
    <2>7. CASE WorkerFindCtx(w)
      <3>1. PICK i \in Lookup(thr[w].task.req) :
               thr' = [thr EXCEPT ![w].pc = IF i = 0 THEN "fin" ELSE "dec",
                                  ![w].ctx = i]
        BY <2>7 DEF WorkerFindCtx
      <3>2. state' = state /\ Running(w)
        BY <2>7 DEF WorkerFindCtx, Running
      <3> QED BY <1>0, <3>1, <3>2 DEF Running, ThreadType, BusyInv, BusyHidden
    <2>6. CASE WorkerDec(w)
      <3>1. PICK pc \in {"cb", "fin"} : thr' = [thr EXCEPT ![w].pc = pc]
        BY <2>6 DEF WorkerDec
      <3>2. state' = state /\ Running(w)
        BY <2>6 DEF WorkerDec, Running
      <3> QED BY <1>0, <3>1, <3>2 DEF Running, ThreadType, BusyInv, BusyHidden
    <2> QED BY <2>1, <2>2, <2>3, <2>4, <2>5, <2>6, <2>7 DEF WorkerStep
  <1> QED BY <1>0, <1>1 DEF BusyInv, BusyHidden, Uncreated, Running

\* Nobody but worker_thread changes the state of a worker whose thread runs.
LEMMA BusyOther ==
  ASSUME TypeInv, BusyInv,
         OwnerStep \/ BeginDestroy \/ Gone \/ \E c \in Callers : NewCall(c) \/ CallStep(c)
  PROVE  BusyInv'
PROOF
  <1>0. /\ thr \in [Workers -> ThreadType]
        /\ own.i \in Workers /\ own \in [pc : OwnPc, i : Workers]
    BY DEF TypeInv, TypeOK
  <1>n. own.i \in Nat /\ Workers \subseteq Nat
    BY <1>0, WorkersFacts
  <1>1. CASE CreateWorker \/ CreateFailed
    <2>1. PICK pc \in {"new", "none", "failed"} : thr' = [thr EXCEPT ![own.i].pc = pc]
      BY <1>1 DEF CreateWorker, CreateFailed
    <2>2. own.pc = "create" /\ thr[own.i].pc = "none" /\ UNCHANGED state
      BY <1>0, <1>1, WorkersFacts DEF CreateWorker, CreateFailed, BusyInv, Uncreated
    <2>3. \A v \in Workers : Running(v)' = Running(v)
      BY <1>0, <2>1, <2>2 DEF Running, ThreadType
    <2>4. Uncreated'
      <3>1. CASE CreateWorker
        <4>1. own'.pc = "await" /\ own'.i = own.i
          BY <1>0, <3>1 DEF CreateWorker
        <4>2. \A v \in Workers : v > own.i => v # own.i /\ v >= own.i
          BY <1>n
        <4> QED BY <1>0, <2>1, <2>2, <4>1, <4>2 DEF BusyInv, Uncreated
      <3>2. CASE CreateFailed
        BY <3>2 DEF CreateFailed, Uncreated
      <3> QED BY <1>1, <3>1, <3>2
    <2> QED BY <2>2, <2>3, <2>4 DEF BusyInv, BusyHidden
  <1>2. CASE AwaitWorker
    <2>1. UNCHANGED <<state, thr>>
      BY <1>2 DEF AwaitWorker, workerVars
    <2>2. \A v \in Workers : v >= own.i + 1 => v > own.i
      BY <1>n
    <2>3. Uncreated'
      BY <1>0, <1>2, <2>1, <2>2 DEF AwaitWorker, BusyInv, Uncreated
    <2> QED BY <2>1, <2>3 DEF BusyInv, BusyHidden, Running
  <1>3. CASE Start \/ Join \/ BeginDestroy \/ FreePool
    <2>1. UNCHANGED <<state, thr>>
      BY <1>3 DEF Start, Join, BeginDestroy, FreePool, workerVars
    <2>2. own'.pc \notin {"create", "await"}
      BY <1>0, <1>3 DEF Start, Join, NextOf, BeginDestroy, FreePool
    <2> QED BY <2>1, <2>2 DEF BusyInv, BusyHidden, Uncreated, Running
  <1>4. CASE ShutdownSignal
    <2>1. UNCHANGED state /\ thr' = Signal(own.i)
      BY <1>4 DEF ShutdownSignal
    <2>2. own'.pc \notin {"create", "await"}
      BY <1>0, <1>4 DEF ShutdownSignal, NextOf
    <2>3. \A v \in Workers : Running(v)' = Running(v)
      BY <1>0, <2>1 DEF Signal, Running, ThreadType
    <2> QED BY <2>1, <2>2, <2>3 DEF BusyInv, BusyHidden, Uncreated
  <1>5. CASE Gone
    BY <1>5, BusyKept DEF Gone, vars, workerVars, Running
  <1>6. ASSUME NEW c \in Callers, WakeSet(c)
        PROVE  BusyInv'
    <2>1. call[c].best \in Workers
      BY <1>6 DEF WakeSet, TypeInv, TypeOK, LocalsOK, CallOK, CallType
    <2>2. thr' = Signal(call[c].best) /\ UNCHANGED <<state, own>>
      BY <1>6 DEF WakeSet
    <2>3. /\ \A v \in Workers : Running(v)' = Running(v)
          /\ \A v \in Workers : thr[v].pc = "none" => thr'[v].pc = "none"
      BY <1>0, <2>1, <2>2 DEF Signal, Running, ThreadType
    <2> QED BY <2>2, <2>3, BusyKept
  <1>7. ASSUME NEW c \in Callers,
               \/ NewCall(c) \/ Scan(c) \/ AllocFail(c) \/ FindCtx(c) \/ AddCtx(c)
               \/ InsertCtx(c) \/ InsertFail(c) \/ ReadId(c) \/ Stray(c) \/ Deref(c)
               \/ CancelCtx(c) \/ Attach(c) \/ CancelQueue(c)
        PROVE  BusyInv'
    <2>1. UNCHANGED <<thr, state, own>>
      BY <1>7 DEF NewCall, SubmitTask, SubmitBatch, Submit, Wake, Cancel, Scan,
                  AllocFail, FindCtx, AddCtx, InsertCtx, InsertFail, ReadId, Stray, Deref,
                  CancelCtx, Attach, CancelQueue, workerVars
    <2> QED BY <2>1, BusyKept DEF Running
  <1> QED BY <1>1, <1>2, <1>3, <1>4, <1>5, <1>6, <1>7 DEF OwnerStep, CallStep

\* A thread is created once on each worker, and only a running one is BUSY.
LEMMA BusyInvariant == Spec => []BusyInv
PROOF
  <1>1. Init => BusyInv
    BY DEF Init, BusyInv, BusyHidden, Uncreated, Running, NoThread
  <1>2. TypeInv /\ BusyInv /\ [Next]_vars => BusyInv'
    <2> SUFFICES ASSUME TypeInv, BusyInv, [Next]_vars PROVE BusyInv'
      OBVIOUS
    <2>1. CASE UNCHANGED vars
      BY <2>1, BusyKept DEF vars, workerVars, Running
    <2> QED BY <2>1, BusyWorker, BusyOther DEF Next
  <1> QED BY <1>1, <1>2, InitType, TypeStep, PTL DEF Spec

\* The state BUSY implies that the worker's thread holds its mutex: a thread in
\* select_best_worker, which reads the state under that mutex, never sees it,
\* and the search for the shortest queue among busy workers is dead code.
THEOREM BusyHiddenHolds == Spec => []BusyHidden
PROOF
  <1>1. BusyInv => BusyHidden
    BY DEF BusyInv
  <1> QED BY <1>1, BusyInvariant, PTL

-----------------------------------------------------------------------------
(* queue_size counts the queue.                                            *)

\* A batch of n tasks has n different ids.
LEMMA NewTasksCount ==
  ASSUME TypeOK, NEW c \in Callers
  PROVE  IsFiniteSet(NewTasks(call[c])) /\ Cardinality(NewTasks(call[c])) = call[c].n
PROOF
  <1> DEFINE n == call[c].n
             f == [j \in 0 .. n - 1 |-> [id |-> next_task_id + j, req |-> call[c].req]]
  <1>1. n \in Nat /\ next_task_id \in Nat
    BY DEF TypeOK, CallType
  <1>2. IsFiniteSet(0 .. n - 1) /\ Cardinality(0 .. n - 1) = n
    <2>1. 0 \in Int /\ n - 1 \in Int
      BY <1>1
    <2>2. /\ IsFiniteSet(0 .. n - 1)
          /\ Cardinality(0 .. n - 1) = IF 0 > n - 1 THEN 0 ELSE n - 1 - 0 + 1
      BY <2>1, FS_Interval
    <2> QED BY <1>1, <2>2
  <1>3. f \in Surjection(0 .. n - 1, NewTasks(call[c]))
    BY DEF Surjection, NewTasks
  <1>4. \A i, j \in 0 .. n - 1 : i # j => f[i].id # f[j].id
    BY <1>1
  <1>5. f \in Injection(0 .. n - 1, NewTasks(call[c]))
    <2>1. f \in [0 .. n - 1 -> NewTasks(call[c])]
      BY <1>3 DEF Surjection
    <2>2. \A i, j \in 0 .. n - 1 : f[i] = f[j] => i = j
      BY <1>4
    <2> QED BY <2>1, <2>2 DEF Injection, IsInjective
  <1> QED BY <1>2, <1>3, <1>5, FS_Surjection

\* A step that leaves the queues alone keeps their counts.
LEMMA SizeKept ==
  ASSUME QueueSizeExact, UNCHANGED <<queue, queue_size>>
  PROVE  QueueSizeExact'
  BY DEF QueueSizeExact

\* Every push, pop and cancel adjusts queue_size by the nodes it moved.
LEMMA SizeStep ==
  ASSUME TypeInv, OnceInv, QueueSizeExact, [Next]_vars
  PROVE  QueueSizeExact'
PROOF
  <1>0. /\ queue \in [Workers -> SUBSET Task] /\ queue_size \in [Workers -> Int]
        /\ \A w \in Workers : IsFiniteSet(queue[w]) /\ Cardinality(queue[w]) \in Nat
    BY FS_CardinalityType DEF TypeInv, TypeOK, LocalsOK
  <1>1. ASSUME NEW w \in Workers, WorkerTake(w)
        PROVE  QueueSizeExact'
    <2>1. PICK t \in queue[w] : queue' = [queue EXCEPT ![w] = @ \ {t}]
      BY <1>1 DEF WorkerTake, Unlink
    <2>2. queue_size' = [queue_size EXCEPT ![w] = @ - 1]
      BY <1>1 DEF WorkerTake
    <2>3. Cardinality(queue[w] \ {t}) = Cardinality(queue[w]) - 1
      BY <1>0, FS_RemoveElement
    <2> QED BY <1>0, <2>1, <2>2, <2>3 DEF QueueSizeExact
  <1>2. ASSUME NEW c \in Callers, Attach(c)
        PROVE  QueueSizeExact'
    <2> DEFINE s == call[c]
    <2>1. s.best \in Workers /\ s.n \in Nat /\ next_task_id \in Nat /\ TypeOK
      BY <1>2 DEF Attach, TypeInv, TypeOK, LocalsOK, CallOK, CallType
    <2>2. IsFiniteSet(NewTasks(s)) /\ Cardinality(NewTasks(s)) = s.n
      BY <2>1, NewTasksCount
    <2>3. \A t \in NewTasks(s) : t.id >= next_task_id
      BY <2>1 DEF NewTasks
    <2>4. \A t \in queue[s.best] : t.id \in Nat /\ t.id < next_task_id
      BY <1>0, <2>1 DEF OnceInv, IdsBelow, Task
    <2>5. queue[s.best] \cap NewTasks(s) = {}
      BY <2>1, <2>3, <2>4
    <2>6. Cardinality(queue[s.best] \cup NewTasks(s)) = Cardinality(queue[s.best]) + s.n
      <3>1. Cardinality(queue[s.best] \cup NewTasks(s)) =
               Cardinality(queue[s.best]) + Cardinality(NewTasks(s)) - Cardinality({})
        BY <1>0, <2>1, <2>2, <2>5, FS_Union
      <3> QED BY <1>0, <2>1, <2>2, <3>1, FS_EmptySet
    <2>7. /\ queue' = [queue EXCEPT ![s.best] = @ \cup NewTasks(s)]
          /\ queue_size' = [queue_size EXCEPT ![s.best] = @ + s.n]
      BY <1>2 DEF Attach, Linked
    <2> QED BY <1>0, <2>1, <2>6, <2>7 DEF QueueSizeExact
  <1>3. ASSUME NEW c \in Callers, CancelQueue(c)
        PROVE  QueueSizeExact'
    <2> DEFINE b == call[c].best
               gone == OfReq(b, call[c].req)
    <2>1. b \in Workers
      BY <1>3 DEF CancelQueue, TypeInv, TypeOK, LocalsOK, CallOK, CallType
    <2>2. gone \subseteq queue[b]
      BY DEF OfReq
    <2>3. /\ IsFiniteSet(gone) /\ IsFiniteSet(queue[b] \ gone)
      BY <1>0, <2>1, <2>2, FS_Subset
    <2>4. /\ (queue[b] \ gone) \cup gone = queue[b] /\ (queue[b] \ gone) \cap gone = {}
      BY <2>2
    <2>5. Cardinality(queue[b]) = Cardinality(queue[b] \ gone) + Cardinality(gone)
                                  - Cardinality({})
      BY <2>3, <2>4, FS_Union
    <2>6. Cardinality(queue[b] \ gone) = Cardinality(queue[b]) - Cardinality(gone)
      BY <2>3, <2>5, FS_EmptySet, FS_CardinalityType
    <2>7. /\ queue' = [queue EXCEPT ![b] = @ \ gone]
          /\ queue_size' = [queue_size EXCEPT ![b] = @ - Cardinality(gone)]
      BY <1>3 DEF CancelQueue, SizeAfterCancel
    <2> QED BY <1>0, <2>1, <2>6, <2>7 DEF QueueSizeExact
  <1>4. CASE FreePool
    BY <1>4, FS_EmptySet DEF FreePool, QueueSizeExact
  <1>5. CASE \/ CreateWorker \/ CreateFailed \/ AwaitWorker \/ Start \/ ShutdownSignal
             \/ Join \/ BeginDestroy \/ Gone \/ UNCHANGED vars
    BY <1>5, SizeKept DEF CreateWorker, CreateFailed, AwaitWorker, Start,
             ShutdownSignal, Join, BeginDestroy, Gone, vars, workerVars
  <1>6. ASSUME NEW w \in Workers,
               \/ WorkerStart(w) \/ WorkerWait(w) \/ WorkerExit(w) \/ WorkerTakeNone(w)
               \/ WorkerRun(w) \/ WorkerFindCtx(w) \/ WorkerDec(w) \/ WorkerBatchCb(w)
               \/ WorkerRemoveCtx(w) \/ WorkerFinish(w) \/ SpuriousWakeup(w)
        PROVE  QueueSizeExact'
    BY <1>6, SizeKept DEF WorkerStart, WorkerWait, WorkerExit, WorkerTakeNone,
             WorkerRun, WorkerFindCtx, WorkerDec, WorkerBatchCb, WorkerRemoveCtx,
             WorkerFinish, SpuriousWakeup
  <1>7. ASSUME NEW c \in Callers,
               \/ NewCall(c) \/ Scan(c) \/ AllocFail(c) \/ FindCtx(c) \/ AddCtx(c)
               \/ InsertCtx(c) \/ InsertFail(c) \/ ReadId(c) \/ Stray(c) \/ Deref(c)
               \/ WakeSet(c) \/ CancelCtx(c)
        PROVE  QueueSizeExact'
    BY <1>7, SizeKept DEF NewCall, SubmitTask, SubmitBatch, Submit, Wake, Cancel,
             Scan, AllocFail, FindCtx, AddCtx, InsertCtx, InsertFail, ReadId, Stray, Deref,
             WakeSet, CancelCtx, workerVars
  <1> QED BY <1>1, <1>2, <1>3, <1>4, <1>5, <1>6, <1>7
          DEF Next, OwnerStep, WorkerStep, CallStep

\* queue_size is the length of the list through every push, attach, pop, cancel
\* and destroy, for any interleaving: the load select_best_worker reads is real,
\* and the unsigned counter never goes below zero.
THEOREM QueueSizeHolds == Spec => []QueueSizeExact
PROOF
  <1>1. Init => QueueSizeExact
    BY FS_EmptySet DEF Init, QueueSizeExact
  <1>2. TypeInv /\ OnceInv /\ QueueSizeExact /\ [Next]_vars => QueueSizeExact'
    BY SizeStep
  <1>3. Spec => []TypeInv
    BY InitType, TypeStep, PTL DEF Spec
  <1> QED BY <1>1, <1>2, <1>3, OnceInvariant, PTL DEF Spec

-----------------------------------------------------------------------------
(* Nothing runs without a wake-up.                                         *)

\* The tasks of a request that began, and the workers that are to begin one
\* (pending_req is 0 when there is none, so request 0 is never begun).
Begun(r)   == RanOf(r) \cup InHand(r)
Pending(r) == {w \in Workers : pending_req[w] = r /\ r # 0}

\* A wake-up is spent on one task: while it waits in pending_req it is one more
\* than the tasks that began account for.
PaidInv == \A r \in Reqs :
    /\ IsFiniteSet(Begun(r))
    /\ Cardinality(Begun(r)) + Cardinality(Pending(r)) <= notified[r]

\* There are finitely many workers.
LEMMA PendingFinite ==
  ASSUME NEW r
  PROVE  IsFiniteSet(Pending(r)) /\ Cardinality(Pending(r)) \in Nat
PROOF
  <1>1. IsFiniteSet(Workers)
    <2>1. 0 \in Int /\ NumWorkers - 1 \in Int
      BY PoolSize
    <2> QED BY <2>1, FS_Interval DEF Workers
  <1>2. Pending(r) \subseteq Workers
    BY DEF Pending
  <1> QED BY <1>1, <1>2, FS_Subset, FS_CardinalityType

\* One more element counts for one at most.
LEMMA OneMore ==
  ASSUME NEW S, IsFiniteSet(S), NEW x
  PROVE  IsFiniteSet(S \cup {x}) /\ Cardinality(S \cup {x}) <= Cardinality(S) + 1
PROOF
  <1>1. Cardinality(S) \in Nat
    BY FS_CardinalityType
  <1>2. /\ IsFiniteSet(S \cup {x})
        /\ \/ Cardinality(S \cup {x}) = Cardinality(S)
           \/ Cardinality(S \cup {x}) = Cardinality(S) + 1
    BY FS_AddElement
  <1> QED BY <1>1, <1>2

\* Less of both is paid for all the more.
LEMMA PaidLess ==
  ASSUME TypeInv, NEW r \in Reqs, notified'[r] = notified[r],
         Begun(r)' \subseteq Begun(r), Pending(r)' \subseteq Pending(r), PaidInv
  PROVE  /\ IsFiniteSet(Begun(r)')
         /\ Cardinality(Begun(r)') + Cardinality(Pending(r)') <= notified'[r]
PROOF
  <1>1. /\ IsFiniteSet(Begun(r)) /\ notified[r] \in Nat
        /\ Cardinality(Begun(r)) + Cardinality(Pending(r)) <= notified[r]
    BY DEF PaidInv, TypeInv, TypeOK
  <1>2. IsFiniteSet(Begun(r)') /\ Cardinality(Begun(r)') <= Cardinality(Begun(r))
    BY <1>1, FS_Subset
  <1>3. /\ IsFiniteSet(Pending(r)') /\ Cardinality(Pending(r)') <= Cardinality(Pending(r))
    BY PendingFinite, FS_Subset
  <1>4. /\ Cardinality(Begun(r)) \in Nat /\ Cardinality(Begun(r)') \in Nat
        /\ Cardinality(Pending(r)) \in Nat /\ Cardinality(Pending(r)') \in Nat
    BY <1>1, <1>2, <1>3, PendingFinite, FS_CardinalityType
  <1> QED BY <1>1, <1>2, <1>3, <1>4

\* Steps that begin nothing and notify nobody.
LEMMA PaidKept ==
  ASSUME TypeInv, PaidInv, UNCHANGED notified,
         \A t \in ran' : t \in ran \/ \E w \in Workers : thr[w].pc = "run" /\ t = thr[w].task,
         \A v \in Workers : thr'[v].pc = "run" =>
            thr[v].pc = "run" /\ thr'[v].task = thr[v].task,
         \A v \in Workers : pending_req'[v] \in {pending_req[v], 0}
  PROVE  PaidInv'
PROOF
  <1> SUFFICES ASSUME NEW r \in Reqs
               PROVE  /\ IsFiniteSet(Begun(r)')
                      /\ Cardinality(Begun(r)') + Cardinality(Pending(r)') <= notified'[r]
    BY DEF PaidInv
  <1>1. Begun(r)' \subseteq Begun(r)
    BY DEF Begun, RanOf, InHand
  <1>2. Pending(r)' \subseteq Pending(r)
    BY DEF Pending
  <1> QED BY <1>1, <1>2, PaidLess

\* worker_routine takes the notification together with the task it begins.
LEMMA PaidTake ==
  ASSUME TypeInv, PaidInv, NEW w \in Workers, WorkerTake(w)
  PROVE  PaidInv'
PROOF
  <1>0. /\ thr \in [Workers -> ThreadType] /\ pending_req \in [Workers -> Reqs \cup {0}]
        /\ notified \in [Reqs -> Nat]
    BY DEF TypeInv, TypeOK
  <1>1. PICK t \in queue[w] : /\ t.req = pending_req[w]
                              /\ thr' = [thr EXCEPT ![w] = [pc |-> "run", task |-> t, ctx |-> 0]]
    BY DEF WorkerTake, IsFirst, OfReq
  <1>2. /\ pending_req' = [pending_req EXCEPT ![w] = 0] /\ pending_req[w] # 0
        /\ UNCHANGED <<ran, notified>> /\ AtLoop(w)
    BY DEF WorkerTake, Consumed, ghostVars
  <1>3. /\ thr'[w].pc = "run" /\ thr'[w].task = t
        /\ \A v \in Workers : v # w => thr'[v] = thr[v]
    BY <1>0, <1>1
  <1> SUFFICES ASSUME NEW r \in Reqs
               PROVE  /\ IsFiniteSet(Begun(r)')
                      /\ Cardinality(Begun(r)') + Cardinality(Pending(r)') <= notified'[r]
    BY DEF PaidInv
  <1>4. CASE r # pending_req[w]
    <2>1. Begun(r)' \subseteq Begun(r)
      BY <1>1, <1>2, <1>3, <1>4 DEF Begun, RanOf, InHand
    <2>2. Pending(r)' \subseteq Pending(r)
      BY <1>0, <1>2 DEF Pending
    <2> QED BY <1>2, <2>1, <2>2, PaidLess
  <1>5. CASE r = pending_req[w]
    <2>1. Begun(r)' \subseteq Begun(r) \cup {t}
      BY <1>2, <1>3 DEF Begun, RanOf, InHand
    <2>2. Pending(r)' = Pending(r) \ {w} /\ w \in Pending(r)
      BY <1>0, <1>2, <1>5 DEF Pending
    <2>3. /\ IsFiniteSet(Begun(r)) /\ notified[r] \in Nat
          /\ Cardinality(Begun(r)) + Cardinality(Pending(r)) <= notified[r]
      BY <1>0 DEF PaidInv
    <2>4. /\ IsFiniteSet(Begun(r) \cup {t})
          /\ Cardinality(Begun(r) \cup {t}) <= Cardinality(Begun(r)) + 1
      BY <2>3, OneMore
    <2>5. /\ IsFiniteSet(Begun(r)')
          /\ Cardinality(Begun(r)') <= Cardinality(Begun(r) \cup {t})
      BY <2>1, <2>4, FS_Subset
    <2>6. IsFiniteSet(Pending(r)) /\ Cardinality(Pending(r)') = Cardinality(Pending(r)) - 1
      BY <2>2, PendingFinite, FS_RemoveElement
    <2>7. /\ Cardinality(Begun(r)) \in Nat /\ Cardinality(Begun(r)') \in Nat
          /\ Cardinality(Begun(r) \cup {t}) \in Nat /\ Cardinality(Pending(r)) \in Nat
      BY <2>3, <2>4, <2>5, <2>6, FS_CardinalityType
    <2> QED BY <1>2, <2>3, <2>4, <2>5, <2>6, <2>7
  <1> QED BY <1>4, <1>5

\* A wake-up pays for one task, and takes the place of one that waits.
LEMMA PaidWake ==
  ASSUME TypeInv, PaidInv, NEW c \in Callers, WakeSet(c)
  PROVE  PaidInv'
PROOF
  <1> DEFINE w == call[c].best
             q == call[c].req
  <1>0. /\ thr \in [Workers -> ThreadType] /\ pending_req \in [Workers -> Reqs \cup {0}]
        /\ notified \in [Reqs -> Nat] /\ w \in Workers /\ q \in Reqs
    BY DEF TypeInv, TypeOK, LocalsOK, CallOK, WakeSet
  <1>1. /\ thr' = Signal(w) /\ pending_req' = [pending_req EXCEPT ![w] = q]
        /\ notified' = [notified EXCEPT ![q] = @ + 1] /\ UNCHANGED ran
    BY DEF WakeSet
  <1>2. \A v \in Workers : thr'[v].pc = "run" =>
            thr[v].pc = "run" /\ thr'[v].task = thr[v].task
    BY <1>0, <1>1, SignalStartsNone DEF Running
  <1> SUFFICES ASSUME NEW r \in Reqs
               PROVE  /\ IsFiniteSet(Begun(r)')
                      /\ Cardinality(Begun(r)') + Cardinality(Pending(r)') <= notified'[r]
    BY DEF PaidInv
  <1>3. Begun(r)' \subseteq Begun(r)
    BY <1>1, <1>2 DEF Begun, RanOf, InHand
  <1>4. CASE r # q
    <2>1. Pending(r)' \subseteq Pending(r) /\ notified'[r] = notified[r]
      BY <1>0, <1>1, <1>4 DEF Pending
    <2> QED BY <1>3, <2>1, PaidLess
  <1>5. CASE r = q
    <2>1. Pending(r)' \subseteq Pending(r) \cup {w} /\ notified'[r] = notified[r] + 1
      BY <1>0, <1>1, <1>5 DEF Pending
    <2>2. /\ IsFiniteSet(Begun(r)) /\ notified[r] \in Nat
          /\ Cardinality(Begun(r)) + Cardinality(Pending(r)) <= notified[r]
      BY <1>0 DEF PaidInv
    <2>3. /\ IsFiniteSet(Begun(r)') /\ Cardinality(Begun(r)') <= Cardinality(Begun(r))
      BY <1>3, <2>2, FS_Subset
    <2>4. /\ IsFiniteSet(Pending(r) \cup {w})
          /\ Cardinality(Pending(r) \cup {w}) <= Cardinality(Pending(r)) + 1
      BY PendingFinite, OneMore
    <2>5. /\ IsFiniteSet(Pending(r)')
          /\ Cardinality(Pending(r)') <= Cardinality(Pending(r) \cup {w})
      BY <2>1, <2>4, FS_Subset
    <2>6. /\ Cardinality(Begun(r)) \in Nat /\ Cardinality(Begun(r)') \in Nat
          /\ Cardinality(Pending(r)) \in Nat /\ Cardinality(Pending(r)') \in Nat
          /\ Cardinality(Pending(r) \cup {w}) \in Nat
      BY <2>2, <2>3, <2>4, <2>5, PendingFinite, FS_CardinalityType
    <2> QED BY <2>1, <2>2, <2>3, <2>4, <2>5, <2>6
  <1> QED BY <1>4, <1>5

\* Every step of the pool keeps the balance.
LEMMA PaidStep ==
  ASSUME TypeInv, PaidInv, [Next]_vars
  PROVE  PaidInv'
PROOF
  <1>0. /\ thr \in [Workers -> ThreadType] /\ pending_req \in [Workers -> Reqs \cup {0}]
        /\ own.i \in Workers
    BY DEF TypeInv, TypeOK
  <1>1. ASSUME NEW w \in Workers, WorkerStep(w) \/ SpuriousWakeup(w), ~WorkerTake(w)
        PROVE  PaidInv'
    <2>1. /\ UNCHANGED notified
          /\ \A v \in Workers : pending_req'[v] \in {pending_req[v], 0}
      BY <1>0, <1>1 DEF WorkerStep, WorkerStart, WorkerWait, WorkerExit, WorkerTakeNone,
           WorkerRun, WorkerFindCtx, WorkerDec, WorkerBatchCb, WorkerRemoveCtx,
           WorkerFinish, SpuriousWakeup, Consumed, ghostVars
    <2>2. \A t \in ran' : t \in ran \/ \E v \in Workers : thr[v].pc = "run" /\ t = thr[v].task
      <3>1. CASE WorkerRun(w)
        BY <3>1 DEF WorkerRun
      <3>2. CASE ~WorkerRun(w)
        <4>1. ran' = ran
          BY <1>1, <3>2 DEF WorkerStep, WorkerStart, WorkerWait, WorkerExit,
               WorkerTakeNone, WorkerFindCtx, WorkerDec, WorkerBatchCb,
               WorkerRemoveCtx, WorkerFinish, SpuriousWakeup, ghostVars
        <4> QED BY <4>1
      <3> QED BY <3>1, <3>2
    <2>3. thr'[w].pc # "run"
      <3>1. CASE WorkerFindCtx(w)
        <4>1. PICK pc \in {"fin", "dec"}, i \in Lookup(thr[w].task.req) :
                 thr' = [thr EXCEPT ![w].pc = pc, ![w].ctx = i]
          BY <3>1 DEF WorkerFindCtx
        <4>2. thr'[w] = [thr[w] EXCEPT !.pc = pc, !.ctx = i]
          BY <1>0, <4>1
        <4> QED BY <1>0, <4>2 DEF ThreadType
      <3>2. CASE WorkerDec(w)
        <4>1. PICK pc \in {"cb", "fin"} : thr' = [thr EXCEPT ![w].pc = pc]
          BY <3>2 DEF WorkerDec
        <4> QED BY <1>0, <4>1 DEF ThreadType
      <3>3. CASE WorkerStart(w) \/ WorkerWait(w) \/ WorkerExit(w) \/ WorkerTakeNone(w)
                 \/ SpuriousWakeup(w)
        BY <1>0, <3>3 DEF WorkerStart, WorkerWait, WorkerExit, WorkerTakeNone,
             SpuriousWakeup, ThreadType
      <3>4. CASE WorkerRun(w) \/ WorkerBatchCb(w) \/ WorkerRemoveCtx(w)
        BY <1>0, <3>4 DEF WorkerRun, WorkerBatchCb, WorkerRemoveCtx, ThreadType
      <3>5. CASE WorkerFinish(w)
        BY <1>0, <3>5 DEF WorkerFinish, NoThread
      <3> QED BY <1>1, <3>1, <3>2, <3>3, <3>4, <3>5 DEF WorkerStep
    <2>4. \A v \in Workers : v # w => thr'[v] = thr[v]
      BY <1>0, <1>1 DEF WorkerStep, WorkerStart, WorkerWait, WorkerExit, WorkerTakeNone,
           WorkerRun, WorkerFindCtx, WorkerDec, WorkerBatchCb, WorkerRemoveCtx,
           WorkerFinish, SpuriousWakeup
    <2> QED BY <2>1, <2>2, <2>3, <2>4, PaidKept
  <1>2. CASE CreateWorker \/ CreateFailed \/ ShutdownSignal
    <2>1. UNCHANGED <<notified, ran, pending_req>>
      BY <1>2 DEF CreateWorker, CreateFailed, ShutdownSignal, ghostVars
    <2>2. \A v \in Workers : Running(v)' =>
            /\ Running(v) /\ thr'[v].task = thr[v].task
            /\ thr'[v].pc = "run" => thr[v].pc = "run"
      <3>1. CASE CreateWorker \/ CreateFailed
        <4>1. PICK pc \in {"new", "none", "failed"} : thr' = [thr EXCEPT ![own.i].pc = pc]
          BY <3>1 DEF CreateWorker, CreateFailed
        <4> QED BY <1>0, <4>1, MoveStartsNone
      <3>2. CASE ShutdownSignal
        <4>1. thr' = Signal(own.i)
          BY <3>2 DEF ShutdownSignal
        <4> QED BY <1>0, <4>1, SignalStartsNone
      <3> QED BY <1>2, <3>1, <3>2
    <2>3. \A v \in Workers : thr'[v].pc = "run" =>
            thr[v].pc = "run" /\ thr'[v].task = thr[v].task
      BY <2>2 DEF Running
    <2> QED BY <2>1, <2>3, PaidKept
  <1>3. CASE AwaitWorker \/ Start \/ Join \/ FreePool \/ BeginDestroy \/ Gone \/ UNCHANGED vars
    <2>1. UNCHANGED <<notified, ran, pending_req, thr>>
      BY <1>3 DEF AwaitWorker, Start, Join, FreePool, BeginDestroy, Gone, vars,
           workerVars, ghostVars
    <2> QED BY <2>1, PaidKept
  <1>4. ASSUME NEW c \in Callers, NewCall(c) \/ CallStep(c), ~WakeSet(c)
        PROVE  PaidInv'
    <2>1. UNCHANGED <<notified, ran, pending_req, thr>>
      BY <1>4 DEF NewCall, SubmitTask, SubmitBatch, Submit, Wake, Cancel, CallStep, Scan,
           AllocFail, Attach, FindCtx, AddCtx, InsertCtx, InsertFail, ReadId, Stray, Deref,
           CancelQueue, CancelCtx, workerVars, ghostVars
    <2> QED BY <2>1, PaidKept
  <1> QED BY <1>1, <1>2, <1>3, <1>4, PaidTake, PaidWake DEF Next, OwnerStep, WorkerStep,
  CallStep

\* Tasks that began, and the notification that is set, never outnumber the
\* wake-ups: WorkerTake turns one notification into one task.
LEMMA PaidInvariant == Spec => []PaidInv
PROOF
  <1>1. Init => PaidInv
    <2> SUFFICES ASSUME Init, NEW r \in Reqs
                 PROVE  Begun(r) = {} /\ Pending(r) = {} /\ notified[r] = 0
      BY FS_EmptySet DEF PaidInv
    <2> QED BY DEF Init, Begun, RanOf, InHand, Pending, NoThread
  <1>2. TypeInv /\ PaidInv /\ [Next]_vars => PaidInv'
    BY PaidStep
  <1>3. Spec => []TypeInv
    BY InitType, TypeStep, PTL DEF Spec
  <1> QED BY <1>1, <1>2, <1>3, PTL DEF Spec

\* Whatever the callers do, every task of a request that began was paid for by a
\* wake-up that thread_pool_wake_up_worker_by_req_id delivered for that request:
\* pending_req is reset when it is read, so none is spent twice.
THEOREM RunsPaidHolds == Spec => []RunsPaid
PROOF
  <1>1. TypeInv /\ PaidInv => RunsPaid
    <2> SUFFICES ASSUME TypeInv, PaidInv, NEW r \in Reqs \ {0}
                 PROVE  Cardinality(Begun(r)) <= notified[r]
      BY DEF RunsPaid, Begun
    <2>1. /\ IsFiniteSet(Begun(r)) /\ notified[r] \in Nat
          /\ Cardinality(Begun(r)) + Cardinality(Pending(r)) <= notified[r]
      BY DEF PaidInv, TypeInv, TypeOK
    <2>2. Cardinality(Begun(r)) \in Nat /\ Cardinality(Pending(r)) \in Nat
      BY <2>1, PendingFinite, FS_CardinalityType
    <2> QED BY <2>1, <2>2
  <1>2. Spec => []TypeInv
    BY InitType, TypeStep, PTL DEF Spec
  <1> QED BY <1>1, <1>2, PaidInvariant, PTL

-----------------------------------------------------------------------------
(* One submit at a time.                                                   *)

\* Submits do not overlap, whichever threads make them; wake-ups and cancels do.
OneSubmitter == "race" \notin Liberties

Submits(s) == s.op \in {"batch", "task"}
Alone == \A c, d \in Callers : Submits(call[c]) /\ Submits(call[d]) => c = d

\* select_best_worker prefers a vacant worker and, BUSY being hidden, finds no
\* other; only the submitter could fill the queue before it links its tasks.
AtVacant == \A c \in Callers :
    /\ call[c].pc \in {"scan", "attach"} => Submits(call[c])
    /\ call[c].pc = "scan" => call[c].best = NoWorker
    /\ call[c].pc = "attach" => queue[call[c].best] = {}

ExclusiveInv == ExclusiveWorker /\ Alone /\ AtVacant

\* Steps that add to no queue and leave the call where it is, or end the search.
LEMMA ExclusiveKept ==
  ASSUME ExclusiveInv, \A w \in Workers : queue'[w] \subseteq queue[w],
         \A c \in Callers : Submits(call'[c]) => Submits(call[c]),
         \A c \in Callers : call'[c].pc \in {"scan", "attach"} =>
            call'[c] = call[c] /\ (call[c].pc = "attach" => call[c].best \in Workers)
  PROVE  ExclusiveInv'
PROOF
  <1>1. ExclusiveWorker'
    BY DEF ExclusiveInv, ExclusiveWorker
  <1>2. AtVacant'
    BY DEF ExclusiveInv, AtVacant
  <1>3. Alone'
    BY DEF ExclusiveInv, Alone
  <1> QED BY <1>1, <1>2, <1>3 DEF ExclusiveInv

\* A round of select_best_worker.
LEMMA ExclusiveScan ==
  ASSUME TypeInv, BusyInv, QueueSizeExact, ExclusiveInv,
         NEW c \in Callers, Scan(c)
  PROVE  ExclusiveInv'
PROOF
  <1> DEFINE s == call[c]
  <1>1. /\ s.pc = "scan" /\ LockFree(s.i) /\ s.i \in Workers /\ s \in CallType
        /\ call' = [call EXCEPT ![c] = Scanned(s)] /\ UNCHANGED <<queue, queue_size, state>>
        /\ s.best = NoWorker /\ call \in [Callers -> CallType] /\ Submits(s)
    BY DEF Scan, TypeInv, TypeOK, CallType, workerVars, ExclusiveInv, AtVacant
  <1>2. state[s.i] # "BUSY"
    <2>1. ~Running(s.i)
      BY <1>1 DEF LockFree, Running
    <2> QED BY <1>1, <2>1 DEF BusyInv, BusyHidden
  <1>3. Considered(s) = s
    BY <1>2 DEF Considered
  <1>4. call'[c] = Scanned(s) /\ \A d \in Callers : d # c => call'[d] = call[d]
    BY <1>1
  <1>5. /\ call'[c].pc \in {"scan", "attach"} => Submits(call'[c])
        /\ call'[c].pc = "scan" => call'[c].best = NoWorker
        /\ call'[c].pc = "attach" => queue'[call'[c].best] = {}
    <2>1. CASE Vacant(s.i)
      <3>1. call'[c] = [s EXCEPT !.pc = "attach", !.best = s.i]
        BY <1>4, <2>1 DEF Scanned
      <3>2. Cardinality(queue[s.i]) = 0 /\ IsFiniteSet(queue[s.i])
        BY <1>1, <2>1 DEF Vacant, QueueSizeExact, TypeInv, LocalsOK
      <3>3. queue[s.i] = {}
        BY <3>2, FS_EmptySet
      <3> QED BY <1>1, <3>1, <3>3 DEF CallType, Submits
    <2>2. CASE ~Vacant(s.i) /\ s.i + 1 < NumWorkers
      <3>1. call'[c] = [s EXCEPT !.i = s.i + 1]
        BY <1>3, <1>4, <2>2 DEF Scanned
      <3> QED BY <1>1, <3>1 DEF CallType, Submits
    <2>3. CASE ~Vacant(s.i) /\ ~(s.i + 1 < NumWorkers)
      <3>1. call'[c] = NoCall
        BY <1>1, <1>3, <1>4, <2>3 DEF Scanned
      <3> QED BY <3>1 DEF NoCall
    <2> QED BY <2>1, <2>2, <2>3
  <1>6. ExclusiveWorker'
    BY <1>1 DEF ExclusiveInv, ExclusiveWorker
  <1>7. Alone'
    BY <1>1, <1>4 DEF ExclusiveInv, Alone
  <1>8. AtVacant'
    BY <1>1, <1>4, <1>5 DEF ExclusiveInv, AtVacant
  <1> QED BY <1>6, <1>7, <1>8 DEF ExclusiveInv

\* worker_queue_attach_list meets the empty queue that was chosen.
LEMMA ExclusiveAttach ==
  ASSUME TypeInv, ExclusiveInv, NEW c \in Callers, Attach(c)
  PROVE  ExclusiveInv'
PROOF
  <1> DEFINE s == call[c]
  <1>1. /\ s.pc = "attach" /\ s.best \in Workers /\ queue' = Linked(s)
        /\ queue \in [Workers -> SUBSET Task] /\ call \in [Callers -> CallType]
        /\ call' = [call EXCEPT ![c].pc = "find", ![c].k = next_task_id]
    BY DEF Attach, TypeInv, TypeOK, LocalsOK, CallOK
  <1>2. queue[s.best] = {} /\ Submits(s)
    BY <1>1 DEF ExclusiveInv, AtVacant
  <1>3. \A w \in Workers : queue'[w] = IF w = s.best THEN NewTasks(s) ELSE queue[w]
    BY <1>1, <1>2 DEF Linked
  <1>4. \A t \in NewTasks(s) : t.req = s.req
    BY DEF NewTasks
  <1>5. ExclusiveWorker'
    BY <1>3, <1>4 DEF ExclusiveInv, ExclusiveWorker
  <1>6. /\ call'[c].pc = "find" /\ call'[c].op = s.op
        /\ \A d \in Callers : d # c => call'[d] = call[d]
    BY <1>1 DEF CallType
  <1>7. Alone'
    BY <1>2, <1>6 DEF ExclusiveInv, Alone, Submits
  <1>8. AtVacant'
    <2>1. \A d \in Callers : d # c => call[d].pc \notin {"scan", "attach"}
      BY <1>2 DEF ExclusiveInv, Alone, AtVacant
    <2> QED BY <1>6, <2>1 DEF AtVacant
  <1> QED BY <1>5, <1>7, <1>8 DEF ExclusiveInv

\* Every step keeps the queues to one request each.
LEMMA ExclusiveStep ==
  ASSUME TypeInv, BusyInv, QueueSizeExact, OneSubmitter, ExclusiveInv, [Next]_vars
  PROVE  ExclusiveInv'
PROOF
  <1>0. /\ queue \in [Workers -> SUBSET Task] /\ call \in [Callers -> CallType]
        /\ \A c \in Callers : call[c].pc = "attach" => call[c].best \in Workers
    BY DEF TypeInv, TypeOK, LocalsOK, CallOK
  <1>1. ASSUME NEW w \in Workers, WorkerStep(w) \/ SpuriousWakeup(w)
        PROVE  ExclusiveInv'
    <2>1. \A v \in Workers : queue'[v] \subseteq queue[v]
      BY <1>0, <1>1 DEF WorkerStep, WorkerStart, WorkerWait, WorkerExit, WorkerTake,
           WorkerTakeNone, WorkerRun, WorkerFindCtx, WorkerDec, WorkerBatchCb,
           WorkerRemoveCtx, WorkerFinish, SpuriousWakeup, Unlink
    <2>2. UNCHANGED call
      BY <1>1 DEF WorkerStep, WorkerStart, WorkerWait, WorkerExit, WorkerTake,
           WorkerTakeNone, WorkerRun, WorkerFindCtx, WorkerDec, WorkerBatchCb,
           WorkerRemoveCtx, WorkerFinish, SpuriousWakeup
    <2> QED BY <1>0, <2>1, <2>2, ExclusiveKept
  <1>2. CASE OwnerStep \/ BeginDestroy \/ Gone \/ UNCHANGED vars
    <2>1. \A v \in Workers : queue'[v] \subseteq queue[v]
      BY <1>0, <1>2 DEF OwnerStep, CreateWorker, CreateFailed, AwaitWorker, Start,
           ShutdownSignal, Join, FreePool, BeginDestroy, Gone, vars, workerVars
    <2>2. UNCHANGED call
      BY <1>2 DEF OwnerStep, CreateWorker, CreateFailed, AwaitWorker, Start,
           ShutdownSignal, Join, FreePool, BeginDestroy, Gone, vars
    <2> QED BY <1>0, <2>1, <2>2, ExclusiveKept
  <1>3. ASSUME NEW c \in Callers, NewCall(c) \/ CallStep(c), ~Scan(c), ~Attach(c)
        PROVE  ExclusiveInv'
    <2>1. \A v \in Workers : queue'[v] \subseteq queue[v]
      BY <1>0, <1>3 DEF NewCall, SubmitTask, SubmitBatch, Submit, Wake, Cancel, CallStep,
           AllocFail, FindCtx, AddCtx, InsertCtx, InsertFail, ReadId, Stray, Deref,
           WakeSet, CancelQueue, CancelCtx, workerVars
    <2>2. CASE SubmitTask(c) \/ SubmitBatch(c)
      <3> DEFINE After == /\ call'[c].pc = "scan" /\ call'[c].best = NoWorker
                          /\ Submits(call'[c])
                          /\ \A d \in Callers : d # c => call'[d] = call[d]
                          /\ \A d \in Callers : ~Submits(call[d])
      <3>1. ASSUME NEW op \in {"batch", "task"}, NEW r, NEW n, NEW cb,
                   Submit(c, op, r, n, cb)
            PROVE  After
        <4>1. call' = [call EXCEPT ![c] = [NoCall EXCEPT !.pc = "scan", !.op = op,
                                           !.req = r, !.n = n, !.cb = cb]]
          BY <3>1 DEF Submit
        <4>2. \A d \in Callers : ~Submits(call[d])
          BY <3>1 DEF Submit, MaySubmit, OneSubmitter, Submitting, Submits
        <4> QED BY <1>0, <4>1, <4>2 DEF NoCall, Submits
      <3>2. After
        BY <2>2, <3>1 DEF SubmitTask, SubmitBatch
      <3>3. ExclusiveWorker'
        BY <2>1 DEF ExclusiveInv, ExclusiveWorker
      <3>4. Alone'
        BY <3>2 DEF Alone
      <3>5. AtVacant'
        BY <3>2 DEF ExclusiveInv, AtVacant
      <3> QED BY <3>3, <3>4, <3>5 DEF ExclusiveInv
    <2>3. CASE ~(SubmitTask(c) \/ SubmitBatch(c))
      <3> DEFINE After == /\ call'[c].pc \notin {"scan", "attach"}
                          /\ Submits(call'[c]) => Submits(call[c])
                          /\ \A d \in Callers : d # c => call'[d] = call[d]
      <3>1. After
        <4>1. ASSUME NEW r \in Reqs, Wake(c, r) \/ Cancel(c, r) PROVE After
          <5>1. PICK i \in Lookup(r), op \in {"wake", "cancel"}, pc \in {"wderef", "cderef"} :
                   call' = [call EXCEPT ![c] =
                              IF i = 0 THEN NoCall
                              ELSE [NoCall EXCEPT !.pc = pc, !.op = op,
                                                  !.req = r, !.ctx = i]]
            BY <4>1 DEF Wake, Cancel
          <5> QED BY <1>0, <5>1 DEF NoCall, Submits
        <4>2. CASE FindCtx(c)
          <5>1. PICK i \in Lookup(call[c].req), pc \in {"insert", "add"} :
                   call' = [call EXCEPT ![c].pc = pc, ![c].ctx = i]
            BY <4>2 DEF FindCtx
          <5>2. /\ call'[c] = [call[c] EXCEPT !.pc = pc, !.ctx = i]
                /\ \A d \in Callers : d # c => call'[d] = call[d]
            BY <1>0, <5>1
          <5> QED BY <1>0, <5>2 DEF CallType, Submits
        <4>3. CASE Deref(c)
          <5>1. PICK pc \in {"wset", "cremove"}, w \in BoundTo(call[c].ctx) :
                   call' = [call EXCEPT ![c].best = w, ![c].pc = pc]
            BY <4>3 DEF Deref
          <5>2. /\ call'[c] = [call[c] EXCEPT !.best = w, !.pc = pc]
                /\ \A d \in Callers : d # c => call'[d] = call[d]
            BY <1>0, <5>1
          <5> QED BY <1>0, <5>2 DEF CallType, Submits
        <4>4. CASE CancelQueue(c)
          <5>1. PICK k : call' = [call EXCEPT ![c] = Removed(call[c], k)]
            BY <4>4 DEF CancelQueue
          <5> QED BY <1>0, <5>1 DEF Removed, NoCall, CallType, Submits
        <4>5. CASE \/ AllocFail(c) \/ AddCtx(c) \/ InsertCtx(c) \/ InsertFail(c)
                   \/ ReadId(c) \/ Stray(c) \/ WakeSet(c) \/ CancelCtx(c)
          <5>1. /\ call'[c] = NoCall \/ call'[c] = Recorded(call[c])
                /\ \A d \in Callers : d # c => call'[d] = call[d]
            BY <1>0, <4>5 DEF AllocFail, AddCtx, InsertCtx, InsertFail, ReadId, Stray,
                 WakeSet, CancelCtx
          <5> QED BY <1>0, <5>1 DEF Recorded, NoCall, CallType, Submits
        <4> QED BY <1>3, <2>3, <4>1, <4>2, <4>3, <4>4, <4>5 DEF NewCall, CallStep
      <3>2. \A d \in Callers : Submits(call'[d]) => Submits(call[d])
        BY <3>1
      <3>3. \A d \in Callers : call'[d].pc \in {"scan", "attach"} =>
              call'[d] = call[d] /\ (call[d].pc = "attach" => call[d].best \in Workers)
        BY <1>0, <3>1
      <3> QED BY <2>1, <3>2, <3>3, ExclusiveKept
    <2> QED BY <2>2, <2>3
  <1> QED BY <1>1, <1>2, <1>3, ExclusiveScan, ExclusiveAttach DEF Next

\* As long as submits do not overlap, two requests never share a worker's queue,
\* whatever threads submit, wake up and cancel, and however they race otherwise
\* (ids submitted again while their tasks are queued included):
\* select_best_worker takes a worker with an empty queue or none, so a pool of N
\* workers has at most N requests and refuses the next one.  Overlapping submits
\* do break it: the worker is unlocked between its choice and the attach.
THEOREM ExclusiveWorkerHolds == OneSubmitter /\ Spec => []ExclusiveWorker
PROOF
  <1> SUFFICES ASSUME OneSubmitter PROVE Spec => []ExclusiveWorker
    OBVIOUS
  <1>1. Init => ExclusiveInv
    BY DEF Init, ExclusiveInv, ExclusiveWorker, Alone, AtVacant, NoCall, Submits
  <1>2. TypeInv /\ BusyInv /\ QueueSizeExact /\ ExclusiveInv /\ [Next]_vars => ExclusiveInv'
    BY ExclusiveStep
  <1>3. ExclusiveInv => ExclusiveWorker
    BY DEF ExclusiveInv
  <1>4. Spec => []TypeInv
    BY InitType, TypeStep, PTL DEF Spec
  <1> QED BY <1>1, <1>2, <1>3, <1>4, BusyInvariant, QueueSizeHolds, PTL DEF Spec
=============================================================================

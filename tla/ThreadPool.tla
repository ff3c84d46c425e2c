------------------------------ MODULE ThreadPool ------------------------------
(***************************************************************************)
(* The worker pool of os_transport_thread_pool.c.                          *)
(*                                                                         *)
(* A fixed array of workers, each with a mutex, a condition variable, a    *)
(* queue of tasks and ONE pending notification (pending_req).  Submitting  *)
(* a request queues its tasks on one worker and records the binding in a   *)
(* hash table of request contexts; nothing runs until somebody wakes the   *)
(* request, and each wake-up runs one task of it.                          *)
(*                                                                         *)
(* Grain.  A worker holds its own mutex from the end of pthread_cond_wait  *)
(* to the next one, task and callbacks included; every other critical      *)
(* section (worker->mutex, req_hash_mutex) is short and is one step here.  *)
(* A step touches the shared state at most once: what the code reads under *)
(* one lock and uses after releasing it is kept in `call' or `thr' and     *)
(* used by a later step.                                                   *)
(*                                                                         *)
(* Abstractions.  A queue is a set of tasks: the code only ever takes the  *)
(* first task of one request, or all tasks of one request, and tasks enter *)
(* in the order of their ids.  Ids are handed out in the step that links   *)
(* the tasks (an id is a label: nothing compares two of them).  The hash   *)
(* table is the set of live contexts: a lookup finds the one inserted last *)
(* because insertion is at the head of the chain.                          *)
(***************************************************************************)
EXTENDS Integers, Sequences, FiniteSets

CONSTANTS
    NumWorkers,   \* size of pool->workers (64 in the code)
    Callers,      \* threads that call the pool's functions
    Reqs,         \* request ids in use; 0 is also the code's "nothing pending"
    SubmitOps,    \* which submit functions are called: "batch", "task"
    MaxBatch,     \* bound: tasks in one batch
    MaxTaskId,    \* bound: tasks ever submitted
    MaxNotify,    \* bound: wake-ups per request
    Liberties,    \* what the callers do beyond the careful use of the pool
    AllocFails,   \* may malloc return NULL
    CreateFails   \* may pthread_create fail

ASSUME PoolSize  == NumWorkers \in Nat \ {0}
ASSUME ReqIds    == Reqs \subseteq Nat
ASSUME OpNames   == SubmitOps \subseteq {"batch", "task"}
ASSUME BoundsNat == MaxBatch \in Nat /\ MaxTaskId \in Nat /\ MaxNotify \in Nat
ASSUME FlagsBool == AllocFails \in BOOLEAN /\ CreateFails \in BOOLEAN

VARIABLES
    state, queue, queue_size, pending_req,  \* WorkerThread, by worker
    thr,             \* the control state of each worker thread
    ctx,             \* every RequestContext ever allocated, oldest first
    req_hash,        \* the contexts (indices in ctx) that are in the table
    next_task_id, is_running, is_destroying,
    call,            \* the call each caller thread is in
    own,             \* the thread that creates, starts and destroys the pool
    ran, freed,      \* ghost: tasks executed; tasks whose memory is freed
    notified,        \* ghost: wake-ups delivered to a worker, by request
    fired,           \* ghost: batch callbacks, by request
    faults           \* ghost: invalid memory accesses and joins, by kind

workerVars == <<state, queue, queue_size, pending_req, thr>>
tableVars  == <<ctx, req_hash>>
poolVars   == <<next_task_id, is_running, is_destroying>>
ghostVars  == <<ran, freed, notified, fired, faults>>
vars == <<workerVars, tableVars, poolVars, call, own, ghostVars>>

-----------------------------------------------------------------------------
Workers  == 0 .. NumWorkers - 1
NoWorker == -1
MaxLoad  == MaxTaskId + 1     \* stands for UINT32_MAX: above every queue size

Task    == [id : Nat \ {0}, req : Reqs]
NoTask  == [id |-> 0, req |-> 0]
Context == [request_id : Reqs, worker_idx : Workers,
            pending_count : Int, batch_cb : BOOLEAN]

WorkerState == {"INIT", "IDLE", "BUSY", "EXIT"}

ThreadPc == {"none", "failed", "new", "wait", "woken", "loop",
             "run", "find", "dec", "cb", "remove", "fin", "exited"}
ThreadType == [pc : ThreadPc, task : Task \cup {NoTask}, ctx : Nat]
NoThread == [pc |-> "none", task |-> NoTask, ctx |-> 0]

\* A call: its function, its arguments, and its local variables.
NoCall == [pc |-> "idle", op |-> "none", req |-> 0, n |-> 0, cb |-> FALSE,
           i |-> 0, best |-> NoWorker, min |-> MaxLoad, ctx |-> 0, k |-> 0]

Running(w) == thr[w].pc \in {"run", "find", "dec", "cb", "remove", "fin"}

\* Mutant of LockFree: the mutex is not waited for.
LockIgnored(w) == thr[w] = thr[w]

\* worker->mutex can be taken: its thread does not exist, or is in
\* pthread_cond_wait, or has left its loop.
LockFree(w) == thr[w].pc \in {"none", "failed", "new", "wait", "woken", "exited"}

\* Mutant of Signal: the signal is not sent.
SignalForgotten(w) == thr

\* pthread_cond_signal on worker->cond_task.
Signal(w) == IF thr[w].pc = "wait" THEN [thr EXCEPT ![w].pc = "woken"] ELSE thr

\* All tasks of a request that were ever linked into a queue.
Queued(r)   == {t \in UNION {queue[w] : w \in Workers} : t.req = r}
InHand(r)   == {thr[w].task : w \in {v \in Workers : thr[v].pc = "run"
                                                   /\ thr[v].task.req = r}}
RanOf(r)    == {t \in ran : t.req = r}
Accepted(r) == Queued(r) \cup InHand(r) \cup RanOf(r) \cup {t \in freed : t.req = r}
InCall(r, ops) == {c \in Callers : call[c].req = r /\ call[c].op \in ops}

-----------------------------------------------------------------------------
(* The hash table of request contexts.                                     *)

\* The context a walk of the chain meets first; empty if there is none.
Newest(r) == {i \in req_hash : /\ ctx[i].request_id = r
                               /\ \A j \in req_hash :
                                     ctx[j].request_id = r => j <= i}

\* find_req_context: a pointer (0 is NULL) that is used after the unlock.
Lookup(r) == IF Newest(r) = {} THEN {0} ELSE Newest(r)

Live(i) == i \in req_hash

-----------------------------------------------------------------------------
(* What the callers do (their code is outside the pool).  With no liberty: *)
(* one submit at a time, a request id is submitted once, its wake-ups start*)
(* after the submit returned, never outnumber its tasks and each waits     *)
(* until the previous one was taken, and it is cancelled only while nothing*)
(* of it is going on.                                                      *)
Usable == own.pc \in {"ready", "run"}

Submitting == \E c \in Callers : call[c].op \in {"batch", "task"}

MaySubmit(r, n) ==
    /\ Usable
    /\ next_task_id + n - 1 <= MaxTaskId
    /\ ~Submitting \/ "race" \in Liberties
    /\ \/ Accepted(r) = {} /\ InCall(r, {"batch", "task"}) = {}
       \/ /\ "reuse" \in Liberties    \* again, once its tasks' functions returned
          /\ Queued(r) = {} /\ InHand(r) = {}
          /\ \A w \in Workers : pending_req[w] # r
          /\ InCall(r, {"batch", "task", "wake", "cancel"}) = {}
       \/ "overlap" \in Liberties     \* again, while its tasks are queued

MayWake(r) ==
    /\ Usable
    /\ notified[r] + Cardinality(InCall(r, {"wake"})) < MaxNotify
    /\ InCall(r, {"batch", "task"}) = {} \/ "early_wake" \in Liberties
    /\ InCall(r, {"cancel"}) = {} \/ "cancel_race" \in Liberties
    /\ \/ notified[r] + Cardinality(InCall(r, {"wake"})) < Cardinality(Accepted(r))
       \/ "extra_wake" \in Liberties
    /\ \/ InCall(r, {"wake"}) = {} /\ \A w \in Workers : pending_req[w] # r
       \/ "burst" \in Liberties

Quiet(r) == /\ InCall(r, {"batch", "task", "wake", "cancel"}) = {}
            /\ \A w \in Workers : pending_req[w] # r
            /\ \A w \in Workers : Running(w) => thr[w].task.req # r

MayCancel(r) == Usable /\ (Quiet(r) \/ "cancel_race" \in Liberties)

-----------------------------------------------------------------------------
(* thread_pool_init, thread_pool_start: the owner thread.                  *)

Init ==
    /\ state = [w \in Workers |-> "INIT"]
    /\ queue = [w \in Workers |-> {}]
    /\ queue_size = [w \in Workers |-> 0]
    /\ pending_req = [w \in Workers |-> 0]
    /\ thr = [w \in Workers |-> NoThread]
    /\ ctx = <<>> /\ req_hash = {}
    /\ next_task_id = 1 /\ is_running = FALSE /\ is_destroying = FALSE
    /\ call = [c \in Callers |-> NoCall]
    /\ own = [pc |-> "create", i |-> 0]
    /\ ran = {} /\ freed = {} /\ faults = {}
    /\ notified = [r \in Reqs |-> 0] /\ fired = [r \in Reqs |-> 0]

\* pthread_create, then cond_wait on cond_task, which lets the thread start.
CreateWorker ==
    /\ own.pc = "create"
    /\ thr' = [thr EXCEPT ![own.i].pc = "new"]
    /\ own' = [own EXCEPT !.pc = "await"]
    /\ UNCHANGED <<state, queue, queue_size, pending_req, tableVars, poolVars,
                   call, ghostVars>>

\* pthread_create failed: thread_pool_init destroys what there is.  What is
\* left in w->tid is up to the library ("failed": it is not zero).
CreateFailed ==
    /\ own.pc = "create" /\ CreateFails
    /\ \E pc \in {"none", "failed"} : thr' = [thr EXCEPT ![own.i].pc = pc]
    /\ own' = [pc |-> "signal", i |-> 0]
    /\ is_destroying' = TRUE
    /\ UNCHANGED <<state, queue, queue_size, pending_req, tableVars,
                   next_task_id, is_running, call, ghostVars>>

\* create_worker leaves its wait once the state is no longer INIT.
AwaitWorker ==
    /\ own.pc = "await" /\ LockFree(own.i) /\ state[own.i] # "INIT"
    /\ own' = IF own.i + 1 < NumWorkers THEN [pc |-> "create", i |-> own.i + 1]
                                        ELSE [pc |-> "ready", i |-> 0]
    /\ UNCHANGED <<workerVars, tableVars, poolVars, call, ghostVars>>

Start ==
    /\ own.pc = "ready" /\ ~is_running
    /\ is_running' = TRUE
    /\ own' = [own EXCEPT !.pc = "run"]
    /\ UNCHANGED <<workerVars, tableVars, next_task_id, is_destroying, call,
                   ghostVars>>

-----------------------------------------------------------------------------
(* Submitting: select a worker, link the tasks, record the context.        *)

Submit(c, op, r, n, cb) ==
    /\ call[c].pc = "idle" /\ is_running /\ MaySubmit(r, n)
    /\ call' = [call EXCEPT ![c] = [NoCall EXCEPT !.pc = "scan", !.op = op,
                                    !.req = r, !.n = n, !.cb = cb]]
    /\ UNCHANGED <<workerVars, tableVars, poolVars, own, ghostVars>>

SubmitTask(c) == /\ "task" \in SubmitOps
                 /\ \E r \in Reqs : Submit(c, "task", r, 1, FALSE)
SubmitBatch(c) == /\ "batch" \in SubmitOps
                  /\ \E r \in Reqs, n \in 1 .. MaxBatch, cb \in BOOLEAN :
                        Submit(c, "batch", r, n, cb)

\* Mutant of Vacant: the load of an idle worker is not looked at.
VacantAnyLoad(w) == state[w] = "IDLE"

\* One round of the loop of select_best_worker on worker s.i: the locals
\* after it.  An idle worker with an empty queue ends the search.
Vacant(w) == state[w] = "IDLE" /\ queue_size[w] = 0

Considered(s) ==
    IF state[s.i] = "BUSY" /\ queue_size[s.i] < s.min
    THEN [s EXCEPT !.best = s.i, !.min = queue_size[s.i]]
    ELSE s

Scanned(s) ==
    IF Vacant(s.i) THEN [s EXCEPT !.pc = "attach", !.best = s.i]
    ELSE IF s.i + 1 < NumWorkers THEN [Considered(s) EXCEPT !.i = s.i + 1]
    ELSE IF Considered(s).best # NoWorker THEN [Considered(s) EXCEPT !.pc = "attach"]
    ELSE NoCall                  \* no worker: the submit fails

Scan(c) ==
    /\ call[c].pc = "scan" /\ LockFree(call[c].i)
    /\ call' = [call EXCEPT ![c] = Scanned(call[c])]
    /\ UNCHANGED <<workerVars, tableVars, poolVars, own, ghostVars>>

\* A task, wrapper or node cannot be allocated: all of them are freed again.
AllocFail(c) ==
    /\ call[c].pc = "attach" /\ AllocFails
    /\ call' = [call EXCEPT ![c] = NoCall]
    /\ UNCHANGED <<workerVars, tableVars, poolVars, own, ghostVars>>

NewTasks(s) == {[id |-> next_task_id + j, req |-> s.req] : j \in 0 .. s.n - 1}
NextId(s) == next_task_id + s.n

\* The list after the new nodes were linked at its tail.
Linked(s) == [queue EXCEPT ![s.best] = @ \cup NewTasks(s)]

Attach(c) ==
    LET s == call[c] IN
    /\ s.pc = "attach" /\ LockFree(s.best)
    /\ queue' = Linked(s)
    /\ queue_size' = [queue_size EXCEPT ![s.best] = @ + s.n]
    /\ next_task_id' = NextId(s)
    /\ call' = [call EXCEPT ![c].pc = "find", ![c].k = next_task_id]
    /\ UNCHANGED <<state, pending_req, thr, tableVars, is_running, is_destroying,
                   own, ghostVars>>

FindCtx(c) ==
    /\ call[c].pc = "find"
    /\ \E i \in Lookup(call[c].req) :
          call' = [call EXCEPT ![c].pc = IF i = 0 THEN "insert" ELSE "add",
                               ![c].ctx = i]
    /\ UNCHANGED <<workerVars, tableVars, poolVars, own, ghostVars>>

\* The batch function returns its own array of ids; the single-task function
\* still reads task->task_id.
Recorded(s) == IF s.op = "task" THEN [s EXCEPT !.pc = "readid"] ELSE NoCall

\* pending_count += n through the pointer found before; writing to a context
\* freed in between changes no live context.
AddCtx(c) ==
    LET s == call[c] IN
    /\ s.pc = "add"
    /\ IF Live(s.ctx)
       THEN /\ ctx' = [ctx EXCEPT ![s.ctx].pending_count = @ + s.n]
            /\ faults' = faults
       ELSE /\ ctx' = ctx
            /\ faults' = faults \cup {"stale_write"}
    /\ call' = [call EXCEPT ![c] = Recorded(s)]
    /\ UNCHANGED <<workerVars, req_hash, poolVars, own, ran, freed, notified,
                   fired>>

\* Mutants of NewContext: an index off by one (past the array, or another
\* worker), and the count of a single task for a batch.
NewContextPastEnd(s) == [request_id |-> s.req, worker_idx |-> s.best + 1,
                         pending_count |-> s.n, batch_cb |-> s.cb]
NewContextOtherWorker(s) ==
    [request_id |-> s.req, worker_idx |-> (s.best + 1) % NumWorkers,
     pending_count |-> s.n, batch_cb |-> s.cb]
NewContextCountOne(s) == [request_id |-> s.req, worker_idx |-> s.best,
                          pending_count |-> 1, batch_cb |-> s.cb]

NewContext(s) == [request_id |-> s.req, worker_idx |-> s.best,
                  pending_count |-> s.n, batch_cb |-> s.cb]

InsertCtx(c) ==
    LET s == call[c] IN
    /\ s.pc = "insert"
    /\ ctx' = Append(ctx, NewContext(s))
    /\ req_hash' = req_hash \cup {Len(ctx) + 1}
    /\ call' = [call EXCEPT ![c] = Recorded(s)]
    /\ UNCHANGED <<workerVars, poolVars, own, ghostVars>>

\* No memory for the context.  The batch function logs it and returns its ids
\* all the same; the single-task function writes through the null pointer.
InsertFail(c) ==
    LET s == call[c] IN
    /\ s.pc = "insert" /\ AllocFails
    /\ faults' = faults \cup (IF s.op = "task" THEN {"null_write"} ELSE {})
    /\ call' = [call EXCEPT ![c] = NoCall]
    /\ UNCHANGED <<workerVars, tableVars, poolVars, own, ran, freed, notified,
                   fired>>

\* return task->task_id, when the task may have run and been freed already.
ReadId(c) ==
    LET s == call[c] IN
    /\ s.pc = "readid"
    /\ faults' = faults \cup
          (IF [id |-> s.k, req |-> s.req] \in freed THEN {"stale_task"} ELSE {})
    /\ call' = [call EXCEPT ![c] = NoCall]
    /\ UNCHANGED <<workerVars, tableVars, poolVars, own, ran, freed, notified,
                   fired>>

-----------------------------------------------------------------------------
(* thread_pool_wake_up_worker_by_req_id.                                   *)

Wake(c, r) ==
    /\ call[c].pc = "idle" /\ MayWake(r)
    /\ \E i \in Lookup(r) :
          call' = [call EXCEPT ![c] =
                     IF i = 0 THEN NoCall      \* no context: return -1
                     ELSE [NoCall EXCEPT !.pc = "wderef", !.op = "wake",
                                         !.req = r, !.ctx = i]]
    /\ UNCHANGED <<workerVars, tableVars, poolVars, own, ghostVars>>

\* &handle->workers[ctx->worker_idx], the context no longer protected.  A
\* freed one may hold any number: that of a worker here, any other in Stray.
BoundTo(i) == IF Live(i) THEN {ctx[i].worker_idx} ELSE Workers
StaleRead(i) == IF Live(i) THEN {} ELSE {"stale_read"}

Deref(c) ==
    LET s == call[c] IN
    /\ s.pc \in {"wderef", "cderef"}
    /\ \E w \in BoundTo(s.ctx) :
          call' = [call EXCEPT ![c].best = w,
                     ![c].pc = IF s.pc = "wderef" THEN "wset" ELSE "cremove"]
    /\ faults' = faults \cup StaleRead(s.ctx)
    /\ UNCHANGED <<workerVars, tableVars, poolVars, own, ran, freed, notified,
                   fired>>

\* The number names no worker: what is locked and written lies outside the
\* array, and no part of the pool changes.
Stray(c) ==
    LET s == call[c] IN
    /\ s.pc \in {"wderef", "cderef"} /\ ~Live(s.ctx)
    /\ faults' = faults \cup {"stale_read", "stray"}
    /\ call' = [call EXCEPT ![c] = NoCall]
    /\ UNCHANGED <<workerVars, tableVars, poolVars, own, ran, freed, notified,
                   fired>>

WakeSet(c) ==
    LET s == call[c] IN
    /\ s.pc = "wset" /\ LockFree(s.best)
    /\ pending_req' = [pending_req EXCEPT ![s.best] = s.req]
    /\ thr' = Signal(s.best)
    /\ notified' = [notified EXCEPT ![s.req] = @ + 1]
    /\ call' = [call EXCEPT ![c] = NoCall]
    /\ UNCHANGED <<state, queue, queue_size, tableVars, poolVars, own, ran,
                   freed, fired, faults>>

-----------------------------------------------------------------------------
(* thread_pool_cancel_tasks_by_req.                                        *)

Cancel(c, r) ==
    /\ call[c].pc = "idle" /\ is_running /\ MayCancel(r)
    /\ \E i \in Lookup(r) :
          call' = [call EXCEPT ![c] =
                     IF i = 0 THEN NoCall      \* no context: return 0
                     ELSE [NoCall EXCEPT !.pc = "cderef", !.op = "cancel",
                                         !.req = r, !.ctx = i]]
    /\ UNCHANGED <<workerVars, tableVars, poolVars, own, ghostVars>>

OfReq(w, r) == {t \in queue[w] : t.req = r}

\* Mutant of Removed: the context is updated whatever was removed.
RemovedUnguarded(s, k) == [s EXCEPT !.pc = "cupdate", !.k = k]

\* The context is updated only if something was removed.
Removed(s, k) == IF k > 0 THEN [s EXCEPT !.pc = "cupdate", !.k = k] ELSE NoCall

\* Mutant of SizeAfterCancel: the removed nodes are still counted.
SizeAfterCancelKept(w, k) == queue_size

SizeAfterCancel(w, k) == [queue_size EXCEPT ![w] = @ - k]

CancelQueue(c) ==
    LET s == call[c]
        gone == OfReq(s.best, s.req) IN
    /\ s.pc = "cremove" /\ LockFree(s.best)
    /\ queue' = [queue EXCEPT ![s.best] = @ \ gone]
    /\ queue_size' = SizeAfterCancel(s.best, Cardinality(gone))
    /\ freed' = freed \cup gone
    /\ call' = [call EXCEPT ![c] = Removed(s, Cardinality(gone))]
    /\ UNCHANGED <<state, pending_req, thr, tableVars, poolVars, own, ran,
                   notified, fired, faults>>

\* One critical section: subtract, and at zero unlink and free the context
\* a walk of the chain meets first.
CancelCtx(c) ==
    LET s == call[c] IN
    /\ s.pc = "cupdate"
    /\ IF Live(s.ctx)
       THEN /\ ctx' = [ctx EXCEPT ![s.ctx].pending_count = @ - s.k]
            /\ req_hash' = IF ctx'[s.ctx].pending_count = 0
                           THEN req_hash \ Newest(s.req) ELSE req_hash
            /\ faults' = faults
       ELSE /\ ctx' = ctx
            /\ req_hash' \in {req_hash, req_hash \ Newest(s.req)}
            /\ faults' = faults \cup {"stale_write"}
    /\ call' = [call EXCEPT ![c] = NoCall]
    /\ UNCHANGED <<workerVars, poolVars, own, ran, freed, notified, fired>>

-----------------------------------------------------------------------------
(* worker_routine and worker_process_task.                                 *)

WorkerStart(w) ==
    /\ thr[w].pc = "new"
    /\ state' = [state EXCEPT ![w] = "IDLE"]
    /\ thr' = [thr EXCEPT ![w].pc = "loop"]
    /\ UNCHANGED <<queue, queue_size, pending_req, tableVars, poolVars, call,
                   own, ghostVars>>

\* The head of the loop, the mutex held (again).
AtLoop(w) == thr[w].pc \in {"loop", "woken"}

WorkerWait(w) ==
    /\ AtLoop(w) /\ pending_req[w] = 0 /\ ~is_destroying
    /\ thr' = [thr EXCEPT ![w].pc = "wait"]
    /\ UNCHANGED <<state, queue, queue_size, pending_req, tableVars, poolVars,
                   call, own, ghostVars>>

SpuriousWakeup(w) ==
    /\ thr[w].pc = "wait"
    /\ thr' = [thr EXCEPT ![w].pc = "woken"]
    /\ UNCHANGED <<state, queue, queue_size, pending_req, tableVars, poolVars,
                   call, own, ghostVars>>

WorkerExit(w) ==
    /\ AtLoop(w) /\ pending_req[w] = 0 /\ is_destroying
    /\ state' = [state EXCEPT ![w] = "EXIT"]
    /\ thr' = [thr EXCEPT ![w].pc = "exited"]
    /\ UNCHANGED <<queue, queue_size, pending_req, tableVars, poolVars, call,
                   own, ghostVars>>

\* Mutants of IsFirst (the last task of the request), of Unlink (the node stays
\* in the list) and of Consumed (pending_req is not reset).
IsLast(t, w, r) == /\ t \in OfReq(w, r)
                   /\ \A u \in OfReq(w, r) : t.id >= u.id
UnlinkForgotten(w, t) == queue
ConsumedForgotten(w) == pending_req

\* worker_queue_pop_by_req: the task it returns, and the queue it leaves.
IsFirst(t, w, r) == /\ t \in OfReq(w, r)
                    /\ \A u \in OfReq(w, r) : t.id <= u.id
Unlink(w, t) == [queue EXCEPT ![w] = @ \ {t}]
Consumed(w) == [pending_req EXCEPT ![w] = 0]

WorkerTake(w) ==
    /\ AtLoop(w) /\ pending_req[w] # 0
    /\ \E t \in queue[w] :
          /\ IsFirst(t, w, pending_req[w])
          /\ queue' = Unlink(w, t)
          /\ thr' = [thr EXCEPT ![w] = [pc |-> "run", task |-> t, ctx |-> 0]]
    /\ queue_size' = [queue_size EXCEPT ![w] = @ - 1]
    /\ pending_req' = Consumed(w)
    /\ state' = [state EXCEPT ![w] = "BUSY"]
    /\ UNCHANGED <<tableVars, poolVars, call, own, ghostVars>>

\* Nothing of that request is queued here: the notification is dropped.
WorkerTakeNone(w) ==
    /\ AtLoop(w) /\ pending_req[w] # 0 /\ OfReq(w, pending_req[w]) = {}
    /\ pending_req' = Consumed(w)
    /\ thr' = [thr EXCEPT ![w].pc = "loop"]
    /\ UNCHANGED <<state, queue, queue_size, tableVars, poolVars, call, own,
                   ghostVars>>

\* internal_task_wrapper: the user function, then complete_cb (always told
\* success: the flag is set when the task is built and the result ignored).
WorkerRun(w) ==
    /\ thr[w].pc = "run"
    /\ ran' = ran \cup {thr[w].task}
    /\ thr' = [thr EXCEPT ![w].pc = "find"]
    /\ UNCHANGED <<state, queue, queue_size, pending_req, tableVars, poolVars,
                   call, own, freed, notified, fired, faults>>

WorkerFindCtx(w) ==
    /\ thr[w].pc = "find"
    /\ \E i \in Lookup(thr[w].task.req) :
          thr' = [thr EXCEPT ![w].pc = IF i = 0 THEN "fin" ELSE "dec",
                             ![w].ctx = i]
    /\ UNCHANGED <<state, queue, queue_size, pending_req, tableVars, poolVars,
                   call, own, ghostVars>>

\* Mutants of LastTask: the test comes one task early, or misses zero.
LastTaskEarly(count) == count <= 1
LastTaskMissed(count) == count < 0

\* The test on pending_count after the decrement.
LastTask(count) == count = 0

WorkerDec(w) ==
    LET i == thr[w].ctx IN
    /\ thr[w].pc = "dec"
    /\ IF Live(i)
       THEN /\ ctx' = [ctx EXCEPT ![i].pending_count = @ - 1]
            /\ thr' = [thr EXCEPT ![w].pc =
                          IF LastTask(ctx'[i].pending_count) THEN "cb" ELSE "fin"]
            /\ faults' = faults
       ELSE /\ ctx' = ctx
            /\ \E pc \in {"cb", "fin"} : thr' = [thr EXCEPT ![w].pc = pc]
            /\ faults' = faults \cup {"stale_write"}
    /\ UNCHANGED <<state, queue, queue_size, pending_req, req_hash, poolVars,
                   call, own, ran, freed, notified, fired>>

\* batch_cb, called after req_hash_mutex is released.
WorkerBatchCb(w) ==
    /\ thr[w].pc = "cb"
    /\ fired' = IF ctx[thr[w].ctx].batch_cb
                THEN [fired EXCEPT ![thr[w].task.req] = @ + 1] ELSE fired
    /\ thr' = [thr EXCEPT ![w].pc = "remove"]
    /\ UNCHANGED <<state, queue, queue_size, pending_req, tableVars, poolVars,
                   call, own, ran, freed, notified, faults>>

\* remove_req_context looks the request up again.
WorkerRemoveCtx(w) ==
    /\ thr[w].pc = "remove"
    /\ req_hash' = req_hash \ Newest(thr[w].task.req)
    /\ thr' = [thr EXCEPT ![w].pc = "fin"]
    /\ UNCHANGED <<state, queue, queue_size, pending_req, ctx, poolVars, call,
                   own, ghostVars>>

\* Mutant of Idled: the worker stays BUSY.
IdledForgotten(w) == state

\* worker->state after the task.
Idled(w) == [state EXCEPT ![w] = "IDLE"]

WorkerFinish(w) ==
    /\ thr[w].pc = "fin"
    /\ freed' = freed \cup {thr[w].task}
    /\ state' = Idled(w)
    /\ thr' = [thr EXCEPT ![w] = [NoThread EXCEPT !.pc = "loop"]]
    /\ UNCHANGED <<queue, queue_size, pending_req, tableVars, poolVars, call,
                   own, ran, notified, fired, faults>>

-----------------------------------------------------------------------------
(* thread_pool_destroy, by the owner.  Its callers have stopped.           *)

BeginDestroy ==
    /\ own.pc \in {"ready", "run"} /\ \A c \in Callers : call[c].pc = "idle"
    /\ is_destroying' = TRUE
    /\ own' = [pc |-> "signal", i |-> 0]
    /\ UNCHANGED <<workerVars, tableVars, next_task_id, is_running, call,
                   ghostVars>>

NextOf(pc, after) == IF own.i + 1 < NumWorkers THEN [pc |-> pc, i |-> own.i + 1]
                                               ELSE [pc |-> after, i |-> 0]

ShutdownSignal ==
    /\ own.pc = "signal" /\ LockFree(own.i)
    /\ thr' = Signal(own.i)
    /\ own' = NextOf("signal", "join")
    /\ UNCHANGED <<state, queue, queue_size, pending_req, tableVars, poolVars,
                   call, ghostVars>>

\* A worker whose tid is zero is skipped; a failed one is joined all the same.
Join ==
    /\ own.pc = "join" /\ thr[own.i].pc \in {"none", "failed", "exited"}
    /\ own' = NextOf("join", "free")
    /\ faults' = faults \cup
          (IF thr[own.i].pc = "failed" THEN {"bad_join"} ELSE {})
    /\ UNCHANGED <<workerVars, tableVars, poolVars, call, ran, freed, notified,
                   fired>>

\* destroy_all_workers and destroy_hash_table.
FreePool ==
    /\ own.pc = "free"
    /\ freed' = freed \cup UNION {queue[w] : w \in Workers}
    /\ queue' = [w \in Workers |-> {}]
    /\ queue_size' = [w \in Workers |-> 0]
    /\ req_hash' = {}
    /\ own' = [own EXCEPT !.pc = "done"]
    /\ UNCHANGED <<state, pending_req, thr, ctx, poolVars, call, ran, notified,
                   fired, faults>>

\* The pool is gone: the system may stop here, and nowhere else.
Gone == own.pc = "done" /\ UNCHANGED vars

-----------------------------------------------------------------------------
OwnerStep == \/ CreateWorker \/ CreateFailed \/ AwaitWorker \/ Start
             \/ ShutdownSignal \/ Join \/ FreePool

WorkerStep(w) ==
    \/ WorkerStart(w) \/ WorkerWait(w) \/ WorkerExit(w)
    \/ WorkerTake(w) \/ WorkerTakeNone(w)
    \/ WorkerRun(w) \/ WorkerFindCtx(w) \/ WorkerDec(w)
    \/ WorkerBatchCb(w) \/ WorkerRemoveCtx(w) \/ WorkerFinish(w)

NewCall(c) == \/ SubmitTask(c) \/ SubmitBatch(c)
              \/ \E r \in Reqs : Wake(c, r) \/ Cancel(c, r)

CallStep(c) ==
    \/ Scan(c) \/ AllocFail(c) \/ Attach(c) \/ FindCtx(c) \/ AddCtx(c)
    \/ InsertCtx(c) \/ InsertFail(c) \/ ReadId(c)
    \/ Deref(c) \/ Stray(c) \/ WakeSet(c) \/ CancelQueue(c) \/ CancelCtx(c)

Next == \/ OwnerStep \/ BeginDestroy \/ Gone
        \/ \E w \in Workers : WorkerStep(w) \/ SpuriousWakeup(w)
        \/ \E c \in Callers : NewCall(c) \/ CallStep(c)

\* Threads that can run do run.  Nobody has to begin a call, and the pool
\* need not ever be destroyed.
Fairness == /\ WF_vars(OwnerStep)
            /\ \A w \in Workers : WF_vars(WorkerStep(w))
            /\ \A c \in Callers : WF_vars(CallStep(c))

Spec == Init /\ [][Next]_vars
FairSpec == Spec /\ Fairness

-----------------------------------------------------------------------------
(* Properties.                                                             *)

CallPc == {"idle", "scan", "attach", "find", "add", "insert", "readid",
           "wderef", "wset", "cderef", "cremove", "cupdate"}
OwnPc  == {"create", "await", "ready", "run", "signal", "join", "free", "done"}

CallType == [pc : CallPc, op : {"none", "batch", "task", "wake", "cancel"},
             req : Nat, n : Nat, cb : BOOLEAN, i : Workers,
             best : Workers \cup {NoWorker}, min : Int, ctx : Nat, k : Nat]

\* The type of the state of the pool and of the locals of its functions.
TypeOK ==
    /\ state \in [Workers -> WorkerState]
    /\ queue \in [Workers -> SUBSET Task]
    /\ queue_size \in [Workers -> Int]
    /\ pending_req \in [Workers -> Reqs \cup {0}]
    /\ thr \in [Workers -> ThreadType]
    /\ ctx \in Seq(Context)
    /\ req_hash \subseteq 1 .. Len(ctx)
    /\ next_task_id \in Nat \ {0}
    /\ is_running \in BOOLEAN /\ is_destroying \in BOOLEAN
    /\ call \in [Callers -> CallType]
    /\ own \in [pc : OwnPc, i : Workers]
    /\ ran \subseteq Task /\ freed \subseteq Task
    /\ notified \in [Reqs -> Nat] /\ fired \in [Reqs -> Nat]
    /\ faults \subseteq {"stale_read", "stale_write", "stale_task", "stray",
                         "null_write", "bad_join"}

\* A task is in one place: queued on one worker, or held by one worker thread,
\* or executed or dropped.  So nothing runs twice, runs after it was
\* cancelled, or is cancelled while it runs, whatever the callers do.
TaskOnce ==
    /\ \A v, w \in Workers : v # w => queue[v] \cap queue[w] = {}
    /\ \A w \in Workers : queue[w] \cap (ran \cup freed) = {}
    /\ \A w \in Workers : Running(w) =>
          /\ \A v \in Workers : thr[w].task \notin queue[v]
          /\ \A v \in Workers : v # w /\ Running(v) => thr[v].task # thr[w].task
          /\ thr[w].task \notin freed
    /\ \A w \in Workers : thr[w].pc = "run" => thr[w].task \notin ran

\* worker->queue_size counts the nodes of the list through push, attach, pop
\* and cancel: select_best_worker believes it.
QueueSizeExact == \A w \in Workers : queue_size[w] = Cardinality(queue[w])

\* A worker that is BUSY holds its mutex, so no other thread ever sees BUSY:
\* select_best_worker waits for a running worker instead of comparing loads.
BusyHidden == \A w \in Workers : (state[w] = "BUSY") = Running(w)

\* Every executed task was paid for by a wake-up of its own request.
RunsPaid ==
    \A r \in Reqs \ {0} :
        Cardinality(RanOf(r) \cup InHand(r)) <= notified[r]

\* The tasks of a request execute in the order they were submitted.
InOrder ==
    \A t \in ran, w \in Workers : \A u \in queue[w] :
        t.req = u.req => t.id < u.id

Undecremented(r) == {w \in Workers : /\ thr[w].pc \in {"run", "find", "dec"}
                                     /\ thr[w].task.req = r}
Unsubtracted(r) == {x \in Callers \X (1 .. MaxTaskId) :
                      /\ call[x[1]].pc = "cupdate" /\ call[x[1]].req = r
                      /\ x[2] <= call[x[1]].k}

\* pending_count is the number of tasks still queued, plus those a worker or a
\* cancel has taken and not yet subtracted.
CountExact ==
    \A i \in req_hash :
        LET r == ctx[i].request_id IN
        ctx[i].pending_count = Cardinality(Queued(r))
            + Cardinality(Undecremented(r)) + Cardinality(Unsubtracted(r))

\* A context at zero is on its way out: the worker that counted it down is
\* about to remove it.  Nothing is leaked by a cancel that meets a worker.
NoIdleContext ==
    \A i \in req_hash : ctx[i].pending_count = 0 =>
        \E w \in Workers : thr[w].pc \in {"cb", "remove"} /\ thr[w].ctx = i

\* A queued task can be reached by a wake-up: its request has a context bound
\* to the worker that holds it, once the submit has returned.
NoStranded ==
    \A w \in Workers : \A t \in queue[w] :
        \/ InCall(t.req, {"batch", "task"}) # {}
        \/ \E i \in Newest(t.req) : ctx[i].worker_idx = w

\* No thread writes to a request context that another thread has freed.
NoStaleWrite == "stale_write" \notin faults

\* No thread reads or writes a request context, or a task, that was freed.
NoUseAfterFree == faults \cap {"stale_read", "stale_write", "stale_task"} = {}

\* A worker has a task of the request that it has not settled: its function,
\* the subtraction from the count or the batch callback is still to come.
Settling(r) == \E w \in Workers : /\ thr[w].pc \in {"run", "find", "dec", "cb"}
                                  /\ thr[w].task.req = r

HasBatchCb(r) == \E i \in 1 .. Len(ctx) : ctx[i].request_id = r /\ ctx[i].batch_cb

\* The batch callback is never called twice, nor while a task of the batch is
\* queued or executing; and it has come once every task of the batch ran and
\* is settled.  (When a cancel removes the last tasks it never comes:
\* update_context_after_cancel frees the context without calling it.)
BatchCbOnce ==
    \A r \in Reqs :
        /\ fired[r] <= 1
        /\ fired[r] = 1 => Queued(r) = {} /\ InHand(r) = {}
        /\ HasBatchCb(r) /\ Accepted(r) \subseteq ran /\ ~Settling(r)
           => fired[r] = 1

\* Two requests never share a worker's queue.
ExclusiveWorker ==
    \A w \in Workers : \A t, u \in queue[w] : t.req = u.req

\* Every call returns: no lock order or wait inside the pool can block it.
CallsReturn == \A c \in Callers : (call[c].pc # "idle") ~> (call[c].pc = "idle")

\* thread_pool_destroy returns: no worker misses the shutdown.
DestroyReturns == is_destroying ~> (own.pc = "done")

\* A notification that was set is taken by its worker.
WakeConsumed == \A w \in Workers : (pending_req[w] # 0) ~> (pending_req[w] = 0)

\* Each wake-up of a request leads to the execution of one more of its tasks,
\* unless they are gone (cancelled, or all executed).
NotifiedRuns ==
    \A r \in Reqs : \A k \in 1 .. MaxNotify :
        (notified[r] = k) ~> \/ Cardinality(RanOf(r)) >= k
                            \/ Accepted(r) \subseteq ran \cup freed

-----------------------------------------------------------------------------
(* What the transport relies on: the pool as a service, per request id.    *)

Service == INSTANCE PoolService
           WITH waiting <- UNION {queue[w] : w \in Workers},
                slot <- {r \in Reqs : \E w \in Workers : pending_req[w] = r},
                hand <- {thr[w].task : w \in {v \in Workers : thr[v].pc = "run"}}

\* The pool implements that service: workers, contexts and races included, a
\* request is only ever seen to gain tasks, keep one notification, run its first
\* task and lose what was waiting to a cancel or to the end of the pool.
ImplementsService == Service!Spec

CancelReturns(c, r) ==
    /\ Cancel(c, r) \/ (call[c].op = "cancel" /\ call[c].req = r)
    /\ call'[c].pc = "idle"

\* A cancel that returns has settled the request: nothing of it is queued or
\* executing any more (wait_and_free_sync frees what the tasks point to), unless
\* a submit of it is still in progress.
CancelSettles ==
    [][\A c \in Callers, r \in Reqs :
          CancelReturns(c, r) /\ InCall(r, {"batch", "task"}) = {}
          => Queued(r)' = {} /\ InHand(r)' = {}]_vars

=============================================================================

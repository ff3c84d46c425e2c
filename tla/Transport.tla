------------------------------- MODULE Transport -------------------------------
(***************************************************************************)
(* One sender and one receiver of os_transport.c, each over a worker pool. *)
(*                                                                         *)
(* The receiving application calls os_transport_recv and then asks the     *)
(* sending one, over a channel of its own, to call os_transport_send       *)
(* (test/os_transport_sample.c).  The sender writes the first chunk and    *)
(* registers one task for each other chunk; the receiver registers one     *)
(* copy task per chunk.  Every completed write leaves a completion record  *)
(* (CR) at both ends; the polling thread of an end gives each record to    *)
(* os_transport_wake_up_task, and each wake-up runs the next task there.   *)
(* The calling threads sleep in wait_and_free_sync, which frees what the   *)
(* tasks use.                                                              *)
(*                                                                         *)
(* The pools are PoolService, which ThreadPool implements; this module     *)
(* conjoins its actions, and adds which of them find the context of the    *)
(* request.  Both ends use the same keys in every transfer, so each end    *)
(* has one request, on one worker (the scan for a worker waits for its     *)
(* mutex and finds its queue empty).  A write, its record and its task are *)
(* all named by an id, from which the transfer and the chunk can be told.  *)
(***************************************************************************)
EXTENDS Integers, Sequences, FiniteSets

CONSTANTS
    MaxChunks,   \* bound: chunks of a transfer
    MaxRounds,   \* bound: transfers, one after the other
    Faults,      \* what may fail, or go wrong (see FaultNames)
    Liberties    \* what the applications do beyond the careful use

ASSUME TransferBounds == MaxChunks \in Nat \ {0} /\ MaxRounds \in Nat
\* "alloc": an allocation, but for the context of a request; "context": that
\* one; "post": a write or a receive buffer; "copy": a copy to the device;
\* "lost": a write ends in error; "opcode": a record of an unknown opcode.
FaultKinds == {"alloc", "context", "post", "copy", "lost", "opcode"}

ASSUME FaultNames     == Faults \subseteq FaultKinds
ASSUME LibertyNames   == Liberties \subseteq {"burst", "late_records"}

Ends == {"send", "recv"}

VARIABLES
    waiting, slot, hand,  \* the two pools (PoolService)
    pending_count,   \* by end: of the request's context in the pool's table,
                     \* 0 when it has none
    g_inited,        \* by end: is the library initialised
    app,             \* by end: where the calling thread is
    round, len,      \* by end, the current transfer; by transfer, its chunks
    sync,            \* by end: task_sync_t of the current transfer
    freed,           \* the groups (end, transfer) that were freed
    rbuf,            \* receive buffers posted for the current transfer
    result,          \* by end: what wait_and_free_sync returns
    work,            \* by end: where the task function in hand is
    ctl,             \* the last transfer the receiver asked for
    wire, acks, crs, \* writes under way; writes to confirm; CRs by end
    sent, arrived, copied, event, \* ghost: writes posted, written at the
                     \* receiver, copies issued, events recorded
    overwritten,     \* ghost, by end: a notification was lost in the slot
    trouble          \* ghost: the faults that happened, as <<kind, end>>

poolVars == <<waiting, slot, hand, pending_count>>
appVars  == <<g_inited, app, round, len, rbuf, result, ctl>>
syncVars == <<sync, freed>>
netVars  == <<wire, acks, crs>>
ghosts   == <<sent, arrived, copied, event>>
vars == <<poolVars, appVars, syncVars, work, netVars, ghosts, overwritten, trouble>>

Pool == INSTANCE PoolService WITH Reqs <- Ends

-----------------------------------------------------------------------------
Rounds == 1 .. MaxRounds
Ids    == 0 .. MaxRounds * MaxChunks - 1
IdOf(r, k)  == (r - 1) * MaxChunks + k
RoundOf(id) == id \div MaxChunks + 1
ChunkOf(id) == id % MaxChunks

\* The chunks of the current transfer, and those an end has tasks for: the
\* sender's calling thread writes chunk 0 itself.
Chunks(e)     == {IdOf(round[e], k) : k \in 0 .. len[round[e]] - 1}
TasksOf(e, r) == {[id |-> IdOf(r, k), req |-> e] :
                    k \in (IF e = "send" THEN 1 ELSE 0) .. len'[r] - 1}
total_tasks(e) == IF e = "send" THEN len[round[e]] - 1 ELSE len[round[e]]

NewSync == [request_completed |-> FALSE, completed_tasks |-> 0]
NoWork  == [pc |-> "none", ok |-> TRUE]

TaskOf(e) == CHOOSE t \in hand : t.req = e

Freed(e, r) == <<e, r>> \in freed

\* The worker of the end's request holds its mutex: a task function is executing,
\* or the context is brought up to date after it.
Occupied(e) == work[e].pc # "none"

\* Mutant of Known: every request is in the table.
KnownAlways(e) == TRUE

\* find_req_context.
Known(e) == pending_count[e] # 0

\* What any failure leaves for the record.
Note(kind, e) == trouble' = trouble \cup {<<kind, e>>}

Init ==
    /\ Pool!Init /\ pending_count = [e \in Ends |-> 0]
    /\ g_inited = [e \in Ends |-> FALSE]
    /\ app = [e \in Ends |-> "start"]
    /\ round = [e \in Ends |-> 0] /\ len = [r \in Rounds |-> 0] /\ ctl = 0
    /\ sync = [e \in Ends |-> NewSync] /\ freed = {} /\ rbuf = 0
    /\ result = [e \in Ends |-> "none"]
    /\ work = [e \in Ends |-> NoWork]
    /\ wire = <<>> /\ acks = <<>> /\ crs = [e \in Ends |-> <<>>]
    /\ sent = {} /\ arrived = {} /\ copied = {} /\ event = {}
    /\ overwritten = [e \in Ends |-> FALSE] /\ trouble = {}

-----------------------------------------------------------------------------
(* The library of an end.                                                  *)

\* os_transport_init; a failure undoes what was done before it.
Open(e) ==
    /\ app[e] = "start" /\ ~g_inited[e]
    /\ \/ /\ g_inited' = [g_inited EXCEPT ![e] = TRUE]
          /\ app' = [app EXCEPT ![e] = "ready"]
          /\ trouble' = trouble
       \/ /\ "alloc" \in Faults
          /\ g_inited' = g_inited
          /\ app' = [app EXCEPT ![e] = "closed"]
          /\ Note("alloc", e)
    /\ UNCHANGED <<poolVars, round, len, rbuf, result, ctl, syncVars, work,
                   netVars, ghosts, overwritten>>

\* os_transport_destroy, when the application is through: the workers spend
\* the notification they have and finish their task, the rest is dropped.
Close(e) ==
    /\ app[e] = "stopped" \/ (app[e] = "ready" /\ round[e] = MaxRounds)
    /\ g_inited[e] /\ e \notin slot /\ ~Occupied(e)
    /\ Pool!Cancel(e)
    /\ pending_count' = [pending_count EXCEPT ![e] = 0]
    /\ g_inited' = [g_inited EXCEPT ![e] = FALSE]
    /\ app' = [app EXCEPT ![e] = "closed"]
    /\ UNCHANGED <<round, len, rbuf, result, ctl, syncVars, work, netVars,
                   ghosts, overwritten, trouble>>

-----------------------------------------------------------------------------
(* os_transport_recv and os_transport_send.                                *)

\* Nothing of an earlier transfer with these keys is under way any more.
Drained == /\ wire = <<>> /\ acks = <<>> /\ slot = {} /\ hand = {}
           /\ \A e \in Ends : crs[e] = <<>>

MayStart == Drained \/ "late_records" \in Liberties

\* What the two functions share: split the data, make the sync object and the
\* task group, submit the tasks.  First the tasks are linked ...
Register(e, r) ==
    /\ ~Occupied(e)
    /\ round' = [round EXCEPT ![e] = r]
    /\ sync' = [sync EXCEPT ![e] = NewSync]
    /\ result' = [result EXCEPT ![e] = "none"]
    /\ app' = [app EXCEPT ![e] = "insert"]
    /\ Pool!Accept(e, TasksOf(e, r))
    /\ UNCHANGED pending_count

RecvCall ==
    /\ app["recv"] = "ready" /\ g_inited["recv"]
    /\ round["recv"] < MaxRounds /\ MayStart
    /\ \E n \in 1 .. MaxChunks : len' = [len EXCEPT ![round["recv"] + 1] = n]
    /\ Register("recv", round["recv"] + 1)
    /\ rbuf' = 0
    /\ UNCHANGED <<g_inited, ctl, freed, work, netVars, ghosts, overwritten,
                   trouble>>

\* ... then update_batch_context counts them in the context of the request, or
\* makes one (that the context found is the one counted in is ThreadPool's
\* subject) ...
Registered(e) == [app EXCEPT ![e] = IF e = "recv" THEN "posting" ELSE "first"]

Insert(e) ==
    /\ app[e] = "insert"
    /\ pending_count' = [pending_count EXCEPT ![e] = @ + total_tasks(e)]
    /\ app' = Registered(e)
    /\ UNCHANGED <<waiting, slot, hand, g_inited, round, len, rbuf, result, ctl,
                   syncVars, work, netVars, ghosts, overwritten, trouble>>

\* ... and when it cannot be allocated, the submit returns the ids of the tasks
\* all the same: they stay linked, and the call goes on.
InsertFails(e) ==
    /\ "context" \in Faults /\ app[e] = "insert" /\ pending_count[e] = 0
    /\ app' = Registered(e)
    /\ Note("context", e)
    /\ UNCHANGED <<poolVars, g_inited, round, len, rbuf, result, ctl, syncVars,
                   work, netVars, ghosts, overwritten>>

\* The sender has a request it did not handle yet.
Asked(r) == app["send"] = "ready" /\ g_inited["send"] /\ r = ctl /\ r > round["send"]

\* An allocation before the tasks are linked, or the submit, fails: everything
\* made so far is freed again.
CallFails(e) ==
    /\ "alloc" \in Faults /\ app[e] = "ready" /\ g_inited[e]
    /\ IF e = "recv" THEN round[e] < MaxRounds
       ELSE \E r \in Rounds : Asked(r) /\ len[r] > 1
    /\ app' = [app EXCEPT ![e] = "stopped"]
    /\ Note("alloc", e)
    /\ UNCHANGED <<poolVars, g_inited, round, len, rbuf, result, ctl, syncVars,
                   work, netVars, ghosts, overwritten>>

\* Mutant of AllPosted: one buffer too many.
AllPostedLate(i) == i > len[round["recv"]]

AllPosted(i) == i = len[round["recv"]]

\* One round of the loop that posts a receive buffer for every chunk.
PostRecv ==
    /\ app["recv"] = "posting"
    /\ rbuf' = rbuf + 1
    /\ app' = [app EXCEPT !["recv"] =
                  IF AllPosted(rbuf') THEN "posted" ELSE "posting"]
    /\ UNCHANGED <<poolVars, g_inited, round, len, result, ctl, syncVars, work,
                   netVars, ghosts, overwritten, trouble>>

\* Mutant of Release: the flag is not set.
ReleaseForgotten(e) == sync

\* A failed post releases the thread that will wait.
Release(e) == [sync EXCEPT ![e].request_completed = TRUE]

\* The call returns -1 with a sync object: the application waits for it all
\* the same, or (the sample) gives up and leaks it.
Refused(e) ==
    /\ "post" \in Faults
    /\ sync' = Release(e)
    /\ \E pc \in {"wait", "stopped"} : app' = [app EXCEPT ![e] = pc]
    /\ Note("post", e)
    /\ UNCHANGED <<poolVars, g_inited, round, len, rbuf, result, ctl, freed,
                   work, netVars, ghosts, overwritten>>

PostRecvRefused == app["recv"] = "posting" /\ Refused("recv")

\* The receiver tells the sender, then waits.
AskSender ==
    /\ app["recv"] = "posted"
    /\ ctl' = round["recv"]
    /\ app' = [app EXCEPT !["recv"] = "wait"]
    /\ UNCHANGED <<poolVars, g_inited, round, len, rbuf, result, syncVars, work,
                   netVars, ghosts, overwritten, trouble>>

\* More than one chunk: the tasks of all chunks but the first.
SendCall ==
    \E r \in Rounds :
        /\ Asked(r) /\ len[r] > 1
        /\ len' = len
        /\ Register("send", r)
        /\ UNCHANGED <<g_inited, rbuf, ctl, freed, work, netVars, ghosts,
                       overwritten, trouble>>

\* urma_write_with_notify.
Write(id) == /\ wire' = Append(wire, id)
             /\ sent' = sent \cup {id}

\* send_single_chunk: no task, no sync object.
SendSingle ==
    \E r \in Rounds :
        /\ Asked(r) /\ len[r] = 1
        /\ round' = [round EXCEPT !["send"] = r]
        /\ \/ /\ Write(IdOf(r, 0))
              /\ result' = [result EXCEPT !["send"] = "ok"]
              /\ app' = app /\ trouble' = trouble
           \/ /\ "post" \in Faults
              /\ UNCHANGED <<wire, sent>>
              /\ result' = [result EXCEPT !["send"] = "failed"]
              /\ app' = [app EXCEPT !["send"] = "stopped"]
              /\ Note("post", "send")
        /\ UNCHANGED <<poolVars, g_inited, len, rbuf, ctl, syncVars, work, acks,
                       crs, arrived, copied, event, overwritten>>

\* Mutant of FirstChunk: the calling thread writes a chunk that has a task.
FirstChunkTwo(r) == IdOf(r, 1)

FirstChunk(r) == IdOf(r, 0)

SendFirst ==
    /\ app["send"] = "first"
    /\ Write(FirstChunk(round["send"]))
    /\ app' = [app EXCEPT !["send"] = "wait"]
    /\ UNCHANGED <<poolVars, g_inited, round, len, rbuf, result, ctl, syncVars,
                   work, acks, crs, arrived, copied, event, overwritten, trouble>>

SendFirstRefused == app["send"] = "first" /\ Refused("send")

-----------------------------------------------------------------------------
(* wait_and_free_sync.                                                     *)

Awaited(e) == sync[e].request_completed

\* wait_for_task_complete, up to the unlock.
Wait(e) ==
    /\ app[e] = "wait" /\ Awaited(e)
    /\ app' = [app EXCEPT ![e] = "check"]
    /\ UNCHANGED <<poolVars, g_inited, round, len, rbuf, result, ctl, syncVars,
                   work, netVars, ghosts, overwritten, trouble>>

\* Mutant of Outcome: the counts are not compared.
OutcomeUnchecked(e) == "ok"

\* completed_tasks is read after the unlock.
Outcome(e) == IF sync[e].completed_tasks = total_tasks(e) THEN "ok" ELSE "failed"

Check(e) ==
    /\ app[e] = "check"
    /\ result' = [result EXCEPT ![e] = Outcome(e)]
    /\ app' = [app EXCEPT ![e] = IF Outcome(e) = "ok" THEN "free" ELSE "cancel"]
    /\ UNCHANGED <<poolVars, g_inited, round, len, rbuf, ctl, syncVars, work,
                   netVars, ghosts, overwritten, trouble>>

\* thread_pool_cancel_tasks_by_req: without a context it returns at once.
CancelRest(e) ==
    /\ app[e] = "cancel"
    /\ IF Known(e)
       THEN /\ ~Occupied(e)
            /\ Pool!Cancel(e)
            /\ pending_count' = [pending_count EXCEPT ![e] =
                                    @ - Cardinality(Pool!Of(waiting, e))]
       ELSE UNCHANGED poolVars
    /\ app' = [app EXCEPT ![e] = "free"]
    /\ UNCHANGED <<g_inited, round, len, rbuf, result, ctl, syncVars, work,
                   netVars, ghosts, overwritten, trouble>>

\* free_sync_owned_resources: tasks, arguments, chunks and the sync object.
\* After a failure the application does not go on.
Free(e) ==
    /\ app[e] = "free"
    /\ freed' = freed \cup {<<e, round[e]>>}
    /\ app' = [app EXCEPT ![e] = IF result[e] = "ok" THEN "ready" ELSE "stopped"]
    /\ UNCHANGED <<poolVars, g_inited, round, len, rbuf, result, ctl, sync, work,
                   netVars, ghosts, overwritten, trouble>>

-----------------------------------------------------------------------------
(* The task functions, on a worker thread of the end's pool.               *)

Begin(e) ==
    /\ ~Occupied(e)
    /\ \E t \in Pool!First(e) : Pool!Take(t)
    /\ work' = [work EXCEPT ![e] = [pc |-> "begin", ok |-> TRUE]]
    /\ UNCHANGED <<pending_count, appVars, syncVars, netVars, ghosts, overwritten, trouble>>

\* A notification for a request that has no task left.
Ignore(e) ==
    /\ ~Occupied(e)
    /\ Pool!Ignore(e)
    /\ UNCHANGED <<pending_count, appVars, syncVars, work, netVars, ghosts, overwritten, trouble>>

\* send_task_worker_func: post the write.
WriteChunk ==
    /\ work["send"].pc = "begin"
    /\ \/ /\ Write(TaskOf("send").id)
          /\ work' = [work EXCEPT !["send"].pc = "mark"]
          /\ trouble' = trouble
       \/ /\ "post" \in Faults
          /\ work' = [work EXCEPT !["send"] = [pc |-> "mark", ok |-> FALSE]]
          /\ UNCHANGED <<wire, sent>>
          /\ Note("post", "send")
    /\ UNCHANGED <<poolVars, appVars, syncVars, acks, crs, arrived, copied,
                   event, overwritten>>

\* recv_task_worker_func: issue the copy to the device.
CopyChunk ==
    /\ work["recv"].pc = "begin"
    /\ \/ /\ copied' = copied \cup {TaskOf("recv").id}
          /\ work' = [work EXCEPT !["recv"].pc = "mark"]
          /\ trouble' = trouble
       \/ /\ "copy" \in Faults
          /\ work' = [work EXCEPT !["recv"] = [pc |-> "mark", ok |-> FALSE]]
          /\ copied' = copied
          /\ Note("copy", "recv")
    /\ UNCHANGED <<poolVars, appVars, syncVars, netVars, sent, arrived, event,
                   overwritten>>

\* Mutants of Marked: a failed task is counted; a failed task does not release
\* the waiter.
MarkedAnyway(e, ok) ==
    LET n == sync[e].completed_tasks + 1 IN
    [completed_tasks |-> n,
     request_completed |-> sync[e].request_completed \/ n = total_tasks(e)]
MarkedSilently(e, ok) ==
    LET n == sync[e].completed_tasks + 1 IN
    IF ok THEN [completed_tasks |-> n,
                request_completed |-> sync[e].request_completed \/ n = total_tasks(e)]
    ELSE sync[e]

\* mark_task_group_completed: a failed task releases the waiting thread at once,
\* a successful one when it is the last.
Marked(e, ok) ==
    LET n == sync[e].completed_tasks + 1 IN
    IF ok THEN [completed_tasks |-> n,
                request_completed |-> sync[e].request_completed \/ n = total_tasks(e)]
    ELSE [sync[e] EXCEPT !.request_completed = TRUE]

\* (A sync object that was freed would not be the current one.)
Mark(e) ==
    /\ work[e].pc = "mark"
    /\ sync' = IF RoundOf(TaskOf(e).id) = round[e]
               THEN [sync EXCEPT ![e] = Marked(e, work[e].ok)] ELSE sync
    /\ work' = [work EXCEPT ![e].pc = IF e = "recv" THEN "tail" ELSE "return"]
    /\ UNCHANGED <<poolVars, appVars, freed, netVars, ghosts, overwritten, trouble>>

\* The receiver's function goes on with its argument, which may be gone: then
\* it may see either value of is_last_chunk ...
ReadLast ==
    LET id == TaskOf("recv").id
        is_last_chunk == ChunkOf(id) = len[RoundOf(id)] - 1 IN
    /\ work["recv"].pc = "tail"
    /\ \E last \in IF Freed("recv", RoundOf(id)) THEN BOOLEAN ELSE {is_last_chunk} :
          work' = [work EXCEPT !["recv"].pc = IF last THEN "event" ELSE "return"]
    /\ UNCHANGED <<poolVars, appVars, syncVars, netVars, ghosts, overwritten, trouble>>

\* ... and any event and stream.
RecordEvent ==
    LET r == RoundOf(TaskOf("recv").id) IN
    /\ work["recv"].pc = "event"
    /\ event' \in IF Freed("recv", r) THEN {event, event \cup {r}} ELSE {event \cup {r}}
    /\ work' = [work EXCEPT !["recv"].pc = "return"]
    /\ UNCHANGED <<poolVars, appVars, syncVars, netVars, sent, arrived, copied,
                   overwritten, trouble>>

Return(e) ==
    /\ work[e].pc = "return"
    /\ Pool!Return(TaskOf(e))
    /\ work' = [work EXCEPT ![e].pc = "settle"]
    /\ UNCHANGED <<pending_count, appVars, syncVars, netVars, ghosts,
                   overwritten, trouble>>

\* The rest of worker_process_task: the count goes down in the context, if there
\* is one, which is removed with the last.
Settle(e) ==
    /\ work[e].pc = "settle"
    /\ pending_count' = [pending_count EXCEPT ![e] = IF Known(e) THEN @ - 1 ELSE @]
    /\ work' = [work EXCEPT ![e] = NoWork]
    /\ UNCHANGED <<waiting, slot, hand, appVars, syncVars, netVars, ghosts,
                   overwritten, trouble>>

-----------------------------------------------------------------------------
(* The network and the polling threads.                                    *)

\* Writes take effect in order, and each leaves a record at the receiver.
Deliver ==
    /\ wire # <<>>
    /\ arrived' = arrived \cup {Head(wire)}
    /\ crs' = [crs EXCEPT !["recv"] = Append(@, Head(wire))]
    /\ acks' = Append(acks, Head(wire))
    /\ wire' = Tail(wire)
    /\ UNCHANGED <<poolVars, appVars, syncVars, work, sent, copied, event,
                   overwritten, trouble>>

\* The sender's record of a write that was done.
Acknowledge ==
    /\ acks # <<>>
    /\ crs' = [crs EXCEPT !["send"] = Append(@, Head(acks))]
    /\ acks' = Tail(acks)
    /\ UNCHANGED <<poolVars, appVars, syncVars, work, wire, ghosts, overwritten,
                   trouble>>

\* A write ends in error: the polling thread does not wake anybody for it.
Lose ==
    /\ "lost" \in Faults /\ wire # <<>>
    /\ wire' = Tail(wire)
    /\ Note("lost", "send")
    /\ UNCHANGED <<poolVars, appVars, syncVars, work, acks, crs, ghosts, overwritten>>

\* Mutant of Spent: the record is handled again.
SpentNever(e) == crs

Spent(e) == [crs EXCEPT ![e] = Tail(@)]

\* os_transport_wake_up_task on the next record.  The notification waits for the
\* worker's mutex; the context may be looked up before the worker removes it.  A
\* careful polling thread gives the worker time to take the previous notification.
WakeUp(e) ==
    /\ crs[e] # <<>> /\ g_inited[e] /\ Known(e)
    /\ "burst" \in Liberties \/ e \notin slot
    /\ Pool!Notify(e)
    /\ crs' = Spent(e)
    /\ overwritten' = [overwritten EXCEPT ![e] = @ \/ e \in slot]
    /\ UNCHANGED <<pending_count, appVars, syncVars, work, wire, acks, ghosts,
                   trouble>>

\* The request is not in the pool's table, whatever is queued.
WakeUpNone(e) ==
    /\ crs[e] # <<>> /\ g_inited[e] /\ ~Known(e)
    /\ crs' = Spent(e)
    /\ UNCHANGED <<poolVars, appVars, syncVars, work, wire, acks, ghosts,
                   overwritten, trouble>>

\* The record has an opcode the function does not know.
WakeUpUnknown(e) ==
    /\ "opcode" \in Faults /\ crs[e] # <<>> /\ g_inited[e]
    /\ crs' = Spent(e)
    /\ Note("opcode", e)
    /\ UNCHANGED <<poolVars, appVars, syncVars, work, wire, acks, ghosts,
                   overwritten>>

-----------------------------------------------------------------------------
CallStep(e) ==
    \/ CallFails(e) \/ Insert(e) \/ InsertFails(e) \/ Wait(e) \/ Check(e) \/ CancelRest(e)
    \/ Free(e)
    \/ e = "recv" /\ (PostRecv \/ PostRecvRefused \/ AskSender)
    \/ e = "send" /\ (SendCall \/ SendSingle \/ SendFirst \/ SendFirstRefused)

WorkerStep(e) ==
    \/ Begin(e) \/ Ignore(e) \/ Mark(e) \/ Return(e) \/ Settle(e)
    \/ e = "send" /\ WriteChunk
    \/ e = "recv" /\ (CopyChunk \/ ReadLast \/ RecordEvent)

PollStep(e) == WakeUp(e) \/ WakeUpNone(e) \/ WakeUpUnknown(e)

Next ==
    \/ \E e \in Ends : Open(e) \/ Close(e) \/ CallStep(e) \/ WorkerStep(e) \/ PollStep(e)
    \/ RecvCall \/ Deliver \/ Acknowledge \/ Lose

\* Threads that can run do run, the network moves, records are polled.  Nobody
\* has to start a transfer, or to close the library; nothing has to fail.
Fairness ==
    /\ \A e \in Ends : /\ WF_vars(Open(e)) /\ WF_vars(CallStep(e))
                       /\ WF_vars(WorkerStep(e)) /\ WF_vars(PollStep(e))
    /\ WF_vars(Deliver \/ Lose) /\ WF_vars(Acknowledge)

Spec == Init /\ [][Next]_vars
FairSpec == Spec /\ Fairness

-----------------------------------------------------------------------------
(* Properties.                                                             *)

AppPc == {"start", "ready", "insert", "posting", "posted", "first", "wait", "check",
          "cancel", "free", "stopped", "closed"}

\* The type of the state of both ends and of what is between them.
TypeOK ==
    /\ waiting \cup hand \subseteq [id : Ids, req : Ends] /\ slot \subseteq Ends
    /\ pending_count \in [Ends -> Nat]
    /\ g_inited \in [Ends -> BOOLEAN] /\ app \in [Ends -> AppPc]
    /\ round \in [Ends -> 0 .. MaxRounds] /\ ctl \in 0 .. MaxRounds
    /\ len \in [Rounds -> 0 .. MaxChunks] /\ rbuf \in 0 .. MaxChunks
    /\ sync \in [Ends -> [request_completed : BOOLEAN,
                          completed_tasks : 0 .. MaxChunks]]
    /\ freed \subseteq Ends \X Rounds /\ event \subseteq Rounds
    /\ result \in [Ends -> {"none", "ok", "failed"}]
    /\ work \in [Ends -> [pc : {"none", "begin", "mark", "tail", "event", "return",
                                "settle"}, ok : BOOLEAN]]
    /\ wire \in Seq(Ids) /\ acks \in Seq(Ids) /\ crs \in [Ends -> Seq(Ids)]
    /\ sent \subseteq Ids /\ arrived \subseteq Ids /\ copied \subseteq Ids
    /\ overwritten \in [Ends -> BOOLEAN]
    /\ trouble \subseteq FaultKinds \X Ends

\* The context of a submit of this end could not be allocated.
NoContext(e) == <<"context", e>> \in trouble

\* wait_and_free_sync frees nothing that a task will still use: no task of a
\* freed group is queued, and one in hand is past mark_task_group_completed (what
\* recv_task_worker_func does after that is EventRecorded's subject).  Where a
\* context could not be allocated, a cancel finds no request, drops nothing, and
\* the tasks outlive their group (LostNeverRuns says what becomes of them).
GroupOutlivesTasks ==
    /\ \A t \in waiting : Freed(t.req, RoundOf(t.id)) => NoContext(t.req)
    /\ \A t \in hand : Freed(t.req, RoundOf(t.id)) =>
           work[t.req].pc \in {"tail", "event", "return"} \/ NoContext(t.req)

\* What becomes of tasks whose context could not be allocated: they stay queued
\* after the group they point into is freed, and the worker must never run one,
\* although the records of their transfer still come.
LostNeverRuns == \A t \in hand : ~NoContext(t.req)

\* A chunk is copied to the device only after it was written to the host
\* buffer, although the copy task never looks which chunk has arrived.
CopyAfterArrival == copied \subseteq arrived

Under == Len(wire) + Len(acks) + Len(crs["send"])

\* A transfer has one write under way at a time, and its notification never
\* meets another one in the slot of the sender's pool.
OneInFlight == Under <= 1 /\ ~overwritten["send"]

\* The calling thread posts the first chunk before any task posts another.
FirstChunkFirst == \A id \in sent : IdOf(RoundOf(id), 0) \in sent

\* What wait_and_free_sync (or send_single_chunk) returns is right: success
\* means that a write of every chunk was posted, or a copy issued, and a failure
\* means that one could not be.
ResultHonest ==
    \A e \in Ends :
        /\ result[e] = "ok" => Chunks(e) \subseteq (IF e = "send" THEN sent ELSE copied)
        /\ result[e] = "failed" => \E k \in {"post", "copy"} : <<k, e>> \in trouble

InSend == app["send"] \in {"insert", "first", "wait", "check", "cancel", "free"}

\* A split send returns, whichever of its posts fails, unless a write is lost, the
\* context of its tasks cannot be allocated, or a record has an unknown opcode: the
\* wait has no timeout, and nothing tells it.
SenderReturns ==
    InSend ~> \/ ~InSend
              \/ \E k \in {"lost", "context", "opcode"} : <<k, "send">> \in trouble

\* The receiver's wait returns, whichever of its posts and copies fails, unless a
\* notification was overwritten in its pool, the context of its tasks could not be
\* allocated, a record has an unknown opcode, or the sender fails: nobody tells it.
ReceiverReturns ==
    (app["recv"] = "wait") ~>
        \/ app["recv"] # "wait"
        \/ overwritten["recv"]
        \/ \E k \in {"context", "opcode"} : <<k, "recv">> \in trouble
        \/ \E k \in FaultKinds \ {"copy"} : <<k, "send">> \in trouble

\* The receiver's wait returns if nothing fails.
WaitReturns == (app["recv"] = "wait") ~> (app["recv"] # "wait" \/ trouble # {})

\* When the receiver's wait has returned success, the event of the transfer is
\* recorded, so that synchronising with it waits for all copies.
EventRecorded ==
    app["recv"] \in {"ready", "closed"} /\ result["recv"] = "ok"
        => round["recv"] \in event

=============================================================================

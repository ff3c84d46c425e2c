# A TLA+ model of OS_TRANSPORT

OS_TRANSPORT moves a buffer between two machines over URMA (an RDMA-like
library). A transfer is cut into chunks of 2 MB. The sender posts the first
chunk and leaves the others to a pool of worker threads, one task per chunk;
each completion record (CR) that the application polls wakes the worker of the
request, which posts the next chunk. The receiver does the same with
host-to-device copies. This directory holds TLA+ modules for the system, TLC
configurations that check them, and proofs checked by TLAPS.

Paths below are relative to the repository; TP is
`src/os_transport_thread_pool.c`, OT is `src/os_transport.c`.

## Inventory

| component | state | operations | with whom | what makes it correct |
|---|---|---|---|---|
| worker pool (TP) | 64 workers (mutex, state, queue, `queue_size`, one `pending_req`), hash table of request contexts, `next_task_id`, `is_running`, `is_destroying` | init, start, submit task / batch, wake-up, cancel, destroy; worker threads | called by the transport, runs its tasks | no task lost or run twice, order within a request, every notification runs a task, contexts counted exactly and freed once, calls and destroy return |
| worker task list (TP) | `queue_head`, `queue_tail`, `next` | push, attach a chain, pop first of a request, remove all of a request | inside the pool, under the worker's mutex | head, tail and size agree with the list |
| mock event queue (TP, `TEST_MODE`) | ring buffer, `head`, `tail`, `size`, `cap` | init, push (doubles when full), pop, destroy | pool unit test | FIFO across growth and wrap-around |
| send / receive / wait (OT) | `task_sync_t` (`request_completed`, `total_tasks`, `completed_tasks`), task group, chunks | `os_transport_send`, `os_transport_recv`, the two worker functions, `mark_task_group_completed`, `wait_and_free_sync`, `os_transport_wake_up_task` | URMA, CUDA, the pool, the application's polling thread | the waiter is released after the last task, nothing is used after it frees the group, all chunks are sent / copied |
| chunk splitting and user data (OT) | none | `common_split_chunks`, `build_write_info`, `construct_send_task_arg` | send, receive, wake-up (decodes the request id) | chunks tile the buffer; fields survive their bit widths |
| library lifecycle (OT) | `g_inited`, handle | init, reg_jfc, destroy | application | one initialisation at a time; nothing leaked on failure |
| URMA work requests (`src/os_transport_urma.c`) | none | fill a work request, call URMA | external library | - |
| logging (`include/os_transport_thread_pool_internal.h`) | none | format, syslog | - | - |

What is hard in this code: a worker holds its mutex while it runs a task; the
pointer to a request context is used after the table's mutex is released; a
notification is one word that the next one overwrites; workers are selected
under a lock that is released before the tasks are linked; the application's
wake-ups and cancels come at any time; allocation and thread creation may fail.
`PROJECT.json` lists each such place with the property that would catch it.

## Modules

| module | what it is |
|---|---|
| `ThreadPool`, `MCThreadPool` | the pool: state, actions, fairness, properties; the TLC instance (symmetry of the calling threads) |
| `PoolService` | what the pool promises for each request: abstract, no workers and no locks |
| `ThreadPoolProofs` | theorems about `ThreadPool` that hold whatever the callers do, and `ExclusiveWorker` |
| `ThreadPoolRequestProofs` | the context of a request: `CountExact`, `NoStaleWrite` |
| `ThreadPoolServiceProofs` | what a request gets: callback, order, reachable tasks, a cancel that settles; `ThreadPool` implements `PoolService`; which callers never make it use freed memory |
| `Transport`, `MCTransport` | a sender and a receiver of `os_transport.c`, composed with one `PoolService` per end and with the completion records between them |
| `TransportProofs` | what holds of `Transport` whatever the applications do |
| `TransportFlightProofs` | one transfer after the other: one write in flight, data before its tasks, honest results |
| `TaskList`, `MCTaskList` | the linked list of one worker, node by node |
| `TaskQueue` | what that list is for: a sequence of tasks |
| `TaskListProofs` | the pointers of the list, and that `TaskList` implements `TaskQueue` |
| `MockEventQueue` | the ring buffer of the test build; TLC runs it as it is |
| `EventFifo` | what that ring is for |
| `MockEventQueueProofs` | the ring's invariant and its refinement |
| `SendChunks`, `MCSendChunks`, `SendChunksProofs` | the arithmetic of a send: the split, the words of each write, what a polling thread reads back |

How they fit together: `Transport` conjoins actions of `PoolService`;
`ThreadPool` implements `PoolService` (for ids that are submitted once by proof;
for one id that is submitted again, as `Transport` does in each transfer, in the
run `PoolReuse`); `ThreadPool` sees the queue of a worker as a set of tasks with ordered ids, which is what `TaskList` shows the pointers to
be (as the sequence of `TaskQueue`).

### ThreadPool: state and grain

| model | code |
|---|---|
| `state`, `queue`, `queue_size`, `pending_req` | the fields of `WorkerThread` |
| `thr[w]` | where worker thread `w` is in `worker_routine` / `worker_process_task`, its task and its context pointer |
| `ctx`, `req_hash` | every `RequestContext` ever allocated, and which of them are in the table. A pointer is an index, so a freed context is recognised: index not in `req_hash` |
| `call[c]` | the pool function that thread `c` is in, with its arguments and locals |
| `own` | the thread that creates, starts and destroys the pool |
| `ran`, `freed`, `notified`, `fired`, `faults` | ghosts: executed tasks, freed tasks, wake-ups delivered, batch callbacks, invalid accesses |

One action is one critical section, or one piece of code between two of them.
A worker holds `worker->mutex` from the end of `pthread_cond_wait` to the next
one, so its steps from `WorkerTake` to `WorkerFinish` exclude every other use of
that mutex (`LockFree`), and are separate steps because other threads work on
the hash table and on other workers meanwhile. Whatever the code reads under one
lock and uses after it (the context pointer, the selected worker, the number of
removed tasks) is a field of `call` or `thr`, used by a later action: these are
the races the runs explore. Access to a freed context is recorded in `faults`
and its outcome is any the memory could give: a stale `worker_idx` is any worker
(`Deref`) or none (`Stray`: what is locked and written then lies outside the
array, and nothing of the pool changes), a stale count is zero or not.

| actions | code |
|---|---|
| `CreateWorker`, `CreateFailed`, `AwaitWorker`, `Start` | `thread_pool_init` (`create_worker`, `create_all_workers`), `thread_pool_start` |
| `SubmitTask`, `SubmitBatch`, then `Scan`, `AllocFail`, `Attach`, `FindCtx`, `AddCtx`, `InsertCtx`, `InsertFail`, `ReadId` | the two submit functions: `select_best_worker` one worker at a time, node construction, attach, context |
| `Wake`, `Deref` or `Stray`, `WakeSet` | `thread_pool_wake_up_worker_by_req_id` |
| `Cancel`, `Deref` or `Stray`, `CancelQueue`, `CancelCtx` | `thread_pool_cancel_tasks_by_req` |
| `WorkerStart`, `WorkerWait`, `SpuriousWakeup`, `WorkerExit`, `WorkerTake`, `WorkerTakeNone` | `worker_routine`, `worker_queue_pop_by_req` |
| `WorkerRun`, `WorkerFindCtx`, `WorkerDec`, `WorkerBatchCb`, `WorkerRemoveCtx`, `WorkerFinish` | `internal_task_wrapper`, `worker_process_task`, `remove_req_context` |
| `BeginDestroy`, `ShutdownSignal`, `Join`, `FreePool` | `thread_pool_destroy` |

Abstractions. A queue is a set of tasks (the list is always in id order for one
request, and only "first of a request" and "all of a request" are ever asked).
Task ids are taken in the step that links the tasks: the code takes them a
little earlier, and skips some when a later allocation fails; an id is only
ever a label. The hash table is a set; `hash_req_id` and the chains only decide
which context a lookup meets first, which is the one inserted last. Functions
of the application (tasks, callbacks) always return and do not call the pool:
a callback that did would wait for the mutex its own thread holds.
`is_destroying` is read without its mutex by the workers; it only goes from
false to true, and a step reads it atomically.

What the callers do is a parameter. With `Liberties = {}` any number of threads
use the pool with care: one submit is in progress at a time, a request id is
submitted once, its wake-ups start after the submit returned, never outnumber
its tasks, wait for the previous one to be taken and do not come during a cancel,
and a cancel comes when nothing of the request is going on. Each liberty drops
one rule:

| liberty | meaning | who does it |
|---|---|---|
| `race` | several submits at once | an application with several transfers |
| `burst` | a wake-up before the previous one was taken | a poller that drains several CRs; `test/test_thread_pool.c` `test_many` |
| `extra_wake` | more wake-ups than tasks | the sender: n writes, n CRs, n - 1 tasks |
| `early_wake` | a wake-up while the submit is still running | a fast remote side |
| `cancel_race` | a cancel at any moment, and wake-ups during it | `wait_and_free_sync` after a failed chunk |
| `reuse` | the id submitted again once the functions of its tasks returned | an application with constant keys, as `test/os_transport_sample.c`: `wait_and_free_sync` returns when the last task was counted in `task_sync_t`, before the worker counts it in the context |
| `overlap` | the id submitted again while its tasks are queued | two transfers with one key |

Nobody submits, wakes or cancels once the destroy began.

### PoolService and its implementation

A request has tasks `waiting`, at most one task in `hand`, and one `slot` for a
notification. `Notify` fills the slot (a second notification is lost), `Take`
spends it on the first waiting task, `Ignore` drops it when none is waiting,
`Cancel` drops what is waiting, `Close` drops everything. `Notify` and `Cancel`
wait for the task in hand, as the mutex of the worker makes them do.

`ThreadPool` implements it (`ImplementsService`, at the end of `ThreadPool.tla`)
with the mapping: `waiting` is the union of the queues, `slot` the set of
requests found in a `pending_req`, `hand` the tasks of the threads at "run".
Everything else (selection, contexts, lookups, the count) is a stutter. It is
checked where each request lives on one worker: one request with all races
(`PoolRequest`), one whose id is submitted again (`PoolReuse`), and two requests of
callers that keep the rules but for early wake-ups (`PoolContract`). When two submitters select the same worker
(TP:483), a notification of one request replaces that of the other, which
`PoolService` does not allow; see "also seen" below. With one request a resubmitted
id is safe because `select_best_worker` scans worker 0 first and waits for its
mutex, which the worker holds until it removed the context; with two requests
the scan may find another worker vacant, and the context of the old one is kept
("also seen"). The promise that a filled
slot is emptied is checked on `ThreadPool` itself (`WakeConsumed`,
`NotifiedRuns`).

### Transport

Each end (`"send"`, `"recv"`) has an application thread, a worker that serves
the one request, and a polling thread.

| model | code |
|---|---|
| `app[e]` | where the calling thread is: in `os_transport_send` or `os_transport_recv`, in `wait_and_free_sync`, or between transfers |
| `round`, `len` | the transfer an end is in; the number of chunks of each transfer |
| `sync[e]` | `task_sync_t`: `request_completed`, `completed_tasks` |
| `freed` | the task groups that `free_sync_owned_resources` freed, so that a later use is recognised |
| `waiting`, `slot`, `hand` | the pools of both ends; the request of an end is named by the end |
| `pending_count[e]` | of the context of the end's request; 0 when the table has none (`Known`) |
| `work[e]` | where the task function in hand is, and whether it succeeded so far |
| `wire`, `acks`, `crs` | writes posted, writes done and not yet confirmed, completion records not yet polled |
| `ctl` | the last transfer the receiver asked the sender for (the TCP channel of the sample) |
| `g_inited` | the flag of the library, by end |
| `sent`, `arrived`, `copied`, `event`, `overwritten`, `trouble` | ghosts: chunks written, delivered and copied, CUDA events recorded, a notification lost in a slot, failures so far |

| actions | code |
|---|---|
| `Open`, `Close` | `os_transport_init`, `os_transport_destroy` |
| `RecvCall`, `PostRecv`, `PostRecvRefused`, `AskSender` | `os_transport_recv`, one receive buffer at a time; the request to the sender |
| `SendCall`, `SendFirst`, `SendFirstRefused`, `SendSingle` | `os_transport_send`, split or not |
| `Insert`, `InsertFails` | `update_batch_context`, after `RecvCall` or `SendCall` linked the tasks; without memory for the context the call goes on all the same |
| `CallFails` | an allocation before the tasks are linked, or the submit, fails; everything made so far is freed |
| `Wait`, `Check`, `CancelRest`, `Free` | `wait_and_free_sync`: `completed_tasks` is read after the unlock, the rest is cancelled (nothing, when the request has no context), then all is freed |
| `Begin`, `WriteChunk`, `CopyChunk`, `Mark`, `ReadLast`, `RecordEvent`, `Return`, `Settle`, `Ignore` | a worker and the two task functions; the receiver's goes on after it released the waiter; `Settle` counts the task in the context |
| `Deliver`, `Acknowledge`, `Lose` | URMA: a write takes effect and leaves a record at both ends, or ends in error |
| `WakeUp`, `WakeUpNone`, `WakeUpUnknown` | `os_transport_wake_up_task` on the next record, with the request in the pool's table or not, or with an opcode it does not know |

Abstractions. A task, its write and its record are named by one id, from which
the transfer and the chunk can be told; only ghosts and `len` look at it, the
code's decisions do not. Writes take effect in the order they were posted and a
record of a write comes to the sender after the write was done. Keys are
constants, as in the sample, so every transfer of an end is the same request. A
careful application starts a transfer when nothing of the one before is under
way (`Drained`); the liberty `late_records` drops this, and `burst` lets the
polling thread give several records to the pool before a worker runs. When a
call returns -1 with a sync object, the application waits for it or gives up;
after a failure it starts no other transfer. `Faults` names what may fail:
`alloc` (all allocations but one), `context` (that one: the context of a request),
`post` (URMA refuses a work request), `copy` (`cudaMemcpyAsync`), `opcode` (a record
of another kind reaches `os_transport_wake_up_task`), `lost` (a write ends in error, and the polling loop drops its records, as
`test/os_transport_sample.c` does). A freed argument is read with any outcome:
`is_last_chunk` may be either value.

### TaskList and MockEventQueue

In `TaskList` an address is a model value that `malloc` may hand out again;
`op` holds the mutex and the locals of a walk (`pop`, `cancel`, `destroy`),
`batch` the locals of a batch built without the mutex. One step is one round of
a loop. Under the mapping to `TaskQueue` the contents are those of the list when
the mutex is free, and those it had when the mutex was taken (`before`) until it
is released. In `MockEventQueue` each function is one critical section, thus one
step; a new array holds nothing that may be read. A capacity of zero, which
would make the ring divide by zero, is excluded by an assumption: the test
passes 64.

### SendChunks

`req` holds the arguments of `os_transport_send`, `chunks` the array that
`common_split_chunks` fills (one round of its loop per step), `posted` the
writes in the order they are posted: the first by the calling thread, with the
words of `build_write_info`, the others by the tasks, with the words of
`construct_send_task_arg`. A word is a number in which the four bit fields are
cut to their widths; `RequestIdOf` is the extraction of
`os_transport_wake_up_task`. The widths and the chunk size are constants.
`Abandon` stands for every failure (allocation, refused post): nothing more is
posted. When the tasks run, and what a failure does to the waiting thread, is
not part of this module. The first chunk of a split transfer is labelled
NOT_SPLIT by the code, and the model does the same; nothing reads that label.

## Runs

Passing runs:

| run | question | instance | distinct states |
|---|---|---|---|
| `PoolRequest` (`MCThreadPool`) | the life of one request with everything happening at once: `CountExact`, `NoStaleWrite`, `NoIdleContext`, `BatchCbOnce`, `InOrder`, `ImplementsService`, `CancelSettles`, and under `FairSpec` `CallsReturn`, `WakeConsumed`, `DestroyReturns` | 1 request, 3 tasks in batches or singly, 3 threads, 2 workers, 3 wake-ups, all liberties except resubmission, thread creation may fail | 145 thousand |
| `PoolChaos` (`MCThreadPool`) | what holds whatever the callers do: `TypeOK`, `TaskOnce`, `QueueSizeExact`, `BusyHidden`, `RunsPaid` | 1 request, 2 threads, single tasks and batches, ids reused and overlapping, allocations fail | 3.2 million |
| `PoolContract` (`MCThreadPool`) | careful callers get the full service: `NotifiedRuns`, `ExclusiveWorker`, `NoUseAfterFree`, `ImplementsService` | 2 requests, 3 threads, 4 tasks in batches, 2 wake-ups each, `early_wake` | 332 thousand |
| `PoolReuse` (`MCThreadPool`) | an id that is submitted again: `CountExact`, `NoStranded`, `NoStaleWrite`, `ImplementsService` | 1 request, 3 threads, 4 tasks, `reuse`, `burst`, `extra_wake` | 297 thousand |
| `Transfer` (`MCTransport`) | a transfer is safe and its waits end: `TypeOK`, `GroupOutlivesTasks`, `LostNeverRuns`, `CopyAfterArrival`, `OneInFlight`, `ResultHonest`, `SenderReturns`, `ReceiverReturns` | 2 transfers of 1 to 3 chunks, every fault, bursts | 596 thousand |
| `TaskList` (`MCTaskList`) | the pointers: `TypeOK`, `EndsAgree`, `NodesOwned`, `ImplementsQueue` | 4 addresses, 2 requests, 4 tasks, batches of up to 3 | 357 thousand |
| `EventQueue` (`MockEventQueue`) | the ring: `RingOK`, `ImplementsFifo` | 2 events, capacity 1 growing to 8, 5 in the queue | 27 thousand |
| `Chunks` (`MCSendChunks`) | `Tiles`, `WordsDecode`, `LastMarked` | chunks of 3 bytes, lengths 1 to 13, 3 values per field (so `chunk_id` wraps) | 6 thousand |

The bounds. Two workers are enough for every branch of the selection (first
vacant, second vacant, none) and for two threads to meet on one; three calling
threads let a submit, a wake-up and a cancel of one request overlap; a batch of
three has a first, a middle and a last task; two wake-ups show the overwritten
slot. Submits of two requests that race (`race` with more than one request) are
in no run: what they break is under "also seen", and what survives them
(`CountExact`, `NoStaleWrite`, `NoStranded`, `NoUseAfterFree`) is proved below.
A transfer of three chunks has a first chunk (written by the caller), one whose
record wakes the next, and a last one; the second transfer meets what the first
left behind. Four nodes let a walk remove the first, a middle, the last and
adjacent nodes, beside a batch that is being built, and addresses are used
again. The ring grows three times, with and without its contents wrapped.
`MaxTaskId`, `MaxNotify`, `MaxRounds` and `MaxSize` only bound the number of
calls.

Deadlock is checked in the runs of the pool, the list, the ring and the split:
the only state without a step other than stuttering is the one where the pool
(or the list) is gone, `Gone`. It is not checked in the runs of `Transport`,
where the system may stop: an end whose library is closed does nothing, and a
wait has no timeout, so a receiver whose sender failed sleeps forever. Which
waits must end is the subject of the three liveness properties.

Runs that show a disagreement between a statement of the repository and the
code; each statement is quoted in `PROJECT.json`:

| run | what TLC finds |
|---|---|
| `LastCompletion` | a wake-up that comes after the last task was taken reads a freed context (TP:435) |
| `TransferHang` | two records polled before the receiver's worker runs: one notification is overwritten, one chunk is never copied, and `wait_and_free_sync` sleeps forever although nothing failed (TP:437) |
| `EventLate` | the receiver's wait returns success before the CUDA event of the transfer is recorded (OT:385) |
| `StaleRecord` | the last record of a transfer (n records, n - 1 tasks) wakes the first task of the next transfer with the same keys, which posts chunk 1 before chunk 0 (OT:837). That the receiver may then copy chunk 0 before it arrived is a consequence; the trace ends before |

Also seen, without a run of their own. With an instance that shows it:

- two submitters select the same idle worker, and a wake-up of one request
  overwrites that of the other (TP:483): `NotifiedRuns` with one worker, two
  callers, requests 1 and 2, and the liberty `race`;
- an id is submitted again while its worker still counts the last task, and
  another worker is vacant: the new task is queued there and counted in the
  context of the old worker (`update_batch_context` does not compare the two), so
  that no wake-up or cancel finds it (TP:616): `NoStranded` with two workers, one
  caller, requests 1 and 2, batches of one task, 3 tasks, the liberty `reuse`;
- the context of a request cannot be allocated, which the submit does not report,
  and a post fails: the cancel finds no request and drops nothing (TP:728), and the
  group is freed under its queued tasks: `GroupOutlivesTasks` without `NoContext`,
  one transfer, the faults `context` and `post`;
- the same failure at the sender, and nothing else: no record wakes the tasks and
  the wait never ends (TP:659): `SenderReturns` without its exception for
  `context`, one transfer of two chunks, the fault `context`;
- request id 0 cannot be notified, 0 means nothing pending (TP:262):
  `NotifiedRuns` with `Reqs = {0}` and the liberty `burst` (a careful caller never
  sees that the notification was taken);
- a single task that is woken before its submit returned may have run and been
  freed when the submit reads its id (TP:501): `NoUseAfterFree` with the liberty
  `early_wake`;
- with every worker waiting for a notification of queued tasks a submit is
  refused, instead of taking the shortest queue (TP:173): one worker, two
  requests.

By reading: `thread_pool_destroy` frees queued tasks that were never run, where
its header says it waits for them (TP:265, modelled by `FreePool`); `chunk_id`
has 6 bits and wraps at 64, so it does not stay equal to the task index as
OT:425 says; `complete_cb` is always told success (TP:98); the `malloc` of the
context in `thread_pool_submit_task` is not checked (TP:491, modelled by
`InsertFail`); a batch whose context cannot be allocated is reported as
submitted (TP:659, modelled by `InsertFail`, and by `InsertFails` in
`Transport`); when a cancel removes the last tasks of a batch, the batch
callback is never called (TP:704-716, modelled by `CancelCtx`); the tid of a
worker whose creation failed is joined if it is not zero (TP:749, modelled by
`Join`); the status of a record is not looked at by `os_transport_wake_up_task`
(OT:827), only by the application's polling loop.

### Fairness

`FairSpec` asks weak fairness of each worker thread, of each call in progress
and of the owner: a thread that can run does run, and a mutex that stays free
is eventually obtained. It asks nothing of the callers: no call has to begin,
no wake-up has to be sent, the pool need not be destroyed. Spurious wake-ups
are possible but not required.

In `Transport`, `FairSpec` asks weak fairness of each end's calling thread once
it is in a call, of its worker and of its polling thread, of `os_transport_init`
and of the network (a write is delivered or ends in error, a delivered one is
confirmed). It does not ask that a transfer starts, that the library is closed,
that anything fails or that nothing fails. `SenderReturns` and `ReceiverReturns`
name the failures after which a wait may not end: a write that is lost, a context
that cannot be allocated, a record of an unknown opcode, and for the receiver
also an overwritten notification and a sender that failed. Whatever else fails
(posts, copies, other allocations of its own), an end returns from its wait.

## Proofs

`ThreadPoolProofs` proves, for any number of workers, callers, requests and
tasks, any liberty and with failures:

- `TypeCorrect`: `Spec => []TypeOK`. The inductive invariant is `TypeInv`, which
  adds `LocalsOK`: a call that is about to use its worker, its context or its
  request has one, and a thread that runs a task has a task. Without it
  `call[c].best` could be "no worker" when it is used as an index.
- `TaskOnceHolds`: `Spec => []TaskOnce`. The inductive invariant adds
  `IdsBelow`: every task known anywhere has an id below `next_task_id`, so the
  tasks a submit links are new.
- `BusyHiddenHolds`: `Spec => []BusyHidden`. It adds `Uncreated`: workers that
  the owner has not created yet have no thread and are in state INIT.
- `QueueSizeHolds`: `Spec => []QueueSizeExact`. The queues are finite, a submit
  adds exactly as many new tasks as it counts (from `IdsBelow`), and a pop or a
  cancel removes tasks that are there.
- `RunsPaidHolds`: `Spec => []RunsPaid`. `PaidInv` counts, for each request, the
  tasks begun and the notifications not yet read against the wake-ups delivered:
  a worker that takes a task empties its `pending_req` in the same step.
- `ExclusiveWorkerHolds`: `OneSubmitter /\ Spec => []ExclusiveWorker`, for any number
  of threads that wake and cancel meanwhile. It adds `Alone` (one submit is in
  progress at most) and `AtVacant`: the worker a submit has chosen is still empty
  when the tasks are linked, because BUSY is never seen and nobody else links tasks.

The next theorems have hypotheses on the callers, each of which some runs and
programs meet and others do not; a theorem names the ones it needs and no more:

| hypothesis | meaning | why it is there |
|---|---|---|
| `SubmitOnce` | neither `reuse` nor `overlap` in `Liberties`; every other liberty, any number of threads | an id submitted again may be counted in the context of another worker, or in one that is about to be removed ("also seen" above). One request alone may be submitted again: run `PoolReuse` |
| `~AllocFails` | no allocation fails | a context that cannot be allocated leaves tasks nobody can wake (TP:659) |
| `0 \notin Reqs` | no request id is 0 | 0 means nothing pending (TP:262) |
| `[][NoOverwrite]_vars` | no wake-up replaces another request's notification | two submitters may choose the same worker (TP:483) |
| `OneSubmitter` | `race` is not in `Liberties`: submits do not overlap; any number of threads | two submits may choose the same worker (TP:483) |
| `Polite` | `Liberties` within `race`, `burst`, `early_wake`, and with `early_wake` no single-task submits | each rule it keeps is needed: a wake-up too many reads a freed context (TP:435, run `LastCompletion`), and so does one that meets a cancel; a cancel of a running task does the same (TP:733); an id submitted again meets the old context (TP:616); a single task woken early is freed under its submit (TP:501) |

`ThreadPoolRequestProofs`, with allocations and thread creations that may fail:

- `CountExactHolds`, `NoStaleWriteHolds`: `SubmitOnce /\ Spec => []CountExact` and
  `[]NoStaleWrite`. `CountExact` alone is not inductive: nothing in it says that a
  call which holds a context pointer holds the right one. The invariant
  `RequestInv` adds what each call knows at each place of its code (`CallInv`),
  that a request has one context at most (`OneContext`), that a context is freed
  only when its request has nothing left to count (`FreedSettled`), that all of a
  request happens at the worker its context names (`Home`), that the context a
  worker holds is that of its task (`Holds`), and that the pool is taken down
  when nobody uses it (`Shutdown`). `Remembered` says a context is never made for
  a request nobody submitted. Most steps are `Calm`: they bring up nothing new,
  and one lemma (`CalmTable`) deals with all of them.

`ThreadPoolServiceProofs`, from that invariant (`Base`):

- `NoIdleContextHolds`, `BatchCbOnceHolds` and `InOrderHolds` (with `OrderInv`: what
  waits has higher ids than what began): `SubmitOnce /\ Spec => []...`. For the
  callback, `CallbackInv` says that it belongs to a request with nothing left to
  run, hence at most once, and `DueInv` that a context with a callback leaves the
  table only after the call or when a task of its request was taken away without
  executing: hence it has come once all tasks ran and are settled. When a cancel
  removes the last tasks it never comes, and the theorem does not say it does.
- `NoStrandedHolds` and the action property `CancelSettlesHolds`:
  `SubmitOnce /\ ~AllocFails /\ Spec => ...`, with `BoundInv`: queued tasks
  without a context belong to a submit that is about to make it.
- `RefinesService`: `SubmitOnce /\ 0 \notin Reqs /\ Spec /\ [][NoOverwrite]_vars =>
  ImplementsService`. Each step of the pool is one step of `PoolService` or leaves
  `Service!vars` alone; one lemma per step that is not a stutter (`ServiceTake`,
  `ServiceNotify`, ...). `RefinesServiceAlone` is the case of one request id with
  any number of threads, where there is nothing to overwrite (run `PoolRequest`).
- `NoUseAfterFreeHolds`: `Polite /\ Spec => []NoUseAfterFree`, for
  any number of threads, workers and requests and with allocations that fail. The
  inductive invariant `PoliteInv` says what the calls rely on while they are in
  progress (`CallsCare`: a cancel and a single-task submit meet nothing else of
  their request; no task of a request that is being woken was dropped), that a task
  is executed before its thread goes on (`RanHeld`), that a cancel that took tasks
  removes the context before it returns (`NotDropped`), and that the wake-ups
  delivered and under way are no more than the tasks (`Wakes`). With `PaidInv`, a
  wake-up under way then has a task that has not begun, so its context is alive.
  The transport breaks three of these rules: its sender gets one wake-up too many
  (run `LastCompletion`), it submits its id again (run `PoolReuse`), and after a
  failed chunk `wait_and_free_sync` cancels beside a running task, so that the
  cancel may read a context the worker has just freed. What holds of that cancel
  all the same is `CancelSettlesHolds` (nothing of the request is left when it
  returns) and `NoStaleWriteHolds` (no count is written in a freed context).

`TaskListProofs`, for any finite set of addresses, any requests, tasks and batch
sizes, with a `malloc` that may fail and may hand out an address again:

- `TypeCorrect`, `EndsAgreeHolds`, `NodesOwnedHolds`: `Spec => []TypeOK`,
  `[]EndsAgree`, `[]NodesOwned`. `EndsAgree` alone is not inductive: it speaks of the
  list while the mutex is free, and what a walk removes depends on `curr` and `prev`
  being neighbours in it. The invariant `Shape` names the list as a function `f` from
  1..n to nodes (`Chain`: distinct nodes, each pointing at the next, the last at NULL)
  and the chain of a batch under construction as `g`, says that the two share no node
  and that every allocated node is in one of them (`Heap`), that head, tail and size
  are those of `f` (`Ends`), that a walk stands at a place of it with `prev` one place
  before (`WalkAt`), and that the batch ends where its tail says (`Building`). The
  lemmas `ChainJoin`, `ChainAppend` and `ChainDrop` are the three things the code does
  to pointers. What following `next` yields is a recursive function; that it is `f`
  (`ChainAlong`) is proved by the least place where it would differ.
- `RefinesQueue`: `Spec => ImplementsQueue`. A walk is many steps, and one step of the
  queue. `QueueInv` carries what the last of them needs: `Walked` knows, for each node
  that is left, its place in the list the walk began with, that these places are in
  order and are all but those of the removed tasks (`Taken`), which are the tasks of
  the request before the place where the walk stands. So a pop that removes a node
  removes the first of its request, a cancel that reaches the end has removed all of
  them, and the others keep their order. `Batched` says that a batch is of one
  request. `QueueAdd` serves both `worker_queue_push` and the attach of a batch.

`MockEventQueueProofs`, for every initial capacity and number of events:

- `RingHolds`: `Spec => []RingOK` (inductive as it stands), and `RefinesFifo`:
  `Spec => ImplementsFifo`. Both rest on three lemmas about places less than one
  turn from the head (`OneTurn`, `Apart`, `NextPlace`): a push writes no element
  that is in the queue, a pop moves every place by one, a growth unwinds the ring.

`SendChunksProofs` proves, for every chunk size, address, length and field width:

- `TilesHolds`: `Spec => []Tiles`. The inductive invariant `SplitInv` says that
  `chunks[k]` and `posted[k]` carry chunk k - 1 of the formula, and how many
  there are; the tiling follows from the bounds of the rounded-up division.
- `WordsDecodeHolds`: `Spec => []WordsDecode`, from the same invariant: the low
  fields of the word stay below the weight of the request id, so the division
  returns it.
- `LastMarkedHolds`: `Spec => []LastMarked`. For this `PostedInOrder` also fixes the
  type in the word of each write; it sits below the other fields (`MarkDecodes`),
  and the chunk that is labelled last is the last by the rounding of the split.

`TransportProofs` proves, for any number of chunks and transfers, every fault and
both liberties (so also with records of an earlier transfer still under way):

- `TypeCorrect`: `Spec => []TypeOK`. It needs the same invariant as the next one:
  `completed_tasks` stays in its range only because no task is counted twice.
- `GroupOutlivesTasksHolds`: `Spec => []GroupOutlivesTasks`. That the calling
  thread frees only when nobody will use the group is not inductive: a worker may
  have taken a task that it has not counted. The inductive invariant `IInv` adds
  `CountOK`, the sum of the tasks counted, queued and in a worker's hand but not
  yet counted, which no step raises above the tasks of the group: so when
  `Check` reads a full count, nothing is left. The other way to `Free` is the
  cancel, which drops what is queued and waits for the worker, if it finds the
  context; `Accounted` says that it does: `pending_count` is at least the number of
  tasks queued and in the worker's hand, unless the context could not be allocated
  (`NoContext`, the case the property excepts; see "also seen" for why it must).
  `Settled` says that either way nothing is left when the group is freed, and until
  the next call. `Current` says that what is left belongs to the transfer in
  progress, `RoundsOK` that the two ends agree on which one that is and that it is
  not freed yet, and `HandOK` that an end has one task in hand at most. The theorem
  rests on what `PoolService` promises: a cancel that finds the request has let the
  running task finish when it returns, which `PoolRequest` checks of `ThreadPool`
  (`CancelSettles`).

`TransportFlightProofs`, for any number of chunks and transfers, bursts and every
fault, under the hypothesis `Patient` (`late_records` is not among the liberties:
an end starts a transfer only when nothing of the one before is under way; run
`StaleRecord` shows what happens otherwise):

- `OneInFlightHolds`: `Patient /\ Spec => []OneInFlight`. A write is at each moment
  in one place only: on the wire, an acknowledgement, a record in a queue of either
  end, a notification not yet read, a task that begins. `FlightInv` bounds the sum
  of these by one (`Flight`), says that nothing is there before the first write of
  a transfer (`Still`), and how far apart the two ends may be (`Turns`): a sender in
  the next transfer has a receiver that is done with the last one.
- `CopyAfterArrivalHolds`: `Patient /\ Spec => []CopyAfterArrival`. `StreamInv` says
  that after n arrivals it is chunks 1..n that arrived, that the write under way
  carries the next one (`Carrying`: it has the id of the task that posts it), and
  `CopyInv` that the receiver has begun no more tasks than it handled records.
- `ResultHonestHolds`: `Patient /\ Spec => []ResultHonest`. `Check` reads a count, and
  a count says nothing of which chunks it counted. `ReportInv` says that a chunk of
  the transfer is done, waits in the queue or is in hand (`Accounted`), or the end is
  `Short`: tasks were dropped, and the count cannot be reached any more. With
  `CountOK`, a full count leaves nothing queued or in hand, so every chunk is done.
  `FirstOut` says that the sender's worker has nothing to do before the first write.
- `LostNeverRunsHolds`: `Patient /\ Spec => []LostNeverRuns`. Tasks whose context could
  not be allocated stay queued after their group is freed; that
  no worker ever takes one is what keeps this a leak. `LostInv` follows such a call
  to its end: a call that begins when nothing is under way finds no notification of
  its request, without a context none comes, so no task of it is counted, its wait
  does not return success, and the application starts no other transfer (`Halted`).

The assumptions are those on the constants, which TLC evaluates in every run: in
`Transport` `TransferBounds` (a transfer has room for a chunk); in
`ThreadPool` at least one worker and bounds and request ids in Nat; in
`TaskList` that NULL is no address (`NullIsNone`) and that memory is finite
(`FiniteNodes`: a list that goes on for ever has no last node); in
`SendChunks` a chunk size that fits the field `chunk_size` (2^21 < 2^24 in the
code) and non-empty fields; in `MockEventQueue` an initial capacity above zero.

Only model-checked:

- all liveness properties: the prover handles neither fairness nor ENABLED.
  `NotifiedRuns`, `WakeConsumed`, `CallsReturn`, `DestroyReturns`, `SenderReturns`,
  `ReceiverReturns`. Every invariant, action property and refinement of the passing
  runs is proved, under the hypotheses stated above;
- `NotifiedRuns`, also as a statement about two requests: it assumes one submit at a
  time, `ExclusiveWorker` being what it rests on;
- the pool with ids that are submitted again (`PoolReuse`): the proofs of `CountExact`,
  `NoStranded`, `NoStaleWrite` and of the refinement assume `SubmitOnce`;
- that these hypotheses are needed: the runs that expect a violation, and the
  instances under "also seen".

## Plan

Done: the pool, its service and the refinement; the transport over it; the list
and the ring with their refinements; the split; proofs of all that is not a
liveness property. Left, in order of importance:

1. A proof that one request may be submitted again (`PoolReuse` for every value of the
   constants): its argument is that the request stays on worker 0.
2. Several requests at one end of `Transport`, with different keys: one context
   and one worker for each, and a polling thread that serves all of them.
3. That the contents of a worker's `TaskList`, seen as a set, are the `queue` of
   `ThreadPool`: the two are related by their specifications only, `TaskQueue` on
   one side and the ids of `ThreadPool` on the other.

## Not modelled

Concurrent calls of `os_transport_init` (OT:635) and `os_transport_reg_jfc`,
which checks its arguments and stores nothing; the two ends of `Transport` never
share a process, so `g_inited` is one flag per end. The fields of the work
requests in `src/os_transport_urma.c` other than the two words. Several
transfers at once between the same two ends: they would share the request, which
`ThreadPool` covers with the liberty `overlap`. `mock_event_queue_destroy`
and a failed `malloc` in the mock queue. Logging; the samples and tests, which
were read for how the library is used. Memory exhaustion in `thread_pool_init`
(returns NULL before anything exists) and failures of `pthread_mutex_init` of
the pool, which the code ignores.

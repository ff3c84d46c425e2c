-------------------------------- MODULE TaskList --------------------------------
(***************************************************************************)
(* The list of tasks of one worker, with its nodes: queue_head,            *)
(* queue_tail, queue_size and the next pointers, through                   *)
(* worker_queue_push, build_batch_nodes / attach_nodes_to_worker,          *)
(* worker_queue_pop_by_req, cancel_in_worker_queue and destroy_worker.     *)
(*                                                                         *)
(* A batch is built in private, without the worker's mutex, while the list *)
(* is used by others; the operations on the list exclude each other.  One  *)
(* step is one round of a loop.  Freed nodes go back to the allocator,     *)
(* which may hand them out again.                                          *)
(***************************************************************************)
EXTENDS Integers, Sequences, FiniteSets

CONSTANTS Nodes,      \* the addresses malloc can return
          Null,
          Reqs,
          MaxBatch,   \* bound: tasks in a batch
          MaxTaskId   \* bound: tasks ever created

ASSUME NullIsNone == Null \notin Nodes
ASSUME FiniteNodes == IsFiniteSet(Nodes)
ASSUME ListBounds == MaxBatch \in Nat /\ MaxTaskId \in Nat

VARIABLES
    live, task, next,  \* the allocated nodes, and the fields of every node
    queue_head, queue_tail, queue_size,
    op,                \* the operation that holds the mutex, and its locals
    batch,             \* the batch being built, and its locals
    task_id,           \* ids given out so far
    before,            \* ghost: the list when the operation took the mutex
    ret                \* ghost: what the last pop or cancel returned

heap == <<live, task, next>>
list == <<queue_head, queue_tail, queue_size>>
vars == <<heap, list, op, batch, task_id, before, ret>>

Pointer == Nodes \cup {Null}
NoTask  == [id |-> 0, req |-> 0]
Task    == [id : 1 .. MaxTaskId, req : Reqs]
NoOp    == [pc |-> "none", req |-> 0, prev |-> Null, curr |-> Null, removed |-> 0]
NoBatch == [pc |-> "none", req |-> 0, left |-> 0, head |-> Null, tail |-> Null,
            created |-> 0]

Unlocked == op.pc = "none"

Init ==
    /\ live = {} /\ task = [n \in Nodes |-> NoTask] /\ next = [n \in Nodes |-> Null]
    /\ queue_head = Null /\ queue_tail = Null /\ queue_size = 0
    /\ op = NoOp /\ batch = NoBatch /\ task_id = 0
    /\ before = <<>> /\ ret = [task |-> NoTask, n |-> 0]

\* The nodes from one pointer on, in order.
From(p) ==
    LET at[k \in 0 .. Cardinality(Nodes)] ==
            IF k = 0 THEN p
            ELSE IF at[k - 1] = Null THEN Null ELSE next[at[k - 1]]
        size == Cardinality({k \in DOMAIN at : at[k] # Null})
    IN  [k \in 1 .. size |-> at[k - 1]]

NodesFrom(p) == {From(p)[k] : k \in DOMAIN From(p)}
Listed == [k \in DOMAIN From(queue_head) |-> task[From(queue_head)[k]]]

\* A new node with its task, last in the chain that ends with `tail'.
NewNode(n, r) ==
    /\ n \notin live /\ task_id < MaxTaskId
    /\ live' = live \cup {n}
    /\ task_id' = task_id + 1
    /\ task' = [task EXCEPT ![n] = [id |-> task_id + 1, req |-> r]]

LinkAfter(tail, n) ==
    IF tail = Null THEN [next EXCEPT ![n] = Null]
                   ELSE [next EXCEPT ![n] = Null, ![tail] = n]

-----------------------------------------------------------------------------
\* worker_queue_push: a single task.
Push(r) ==
    /\ Unlocked
    /\ \E n \in Nodes :
          /\ NewNode(n, r)
          /\ next' = LinkAfter(queue_tail, n)
          /\ queue_head' = IF queue_tail = Null THEN n ELSE queue_head
          /\ queue_tail' = n
    /\ queue_size' = queue_size + 1
    /\ UNCHANGED <<op, batch, before, ret>>

StartBatch(r, k) ==
    /\ batch.pc = "none" /\ op.pc # "gone"
    /\ batch' = [NoBatch EXCEPT !.pc = "build", !.req = r, !.left = k]
    /\ UNCHANGED <<heap, list, op, task_id, before, ret>>

\* create_batch_node, and its link to the private chain.
BuildNode ==
    /\ batch.pc = "build" /\ batch.left > 0
    /\ \E n \in Nodes :
          /\ NewNode(n, batch.req)
          /\ next' = LinkAfter(batch.tail, n)
          /\ batch' = [batch EXCEPT !.head = IF batch.tail = Null THEN n ELSE @,
                                    !.tail = n, !.left = @ - 1, !.created = @ + 1]
    /\ UNCHANGED <<list, op, before, ret>>

\* No memory: the nodes made so far are freed again.
BuildFails ==
    /\ batch.pc = "build" /\ batch.left > 0
    /\ batch' = [batch EXCEPT !.pc = "undo"]
    /\ UNCHANGED <<heap, list, op, task_id, before, ret>>

\* free: what a freed node holds does not matter.
FreeNode(n) == /\ live' = live \ {n}
               /\ task' = [task EXCEPT ![n] = NoTask]

UndoNode ==
    /\ batch.pc = "undo"
    /\ IF batch.head = Null
       THEN batch' = NoBatch /\ UNCHANGED heap
       ELSE /\ batch' = [batch EXCEPT !.head = next[batch.head]]
            /\ FreeNode(batch.head)
            /\ next' = [next EXCEPT ![batch.head] = Null]
    /\ UNCHANGED <<list, op, task_id, before, ret>>

\* Mutant of NewTail: queue_tail is set to the head of the chain.
NewTailHead == batch.head

\* The end of the chain, that the submit function finds by walking it.
NewTail == From(batch.head)[Len(From(batch.head))]

\* attach_nodes_to_worker.
Attach ==
    /\ batch.pc = "build" /\ batch.left = 0 /\ Unlocked
    /\ next' = IF queue_tail = Null THEN next
               ELSE [next EXCEPT ![queue_tail] = batch.head]
    /\ queue_head' = IF queue_tail = Null THEN batch.head ELSE queue_head
    /\ queue_tail' = NewTail
    /\ queue_size' = queue_size + batch.created
    /\ batch' = NoBatch
    /\ UNCHANGED <<live, task, op, task_id, before, ret>>

-----------------------------------------------------------------------------
\* worker_queue_pop_by_req and cancel_in_worker_queue walk from the head.
StartWalk(pc, r) ==
    /\ Unlocked
    /\ op' = [NoOp EXCEPT !.pc = pc, !.req = r, !.curr = queue_head]
    /\ before' = Listed
    /\ UNCHANGED <<heap, list, batch, task_id, ret>>

AtNode(pc) == op.pc = pc /\ op.curr # Null
Hit == task[op.curr].req = op.req

Skip ==
    /\ AtNode("pop") \/ AtNode("cancel")
    /\ ~Hit
    /\ op' = [op EXCEPT !.prev = op.curr, !.curr = next[op.curr]]
    /\ UNCHANGED <<heap, list, batch, task_id, before, ret>>

\* Mutant of TailAfter: the tail stays when the last node is removed.
TailKept == queue_tail

TailAfter == IF op.curr = queue_tail THEN op.prev ELSE queue_tail

\* Mutant of HeadAfter: the head moves on although a node before stays.
HeadAlwaysMoved == next[op.curr]

HeadAfter == IF op.prev = Null THEN next[op.curr] ELSE queue_head

\* Unlink the current node, and free it.
Unlink ==
    /\ next' = IF op.prev = Null THEN [next EXCEPT ![op.curr] = Null]
               ELSE [next EXCEPT ![op.prev] = next[op.curr], ![op.curr] = Null]
    /\ queue_head' = HeadAfter
    /\ queue_tail' = TailAfter
    /\ FreeNode(op.curr)

Unlock == op' = NoOp /\ before' = <<>>

\* The task found is handed to the worker: the walk ends.
PopHit ==
    /\ AtNode("pop") /\ Hit
    /\ Unlink /\ Unlock
    /\ queue_size' = queue_size - 1
    /\ ret' = [task |-> task[op.curr], n |-> 1]
    /\ UNCHANGED <<batch, task_id>>

\* A removed node does not become prev: the walk goes on behind it.
CancelHit ==
    /\ AtNode("cancel") /\ Hit
    /\ Unlink
    /\ op' = [op EXCEPT !.curr = next[op.curr], !.removed = @ + 1]
    /\ UNCHANGED <<queue_size, batch, task_id, before, ret>>

\* Mutant of SizeAfter: a walk that finds nothing counts one task.
SizeAfterAlways == queue_size - op.removed - 1

SizeAfter == queue_size - op.removed

\* The end of the list: nothing found, or everything removed.
WalkEnds ==
    /\ op.pc \in {"pop", "cancel"} /\ op.curr = Null
    /\ queue_size' = SizeAfter
    /\ ret' = [task |-> NoTask, n |-> op.removed]
    /\ Unlock
    /\ UNCHANGED <<heap, queue_head, queue_tail, batch, task_id>>

\* destroy_worker: no caller is left.  The list itself is not reset.
StartDestroy ==
    /\ Unlocked /\ batch.pc = "none"
    /\ op' = [NoOp EXCEPT !.pc = "destroy", !.curr = queue_head]
    /\ before' = Listed
    /\ UNCHANGED <<heap, list, batch, task_id, ret>>

DestroyNode ==
    /\ AtNode("destroy")
    /\ op' = [op EXCEPT !.curr = next[op.curr]]
    /\ FreeNode(op.curr)
    /\ next' = [next EXCEPT ![op.curr] = Null]
    /\ UNCHANGED <<list, batch, task_id, before, ret>>

DestroyEnds ==
    /\ op.pc = "destroy" /\ op.curr = Null
    /\ op' = [NoOp EXCEPT !.pc = "gone"]
    /\ before' = <<>>
    /\ UNCHANGED <<heap, list, batch, task_id, ret>>

Gone == op.pc = "gone" /\ UNCHANGED vars

Next ==
    \/ \E r \in Reqs : \/ Push(r) \/ StartWalk("pop", r) \/ StartWalk("cancel", r)
                       \/ \E k \in 1 .. MaxBatch : StartBatch(r, k)
    \/ BuildNode \/ BuildFails \/ UndoNode \/ Attach
    \/ Skip \/ PopHit \/ CancelHit \/ WalkEnds
    \/ StartDestroy \/ DestroyNode \/ DestroyEnds \/ Gone

Spec == Init /\ [][Next]_vars

-----------------------------------------------------------------------------
\* The type of the nodes, the list and the locals.
TypeOK ==
    /\ live \subseteq Nodes
    /\ task \in [Nodes -> Task \cup {NoTask}] /\ next \in [Nodes -> Pointer]
    /\ queue_head \in Pointer /\ queue_tail \in Pointer /\ queue_size \in Nat
    /\ op \in [pc : {"none", "pop", "cancel", "destroy", "gone"},
               req : Reqs \cup {0}, prev : Pointer, curr : Pointer, removed : Nat]
    /\ batch \in [pc : {"none", "build", "undo"}, req : Reqs \cup {0}, left : Nat,
                  head : Pointer, tail : Pointer, created : Nat]
    /\ task_id \in 0 .. MaxTaskId

\* Head, tail and size agree with the nodes whenever the mutex is free: the
\* next push links its node behind queue_tail without looking at the list.
EndsAgree ==
    Unlocked =>
        LET s == From(queue_head) IN
        /\ queue_size = Len(s)
        /\ queue_tail = IF s = <<>> THEN Null ELSE s[Len(s)]

\* Every allocated node is in the list or in the batch under construction, and
\* in one of them only; neither holds a freed node.  So nothing leaks (a batch
\* that fails half-way included) and no walk reads freed memory.
NodesOwned ==
    LET listed == IF op.pc = "destroy" THEN NodesFrom(op.curr)
                  ELSE IF op.pc = "gone" THEN {} ELSE NodesFrom(queue_head)
    IN  /\ live = listed \cup NodesFrom(batch.head)
        /\ listed \cap NodesFrom(batch.head) = {}

\* What other threads see of the list: it changes when the mutex is released.
Contents == IF op.pc = "gone" THEN <<>> ELSE IF Unlocked THEN Listed ELSE before

Queue == INSTANCE TaskQueue WITH items <- Contents

\* The linked list implements the queue: nothing is lost, duplicated or
\* reordered by a walk, whichever nodes match and whatever is attached next.
ImplementsQueue == Queue!Spec

=============================================================================

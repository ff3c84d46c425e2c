----------------------- MODULE ThreadPoolRequestProofs -----------------------
(***************************************************************************)
(* Theorems about the requests of ThreadPool when no request id is used    *)
(* for a second submit: for every number of workers, callers, requests and *)
(* tasks, however early, often or late the wake-ups and cancels come, and  *)
(* with allocations and thread creations that fail.                        *)
(***************************************************************************)
EXTENDS ThreadPoolProofs

\* Nobody submits a request id again that was accepted.
SubmitOnce == "reuse" \notin Liberties /\ "overlap" \notin Liberties

SubmitPc == {"scan", "attach", "find", "add", "insert", "readid"}

\* A wake-up or a cancel that found a context of its request.
FoundPc == {"wderef", "wset", "cderef", "cremove", "cupdate"}

\* Every context a request ever had, freed or not.
ContextsOf(r) == {i \in 1 .. Len(ctx) : ctx[i].request_id = r}

\* Nothing of the request is left that pending_count counts.
Settled(r) == Queued(r) = {} /\ Undecremented(r) = {} /\ Unsubtracted(r) = {}

Quitted(w) == thr[w].pc \in {"none", "failed", "exited"}

(***************************************************************************)
(* What a call knows about its request at each place of its code.  A       *)
(* submit is the only one of its request, so it finds no context and makes *)
(* one; a wake-up or a cancel may hold a freed context, but then nothing   *)
(* of the request is left.                                                 *)
(***************************************************************************)
CallInv(s) ==
    /\ s.pc # "add"
    /\ s.op \in {"batch", "task"} <=> s.pc \in SubmitPc
    /\ s.op = "cancel" <=> s.pc \in {"cderef", "cremove", "cupdate"}
    /\ s.pc \in SubmitPc => s.n \in 1 .. MaxTaskId
    /\ s.pc \in {"scan", "attach"} => Accepted(s.req) = {}
    /\ s.pc \in {"scan", "attach", "find", "insert"} => ContextsOf(s.req) = {}
    /\ s.pc \in {"find", "insert"} =>
          /\ Cardinality(Queued(s.req)) = s.n
          /\ \A w \in Workers : w # s.best => OfReq(w, s.req) = {}
    /\ s.pc \in FoundPc => ContextsOf(s.req) # {}
    /\ s.pc \in FoundPc \ {"wset"} => s.ctx \in ContextsOf(s.req)
    /\ s.pc \in {"wset", "cremove"} =>
          \A i \in ContextsOf(s.req) : s.best = ctx[i].worker_idx \/ Settled(s.req)
    /\ s.pc = "cupdate" => /\ s.k \in 1 .. MaxTaskId
                           /\ Queued(s.req) = {} /\ InHand(s.req) = {}

CallsOK == \A c \in Callers : CallInv(call[c])

OneSubmit == \A c, d \in Callers :
    call[c].pc \in SubmitPc /\ call[d].pc \in SubmitPc /\ call[c].req = call[d].req
        => c = d

\* The pool is only taken down when nobody calls it, and when all threads left.
Shutdown ==
    /\ own.pc \notin {"ready", "run"} => \A c \in Callers : call[c].pc = "idle"
    /\ own.pc = "join" => \A w \in Workers : w < own.i => Quitted(w)
    /\ own.pc \in {"free", "done"} => \A w \in Workers : Quitted(w)

\* A request has one context at most, and without one none of its tasks runs.
OneContext == \A i, j \in 1 .. Len(ctx) : ctx[i].request_id = ctx[j].request_id => i = j

Unbound == \A r \in Reqs : ContextsOf(r) = {} =>
    \A w \in Workers : /\ r # 0 => pending_req[w] # r
                       /\ Running(w) => thr[w].task.req # r

\* A context is freed only when nothing is left to count.
FreedSettled == \A i \in 1 .. Len(ctx) : i \notin req_hash => Settled(ctx[i].request_id)

Few == \A r \in Reqs : Cardinality(Queued(r)) <= MaxTaskId /\ IsFiniteSet(Unsubtracted(r))

\* All of a request happens at the worker its context names.
Home == \A i \in 1 .. Len(ctx) : \A w \in Workers : w # ctx[i].worker_idx =>
    /\ OfReq(w, ctx[i].request_id) = {}
    /\ Running(w) => thr[w].task.req # ctx[i].request_id
    /\ pending_req[w] = ctx[i].request_id /\ pending_req[w] # 0
          => Settled(ctx[i].request_id)

\* The context a worker holds is that of its task; from "cb" on, the task was
\* the last one.
Holds == \A w \in Workers :
    /\ thr[w].pc \in {"dec", "cb", "remove"} => thr[w].ctx \in ContextsOf(thr[w].task.req)
    /\ thr[w].pc \in {"cb", "remove"} => Settled(thr[w].task.req)

TableInv == OneContext /\ Unbound /\ FreedSettled /\ Few /\ Home /\ Holds /\ CountExact

\* The pool never forgets: a request that has a context has, or had, tasks.
Remembered == \A r \in Reqs : ContextsOf(r) # {} => Accepted(r) # {}

RequestInv == SubmitOnce /\ CallsOK /\ OneSubmit /\ Shutdown /\ TableInv

-----------------------------------------------------------------------------
(* Queues and contexts of a request.                                       *)

\* A queued task of a request is in some worker's list.
LEMMA QueuedDef ==
  ASSUME NEW r
  PROVE  \A t : t \in Queued(r) <=> \E w \in Workers : t \in OfReq(w, r)
  BY DEF Queued, OfReq

\* Queues, and the threads that still have to count down, are finite.
LEMMA QueuedFinite ==
  ASSUME TypeInv, NEW r
  PROVE  /\ IsFiniteSet(Queued(r)) /\ Cardinality(Queued(r)) \in Nat
         /\ IsFiniteSet(Undecremented(r)) /\ Cardinality(Undecremented(r)) \in Nat
PROOF
  <1> DEFINE Q == {queue[w] : w \in Workers}
  <1>1. IsFiniteSet(Workers)
    <2>1. 0 \in Int /\ NumWorkers - 1 \in Int
      BY PoolSize
    <2> QED BY <2>1, FS_Interval DEF Workers
  <1>2. queue \in Surjection(Workers, Q)
    BY DEF TypeInv, TypeOK, Surjection
  <1>3. IsFiniteSet(Q)
    BY <1>1, <1>2, FS_Surjection
  <1>4. \A S \in Q : IsFiniteSet(S)
    BY DEF TypeInv, LocalsOK
  <1>5. IsFiniteSet(UNION Q)
    BY <1>3, <1>4, FS_UNION
  <1>6. Queued(r) \subseteq UNION Q
    BY DEF Queued
  <1>7. IsFiniteSet(Queued(r))
    BY <1>5, <1>6, FS_Subset
  <1>8. Undecremented(r) \subseteq Workers
    BY DEF Undecremented
  <1>9. IsFiniteSet(Undecremented(r))
    BY <1>1, <1>8, FS_Subset
  <1> QED BY <1>7, <1>9, FS_CardinalityType

\* A context names a request and a worker.
LEMMA ContextType ==
  ASSUME TypeInv
  PROVE  \A i \in 1 .. Len(ctx) : ctx[i] \in Context /\ ctx[i].request_id \in Reqs
                                  /\ ctx[i].worker_idx \in Workers
PROOF
  <1>1. \A i \in 1 .. Len(ctx) : ctx[i] \in Context
    BY ElementOfSeq DEF TypeInv, TypeOK
  <1> QED BY <1>1 DEF Context

\* What a cancel has still to subtract: one element for each task it took.
LEMMA BlockCount ==
  ASSUME NEW c, NEW k \in Nat, k # 0
  PROVE  IsFiniteSet({c} \X (1 .. k)) /\ Cardinality({c} \X (1 .. k)) = k
PROOF
  <1>1. IsFiniteSet(1 .. k) /\ Cardinality(1 .. k) = k
    <2>1. 1 \in Int /\ k \in Int
      OBVIOUS
    <2> QED BY <2>1, FS_Interval
  <1>2. IsFiniteSet({c}) /\ Cardinality({c}) = 1
    BY FS_Singleton
  <1>3. /\ IsFiniteSet({c} \X (1 .. k))
        /\ Cardinality({c} \X (1 .. k)) = Cardinality({c}) * Cardinality(1 .. k)
    BY <1>1, <1>2, FS_Product
  <1> QED BY <1>1, <1>2, <1>3

\* A walk of the chain meets the one context of the request, if it is there.
LEMMA NewestOne ==
  ASSUME TypeInv, OneContext, NEW r
  PROVE  Newest(r) = ContextsOf(r) \cap req_hash
PROOF
  <1>1. req_hash \subseteq 1 .. Len(ctx) /\ Len(ctx) \in Nat
    BY LenProperties DEF TypeInv, TypeOK
  <1>2. \A i, j \in req_hash : ctx[i].request_id = r /\ ctx[j].request_id = r => i = j
    BY <1>1 DEF OneContext
  <1>3. \A i \in req_hash : i \in Int
    BY <1>1
  <1>4. ASSUME NEW i \in Newest(r) PROVE i \in ContextsOf(r) \cap req_hash
    BY <1>1, <1>4 DEF Newest, ContextsOf
  <1>5. ASSUME NEW i \in ContextsOf(r) \cap req_hash PROVE i \in Newest(r)
    <2>1. ctx[i].request_id = r /\ i \in req_hash
      BY DEF ContextsOf
    <2>2. ASSUME NEW j \in req_hash, ctx[j].request_id = r PROVE j <= i
      BY <1>2, <1>3, <2>1, <2>2
    <2> QED BY <2>1, <2>2 DEF Newest
  <1> QED BY <1>4, <1>5

\* What a lookup returns.
LEMMA LookupOne ==
  ASSUME TypeInv, OneContext, NEW r, NEW i \in Lookup(r)
  PROVE  /\ i = 0 => ContextsOf(r) \cap req_hash = {}
         /\ i # 0 => i \in ContextsOf(r) \cap req_hash
PROOF
  <1>1. 0 \notin ContextsOf(r)
    BY LenProperties DEF ContextsOf, TypeInv, TypeOK
  <1> QED BY <1>1, NewestOne DEF Lookup

-----------------------------------------------------------------------------
(* Steps that add nothing to a request.                                    *)

\* What the thread of a worker may do: wait, move on in its task, or end it.
Moved(w) ==
    \/ thr'[w] = thr[w]
    \/ (~Running(w) \/ thr[w].pc = "fin") /\ ~Running(w)'
    \/ /\ Running(w) /\ Running(w)' /\ thr'[w].task = thr[w].task
       /\ thr'[w].pc = "run" => thr[w].pc = "run"
       /\ thr'[w].pc \in {"run", "find", "dec"} => thr[w].pc \in {"run", "find", "dec"}
       /\ thr'[w].pc \in {"dec", "cb", "remove"}
             => thr'[w].ctx \in ContextsOf(thr[w].task.req)
       /\ thr'[w].pc \in {"cb", "remove"}
             => thr[w].pc \in {"cb", "remove"} \/ Settled(thr[w].task.req)'

SameContexts ==
    /\ Len(ctx') = Len(ctx)
    /\ \A i \in 1 .. Len(ctx) : /\ ctx'[i].request_id = ctx[i].request_id
                                /\ ctx'[i].worker_idx = ctx[i].worker_idx

\* A notification is taken, or set for a request at its worker.
Notifies(w) ==
    \/ pending_req'[w] \in {pending_req[w], 0}
    \/ /\ ContextsOf(pending_req'[w]) # {}
       /\ \A i \in ContextsOf(pending_req'[w]) :
             w = ctx[i].worker_idx \/ Settled(pending_req'[w])

Shrinks ==
    /\ SameContexts
    /\ \A w \in Workers : queue'[w] \subseteq queue[w]
    /\ \A w \in Workers : Moved(w) /\ Notifies(w)
    /\ \A r \in Reqs : /\ IsFiniteSet(Unsubtracted(r)')
                       /\ Settled(r) => Unsubtracted(r)' = {}

\* Such a step changes the contexts of no request.
LEMMA ContextsKept ==
  ASSUME SameContexts, NEW r
  PROVE  ContextsOf(r)' = ContextsOf(r)
  BY DEF SameContexts, ContextsOf

\* Then nothing appears, and what is settled stays settled.
LEMMA ShrinksFacts ==
  ASSUME Shrinks
  PROVE  \A r \in Reqs : /\ Queued(r)' \subseteq Queued(r)
                         /\ \A w \in Workers : OfReq(w, r)' \subseteq OfReq(w, r)
                         /\ Undecremented(r)' \subseteq Undecremented(r)
                         /\ InHand(r)' \subseteq InHand(r)
                         /\ Settled(r) => Settled(r)'
                         /\ ContextsOf(r)' = ContextsOf(r)
PROOF
  <1> SUFFICES ASSUME NEW r \in Reqs
               PROVE  /\ Queued(r)' \subseteq Queued(r)
                      /\ \A w \in Workers : OfReq(w, r)' \subseteq OfReq(w, r)
                      /\ Undecremented(r)' \subseteq Undecremented(r)
                      /\ InHand(r)' \subseteq InHand(r)
                      /\ Settled(r) => Settled(r)'
                      /\ ContextsOf(r)' = ContextsOf(r)
    OBVIOUS
  <1>1. \A w \in Workers : OfReq(w, r)' \subseteq OfReq(w, r)
    BY DEF Shrinks, OfReq
  <1>2. Queued(r)' \subseteq Queued(r)
    BY DEF Shrinks, Queued
  <1>3. \A w \in Workers : thr'[w].pc \in {"run", "find", "dec"} =>
            thr[w].pc \in {"run", "find", "dec"} /\ thr'[w].task = thr[w].task
    BY DEF Shrinks, Moved, Running
  <1>4. Undecremented(r)' \subseteq Undecremented(r)
    BY <1>3 DEF Undecremented
  <1>5. \A w \in Workers : thr'[w].pc = "run" =>
            thr[w].pc = "run" /\ thr'[w].task = thr[w].task
    BY DEF Shrinks, Moved, Running
  <1>6. InHand(r)' \subseteq InHand(r)
    BY <1>5 DEF InHand
  <1>7. Settled(r) => Settled(r)'
    BY <1>2, <1>4 DEF Shrinks, Settled
  <1> QED BY <1>1, <1>2, <1>4, <1>6, <1>7, ContextsKept DEF Shrinks

\* Every task the pool knows of: queued, held by a worker, executed or freed.
Waiting == UNION {queue[w] : w \in Workers}
Held    == {thr[w].task : w \in {v \in Workers : Running(v)}}
Known   == Waiting \cup Held \cup ran \cup freed

\* What a step leaves of a request, seen from a call that is elsewhere.
Frame(r) ==
    /\ ContextsOf(r)' = ContextsOf(r)
    /\ \A i \in ContextsOf(r) : ctx'[i].worker_idx = ctx[i].worker_idx
    /\ \A w \in Workers : OfReq(w, r)' \subseteq OfReq(w, r)
    /\ Queued(r)' \subseteq Queued(r)
    /\ ContextsOf(r) = {} => Queued(r)' = Queued(r)
    /\ Queued(r) = {} /\ InHand(r) = {} => InHand(r)' = {}
    /\ Settled(r) => Settled(r)'
    /\ Accepted(r) = {} /\ ContextsOf(r) = {} => Accepted(r)' = {}

\* A step that adds nothing, executes or frees only tasks of the pool and takes
\* nothing from a request that has no context yet is such a step.
LEMMA FrameOf ==
  ASSUME TypeInv, RequestInv, Shrinks, NEW r \in Reqs,
         ContextsOf(r) = {} => Queued(r)' = Queued(r),
         ran' \cup freed' \subseteq Known
  PROVE  Frame(r)
PROOF
  <1>1. /\ Queued(r)' \subseteq Queued(r)
        /\ \A w \in Workers : OfReq(w, r)' \subseteq OfReq(w, r)
        /\ InHand(r)' \subseteq InHand(r)
        /\ Settled(r) => Settled(r)'
        /\ ContextsOf(r)' = ContextsOf(r)
    BY ShrinksFacts
  <1>2. \A i \in ContextsOf(r) : ctx'[i].worker_idx = ctx[i].worker_idx
    BY DEF Shrinks, SameContexts, ContextsOf
  <1>3. ASSUME Accepted(r) = {}, ContextsOf(r) = {} PROVE Accepted(r)' = {}
    <2>1. \A w \in Workers : Running(w) => thr[w].task.req # r
      BY <1>3 DEF RequestInv, TableInv, Unbound
    <2>2. \A t \in Known : t.req # r
      <3>1. \A t \in Waiting : t.req # r
        BY <1>3 DEF Accepted, Queued, Waiting
      <3>2. \A t \in ran \cup freed : t.req # r
        BY <1>3 DEF Accepted, RanOf
      <3>3. \A t \in Held : t.req # r
        BY <2>1 DEF Held
      <3> QED BY <3>1, <3>2, <3>3 DEF Known
    <2>3. \A t \in ran' \cup freed' : t.req # r
      BY <2>2
    <2>4. Queued(r)' = {} /\ InHand(r)' = {}
      BY <1>1, <1>3 DEF Accepted
    <2>5. RanOf(r)' = {} /\ {t \in freed : t.req = r}' = {}
      BY <2>3 DEF RanOf
    <2> QED BY <2>4, <2>5 DEF Accepted
  <1> QED BY <1>1, <1>2, <1>3 DEF Frame

\* A call that does not move still knows what it knew.
LEMMA CallKept ==
  ASSUME RequestInv, NEW c \in Callers, call'[c] = call[c], CallInv(call[c]),
         NEW r, r = call[c].req, Frame(r)
  PROVE  CallInv(call[c])'
PROOF
  <1>1. call'[c].req = r
    OBVIOUS
  <1> QED BY ONLY RequestInv, call'[c] = call[c], CallInv(call[c]), r = call[c].req,
             Frame(r), <1>1 DEF CallInv, Frame, FoundPc, SubmitPc

\* The table stays in order when a step adds nothing.
LEMMA TableMoves ==
  ASSUME TypeInv, TypeInv', RequestInv, Shrinks
  PROVE  OneContext' /\ Unbound' /\ Few' /\ Home' /\ Holds'
PROOF
  <1>1. \A r \in Reqs : /\ Queued(r)' \subseteq Queued(r)
                        /\ \A w \in Workers : OfReq(w, r)' \subseteq OfReq(w, r)
                        /\ Settled(r) => Settled(r)'
                        /\ ContextsOf(r)' = ContextsOf(r)
    BY ShrinksFacts
  <1>2. \A i \in 1 .. Len(ctx) : ctx[i].request_id \in Reqs
    BY ContextType
  <1>3. /\ Len(ctx') = Len(ctx)
        /\ \A i \in 1 .. Len(ctx) : /\ ctx'[i].request_id = ctx[i].request_id
                                    /\ ctx'[i].worker_idx = ctx[i].worker_idx
    BY DEF Shrinks, SameContexts
  <1>4. \A w \in Workers : Running(w)' => Running(w) /\ thr'[w].task = thr[w].task
    BY DEF Shrinks, Moved, Running
  <1>5. \A w \in Workers : Running(w) => thr[w].task.req \in Reqs
    BY DEF TypeInv, LocalsOK, Task
  <1>6. OneContext'
    BY <1>3 DEF RequestInv, TableInv, OneContext
  <1>7. Unbound'
    <2> SUFFICES ASSUME NEW r \in Reqs, ContextsOf(r)' = {}, NEW w \in Workers
                 PROVE  /\ r # 0 => pending_req'[w] # r
                        /\ Running(w)' => thr'[w].task.req # r
      BY DEF Unbound
    <2>1. ContextsOf(r) = {}
      BY <1>1
    <2>2. r # 0 => pending_req[w] # r
      BY <2>1 DEF RequestInv, TableInv, Unbound
    <2>3. Running(w) => thr[w].task.req # r
      BY <2>1 DEF RequestInv, TableInv, Unbound
    <2>4. pending_req'[w] = r => pending_req'[w] \in {pending_req[w], 0}
      BY <2>1 DEF Shrinks, Notifies
    <2> QED BY <1>4, <2>2, <2>3, <2>4
  <1>8. Few'
    <2> SUFFICES ASSUME NEW r \in Reqs
                 PROVE  Cardinality(Queued(r)') <= MaxTaskId /\ IsFiniteSet(Unsubtracted(r)')
      BY DEF Few
    <2>1. /\ IsFiniteSet(Queued(r)) /\ Cardinality(Queued(r)) \in Nat
          /\ Cardinality(Queued(r)) <= MaxTaskId
      BY QueuedFinite DEF RequestInv, TableInv, Few
    <2>2. IsFiniteSet(Queued(r)') /\ Cardinality(Queued(r)') <= Cardinality(Queued(r))
      BY <1>1, <2>1, FS_Subset
    <2>3. Cardinality(Queued(r)') \in Nat
      BY <2>2, FS_CardinalityType
    <2> QED BY <2>1, <2>2, <2>3, BoundsNat DEF Shrinks
  <1>9. Home'
    <2> SUFFICES ASSUME NEW i \in 1 .. Len(ctx), NEW w \in Workers,
                        w # ctx[i].worker_idx, NEW r, r = ctx[i].request_id
                 PROVE  /\ OfReq(w, r)' = {}
                        /\ Running(w)' => thr'[w].task.req # r
                        /\ pending_req'[w] = r /\ pending_req'[w] # 0 => Settled(r)'
      BY <1>3 DEF Home
    <2>1. r \in Reqs /\ i \in ContextsOf(r)
      BY <1>2 DEF ContextsOf
    <2>2. /\ OfReq(w, r) = {}
          /\ Running(w) => thr[w].task.req # r
          /\ pending_req[w] = r /\ pending_req[w] # 0 => Settled(r)
      BY DEF RequestInv, TableInv, Home
    <2>3. pending_req'[w] = r /\ pending_req'[w] # 0 => Settled(r)
      BY <2>1, <2>2 DEF Shrinks, Notifies
    <2> QED BY <1>1, <1>4, <2>1, <2>2, <2>3
  <1>10. Holds'
    <2> SUFFICES ASSUME NEW w \in Workers, thr'[w].pc \in {"dec", "cb", "remove"},
                        NEW r, r = thr'[w].task.req
                 PROVE  /\ thr'[w].ctx \in ContextsOf(r)'
                        /\ thr'[w].pc \in {"cb", "remove"} => Settled(r)'
      BY DEF Holds
    <2>1. Running(w) /\ thr'[w].task = thr[w].task /\ r = thr[w].task.req /\ r \in Reqs
      BY <1>4, <1>5 DEF Running
    <2>2. \/ thr'[w] = thr[w]
          \/ /\ thr'[w].ctx \in ContextsOf(r)
             /\ thr'[w].pc \in {"cb", "remove"} =>
                   thr[w].pc \in {"cb", "remove"} \/ Settled(r)'
      BY <2>1 DEF Shrinks, Moved, Running
    <2>3. /\ thr[w].pc \in {"dec", "cb", "remove"} => thr[w].ctx \in ContextsOf(r)
          /\ thr[w].pc \in {"cb", "remove"} => Settled(r)
      BY <2>1 DEF RequestInv, TableInv, Holds
    <2> QED BY <1>1, <2>1, <2>2, <2>3
  <1> QED BY <1>6, <1>7, <1>8, <1>9, <1>10

-----------------------------------------------------------------------------
(* Steps that count nothing.                                               *)

\* The thread stays where pending_count still counts its task, or where it
\* does not.
SameCounted(w) ==
    \/ thr'[w] = thr[w]
    \/ {thr[w].pc, thr'[w].pc} \cap {"run", "find", "dec"} = {}
    \/ {thr[w].pc, thr'[w].pc} \subseteq {"run", "find", "dec"} /\ thr'[w].task = thr[w].task

Calm ==
    /\ SameContexts /\ UNCHANGED queue
    /\ \A w \in Workers : Moved(w) /\ Notifies(w) /\ SameCounted(w)
    /\ \A c \in Callers : "cupdate" \in {call[c].pc, call'[c].pc} => call'[c] = call[c]

\* A step that counts nothing leaves the three sets pending_count is about.
LEMMA CalmCounts ==
  ASSUME Calm
  PROVE  \A r \in Reqs : /\ Queued(r)' = Queued(r)
                         /\ Undecremented(r)' = Undecremented(r)
                         /\ Unsubtracted(r)' = Unsubtracted(r)
PROOF
  <1> SUFFICES ASSUME NEW r \in Reqs
               PROVE  /\ Queued(r)' = Queued(r)
                      /\ Undecremented(r)' = Undecremented(r)
                      /\ Unsubtracted(r)' = Unsubtracted(r)
    OBVIOUS
  <1>1. Queued(r)' = Queued(r)
    BY DEF Calm, Queued
  <1>2. \A w \in Workers :
           thr'[w].pc \in {"run", "find", "dec"} /\ thr'[w].task.req = r <=>
           thr[w].pc \in {"run", "find", "dec"} /\ thr[w].task.req = r
    BY DEF Calm, SameCounted
  <1>3. Undecremented(r)' = Undecremented(r)
    BY <1>2 DEF Undecremented
  <1>4. \A x \in Callers \X (1 .. MaxTaskId) :
           call'[x[1]].pc = "cupdate" /\ call'[x[1]].req = r /\ x[2] <= call'[x[1]].k <=>
           call[x[1]].pc = "cupdate" /\ call[x[1]].req = r /\ x[2] <= call[x[1]].k
    BY DEF Calm
  <1>5. Unsubtracted(r)' = Unsubtracted(r)
    BY <1>4 DEF Unsubtracted
  <1> QED BY <1>1, <1>3, <1>5

\* A calm step brings up nothing new.
LEMMA CalmShrinks ==
  ASSUME RequestInv, Calm
  PROVE  Shrinks
PROOF
  <1>1. SameContexts
    BY DEF Calm
  <1>2. \A w \in Workers : queue'[w] \subseteq queue[w] /\ Moved(w) /\ Notifies(w)
    BY DEF Calm
  <1>3. ASSUME NEW r \in Reqs
        PROVE  /\ IsFiniteSet(Unsubtracted(r)')
               /\ Settled(r) => Unsubtracted(r)' = {}
    <2>1. Unsubtracted(r)' = Unsubtracted(r)
      BY CalmCounts
    <2> QED BY <2>1 DEF Settled, RequestInv, TableInv, Few
  <1> QED BY <1>1, <1>2, <1>3 DEF Shrinks

\* Such a step keeps the table in order, the counts included.
LEMMA CalmTable ==
  ASSUME TypeInv, TypeInv', RequestInv, Calm, UNCHANGED tableVars
  PROVE  TableInv'
PROOF
  <1>1. OneContext' /\ Unbound' /\ Few' /\ Home' /\ Holds'
    BY CalmShrinks, TableMoves
  <1>2. ctx' = ctx /\ req_hash' = req_hash
    BY DEF tableVars
  <1>3. \A i \in 1 .. Len(ctx) : ctx[i].request_id \in Reqs
    BY ContextType
  <1>4. FreedSettled'
    <2> SUFFICES ASSUME NEW i \in 1 .. Len(ctx), i \notin req_hash,
                        NEW r, r = ctx[i].request_id
                 PROVE  Settled(r)'
      BY <1>2 DEF FreedSettled
    <2>1. r \in Reqs /\ Settled(r)
      BY <1>3 DEF RequestInv, TableInv, FreedSettled
    <2> QED BY <2>1, CalmCounts DEF Settled
  <1>5. CountExact'
    <2> SUFFICES ASSUME NEW i \in req_hash, NEW r, r = ctx[i].request_id
                 PROVE  ctx[i].pending_count = Cardinality(Queued(r)')
                    + Cardinality(Undecremented(r)') + Cardinality(Unsubtracted(r)')
      BY <1>2 DEF CountExact
    <2>1. i \in 1 .. Len(ctx)
      BY DEF TypeInv, TypeOK
    <2>2. r \in Reqs
      BY <1>3, <2>1
    <2>3. ctx[i].pending_count = Cardinality(Queued(r))
             + Cardinality(Undecremented(r)) + Cardinality(Unsubtracted(r))
      BY DEF RequestInv, TableInv, CountExact
    <2> QED BY <2>2, <2>3, CalmCounts
  <1> QED BY <1>1, <1>4, <1>5 DEF TableInv

\* A calm step leaves each request as the calls in progress saw it.
LEMMA CalmFrame ==
  ASSUME TypeInv, RequestInv, Calm, ran' \cup freed' \subseteq Known
  PROVE  \A r \in Reqs : Frame(r)
  BY CalmShrinks, CalmCounts, FrameOf

-----------------------------------------------------------------------------
(* The calls.                                                              *)

\* A call that is over knows nothing.
LEMMA CallIdle ==
  ASSUME NEW c \in Callers, call'[c].pc = "idle",
         call'[c].op \notin {"batch", "task", "cancel"}
  PROVE  CallInv(call[c])'
  BY DEF CallInv, FoundPc, SubmitPc

\* One caller moves, the others see their requests change as Frame allows.
LEMMA OthersKept ==
  ASSUME TypeInv, RequestInv, NEW C,
         \A d \in Callers \ C : call'[d] = call[d],
         \A r \in Reqs : (\E d \in Callers \ C : call[d].pc # "idle" /\ call[d].req = r)
             => Frame(r),
         \A c \in Callers \cap C : CallInv(call[c])'
  PROVE  CallsOK'
PROOF
  <1> SUFFICES ASSUME NEW d \in Callers \ C PROVE CallInv(call[d])'
    BY DEF CallsOK
  <1>1. call'[d] = call[d] /\ CallInv(call[d])
    BY DEF RequestInv, CallsOK
  <1>2. CASE call[d].pc = "idle"
    <2>1. call[d].op \notin {"batch", "task", "cancel"}
      BY <1>1, <1>2 DEF CallInv, SubmitPc
    <2> QED BY <1>1, <1>2, <2>1, CallIdle
  <1>3. CASE call[d].pc # "idle"
    <2>1. PICK r \in Reqs : r = call[d].req
      BY <1>3 DEF TypeInv, LocalsOK, CallOK
    <2>2. Frame(r)
      BY <1>3, <2>1
    <2> QED BY <1>1, <2>1, <2>2, CallKept
  <1> QED BY <1>2, <1>3

\* A step that is part of no call keeps what each call relies on.
LEMMA AllKept ==
  ASSUME TypeInv, RequestInv, UNCHANGED call, \A r \in Reqs : Frame(r)
  PROVE  CallsOK' /\ OneSubmit'
PROOF
  <1>1. CallsOK'
    <2>1. /\ \A d \in Callers \ {} : call'[d] = call[d]
          /\ \A c \in Callers \cap {} : CallInv(call[c])'
      OBVIOUS
    <2> QED BY <2>1, OthersKept
  <1>2. OneSubmit'
    BY DEF RequestInv, OneSubmit
  <1> QED BY <1>1, <1>2

-----------------------------------------------------------------------------
(* The owner.                                                              *)

\* thread_pool_init, thread_pool_start and thread_pool_destroy keep the
\* requests in order; destroy_all_workers comes when no thread and no call is
\* left to use what it frees.
LEMMA OwnerRequest ==
  ASSUME TypeInv, TypeInv', RequestInv, BusyInv,
         OwnerStep \/ BeginDestroy \/ Gone \/ UNCHANGED vars
  PROVE  RequestInv'
PROOF
  <1>0. /\ thr \in [Workers -> ThreadType] /\ own.i \in Workers
        /\ own \in [pc : OwnPc, i : Workers]
    BY DEF TypeInv, TypeOK
  <1>1. SubmitOnce'
    BY DEF RequestInv, SubmitOnce
  <1>2. CASE FreePool
    <2>1. /\ own.pc = "free" /\ own'.pc = "done" /\ req_hash' = {}
          /\ UNCHANGED <<call, thr, ctx, pending_req>>
          /\ \A w \in Workers : queue'[w] = {}
      BY <1>0, <1>2 DEF FreePool
    <2>2. /\ \A w \in Workers : Quitted(w)
          /\ \A c \in Callers : call[c].pc = "idle"
      BY <2>1 DEF RequestInv, Shutdown
    <2>3. \A r : /\ Queued(r)' = {}
                 /\ Undecremented(r)' = {}
                 /\ Unsubtracted(r)' = {}
      <3> TAKE r
      <3>1. Queued(r)' = {}
        BY <2>1 DEF Queued
      <3>2. Undecremented(r)' = {}
        BY <2>1, <2>2 DEF Quitted, Undecremented
      <3>3. Unsubtracted(r)' = {}
        BY <2>1, <2>2 DEF Unsubtracted
      <3> QED BY <3>1, <3>2, <3>3
    <2>4. Shrinks
      <3>1. SameContexts
        BY <2>1 DEF SameContexts
      <3>2. \A w \in Workers : queue'[w] \subseteq queue[w] /\ Moved(w) /\ Notifies(w)
        BY <2>1 DEF Moved, Notifies
      <3> QED BY <2>3, <3>1, <3>2, FS_EmptySet DEF Shrinks
    <2>5. OneContext' /\ Unbound' /\ Few' /\ Home' /\ Holds'
      BY <2>4, TableMoves
    <2>6. FreedSettled'
      BY <2>3 DEF FreedSettled, Settled
    <2>7. CountExact'
      BY <2>1 DEF CountExact
    <2>8. CallsOK'
      <3> SUFFICES ASSUME NEW c \in Callers PROVE CallInv(call[c])'
        BY DEF CallsOK
      <3>1. CallInv(call[c]) /\ call'[c] = call[c] /\ call[c].pc = "idle"
        BY <2>1, <2>2 DEF RequestInv, CallsOK
      <3> QED BY <3>1, CallIdle DEF CallInv, SubmitPc
    <2>9. OneSubmit' /\ Shutdown'
      BY <2>1, <2>2 DEF OneSubmit, Shutdown, SubmitPc, Quitted
    <2> QED BY <1>1, <2>5, <2>6, <2>7, <2>8, <2>9 DEF RequestInv, TableInv
  <1>3. CASE \/ CreateWorker \/ CreateFailed \/ AwaitWorker \/ Start \/ ShutdownSignal
             \/ Join \/ BeginDestroy \/ Gone \/ UNCHANGED vars
    <2>1. UNCHANGED <<queue, tableVars, pending_req, call, ran, freed>>
      BY <1>3 DEF CreateWorker, CreateFailed, AwaitWorker, Start, ShutdownSignal, Join,
                  BeginDestroy, Gone, vars, workerVars, ghostVars
    <2>2. \A w \in Workers : \/ thr'[w] = thr[w]
                             \/ {thr[w].pc, thr'[w].pc} \subseteq
                                   {"none", "failed", "new", "wait", "woken"}
      <3>1. CASE CreateWorker \/ CreateFailed
        <4>1. thr[own.i].pc = "none"
          BY <1>0, <3>1, WorkersFacts DEF CreateWorker, CreateFailed, BusyInv, Uncreated
        <4>2. PICK pc \in {"none", "failed", "new"} : thr' = [thr EXCEPT ![own.i].pc = pc]
          BY <3>1 DEF CreateWorker, CreateFailed
        <4> QED BY <1>0, <4>1, <4>2 DEF ThreadType
      <3>2. CASE ShutdownSignal
        BY <1>0, <3>2 DEF ShutdownSignal, Signal, ThreadType
      <3> QED BY <1>3, <3>1, <3>2 DEF AwaitWorker, Start, Join, BeginDestroy, Gone, vars,
                                     workerVars
    <2>3. Calm
      <3>1. \A w \in Workers : Moved(w) /\ Notifies(w) /\ SameCounted(w)
        BY <2>1, <2>2 DEF Moved, Notifies, SameCounted, Running
      <3> QED BY <2>1, <3>1 DEF Calm, SameContexts, tableVars
    <2>4. TableInv'
      BY <2>1, <2>3, CalmTable
    <2>5. CallsOK' /\ OneSubmit'
      <3>1. ran' \cup freed' \subseteq Known
        BY <2>1 DEF Known
      <3> QED BY <2>1, <2>3, <3>1, CalmFrame, AllKept
    <2>6. Shutdown'
      <3>1. CASE Join
        <4>1. /\ own.pc = "join" /\ own' = NextOf("join", "free") /\ Quitted(own.i)
              /\ UNCHANGED <<thr, call>>
          BY <3>1 DEF Join, workerVars, Quitted
        <4>2. \A w \in Workers : w < own.i + 1 => Quitted(w)
          <5>1. \A w, k \in Workers : w < k + 1 => w < k \/ w = k
            BY PoolSize DEF Workers
          <5>2. \A w \in Workers : w < own.i => Quitted(w)
            BY <4>1 DEF RequestInv, Shutdown
          <5> QED BY <1>0, <4>1, <5>1, <5>2
        <4>3. \A w \in Workers : w < NumWorkers
          BY PoolSize DEF Workers
        <4>4. \A c \in Callers : call[c].pc = "idle"
          BY <4>1 DEF RequestInv, Shutdown
        <4>5. \/ own'.pc = "join" /\ own'.i = own.i + 1
              \/ own'.pc = "free" /\ ~(own.i + 1 < NumWorkers)
          BY <4>1 DEF NextOf
        <4>6. own'.pc # "join" => \A w \in Workers : w < own.i + 1
          BY <1>0, <4>3, <4>5, PoolSize, WorkersFacts DEF Workers
        <4> QED BY <4>1, <4>2, <4>4, <4>5, <4>6 DEF Shutdown, Quitted
      <3>2. CASE ShutdownSignal
        <4>1. /\ own.pc = "signal" /\ UNCHANGED call
              /\ own'.pc = "signal" \/ (own'.pc = "join" /\ own'.i = 0)
          BY <3>2 DEF ShutdownSignal, NextOf
        <4>2. \A w \in Workers : ~(w < 0)
          BY WorkersFacts
        <4> QED BY <4>1, <4>2 DEF RequestInv, Shutdown
      <3>3. CASE \/ CreateWorker \/ CreateFailed \/ AwaitWorker \/ Start \/ BeginDestroy
        <4>1. /\ own'.pc \notin {"join", "free", "done"} /\ UNCHANGED call
              /\ own'.pc \notin {"ready", "run"} => \A c \in Callers : call[c].pc = "idle"
          BY <1>0, <3>3 DEF CreateWorker, CreateFailed, AwaitWorker, Start, BeginDestroy,
                            RequestInv, Shutdown
        <4> QED BY <4>1 DEF Shutdown
      <3>4. CASE Gone \/ UNCHANGED vars
        BY <3>4 DEF Gone, vars, workerVars, RequestInv, Shutdown, Quitted
      <3> QED BY <1>3, <3>1, <3>2, <3>3, <3>4
    <2> QED BY <1>1, <2>4, <2>5, <2>6 DEF RequestInv
  <1> QED BY <1>1, <1>2, <1>3 DEF OwnerStep

-----------------------------------------------------------------------------
(* The workers.                                                            *)

\* While something of a request is left to count, its context is found.
LEMMA FindsOne ==
  ASSUME TypeInv, RequestInv, NEW r \in Reqs, ContextsOf(r) # {}, ~Settled(r)
  PROVE  /\ \A i \in ContextsOf(r) : i \in req_hash /\ \A j \in ContextsOf(r) : i = j
         /\ \A i \in Lookup(r) : i # 0 /\ i \in ContextsOf(r)
PROOF
  <1>1. \A i \in ContextsOf(r) : i \in req_hash
    BY DEF RequestInv, TableInv, FreedSettled, ContextsOf
  <1>2. \A i, j \in ContextsOf(r) : i = j
    BY DEF RequestInv, TableInv, OneContext, ContextsOf
  <1>3. \A i \in Lookup(r) : i # 0 /\ i \in ContextsOf(r)
    BY <1>1, LookupOne DEF RequestInv, TableInv
  <1> QED BY <1>1, <1>2, <1>3

\* A worker step leaves the calls alone, and moves no thread that is gone.
LEMMA WorkerLeaves ==
  ASSUME TypeInv, RequestInv, NEW w \in Workers, UNCHANGED <<call, own>>, ~Quitted(w),
         \A v \in Workers : v # w => thr'[v] = thr[v],
         \A r \in Reqs : Frame(r), TableInv'
  PROVE  RequestInv'
PROOF
  <1>1. SubmitOnce'
    BY DEF RequestInv, SubmitOnce
  <1>2. CallsOK' /\ OneSubmit'
    BY AllKept
  <1>3. \A v \in Workers : Quitted(v) => Quitted(v)'
    BY DEF Quitted
  <1>4. Shutdown'
    BY <1>3 DEF RequestInv, Shutdown
  <1> QED BY <1>1, <1>2, <1>4 DEF RequestInv

\* The steps of worker_thread that take no task and subtract none are calm.
LEMMA WorkerCalm ==
  ASSUME TypeInv, TypeInv', RequestInv, NEW w \in Workers,
         \/ WorkerStart(w) \/ WorkerWait(w) \/ WorkerExit(w) \/ WorkerTakeNone(w)
         \/ WorkerRun(w) \/ WorkerFindCtx(w) \/ WorkerBatchCb(w) \/ WorkerFinish(w)
         \/ SpuriousWakeup(w)
  PROVE  RequestInv'
PROOF
  <1>0. /\ thr \in [Workers -> ThreadType] /\ pending_req \in [Workers -> Reqs \cup {0}]
        /\ Running(w) => thr[w].task.req \in Reqs
    BY DEF TypeInv, TypeOK, LocalsOK, Task
  <1>1. /\ UNCHANGED <<queue, tableVars, call, own>> /\ ~Quitted(w)
        /\ \A v \in Workers : v # w => thr'[v] = thr[v] /\ pending_req'[v] = pending_req[v]
        /\ pending_req'[w] \in {pending_req[w], 0}
    BY <1>0 DEF WorkerStart, WorkerWait, WorkerExit, WorkerTakeNone, WorkerRun,
         WorkerFindCtx, WorkerBatchCb, WorkerFinish, SpuriousWakeup, AtLoop, Quitted,
         Consumed, tableVars
  <1>2. Moved(w) /\ SameCounted(w)
    <2>1. CASE \/ WorkerStart(w) \/ WorkerWait(w) \/ WorkerExit(w) \/ WorkerTakeNone(w)
               \/ SpuriousWakeup(w)
      BY <1>0, <2>1 DEF WorkerStart, WorkerWait, WorkerExit, WorkerTakeNone,
           SpuriousWakeup, AtLoop, Moved, SameCounted, Running, ThreadType
    <2>2. CASE WorkerFinish(w)
      BY <1>0, <2>2 DEF WorkerFinish, Moved, SameCounted, Running, ThreadType
    <2>3. CASE WorkerRun(w)
      BY <1>0, <2>3 DEF WorkerRun, Moved, SameCounted, Running, ThreadType
    <2>4. CASE WorkerFindCtx(w)
      <3>1. PICK r \in Reqs : r = thr[w].task.req
        BY <1>0, <2>4 DEF WorkerFindCtx, Running
      <3>2. w \in Undecremented(r)
        BY <2>4, <3>1 DEF WorkerFindCtx, Undecremented
      <3>3. ContextsOf(r) # {}
        BY <2>4, <3>1 DEF WorkerFindCtx, RequestInv, TableInv, Unbound, Running
      <3>4. PICK i \in ContextsOf(r) :
               thr' = [thr EXCEPT ![w].pc = "dec", ![w].ctx = i]
        BY <2>4, <3>1, <3>2, <3>3, FindsOne DEF WorkerFindCtx, Settled
      <3>5. /\ thr[w].pc = "find" /\ thr'[w].pc = "dec" /\ thr'[w].ctx = i
            /\ thr'[w].task = thr[w].task
        <4>1. thr[w].pc = "find" /\ thr[w] \in ThreadType
          BY <1>0, <2>4 DEF WorkerFindCtx
        <4>2. thr'[w] = [thr[w] EXCEPT !.pc = "dec", !.ctx = i]
          BY <1>0, <3>4
        <4> QED BY <4>1, <4>2 DEF ThreadType
      <3> QED BY <3>1, <3>5 DEF Moved, SameCounted, Running
    <2>5. CASE WorkerBatchCb(w)
      <3>1. PICK r \in Reqs : r = thr[w].task.req
        BY <1>0, <2>5 DEF WorkerBatchCb, Running
      <3>2. thr[w].ctx \in ContextsOf(r) /\ thr[w].pc = "cb"
        BY <2>5, <3>1 DEF WorkerBatchCb, RequestInv, TableInv, Holds
      <3>3. thr'[w].pc = "remove" /\ thr'[w].task = thr[w].task /\ thr'[w].ctx = thr[w].ctx
        BY <1>0, <2>5 DEF WorkerBatchCb, ThreadType
      <3> QED BY <3>1, <3>2, <3>3 DEF Moved, SameCounted, Running
    <2> QED BY <2>1, <2>2, <2>3, <2>4, <2>5
  <1>3. Calm
    <2>1. \A v \in Workers : Moved(v) /\ Notifies(v) /\ SameCounted(v)
      BY <1>1, <1>2 DEF Moved, Notifies, SameCounted
    <2> QED BY <1>1, <2>1 DEF Calm, SameContexts, tableVars
  <1>4. ran' \cup freed' \subseteq Known
    <2>1. /\ ran' \subseteq ran \cup {thr[w].task} /\ freed' \subseteq freed \cup {thr[w].task}
          /\ Running(w) \/ (ran' = ran /\ freed' = freed)
      BY DEF WorkerStart, WorkerWait, WorkerExit, WorkerTakeNone, WorkerRun,
             WorkerFindCtx, WorkerBatchCb, WorkerFinish, SpuriousWakeup, Running, ghostVars
    <2>2. Running(w) => thr[w].task \in Held
      BY DEF Held
    <2> QED BY <2>1, <2>2 DEF Known
  <1> QED BY <1>1, <1>3, <1>4, CalmTable, CalmFrame, WorkerLeaves

\* worker_queue_pop_by_req: the task leaves the queue for the worker, which is
\* the one the context of its request names.
LEMMA TakeRequest ==
  ASSUME TypeInv, TypeInv', RequestInv, NEW w \in Workers, WorkerTake(w)
  PROVE  RequestInv'
PROOF
  <1>0. /\ thr \in [Workers -> ThreadType] /\ pending_req \in [Workers -> Reqs \cup {0}]
        /\ queue \in [Workers -> SUBSET Task]
    BY DEF TypeInv, TypeOK
  <1>1. PICK t \in queue[w] : /\ t.req = pending_req[w]
                              /\ queue' = [queue EXCEPT ![w] = @ \ {t}]
                              /\ thr' = [thr EXCEPT ![w] = [pc |-> "run", task |-> t,
                                                            ctx |-> 0]]
    BY DEF WorkerTake, IsFirst, OfReq, Unlink
  <1>2. /\ thr[w].pc \in {"loop", "woken"} /\ pending_req[w] # 0
        /\ pending_req' = [pending_req EXCEPT ![w] = 0]
        /\ UNCHANGED <<ctx, req_hash, call, own, ran, freed>>
    BY DEF WorkerTake, AtLoop, Consumed, tableVars, ghostVars
  <1>3. PICK r \in Reqs : r = pending_req[w] /\ r = t.req
    BY <1>0, <1>1, <1>2
  <1>4. /\ thr'[w].pc = "run" /\ thr'[w].task = t
        /\ \A v \in Workers : v # w => thr'[v] = thr[v]
    BY <1>0, <1>1
  <1>5. /\ queue'[w] = queue[w] \ {t}
        /\ \A v \in Workers : v # w => queue'[v] = queue[v]
    BY <1>0, <1>1
  <1>6. pending_req'[w] = 0 /\ \A v \in Workers : v # w => pending_req'[v] = pending_req[v]
    BY <1>0, <1>2
  \* The request of the task has its context here.
  <1>7. ContextsOf(r) # {}
    BY <1>2, <1>3 DEF RequestInv, TableInv, Unbound
  <1>8. t \in OfReq(w, r) /\ t \in Queued(r)
    BY <1>1, <1>3 DEF OfReq, Queued
  <1>9. ~Settled(r)
    BY <1>8 DEF Settled
  <1>10. \A i \in ContextsOf(r) : ctx[i].worker_idx = w
    BY <1>8 DEF RequestInv, TableInv, Home, ContextsOf
  <1>11. \A v \in Workers : v # w => OfReq(v, r) = {}
    BY <1>7, <1>10 DEF RequestInv, TableInv, Home, ContextsOf
  \* What the step moves.
  <1>12. \A q \in Reqs : ContextsOf(q)' = ContextsOf(q) /\ Unsubtracted(q)' = Unsubtracted(q)
    BY <1>2 DEF ContextsOf, Unsubtracted
  <1>13. \A q \in Reqs : \A v \in Workers : OfReq(v, q)' \subseteq OfReq(v, q)
    BY <1>5 DEF OfReq
  <1>14. Queued(r)' = Queued(r) \ {t}
    <2>1. \A v \in Workers : v # w => t \notin queue[v]
      BY <1>3, <1>11 DEF OfReq
    <2>2. \A u : (\E v \in Workers : u \in queue'[v]) <=>
                 (\E v \in Workers : u \in queue[v]) /\ u # t
      BY <1>5, <2>1
    <2> QED BY <2>2 DEF Queued
  <1>15. \A q \in Reqs : q # r => Queued(q)' = Queued(q)
    <2>1. \A u : u.req # r => \A v \in Workers : u \in queue'[v] <=> u \in queue[v]
      BY <1>3, <1>5
    <2> QED BY <2>1 DEF Queued
  <1>16. Undecremented(r)' = Undecremented(r) \cup {w}
    BY <1>3, <1>4 DEF Undecremented
  <1>17. w \notin Undecremented(r)
    BY <1>2 DEF Undecremented
  <1>18. \A q \in Reqs : q # r => Undecremented(q)' = Undecremented(q)
    BY <1>2, <1>3, <1>4 DEF Undecremented
  <1>19. \A q \in Reqs : Settled(q) => Settled(q)'
    BY <1>9, <1>12, <1>15, <1>18 DEF Settled
  <1>20. \A q \in Reqs : q # r => InHand(q)' = InHand(q)
    BY <1>2, <1>3, <1>4 DEF InHand
  <1>21. \A q \in Reqs : Frame(q)
    <2> SUFFICES ASSUME NEW q \in Reqs PROVE Frame(q)
      OBVIOUS
    <2>1. CASE q = r
      BY <1>2, <1>7, <1>8, <1>9, <1>12, <1>13, <1>14, <2>1 DEF Frame
    <2>2. CASE q # r
      <3>1. RanOf(q)' = RanOf(q) /\ {u \in freed : u.req = q}' = {u \in freed : u.req = q}
        BY <1>2 DEF RanOf
      <3>2. Accepted(q)' = Accepted(q)
        BY <1>15, <1>20, <2>2, <3>1 DEF Accepted
      <3> QED BY <1>2, <1>12, <1>13, <1>15, <1>19, <1>20, <2>2, <3>2 DEF Frame
    <2> QED BY <2>1, <2>2
  \* The table.
  <1>22. \A i \in 1 .. Len(ctx) : ctx[i].request_id \in Reqs
    BY ContextType
  <1>23. OneContext'
    BY <1>2 DEF RequestInv, TableInv, OneContext
  <1>24. Unbound'
    <2> SUFFICES ASSUME NEW q \in Reqs, ContextsOf(q)' = {}, NEW v \in Workers
                 PROVE  /\ q # 0 => pending_req'[v] # q
                        /\ Running(v)' => thr'[v].task.req # q
      BY DEF Unbound
    <2>1. ContextsOf(q) = {} /\ q # r
      BY <1>7, <1>12
    <2>2. (q # 0 => pending_req[v] # q) /\ (Running(v) => thr[v].task.req # q)
      BY <2>1 DEF RequestInv, TableInv, Unbound
    <2> QED BY <1>3, <1>4, <1>6, <2>1, <2>2 DEF Running
  <1>25. FreedSettled'
    BY <1>2, <1>19, <1>22 DEF RequestInv, TableInv, FreedSettled
  <1>26. Few'
    <2> SUFFICES ASSUME NEW q \in Reqs
                 PROVE  Cardinality(Queued(q)') <= MaxTaskId /\ IsFiniteSet(Unsubtracted(q)')
      BY DEF Few
    <2>1. /\ IsFiniteSet(Queued(q)) /\ Cardinality(Queued(q)) \in Nat
          /\ Cardinality(Queued(q)) <= MaxTaskId /\ IsFiniteSet(Unsubtracted(q))
      BY QueuedFinite DEF RequestInv, TableInv, Few
    <2>2. IsFiniteSet(Queued(q)') /\ Cardinality(Queued(q)') <= Cardinality(Queued(q))
      BY <1>14, <1>15, <2>1, FS_Subset
    <2>3. Cardinality(Queued(q)') \in Nat
      BY <2>2, FS_CardinalityType
    <2> QED BY <1>12, <2>1, <2>2, <2>3, BoundsNat
  <1>27. Home'
    <2> SUFFICES ASSUME NEW i \in 1 .. Len(ctx), NEW v \in Workers,
                        v # ctx[i].worker_idx, NEW q, q = ctx[i].request_id
                 PROVE  /\ OfReq(v, q)' = {}
                        /\ Running(v)' => thr'[v].task.req # q
                        /\ pending_req'[v] = q /\ pending_req'[v] # 0 => Settled(q)'
      BY <1>2 DEF Home
    <2>1. q \in Reqs /\ i \in ContextsOf(q)
      BY <1>22 DEF ContextsOf
    <2>2. v = w => q # r
      BY <1>10, <2>1
    <2>3. /\ OfReq(v, q) = {}
          /\ Running(v) => thr[v].task.req # q
          /\ pending_req[v] = q /\ pending_req[v] # 0 => Settled(q)
      BY DEF RequestInv, TableInv, Home
    <2> QED BY <1>3, <1>4, <1>6, <1>13, <1>19, <2>1, <2>2, <2>3 DEF Running
  <1>28. Holds'
    <2> SUFFICES ASSUME NEW v \in Workers, thr'[v].pc \in {"dec", "cb", "remove"},
                        NEW q, q = thr'[v].task.req
                 PROVE  /\ thr'[v].ctx \in ContextsOf(q)'
                        /\ thr'[v].pc \in {"cb", "remove"} => Settled(q)'
      BY DEF Holds
    <2>1. v # w /\ thr'[v] = thr[v]
      BY <1>4
    <2>2. q \in Reqs
      BY <2>1 DEF TypeInv, LocalsOK, Running, Task
    <2>3. /\ thr[v].ctx \in ContextsOf(q)
          /\ thr[v].pc \in {"cb", "remove"} => Settled(q)
      BY <2>1 DEF RequestInv, TableInv, Holds
    <2> QED BY <1>12, <1>19, <2>1, <2>2, <2>3
  <1>29. CountExact'
    <2> SUFFICES ASSUME NEW i \in req_hash, NEW q, q = ctx[i].request_id
                 PROVE  ctx[i].pending_count = Cardinality(Queued(q)')
                    + Cardinality(Undecremented(q)') + Cardinality(Unsubtracted(q)')
      BY <1>2 DEF CountExact
    <2>1. q \in Reqs
      BY <1>22 DEF TypeInv, TypeOK
    <2>2. ctx[i].pending_count = Cardinality(Queued(q))
             + Cardinality(Undecremented(q)) + Cardinality(Unsubtracted(q))
      BY DEF RequestInv, TableInv, CountExact
    <2>3. CASE q # r
      BY <1>12, <1>15, <1>18, <2>1, <2>2, <2>3
    <2>4. CASE q = r
      <3>1. /\ IsFiniteSet(Queued(r)) /\ Cardinality(Queued(r)) \in Nat
            /\ IsFiniteSet(Undecremented(r)) /\ Cardinality(Undecremented(r)) \in Nat
            /\ Cardinality(Unsubtracted(r)) \in Nat
        BY QueuedFinite, FS_CardinalityType DEF RequestInv, TableInv, Few
      <3>2. Cardinality(Queued(r)') = Cardinality(Queued(r)) - 1
        BY <1>8, <1>14, <3>1, FS_RemoveElement
      <3>3. Cardinality(Undecremented(r)') = Cardinality(Undecremented(r)) + 1
        BY <1>16, <1>17, <3>1, FS_AddElement
      <3> QED BY <1>12, <2>2, <2>4, <3>1, <3>2, <3>3
    <2> QED BY <2>3, <2>4
  <1>30. TableInv'
    BY <1>23, <1>24, <1>25, <1>26, <1>27, <1>28, <1>29 DEF TableInv
  <1> QED BY <1>2, <1>4, <1>21, <1>30, WorkerLeaves DEF Quitted

\* The decrement of pending_count meets the context of the request, and reaches
\* zero exactly when nothing of the request is left.
LEMMA DecRequest ==
  ASSUME TypeInv, TypeInv', RequestInv, NEW w \in Workers, WorkerDec(w)
  PROVE  /\ RequestInv'
         /\ UNCHANGED faults
         /\ thr[w].ctx \in req_hash /\ \A j \in ContextsOf(thr[w].task.req) : thr[w].ctx = j
         /\ ctx' = [ctx EXCEPT ![thr[w].ctx].pending_count = @ - 1]
         /\ thr'[w].pc \in {"cb", "fin"}
         /\ thr'[w].pc = "cb" <=> ctx'[thr[w].ctx].pending_count = 0
         /\ thr'[w].ctx = thr[w].ctx
PROOF
  <1> DEFINE i == thr[w].ctx
  <1>0. /\ thr \in [Workers -> ThreadType] /\ thr[w].pc = "dec"
        /\ UNCHANGED <<queue, pending_req, req_hash, call, own, ran, freed>>
    BY DEF TypeInv, TypeOK, WorkerDec, poolVars
  <1>1. PICK r \in Reqs : r = thr[w].task.req
    BY <1>0 DEF TypeInv, LocalsOK, Running, Task
  <1>2. i \in ContextsOf(r)
    BY <1>0, <1>1 DEF RequestInv, TableInv, Holds
  <1>3. w \in Undecremented(r)
    BY <1>0, <1>1 DEF Undecremented
  <1>4. ~Settled(r)
    BY <1>3 DEF Settled
  <1>5. i \in req_hash /\ \A j \in ContextsOf(r) : i = j
    BY <1>2, <1>4, FindsOne
  <1>6. i \in 1 .. Len(ctx)
    BY <1>5 DEF TypeInv, TypeOK
  <1>7. /\ ctx' = [ctx EXCEPT ![i].pending_count = @ - 1]
        /\ thr' = [thr EXCEPT ![w].pc =
                      IF LastTask(ctx'[i].pending_count) THEN "cb" ELSE "fin"]
        /\ faults' = faults
    BY <1>5 DEF WorkerDec, Live
  <1>8. /\ ctx \in Seq(Context) /\ DOMAIN ctx = 1 .. Len(ctx) /\ Len(ctx) \in Nat
        /\ \A j \in 1 .. Len(ctx) : ctx[j] \in Context
    BY LenProperties, ElementOfSeq DEF TypeInv, TypeOK
  <1>9. ctx'[i].pending_count = ctx[i].pending_count - 1
    BY <1>6, <1>7, <1>8 DEF Context
  <1>10. \A j \in 1 .. Len(ctx) : /\ ctx'[j].request_id = ctx[j].request_id
                                  /\ ctx'[j].worker_idx = ctx[j].worker_idx
                                  /\ j # i => ctx'[j] = ctx[j]
    BY <1>6, <1>7, <1>8 DEF Context
  <1>11. SameContexts
    <2>1. ctx \in Seq(Context) /\ i \in 1 .. Len(ctx) /\ ctx[i].pending_count - 1 \in Int
      BY <1>6, <1>8 DEF Context
    <2>2. Len(ctx') = Len(ctx)
      BY <1>7, <2>1, ContextCounts
    <2> QED BY <1>10, <2>2 DEF SameContexts
  <1>12. /\ thr'[w].pc = IF ctx'[i].pending_count = 0 THEN "cb" ELSE "fin"
         /\ thr'[w].task = thr[w].task /\ thr'[w].ctx = thr[w].ctx
         /\ \A v \in Workers : v # w => thr'[v] = thr[v]
    BY <1>0, <1>7 DEF LastTask, ThreadType
  \* What is counted before and after.
  <1>13. \A q \in Reqs : Queued(q)' = Queued(q) /\ Unsubtracted(q)' = Unsubtracted(q)
    BY <1>0 DEF Queued, Unsubtracted
  <1>14. \A q \in Reqs : q # r => Undecremented(q)' = Undecremented(q)
    BY <1>0, <1>1, <1>12 DEF Undecremented
  <1>15. Undecremented(r)' = Undecremented(r) \ {w}
    BY <1>1, <1>12 DEF Undecremented
  <1>16. /\ IsFiniteSet(Queued(r)) /\ Cardinality(Queued(r)) \in Nat
         /\ IsFiniteSet(Undecremented(r)) /\ Cardinality(Undecremented(r)) \in Nat
         /\ IsFiniteSet(Unsubtracted(r)) /\ Cardinality(Unsubtracted(r)) \in Nat
    BY QueuedFinite, FS_CardinalityType DEF RequestInv, TableInv, Few
  <1>17. /\ Cardinality(Undecremented(r)') = Cardinality(Undecremented(r)) - 1
         /\ IsFiniteSet(Undecremented(r)') /\ Cardinality(Undecremented(r)') \in Nat
    <2>1. /\ IsFiniteSet(Undecremented(r) \ {w})
          /\ Cardinality(Undecremented(r) \ {w}) = Cardinality(Undecremented(r)) - 1
      BY <1>3, <1>16, FS_RemoveElement
    <2> QED BY <1>15, <2>1, FS_CardinalityType
  <1>18. ctx[i].request_id = r
    BY <1>2 DEF ContextsOf
  <1>19. ctx[i].pending_count = Cardinality(Queued(r))
             + Cardinality(Undecremented(r)) + Cardinality(Unsubtracted(r))
    BY <1>5, <1>18 DEF RequestInv, TableInv, CountExact
  <1>20. ctx'[i].pending_count = Cardinality(Queued(r)')
             + Cardinality(Undecremented(r)') + Cardinality(Unsubtracted(r)')
    BY <1>9, <1>13, <1>16, <1>17, <1>19
  <1>21. ctx'[i].pending_count = 0 => Settled(r)'
    <2> SUFFICES ASSUME ctx'[i].pending_count = 0 PROVE Settled(r)'
      OBVIOUS
    <2>1. /\ Cardinality(Queued(r)) = 0 /\ Cardinality(Undecremented(r)') = 0
          /\ Cardinality(Unsubtracted(r)) = 0
      BY <1>13, <1>16, <1>17, <1>20
    <2>2. Queued(r) = {} /\ Undecremented(r)' = {} /\ Unsubtracted(r) = {}
      BY <1>16, <1>17, <2>1, FS_EmptySet
    <2> QED BY <1>13, <2>2 DEF Settled
  \* Nothing appears.
  <1>22. Shrinks
    <2>1. Moved(w)
      BY <1>0, <1>1, <1>2, <1>12, <1>21 DEF Moved, Running
    <2>2. \A v \in Workers : queue'[v] \subseteq queue[v] /\ Moved(v) /\ Notifies(v)
      BY <1>0, <1>12, <2>1 DEF Moved, Notifies
    <2>3. \A q \in Reqs : /\ IsFiniteSet(Unsubtracted(q)')
                          /\ Settled(q) => Unsubtracted(q)' = {}
      BY <1>13 DEF Settled, RequestInv, TableInv, Few
    <2> QED BY <1>11, <2>2, <2>3 DEF Shrinks
  <1>23. \A q \in Reqs : Frame(q)
    BY <1>0, <1>13, <1>22, FrameOf DEF Known
  <1>24. \A j \in 1 .. Len(ctx) : ctx[j].request_id \in Reqs
    BY ContextType
  <1>25. FreedSettled'
    <2>1. \A q \in Reqs : Settled(q) => Settled(q)'
      BY <1>22, ShrinksFacts
    <2> QED BY <1>0, <1>11, <1>24, <2>1 DEF SameContexts, RequestInv, TableInv, FreedSettled
  <1>26. CountExact'
    <2> SUFFICES ASSUME NEW j \in req_hash, NEW q, q = ctx[j].request_id
                 PROVE  ctx'[j].pending_count = Cardinality(Queued(q)')
                    + Cardinality(Undecremented(q)') + Cardinality(Unsubtracted(q)')
      <3>1. \A j \in req_hash : ctx'[j].request_id = ctx[j].request_id
        BY <1>10 DEF TypeInv, TypeOK
      <3> QED BY <1>0, <3>1 DEF CountExact
    <2>1. j \in 1 .. Len(ctx) /\ q \in Reqs
      BY <1>24 DEF TypeInv, TypeOK
    <2>2. CASE j = i
      BY <1>18, <1>20, <2>2
    <2>3. CASE j # i
      <3>1. q # r
        BY <1>5, <2>1, <2>3 DEF ContextsOf
      <3>2. ctx[j].pending_count = Cardinality(Queued(q))
               + Cardinality(Undecremented(q)) + Cardinality(Unsubtracted(q))
        BY DEF RequestInv, TableInv, CountExact
      <3> QED BY <1>10, <1>13, <1>14, <2>1, <2>3, <3>1, <3>2
    <2> QED BY <2>2, <2>3
  <1>27. TableInv'
    BY <1>22, <1>25, <1>26, TableMoves DEF TableInv
  <1>28. RequestInv'
    BY <1>0, <1>12, <1>23, <1>27, WorkerLeaves DEF Quitted
  <1> QED BY <1>1, <1>5, <1>7, <1>12, <1>28

\* The removal: remove_req_context looks the request up again and takes the
\* context of a request of which nothing is left.
LEMMA RemoveRequest ==
  ASSUME TypeInv, TypeInv', RequestInv, NEW w \in Workers, WorkerRemoveCtx(w)
  PROVE  RequestInv'
PROOF
  <1>0. /\ thr \in [Workers -> ThreadType] /\ thr[w].pc = "remove"
        /\ UNCHANGED <<queue, pending_req, ctx, call, own, ran, freed>>
        /\ req_hash \subseteq 1 .. Len(ctx)
    BY DEF TypeInv, TypeOK, WorkerRemoveCtx, poolVars, ghostVars
  <1>1. PICK r \in Reqs : r = thr[w].task.req
    BY <1>0 DEF TypeInv, LocalsOK, Running, Task
  <1>2. Settled(r)
    BY <1>0, <1>1 DEF RequestInv, TableInv, Holds
  <1>3. req_hash' = req_hash \ Newest(r)
    BY <1>1 DEF WorkerRemoveCtx
  <1>4. /\ thr'[w].pc = "fin" /\ thr'[w].task = thr[w].task
        /\ \A v \in Workers : v # w => thr'[v] = thr[v]
    BY <1>0 DEF WorkerRemoveCtx, ThreadType
  <1>5. Calm
    <2>1. \A v \in Workers : Moved(v) /\ Notifies(v) /\ SameCounted(v)
      BY <1>0, <1>4 DEF Moved, Notifies, SameCounted, Running
    <2> QED BY <1>0, <2>1 DEF Calm, SameContexts
  <1>6. Shrinks
    BY <1>5, CalmShrinks
  <1>7. \A q \in Reqs : /\ Queued(q)' = Queued(q)
                        /\ Undecremented(q)' = Undecremented(q)
                        /\ Unsubtracted(q)' = Unsubtracted(q)
    BY <1>5, CalmCounts
  <1>8. \A j \in 1 .. Len(ctx) : ctx[j].request_id \in Reqs
    BY ContextType
  <1>9. FreedSettled'
    <2> SUFFICES ASSUME NEW j \in 1 .. Len(ctx), j \notin req_hash',
                        NEW q, q = ctx[j].request_id
                 PROVE  Settled(q)'
      BY <1>0 DEF FreedSettled
    <2>1. j \notin req_hash \/ q = r
      BY <1>3 DEF Newest
    <2>2. Settled(q)
      BY <1>2, <2>1 DEF RequestInv, TableInv, FreedSettled
    <2> QED BY <1>7, <1>8, <2>2 DEF Settled
  <1>10. CountExact'
    <2> SUFFICES ASSUME NEW j \in req_hash', NEW q, q = ctx[j].request_id
                 PROVE  ctx[j].pending_count = Cardinality(Queued(q)')
                    + Cardinality(Undecremented(q)') + Cardinality(Unsubtracted(q)')
      BY <1>0 DEF CountExact
    <2>1. j \in req_hash /\ q \in Reqs
      BY <1>0, <1>3, <1>8
    <2>2. ctx[j].pending_count = Cardinality(Queued(q))
             + Cardinality(Undecremented(q)) + Cardinality(Unsubtracted(q))
      BY <2>1 DEF RequestInv, TableInv, CountExact
    <2> QED BY <1>7, <2>1, <2>2
  <1>11. TableInv'
    BY <1>6, <1>9, <1>10, TableMoves DEF TableInv
  <1>12. \A q \in Reqs : Frame(q)
    BY <1>0, <1>5, CalmFrame DEF Known
  <1> QED BY <1>0, <1>4, <1>11, <1>12, WorkerLeaves DEF Quitted

\* worker_routine and worker_process_task keep the requests in order.
LEMMA WorkerRequest ==
  ASSUME TypeInv, TypeInv', RequestInv, NEW w \in Workers,
         WorkerStep(w) \/ SpuriousWakeup(w)
  PROVE  RequestInv'
  BY WorkerCalm, TakeRequest, DecRequest, RemoveRequest DEF WorkerStep

-----------------------------------------------------------------------------
(* The callers.                                                            *)

\* A step of one call: the table, what the others know, what it knows itself,
\* and that it is the only submit of its request.
LEMMA CallerLeaves ==
  ASSUME TypeInv, RequestInv, NEW c \in Callers, UNCHANGED own,
         own.pc \in {"ready", "run"},
         \A d \in Callers \ {c} : call'[d] = call[d],
         \A r \in Reqs : (\E d \in Callers \ {c} : call[d].pc # "idle" /\ call[d].req = r)
             => Frame(r),
         CallInv(call[c])', TableInv',
         call'[c].pc \in SubmitPc =>
            \/ call[c].pc \in SubmitPc /\ call'[c].req = call[c].req
            \/ \A d \in Callers \ {c} : call[d].pc \in SubmitPc => call[d].req # call'[c].req
  PROVE  RequestInv'
PROOF
  <1>1. SubmitOnce' /\ Shutdown'
    BY DEF RequestInv, SubmitOnce, Shutdown
  <1>2. CallsOK'
    BY OthersKept
  <1>3. OneSubmit'
    BY DEF RequestInv, OneSubmit
  <1> QED BY <1>1, <1>2, <1>3 DEF RequestInv

\* Somebody is in a call only while the pool is up.
LEMMA InUse ==
  ASSUME TypeInv, RequestInv, NEW c \in Callers,
         call[c].pc # "idle" \/ NewCall(c)
  PROVE  own.pc \in {"ready", "run"}
  BY DEF NewCall, SubmitTask, SubmitBatch, Submit, Wake, Cancel, MaySubmit, MayWake,
         MayCancel, Usable, RequestInv, Shutdown

\* A call that reads, or only moves its own locals.
LEMMA CallerCalm ==
  ASSUME TypeInv, TypeInv', RequestInv, NEW c \in Callers, NEW s,
         call' = [call EXCEPT ![c] = s],
         call[c].pc # "cupdate", s.pc # "cupdate",
         UNCHANGED <<queue, pending_req, thr, tableVars, own, ran, freed>>,
         own.pc \in {"ready", "run"}
  PROVE  /\ TableInv' /\ \A r \in Reqs : Frame(r)
         /\ call'[c] = s /\ \A d \in Callers \ {c} : call'[d] = call[d]
PROOF
  <1>1. call'[c] = s /\ \A d \in Callers \ {c} : call'[d] = call[d]
    BY DEF TypeInv, TypeOK
  <1>2. Calm
    <2>1. \A v \in Workers : Moved(v) /\ Notifies(v) /\ SameCounted(v)
      BY DEF Moved, Notifies, SameCounted
    <2> QED BY <1>1, <2>1 DEF Calm, SameContexts, tableVars
  <1> QED BY <1>1, <1>2, CalmTable, CalmFrame DEF Known

\* A call that begins keeps the request invariant.
LEMMA NewCallRequest ==
  ASSUME TypeInv, TypeInv', RequestInv, Remembered, NEW c \in Callers, NewCall(c)
  PROVE  RequestInv'
PROOF
  <1>1. own.pc \in {"ready", "run"}
    BY InUse
  <1>2. CASE SubmitTask(c) \/ SubmitBatch(c)
    <2>1. PICK op \in {"task", "batch"}, r \in Reqs, n \in {1} \cup 1 .. MaxBatch,
               cb \in BOOLEAN : Submit(c, op, r, n, cb)
      BY <1>2 DEF SubmitTask, SubmitBatch
    <2> DEFINE s == [NoCall EXCEPT !.pc = "scan", !.op = op, !.req = r, !.n = n, !.cb = cb]
    <2>2. /\ call' = [call EXCEPT ![c] = s] /\ call[c].pc = "idle"
          /\ UNCHANGED <<queue, pending_req, thr, tableVars, own, ran, freed>>
      BY <2>1 DEF Submit, workerVars, ghostVars
    <2>3. /\ s.pc = "scan" /\ s.op = op /\ s.req = r /\ s.n = n
      BY DEF NoCall
    <2>4. /\ Accepted(r) = {} /\ InCall(r, {"batch", "task"}) = {}
          /\ next_task_id + n - 1 <= MaxTaskId
      BY <2>1 DEF Submit, MaySubmit, RequestInv, SubmitOnce
    <2>5. n \in 1 .. MaxTaskId
      BY <2>4, BoundsNat DEF TypeInv, TypeOK
    <2>6. ContextsOf(r) = {}
      BY <2>4 DEF Remembered
    <2> HIDE DEF s
    <2>7. /\ TableInv' /\ \A q \in Reqs : Frame(q)
          /\ call'[c] = s /\ \A d \in Callers \ {c} : call'[d] = call[d]
      BY <1>1, <2>2, <2>3, CallerCalm
    <2>8. Accepted(r)' = {} /\ ContextsOf(r)' = {}
      BY <2>4, <2>6, <2>7 DEF Frame
    <2>9. CallInv(call[c])'
      BY <2>3, <2>5, <2>7, <2>8 DEF CallInv, SubmitPc, FoundPc
    <2>10. \A d \in Callers \ {c} : call[d].pc \in SubmitPc => call[d].req # call'[c].req
      BY <2>3, <2>4, <2>7 DEF InCall, RequestInv, CallsOK, CallInv
    <2> QED BY <1>1, <2>2, <2>7, <2>9, <2>10, CallerLeaves
  <1>3. ASSUME NEW r \in Reqs, Wake(c, r) \/ Cancel(c, r) PROVE RequestInv'
    <2>1. PICK i \in Lookup(r), op \in {"wake", "cancel"},
               pc \in {"wderef", "cderef"} :
               /\ op = "cancel" <=> pc = "cderef"
               /\ call' = [call EXCEPT ![c] =
                             IF i = 0 THEN NoCall
                             ELSE [NoCall EXCEPT !.pc = pc, !.op = op,
                                                 !.req = r, !.ctx = i]]
      BY <1>3 DEF Wake, Cancel
    <2> DEFINE s == IF i = 0 THEN NoCall
                    ELSE [NoCall EXCEPT !.pc = pc, !.op = op, !.req = r, !.ctx = i]
    <2>2. /\ call' = [call EXCEPT ![c] = s] /\ call[c].pc = "idle"
          /\ UNCHANGED <<queue, pending_req, thr, tableVars, own, ran, freed>>
      BY <1>3, <2>1 DEF Wake, Cancel, workerVars, ghostVars
    <2>3. \/ s.pc = "idle" /\ s.op = "none"
          \/ s.pc = pc /\ s.op = op /\ s.req = r /\ s.ctx = i /\ i # 0
      BY DEF NoCall
    <2> HIDE DEF s
    <2>4. /\ TableInv' /\ \A q \in Reqs : Frame(q)
          /\ call'[c] = s /\ \A d \in Callers \ {c} : call'[d] = call[d]
      BY <1>1, <2>2, <2>3, CallerCalm
    <2>5. CallInv(call[c])'
      <3>1. CASE s.pc = "idle" /\ s.op = "none"
        BY <2>4, <3>1, CallIdle
      <3>2. CASE s.pc = pc /\ s.op = op /\ s.req = r /\ s.ctx = i /\ i # 0
        <4>1. i \in ContextsOf(r)
          BY <3>2, LookupOne DEF RequestInv, TableInv
        <4>2. i \in ContextsOf(r)'
          BY <2>4, <4>1 DEF Frame
        <4> QED BY <2>1, <2>4, <3>2, <4>2 DEF CallInv, SubmitPc, FoundPc
      <3> QED BY <2>3, <3>1, <3>2
    <2> QED BY <1>1, <2>2, <2>3, <2>4, <2>5, CallerLeaves DEF SubmitPc
  <1> QED BY <1>2, <1>3 DEF NewCall

\* select_best_worker, a failed allocation, the lookup of the context (which
\* finds none), the dereference of a context, and the return of an id.
LEMMA LocalRequest ==
  ASSUME TypeInv, TypeInv', RequestInv, NEW c \in Callers,
         \/ Scan(c) \/ AllocFail(c) \/ FindCtx(c) \/ InsertFail(c) \/ ReadId(c) \/ Stray(c)
         \/ Deref(c)
  PROVE  RequestInv'
PROOF
  <1>0. /\ call \in [Callers -> CallType] /\ CallInv(call[c])
        /\ UNCHANGED <<queue, pending_req, thr, tableVars, own, ran, freed>>
        /\ call[c].pc \notin {"idle", "cupdate"}
    BY DEF Scan, AllocFail, FindCtx, InsertFail, ReadId, Stray, Deref, workerVars,
       ghostVars,
           TypeInv, TypeOK, RequestInv, CallsOK
  <1>1. own.pc \in {"ready", "run"}
    BY <1>0, InUse
  <1>2. PICK r \in Reqs : r = call[c].req
    BY <1>0 DEF TypeInv, LocalsOK, CallOK
  <1>3. ASSUME NEW s, call' = [call EXCEPT ![c] = s], s.pc = "idle", s.op = "none"
        PROVE  RequestInv'
    <2>1. /\ TableInv' /\ \A q \in Reqs : Frame(q)
          /\ call'[c] = s /\ \A d \in Callers \ {c} : call'[d] = call[d]
      BY <1>0, <1>1, <1>3, CallerCalm
    <2>2. CallInv(call[c])'
      BY <1>3, <2>1, CallIdle
    <2> QED BY <1>0, <1>1, <1>3, <2>1, <2>2, CallerLeaves DEF SubmitPc
  <1>4. NoCall.pc = "idle" /\ NoCall.op = "none"
    BY DEF NoCall
  <1>5. CASE AllocFail(c) \/ InsertFail(c) \/ ReadId(c) \/ Stray(c)
    <2>1. call' = [call EXCEPT ![c] = NoCall]
      BY <1>5 DEF AllocFail, InsertFail, ReadId, Stray
    <2> QED BY <1>3, <1>4, <2>1
  <1>6. CASE Scan(c)
    <2> DEFINE s == Scanned(call[c])
    <2>1. call' = [call EXCEPT ![c] = s] /\ call[c].pc = "scan"
      BY <1>6 DEF Scan
    <2>2. \/ s.pc = "idle" /\ s.op = "none"
          \/ /\ s.pc \in {"scan", "attach"} /\ s.op = call[c].op /\ s.req = r
             /\ s.n = call[c].n
      <3>1. call[c] \in CallType
        BY <1>0
      <3>2. LET b == Considered(call[c])
            IN  /\ b \in CallType /\ b.pc = "scan" /\ b.op = call[c].op /\ b.req = r
                /\ b.n = call[c].n
        BY <1>2, <2>1, <3>1, ScannedType DEF Considered, CallType, TypeInv, TypeOK
      <3> QED BY <1>2, <1>4, <2>1, <3>1, <3>2 DEF Scanned, CallType
    <2> HIDE DEF s
    <2>3. CASE s.pc = "idle" /\ s.op = "none"
      BY <1>3, <2>1, <2>3
    <2>4. CASE /\ s.pc \in {"scan", "attach"} /\ s.op = call[c].op /\ s.req = r
               /\ s.n = call[c].n
      <3>1. /\ TableInv' /\ \A q \in Reqs : Frame(q)
            /\ call'[c] = s /\ \A d \in Callers \ {c} : call'[d] = call[d]
        BY <1>0, <1>1, <2>1, <2>4, CallerCalm
      <3>2. Accepted(r) = {} /\ ContextsOf(r) = {} /\ call[c].n \in 1 .. MaxTaskId
            /\ call[c].op \in {"batch", "task"}
        BY <1>0, <1>2, <2>1 DEF CallInv, SubmitPc
      <3>3. Accepted(r)' = {} /\ ContextsOf(r)' = {}
        BY <3>1, <3>2 DEF Frame
      <3>4. CallInv(call[c])'
        BY <2>4, <3>1, <3>2, <3>3 DEF CallInv, SubmitPc, FoundPc
      <3>5. call[c].pc \in SubmitPc /\ call'[c].req = call[c].req
        BY <1>2, <2>1, <2>4, <3>1 DEF SubmitPc
      <3> QED BY <1>0, <1>1, <3>1, <3>4, <3>5, CallerLeaves
    <2> QED BY <2>2, <2>3, <2>4
  <1>7. CASE FindCtx(c)
    <2>1. ContextsOf(r) = {} /\ call[c].pc = "find"
      BY <1>0, <1>2, <1>7 DEF FindCtx, CallInv
    <2>2. PICK i \in Lookup(r) :
              call' = [call EXCEPT ![c].pc = IF i = 0 THEN "insert" ELSE "add",
                                   ![c].ctx = i]
      BY <1>2, <1>7 DEF FindCtx
    <2>3. i = 0
      BY <2>1, LookupOne DEF RequestInv, TableInv
    <2> DEFINE s == [call[c] EXCEPT !.pc = "insert", !.ctx = 0]
    <2>4. call' = [call EXCEPT ![c] = s]
      BY <1>0, <2>2, <2>3
    <2>5. /\ s.pc = "insert" /\ s.op = call[c].op /\ s.req = r
          /\ s.n = call[c].n /\ s.best = call[c].best
      BY <1>0, <1>2 DEF CallType
    <2> HIDE DEF s
    <2>6. /\ TableInv' /\ \A q \in Reqs : Frame(q)
          /\ call'[c] = s /\ \A d \in Callers \ {c} : call'[d] = call[d]
      BY <1>0, <1>1, <2>4, <2>5, CallerCalm
    <2>7. /\ ContextsOf(r)' = {} /\ Queued(r)' = Queued(r)
          /\ \A w \in Workers : OfReq(w, r)' \subseteq OfReq(w, r)
      BY <2>1, <2>6 DEF Frame
    <2>8. CallInv(call[c])'
      BY <1>0, <1>2, <2>1, <2>5, <2>6, <2>7 DEF CallInv, SubmitPc, FoundPc
    <2>9. call[c].pc \in SubmitPc /\ call'[c].req = call[c].req
      BY <1>2, <2>1, <2>5, <2>6 DEF SubmitPc
    <2> QED BY <1>0, <1>1, <2>6, <2>8, <2>9, CallerLeaves
  <1>8. CASE Deref(c)
    <2>1. PICK w \in BoundTo(call[c].ctx) :
              call' = [call EXCEPT ![c].best = w,
                         ![c].pc = IF call[c].pc = "wderef" THEN "wset" ELSE "cremove"]
      BY <1>8 DEF Deref
    <2> DEFINE pc == IF call[c].pc = "wderef" THEN "wset" ELSE "cremove"
               s == [call[c] EXCEPT !.best = w, !.pc = pc]
    <2>2. call' = [call EXCEPT ![c] = s]
      BY <1>0, <2>1
    <2>3. /\ s.pc = pc /\ s.op = call[c].op /\ s.req = r
          /\ s.best = w /\ s.ctx = call[c].ctx
      BY <1>0, <1>2 DEF CallType
    <2> HIDE DEF s
    <2>4. call[c].pc \in {"wderef", "cderef"}
      BY <1>8 DEF Deref
    <2>5. /\ TableInv' /\ \A q \in Reqs : Frame(q)
          /\ call'[c] = s /\ \A d \in Callers \ {c} : call'[d] = call[d]
      BY <1>0, <1>1, <2>2, <2>3, CallerCalm
    <2>6. call[c].ctx \in ContextsOf(r)
      BY <1>0, <1>2, <2>4 DEF CallInv, FoundPc
    <2>7. \A i \in ContextsOf(r) : w = ctx[i].worker_idx \/ Settled(r)
      <3>1. CASE Settled(r)
        BY <3>1
      <3>2. CASE ~Settled(r)
        BY <2>1, <2>6, <3>2, FindsOne DEF BoundTo, Live
      <3> QED BY <3>1, <3>2
    <2>8. /\ ContextsOf(r)' = ContextsOf(r)
          /\ \A i \in ContextsOf(r) : ctx'[i].worker_idx = ctx[i].worker_idx
          /\ Settled(r) => Settled(r)'
      BY <2>5 DEF Frame
    <2>9. CallInv(call[c])'
      BY <1>0, <1>2, <2>3, <2>4, <2>5, <2>6, <2>7, <2>8 DEF CallInv, SubmitPc, FoundPc
    <2> QED BY <1>0, <1>1, <2>3, <2>5, <2>9, CallerLeaves DEF SubmitPc
  <1> QED BY <1>5, <1>6, <1>7, <1>8

\* thread_pool_wake_up_worker_by_req_id sets the notification at the worker of
\* the request, or, with a stale context, for a request that is settled.
LEMMA WakeSetRequest ==
  ASSUME TypeInv, TypeInv', RequestInv, NEW c \in Callers, WakeSet(c)
  PROVE  RequestInv'
PROOF
  <1>0. /\ call \in [Callers -> CallType] /\ CallInv(call[c]) /\ call[c].pc = "wset"
        /\ UNCHANGED <<queue, tableVars, own, ran, freed>>
        /\ thr \in [Workers -> ThreadType] /\ pending_req \in [Workers -> Reqs \cup {0}]
    BY DEF WakeSet, TypeInv, TypeOK, RequestInv, CallsOK
  <1>1. own.pc \in {"ready", "run"}
    BY <1>0, InUse
  <1>2. PICK r \in Reqs : r = call[c].req
    BY <1>0 DEF TypeInv, LocalsOK, CallOK
  <1>3. PICK b \in Workers : b = call[c].best
    BY <1>0 DEF TypeInv, LocalsOK, CallOK
  <1>4. /\ pending_req' = [pending_req EXCEPT ![b] = r]
        /\ thr' = Signal(b) /\ call' = [call EXCEPT ![c] = NoCall]
    BY <1>2, <1>3 DEF WakeSet
  <1>5. /\ call'[c] = NoCall /\ NoCall.pc = "idle" /\ NoCall.op = "none"
        /\ \A d \in Callers \ {c} : call'[d] = call[d]
    BY <1>0, <1>4 DEF NoCall
  <1>6. ContextsOf(r) # {} /\ \A i \in ContextsOf(r) : b = ctx[i].worker_idx \/ Settled(r)
    BY <1>0, <1>2, <1>3 DEF CallInv, FoundPc
  <1>7. \A w \in Workers : Notifies(w)
    <2>1. pending_req'[b] = r /\ \A w \in Workers : w # b => pending_req'[w] = pending_req[w]
      BY <1>0, <1>4
    <2> QED BY <1>6, <2>1 DEF Notifies
  <1>8. \A w \in Workers : Moved(w) /\ SameCounted(w)
    <2>1. \A w \in Workers : thr'[w] = thr[w] \/ {thr[w].pc, thr'[w].pc} \subseteq {"wait", "woken"}
      BY <1>0, <1>4 DEF Signal, ThreadType
    <2> QED BY <2>1 DEF Moved, SameCounted, Running
  <1>9. Calm
    BY <1>0, <1>5, <1>7, <1>8 DEF Calm, SameContexts, tableVars
  <1>10. TableInv'
    BY <1>0, <1>9, CalmTable
  <1>11. \A q \in Reqs : Frame(q)
    BY <1>0, <1>9, CalmFrame DEF Known
  <1>12. CallInv(call[c])'
    BY <1>5, CallIdle
  <1> QED BY <1>0, <1>1, <1>5, <1>10, <1>11, <1>12, CallerLeaves DEF SubmitPc

\* cancel_in_worker_queue takes all that is queued of the request, and the call
\* takes note of how many these were; with a stale context there is nothing.
LEMMA CancelQueueRequest ==
  ASSUME TypeInv, TypeInv', RequestInv, NEW c \in Callers, CancelQueue(c)
  PROVE  RequestInv'
PROOF
  <1>0. /\ call \in [Callers -> CallType] /\ CallInv(call[c]) /\ call[c].pc = "cremove"
        /\ UNCHANGED <<pending_req, thr, tableVars, own, ran>>
        /\ queue \in [Workers -> SUBSET Task]
    BY DEF CancelQueue, TypeInv, TypeOK, RequestInv, CallsOK
  <1>1. own.pc \in {"ready", "run"}
    BY <1>0, InUse
  <1>2. PICK r \in Reqs : r = call[c].req
    BY <1>0 DEF TypeInv, LocalsOK, CallOK
  <1>3. PICK b \in Workers : b = call[c].best
    BY <1>0 DEF TypeInv, LocalsOK, CallOK
  <1> DEFINE gone == OfReq(b, r)
             k == Cardinality(gone)
  <1>4. /\ queue' = [queue EXCEPT ![b] = @ \ gone] /\ freed' = freed \cup gone
        /\ call' = [call EXCEPT ![c] = Removed(call[c], k)] /\ LockFree(b)
    BY <1>2, <1>3 DEF CancelQueue
  <1>5. /\ ContextsOf(r) # {} /\ call[c].ctx \in ContextsOf(r)
        /\ \A i \in ContextsOf(r) : b = ctx[i].worker_idx \/ Settled(r)
        /\ call[c].op = "cancel"
    BY <1>0, <1>2, <1>3 DEF CallInv, FoundPc
  <1>6. gone \subseteq Queued(r) /\ IsFiniteSet(gone) /\ k \in Nat
    <2>1. gone \subseteq Queued(r)
      BY DEF OfReq, Queued
    <2> QED BY <2>1, QueuedFinite, FS_Subset, FS_CardinalityType
  <1>7. CASE gone = {}
    <2>1. k = 0
      BY <1>7, FS_EmptySet
    <2>2. queue' = queue /\ freed' = freed /\ call' = [call EXCEPT ![c] = NoCall]
      <3>1. \A w \in Workers : queue'[w] = queue[w]
        BY <1>0, <1>4, <1>7
      <3>2. queue' = queue
        BY <1>0, <1>4, <3>1
      <3>3. call' = [call EXCEPT ![c] = NoCall]
        BY <1>4, <2>1 DEF Removed
      <3> QED BY <1>4, <1>7, <3>2, <3>3
    <2>3. NoCall.pc = "idle" /\ NoCall.op = "none"
      BY DEF NoCall
    <2>4. /\ TableInv' /\ \A q \in Reqs : Frame(q)
          /\ call'[c] = NoCall /\ \A d \in Callers \ {c} : call'[d] = call[d]
      BY <1>0, <1>1, <2>2, <2>3, CallerCalm
    <2>5. CallInv(call[c])'
      BY <2>3, <2>4, CallIdle
    <2> QED BY <1>0, <1>1, <2>3, <2>4, <2>5, CallerLeaves DEF SubmitPc
  <1>8. CASE gone # {}
    <2>1. k > 0
      BY <1>6, <1>8, FS_EmptySet
    <2>2. ~Settled(r)
      BY <1>6, <1>8 DEF Settled
    <2>3. \A i \in ContextsOf(r) : b = ctx[i].worker_idx
      BY <1>5, <2>2
    <2>4. \A w \in Workers : w # b =>
             OfReq(w, r) = {} /\ (Running(w) => thr[w].task.req # r)
      BY <1>5, <2>3 DEF RequestInv, TableInv, Home, ContextsOf
    <2>5. Queued(r) = gone
      BY <2>4 DEF Queued, OfReq
    <2>6. k \in 1 .. MaxTaskId
      BY <1>6, <2>1, <2>5, BoundsNat DEF RequestInv, TableInv, Few
    <2>7. InHand(r) = {}
      <3>1. ~Running(b)
        BY <1>4 DEF LockFree, Running
      <3> QED BY <2>4, <3>1 DEF InHand, Running
    <2> DEFINE s == [call[c] EXCEPT !.pc = "cupdate", !.k = k]
    <2>8. call' = [call EXCEPT ![c] = s]
      BY <1>4, <2>1 DEF Removed
    <2>9. /\ s.pc = "cupdate" /\ s.k = k /\ s.req = r /\ s.ctx = call[c].ctx
          /\ s.op = call[c].op
      BY <1>0, <1>2 DEF CallType
    <2> HIDE DEF s
    <2>10. call'[c] = s /\ \A d \in Callers \ {c} : call'[d] = call[d]
      BY <1>0, <2>8
    \* What is counted before and after.
    <2>11. \A q \in Reqs : Undecremented(q)' = Undecremented(q)
      BY <1>0 DEF Undecremented
    <2>12. \A q \in Reqs : q # r => Queued(q)' = Queued(q)
      <3>1. \A u : u.req # r => \A w \in Workers : u \in queue'[w] <=> u \in queue[w]
        BY <1>0, <1>4 DEF OfReq
      <3> QED BY <3>1 DEF Queued
    <2>13. Queued(r)' = {}
      <3>1. \A w \in Workers : OfReq(w, r)' = {}
        BY <1>0, <1>4, <2>4 DEF OfReq
      <3> QED BY <3>1 DEF Queued, OfReq
    <2>14. \A q \in Reqs : q # r => Unsubtracted(q)' = Unsubtracted(q)
      <3> SUFFICES ASSUME NEW q \in Reqs, q # r PROVE Unsubtracted(q)' = Unsubtracted(q)
        OBVIOUS
      <3>1. \A d \in Callers : call'[d].pc = "cupdate" /\ call'[d].req = q <=>
                               call[d].pc = "cupdate" /\ call[d].req = q
        BY <1>0, <2>9, <2>10
      <3>2. \A d \in Callers : call[d].pc = "cupdate" /\ call[d].req = q =>
                               call'[d].k = call[d].k
        BY <1>0, <2>10
      <3> QED BY <3>1, <3>2 DEF Unsubtracted
    <2>15. \A d \in Callers : ~(call[d].pc = "cupdate" /\ call[d].req = r)
      BY <1>8, <2>5 DEF RequestInv, CallsOK, CallInv
    <2>16. Unsubtracted(r) = {}
      BY <2>15 DEF Unsubtracted
    <2>17. Unsubtracted(r)' = {c} \X (1 .. k)
      <3>1. \A x \in Callers \X (1 .. MaxTaskId) :
               call'[x[1]].pc = "cupdate" /\ call'[x[1]].req = r /\ x[2] <= call'[x[1]].k
               <=> x[1] = c /\ x[2] <= k
        BY <2>9, <2>10, <2>15
      <3>2. \A j \in 1 .. MaxTaskId : j <= k <=> j \in 1 .. k
        BY <2>6
      <3>3. 1 .. k \subseteq 1 .. MaxTaskId
        <4>1. \A m, n \in Nat : m <= n => 1 .. m \subseteq 1 .. n
          OBVIOUS
        <4>2. k \in Nat /\ MaxTaskId \in Nat /\ k <= MaxTaskId
          BY <1>6, <2>6, BoundsNat
        <4> QED BY <4>1, <4>2
      <3> QED BY <3>1, <3>2, <3>3 DEF Unsubtracted
    <2>18. IsFiniteSet(Unsubtracted(r)') /\ Cardinality(Unsubtracted(r)') = k
      <3>1. IsFiniteSet({c} \X (1 .. k)) /\ Cardinality({c} \X (1 .. k)) = k
        <4>1. k \in Nat /\ k # 0
          BY <1>6, <2>1
        <4> HIDE DEF k
        <4> QED BY <4>1, BlockCount
      <3> QED BY <2>17, <3>1
    <2>19. Shrinks
      <3>1. \A w \in Workers : queue'[w] \subseteq queue[w] /\ Moved(w) /\ Notifies(w)
        BY <1>0, <1>4 DEF Moved, Notifies
      <3>2. \A q \in Reqs : /\ IsFiniteSet(Unsubtracted(q)')
                            /\ Settled(q) => Unsubtracted(q)' = {}
        BY <2>2, <2>14, <2>18 DEF Settled, RequestInv, TableInv, Few
      <3> QED BY <1>0, <3>1, <3>2 DEF Shrinks, SameContexts, tableVars
    <2>20. ran' \cup freed' \subseteq Known
      <3>1. gone \subseteq Waiting
        BY DEF OfReq, Waiting
      <3> QED BY <1>0, <1>4, <3>1 DEF Known
    <2>21. \A q \in Reqs : Frame(q)
      BY <1>5, <2>12, <2>19, <2>20, FrameOf
    \* The table.
    <2>22. \A j \in 1 .. Len(ctx) : ctx[j].request_id \in Reqs
      BY ContextType
    <2>23. FreedSettled'
      <3>1. \A q \in Reqs : Settled(q) => Settled(q)'
        BY <2>19, ShrinksFacts
      <3> QED BY <1>0, <2>22, <3>1 DEF tableVars, RequestInv, TableInv, FreedSettled
    <2>24. CountExact'
      <3> SUFFICES ASSUME NEW j \in req_hash, NEW q, q = ctx[j].request_id
                   PROVE  ctx[j].pending_count = Cardinality(Queued(q)')
                      + Cardinality(Undecremented(q)') + Cardinality(Unsubtracted(q)')
        BY <1>0 DEF CountExact, tableVars
      <3>1. q \in Reqs
        BY <2>22 DEF TypeInv, TypeOK
      <3>2. ctx[j].pending_count = Cardinality(Queued(q))
               + Cardinality(Undecremented(q)) + Cardinality(Unsubtracted(q))
        BY DEF RequestInv, TableInv, CountExact
      <3>3. CASE q # r
        BY <2>11, <2>12, <2>14, <3>1, <3>2, <3>3
      <3>4. CASE q = r
        <4>1. Cardinality(Undecremented(r)) \in Nat
          BY QueuedFinite
        <4>2. Cardinality({}) = 0
          BY FS_EmptySet
        <4>3. ctx[j].pending_count = k + Cardinality(Undecremented(r)) + 0
          BY <2>5, <2>16, <3>2, <3>4, <4>2
        <4>4. /\ Cardinality(Queued(q)') = 0 /\ Cardinality(Unsubtracted(q)') = k
              /\ Cardinality(Undecremented(q)') = Cardinality(Undecremented(r))
          BY <2>11, <2>13, <2>18, <3>4, <4>2
        <4> HIDE DEF k
        <4> QED BY <1>6, <4>1, <4>3, <4>4
      <3> QED BY <3>3, <3>4
    <2>25. TableInv'
      BY <2>19, <2>23, <2>24, TableMoves DEF TableInv
    <2>26. CallInv(call[c])'
      <3>1. /\ ContextsOf(r)' = ContextsOf(r) /\ Queued(r)' = {}
            /\ InHand(r)' = {}
        <4>1. InHand(r)' = InHand(r)
          BY <1>0 DEF InHand
        <4>2. ContextsOf(r)' = ContextsOf(r)
          BY <2>21 DEF Frame
        <4> QED BY <2>7, <2>13, <4>1, <4>2
      <3> QED BY <1>5, <2>6, <2>9, <2>10, <3>1 DEF CallInv, SubmitPc, FoundPc
    <2> QED BY <1>0, <1>1, <2>9, <2>10, <2>21, <2>25, <2>26, CallerLeaves DEF SubmitPc
  <1> QED BY <1>7, <1>8

\* The second half of a cancel meets the context of its request, subtracts what
\* it took, and frees the context exactly when nothing of the request is left.
LEMMA CancelCtxRequest ==
  ASSUME TypeInv, TypeInv', RequestInv, NEW c \in Callers, CancelCtx(c)
  PROVE  RequestInv' /\ UNCHANGED faults
PROOF
  <1> DEFINE i == call[c].ctx
             k == call[c].k
  <1>0. /\ call \in [Callers -> CallType] /\ CallInv(call[c]) /\ call[c].pc = "cupdate"
        /\ UNCHANGED <<queue, pending_req, thr, own, ran, freed>>
        /\ call' = [call EXCEPT ![c] = NoCall]
    BY DEF CancelCtx, TypeInv, TypeOK, RequestInv, CallsOK, workerVars
  <1>1. own.pc \in {"ready", "run"}
    BY <1>0, InUse
  <1>2. PICK r \in Reqs : r = call[c].req
    BY <1>0 DEF TypeInv, LocalsOK, CallOK
  <1>3. ContextsOf(r) # {} /\ i \in ContextsOf(r) /\ k \in 1 .. MaxTaskId
    BY <1>0, <1>2 DEF CallInv, FoundPc
  <1>4. /\ call'[c] = NoCall /\ NoCall.pc = "idle" /\ NoCall.op = "none"
        /\ \A d \in Callers \ {c} : call'[d] = call[d]
    BY <1>0 DEF NoCall
  \* What is counted before and after.
  <1> DEFINE mine == {c} \X (1 .. k)
  <1>5. mine \subseteq Unsubtracted(r)
    <2>1. \A j \in 1 .. k : j \in 1 .. MaxTaskId /\ j <= call[c].k
      BY <1>3, BoundsNat
    <2> QED BY <1>0, <1>2, <2>1 DEF Unsubtracted
  <1>6. k \in Nat /\ k # 0 /\ IsFiniteSet(mine) /\ Cardinality(mine) = k
    <2>1. k \in Nat /\ k # 0
      BY <1>3, BoundsNat
    <2> QED BY <2>1, BlockCount
  <1>7. ~Settled(r)
    <2>1. mine # {}
      BY <1>6, FS_EmptySet
    <2> QED BY <1>5, <2>1 DEF Settled
  <1>8. i \in req_hash /\ \A j \in ContextsOf(r) : i = j
    BY <1>3, <1>7, FindsOne
  <1>9. /\ ctx' = [ctx EXCEPT ![i].pending_count = @ - k]
        /\ req_hash' = IF ctx'[i].pending_count = 0 THEN req_hash \ Newest(r) ELSE req_hash
        /\ faults' = faults
    BY <1>2, <1>8 DEF CancelCtx, Live
  <1>10. /\ i \in 1 .. Len(ctx) /\ req_hash \subseteq 1 .. Len(ctx)
    BY <1>8 DEF TypeInv, TypeOK
  <1>11. /\ ctx \in Seq(Context) /\ DOMAIN ctx = 1 .. Len(ctx) /\ Len(ctx) \in Nat
         /\ \A j \in 1 .. Len(ctx) : ctx[j] \in Context
    BY LenProperties, ElementOfSeq DEF TypeInv, TypeOK
  <1>12. ctx'[i].pending_count = ctx[i].pending_count - k
    BY <1>9, <1>10, <1>11 DEF Context
  <1>13. \A j \in 1 .. Len(ctx) : /\ ctx'[j].request_id = ctx[j].request_id
                                  /\ ctx'[j].worker_idx = ctx[j].worker_idx
                                  /\ j # i => ctx'[j] = ctx[j]
    BY <1>9, <1>10, <1>11 DEF Context
  <1>14. SameContexts
    <2>1. ctx \in Seq(Context) /\ i \in 1 .. Len(ctx) /\ ctx[i].pending_count - k \in Int
      BY <1>6, <1>10, <1>11 DEF Context
    <2>2. Len(ctx') = Len(ctx)
      BY <1>9, <2>1, ContextCounts
    <2> QED BY <1>13, <2>2 DEF SameContexts
  <1>15. \A q \in Reqs : Queued(q)' = Queued(q) /\ Undecremented(q)' = Undecremented(q)
    BY <1>0 DEF Queued, Undecremented
  <1>16. \A q \in Reqs : q # r => Unsubtracted(q)' = Unsubtracted(q)
    <2> SUFFICES ASSUME NEW q \in Reqs, q # r PROVE Unsubtracted(q)' = Unsubtracted(q)
      OBVIOUS
    <2>1. \A d \in Callers : call'[d].pc = "cupdate" /\ call'[d].req = q <=>
                             call[d].pc = "cupdate" /\ call[d].req = q
      BY <1>2, <1>4
    <2>2. \A d \in Callers : call[d].pc = "cupdate" /\ call[d].req = q =>
                             call'[d].k = call[d].k
      BY <1>2, <1>4
    <2> QED BY <2>1, <2>2 DEF Unsubtracted
  <1>17. Unsubtracted(r)' = Unsubtracted(r) \ mine
    <2> DEFINE All == Callers \X (1 .. MaxTaskId)
    <2>1. ASSUME NEW x \in All
          PROVE  x \in Unsubtracted(r)' <=> x \in Unsubtracted(r) /\ x \notin mine
      <3>1. x[1] \in Callers /\ x[2] \in 1 .. MaxTaskId
        OBVIOUS
      <3>2. CASE x[1] = c
        <4>1. x \notin Unsubtracted(r)'
          BY <1>4, <3>2 DEF Unsubtracted
        <4>2. x \in Unsubtracted(r) => x[2] \in 1 .. k
          BY <1>6, <3>1, <3>2 DEF Unsubtracted
        <4>3. x \in Unsubtracted(r) => x \in mine
          BY <3>2, <4>2
        <4> QED BY <4>1, <4>3
      <3>3. CASE x[1] # c
        <4>1. x \notin mine
          BY <3>3
        <4>2. call'[x[1]] = call[x[1]]
          BY <1>4, <3>1, <3>3
        <4> QED BY <4>1, <4>2 DEF Unsubtracted
      <3> QED BY <3>2, <3>3
    <2>2. Unsubtracted(r)' \subseteq All /\ Unsubtracted(r) \subseteq All
      BY DEF Unsubtracted
    <2> QED BY <2>1, <2>2
  <1> HIDE DEF mine
  <1>18. /\ IsFiniteSet(Queued(r)) /\ Cardinality(Queued(r)) \in Nat
         /\ IsFiniteSet(Undecremented(r)) /\ Cardinality(Undecremented(r)) \in Nat
         /\ IsFiniteSet(Unsubtracted(r)) /\ Cardinality(Unsubtracted(r)) \in Nat
    BY QueuedFinite, FS_CardinalityType DEF RequestInv, TableInv, Few
  <1>19. /\ IsFiniteSet(Unsubtracted(r)') /\ Cardinality(Unsubtracted(r)') \in Nat
         /\ Cardinality(Unsubtracted(r)) = Cardinality(Unsubtracted(r)') + k
    <2>1. IsFiniteSet(Unsubtracted(r)')
      BY <1>17, <1>18, FS_Subset
    <2>2. /\ Unsubtracted(r)' \cup mine = Unsubtracted(r)
          /\ Unsubtracted(r)' \cap mine = {}
      BY <1>5, <1>17
    <2>3. Cardinality(Unsubtracted(r)) = Cardinality(Unsubtracted(r)') + Cardinality(mine)
                                         - Cardinality({})
      BY <1>6, <2>1, <2>2, FS_Union
    <2>4. Cardinality({}) = 0 /\ Cardinality(Unsubtracted(r)') \in Nat
      BY <2>1, FS_EmptySet, FS_CardinalityType
    <2> QED BY <1>6, <2>1, <2>3, <2>4
  <1>20. ctx[i].request_id = r
    BY <1>3 DEF ContextsOf
  <1>21. ctx[i].pending_count = Cardinality(Queued(r))
             + Cardinality(Undecremented(r)) + Cardinality(Unsubtracted(r))
    BY <1>8, <1>20 DEF RequestInv, TableInv, CountExact
  <1>22. ctx'[i].pending_count = Cardinality(Queued(r)')
             + Cardinality(Undecremented(r)') + Cardinality(Unsubtracted(r)')
    BY <1>6, <1>12, <1>15, <1>18, <1>19, <1>21
  <1>23. ctx'[i].pending_count = 0 => Settled(r)'
    <2> SUFFICES ASSUME ctx'[i].pending_count = 0 PROVE Settled(r)'
      OBVIOUS
    <2>1. /\ Cardinality(Queued(r)) = 0 /\ Cardinality(Undecremented(r)) = 0
          /\ Cardinality(Unsubtracted(r)') = 0
      BY <1>15, <1>18, <1>19, <1>22
    <2>2. Queued(r) = {} /\ Undecremented(r) = {} /\ Unsubtracted(r)' = {}
      BY <1>18, <1>19, <2>1, FS_EmptySet
    <2> QED BY <1>15, <2>2 DEF Settled
  <1>24. Shrinks
    <2>1. \A v \in Workers : queue'[v] \subseteq queue[v] /\ Moved(v) /\ Notifies(v)
      BY <1>0 DEF Moved, Notifies
    <2>2. \A q \in Reqs : /\ IsFiniteSet(Unsubtracted(q)')
                          /\ Settled(q) => Unsubtracted(q)' = {}
      BY <1>7, <1>16, <1>19 DEF Settled, RequestInv, TableInv, Few
    <2> QED BY <1>14, <2>1, <2>2 DEF Shrinks
  <1>25. \A q \in Reqs : Frame(q)
    BY <1>0, <1>15, <1>24, FrameOf DEF Known
  <1>26. \A j \in 1 .. Len(ctx) : ctx[j].request_id \in Reqs
    BY ContextType
  <1>27. FreedSettled'
    <2>1. \A q \in Reqs : Settled(q) => Settled(q)'
      BY <1>24, ShrinksFacts
    <2> SUFFICES ASSUME NEW j \in 1 .. Len(ctx), j \notin req_hash',
                        NEW q, q = ctx[j].request_id
                 PROVE  Settled(q)'
      BY <1>14 DEF FreedSettled, SameContexts
    <2>2. q \in Reqs
      BY <1>26
    <2>3. CASE j \in req_hash
      <3>1. ctx'[i].pending_count = 0 /\ q = r
        BY <1>9, <2>3 DEF Newest
      <3> QED BY <1>23, <3>1
    <2>4. CASE j \notin req_hash
      BY <2>1, <2>2, <2>4 DEF RequestInv, TableInv, FreedSettled
    <2> QED BY <2>3, <2>4
  <1>28. CountExact'
    <2> SUFFICES ASSUME NEW j \in req_hash', NEW q, q = ctx[j].request_id
                 PROVE  ctx'[j].pending_count = Cardinality(Queued(q)')
                    + Cardinality(Undecremented(q)') + Cardinality(Unsubtracted(q)')
      <3>1. \A j \in req_hash' : ctx'[j].request_id = ctx[j].request_id
        BY <1>9, <1>10, <1>13
      <3> QED BY <3>1 DEF CountExact
    <2>1. j \in req_hash /\ j \in 1 .. Len(ctx) /\ q \in Reqs
      BY <1>9, <1>10, <1>26
    <2>2. CASE j = i
      BY <1>20, <1>22, <2>2
    <2>3. CASE j # i
      <3>1. q # r
        BY <1>8, <2>1, <2>3 DEF ContextsOf
      <3>2. ctx[j].pending_count = Cardinality(Queued(q))
               + Cardinality(Undecremented(q)) + Cardinality(Unsubtracted(q))
        BY <2>1 DEF RequestInv, TableInv, CountExact
      <3> QED BY <1>13, <1>15, <1>16, <2>1, <2>3, <3>1, <3>2
    <2> QED BY <2>2, <2>3
  <1>29. TableInv'
    BY <1>24, <1>27, <1>28, TableMoves DEF TableInv
  <1>30. CallInv(call[c])'
    BY <1>4, CallIdle
  <1>31. RequestInv'
    BY <1>0, <1>1, <1>4, <1>25, <1>29, <1>30, CallerLeaves DEF SubmitPc
  <1> QED BY <1>9, <1>31

\* The other calls on the request of a submit are over.
LEMMA SubmitAlone ==
  ASSUME TypeInv, RequestInv, NEW c \in Callers, call[c].pc \in {"attach", "insert"},
         NEW d \in Callers \ {c}, call[d].pc # "idle"
  PROVE  call[d].req # call[c].req
PROOF
  <1>1. ContextsOf(call[c].req) = {} /\ CallInv(call[d])
    BY DEF RequestInv, CallsOK, CallInv
  <1>2. call[d].pc \in SubmitPc \cup FoundPc
    BY DEF TypeInv, TypeOK, CallType, CallPc, SubmitPc, FoundPc
  <1>3. call[c].pc \in SubmitPc
    BY DEF SubmitPc
  <1>4. CASE call[d].pc \in SubmitPc
    BY <1>3, <1>4 DEF RequestInv, OneSubmit
  <1>5. CASE call[d].pc \in FoundPc
    BY <1>1, <1>5 DEF CallInv
  <1> QED BY <1>2, <1>4, <1>5

\* worker_queue_attach_list: the tasks of the one submit of the request enter
\* one queue, and no context counts them yet.
LEMMA AttachRequest ==
  ASSUME TypeInv, TypeInv', RequestInv, NEW c \in Callers, Attach(c)
  PROVE  RequestInv'
PROOF
  <1> DEFINE N == NewTasks(call[c])
  <1>0. /\ call \in [Callers -> CallType] /\ CallInv(call[c]) /\ call[c].pc = "attach"
        /\ UNCHANGED <<pending_req, thr, tableVars, own, ran, freed>>
        /\ queue \in [Workers -> SUBSET Task]
    BY DEF Attach, TypeInv, TypeOK, RequestInv, CallsOK, ghostVars
  <1>1. own.pc \in {"ready", "run"}
    BY <1>0, InUse
  <1>2. PICK r \in Reqs : r = call[c].req
    BY <1>0 DEF TypeInv, LocalsOK, CallOK
  <1>3. PICK b \in Workers : b = call[c].best
    BY <1>0 DEF TypeInv, LocalsOK, CallOK
  <1>4. queue' = [queue EXCEPT ![b] = @ \cup N]
    BY <1>3 DEF Attach, Linked
  <1> DEFINE s == [call[c] EXCEPT !.pc = "find", !.k = next_task_id]
  <1>5. /\ s.pc = "find" /\ s.req = r /\ s.op = call[c].op /\ s.n = call[c].n
        /\ s.best = b
    BY <1>0, <1>2, <1>3 DEF CallType
  <1>6. call' = [call EXCEPT ![c] = s]
    BY <1>0 DEF Attach
  <1> HIDE DEF s
  <1>7. call'[c] = s /\ \A d \in Callers \ {c} : call'[d] = call[d]
    BY <1>0, <1>6
  <1>8. /\ Accepted(r) = {} /\ ContextsOf(r) = {} /\ call[c].n \in 1 .. MaxTaskId
        /\ call[c].op \in {"batch", "task"}
    BY <1>0, <1>2 DEF CallInv, SubmitPc
  <1>9. Cardinality(N) = call[c].n
    BY NewTasksCount DEF TypeInv
  <1>10. \A t \in N : t.req = r
    BY <1>2 DEF NewTasks
  <1> HIDE DEF N
  \* What the step moves.
  <1>11. \A w \in Workers : OfReq(w, r) = {}
    BY <1>8 DEF Accepted, Queued, OfReq
  <1>12. \A w \in Workers : queue'[w] = IF w = b THEN queue[w] \cup N ELSE queue[w]
    BY <1>0, <1>4
  <1>13. OfReq(b, r)' = N /\ \A w \in Workers : w # b => OfReq(w, r)' = {}
    BY <1>10, <1>11, <1>12 DEF OfReq
  <1>14. Queued(r)' = N
    BY <1>13 DEF Queued, OfReq
  <1>15. \A q \in Reqs : q # r => \A w \in Workers : OfReq(w, q)' = OfReq(w, q)
    BY <1>10, <1>12 DEF OfReq
  <1>16. \A q \in Reqs : q # r => Queued(q)' = Queued(q)
    <2>1. \A u : u.req # r => \A w \in Workers : u \in queue'[w] <=> u \in queue[w]
      BY <1>10, <1>12
    <2> QED BY <2>1 DEF Queued
  <1>17. \A q \in Reqs : /\ Undecremented(q)' = Undecremented(q)
                         /\ InHand(q)' = InHand(q) /\ RanOf(q)' = RanOf(q)
                         /\ {u \in freed : u.req = q}' = {u \in freed : u.req = q}
                         /\ ContextsOf(q)' = ContextsOf(q)
    BY <1>0 DEF Undecremented, InHand, RanOf, ContextsOf, tableVars
  <1>18. \A q \in Reqs : Unsubtracted(q)' = Unsubtracted(q)
    <2>1. \A d \in Callers : "cupdate" \in {call[d].pc, call'[d].pc} => call'[d] = call[d]
      BY <1>0, <1>5, <1>7
    <2>2. \A q \in Reqs : \A x \in Callers \X (1 .. MaxTaskId) :
             call'[x[1]].pc = "cupdate" /\ call'[x[1]].req = q /\ x[2] <= call'[x[1]].k <=>
             call[x[1]].pc = "cupdate" /\ call[x[1]].req = q /\ x[2] <= call[x[1]].k
      BY <2>1
    <2> QED BY <2>2 DEF Unsubtracted
  <1>19. \A q \in Reqs : q # r => (Settled(q)' <=> Settled(q))
    BY <1>16, <1>17, <1>18 DEF Settled
  <1>20. \A q \in Reqs : q # r => Frame(q)
    <2> SUFFICES ASSUME NEW q \in Reqs, q # r PROVE Frame(q)
      OBVIOUS
    <2>1. Accepted(q)' = Accepted(q)
      BY <1>16, <1>17 DEF Accepted
    <2> QED BY <1>0, <1>15, <1>16, <1>17, <1>19, <2>1 DEF Frame, tableVars
  <1>21. \A q \in Reqs : (\E d \in Callers \ {c} : call[d].pc # "idle" /\ call[d].req = q)
                             => Frame(q)
    BY <1>0, <1>2, <1>20, SubmitAlone
  \* The table.
  <1>22. \A j \in 1 .. Len(ctx) : ctx[j].request_id \in Reqs /\ ctx[j].request_id # r
    BY <1>8, ContextType DEF ContextsOf
  <1>23. OneContext'
    BY <1>0 DEF tableVars, RequestInv, TableInv, OneContext
  <1>24. Unbound'
    BY <1>0, <1>17 DEF RequestInv, TableInv, Unbound, Running
  <1>25. FreedSettled'
    BY <1>0, <1>19, <1>22 DEF tableVars, RequestInv, TableInv, FreedSettled
  <1>26. Few'
    <2> SUFFICES ASSUME NEW q \in Reqs
                 PROVE  Cardinality(Queued(q)') <= MaxTaskId /\ IsFiniteSet(Unsubtracted(q)')
      BY DEF Few
    <2>1. Cardinality(Queued(q)) <= MaxTaskId /\ IsFiniteSet(Unsubtracted(q))
      BY DEF RequestInv, TableInv, Few
    <2>2. Cardinality(N) <= MaxTaskId
      BY <1>8, <1>9, BoundsNat
    <2> QED BY <1>14, <1>16, <1>18, <2>1, <2>2
  <1>27. Home'
    <2> SUFFICES ASSUME NEW i \in 1 .. Len(ctx), NEW v \in Workers,
                        v # ctx[i].worker_idx, NEW q, q = ctx[i].request_id
                 PROVE  /\ OfReq(v, q)' = {}
                        /\ Running(v)' => thr'[v].task.req # q
                        /\ pending_req'[v] = q /\ pending_req'[v] # 0 => Settled(q)'
      BY <1>0 DEF Home, tableVars
    <2>1. q \in Reqs /\ q # r
      BY <1>22
    <2>2. /\ OfReq(v, q) = {}
          /\ Running(v) => thr[v].task.req # q
          /\ pending_req[v] = q /\ pending_req[v] # 0 => Settled(q)
      BY DEF RequestInv, TableInv, Home
    <2> QED BY <1>0, <1>15, <1>19, <2>1, <2>2 DEF Running
  <1>28. Holds'
    <2> SUFFICES ASSUME NEW v \in Workers, thr[v].pc \in {"dec", "cb", "remove"},
                        NEW q, q = thr[v].task.req
                 PROVE  /\ thr[v].ctx \in ContextsOf(q)'
                        /\ thr[v].pc \in {"cb", "remove"} => Settled(q)'
      BY <1>0 DEF Holds
    <2>1. Running(v)
      BY DEF Running
    <2>2. q \in Reqs /\ q # r
      BY <1>2, <1>8, <2>1 DEF TypeInv, LocalsOK, Task, RequestInv, TableInv, Unbound
    <2>3. /\ thr[v].ctx \in ContextsOf(q)
          /\ thr[v].pc \in {"cb", "remove"} => Settled(q)
      BY DEF RequestInv, TableInv, Holds
    <2> QED BY <1>17, <1>19, <2>2, <2>3
  <1>29. CountExact'
    <2> SUFFICES ASSUME NEW j \in req_hash, NEW q, q = ctx[j].request_id
                 PROVE  ctx[j].pending_count = Cardinality(Queued(q)')
                    + Cardinality(Undecremented(q)') + Cardinality(Unsubtracted(q)')
      BY <1>0 DEF CountExact, tableVars
    <2>1. q \in Reqs /\ q # r
      BY <1>22 DEF TypeInv, TypeOK
    <2>2. ctx[j].pending_count = Cardinality(Queued(q))
             + Cardinality(Undecremented(q)) + Cardinality(Unsubtracted(q))
      BY DEF RequestInv, TableInv, CountExact
    <2> QED BY <1>16, <1>17, <1>18, <2>1, <2>2
  <1>30. TableInv'
    BY <1>23, <1>24, <1>25, <1>26, <1>27, <1>28, <1>29 DEF TableInv
  <1>31. CallInv(call[c])'
    <2>1. ContextsOf(r)' = {} /\ Cardinality(Queued(r)') = s.n
      BY <1>5, <1>8, <1>9, <1>14, <1>17
    <2> QED BY <1>5, <1>7, <1>8, <1>13, <2>1 DEF CallInv, SubmitPc, FoundPc
  <1>32. call[c].pc \in SubmitPc /\ call'[c].req = call[c].req
    BY <1>0, <1>2, <1>5, <1>7 DEF SubmitPc
  <1> QED BY <1>0, <1>1, <1>7, <1>21, <1>30, <1>31, <1>32, CallerLeaves

\* The context of a new request names the worker and the number of its tasks,
\* none of which has been taken: nothing can notify it before.
LEMMA InsertRequest ==
  ASSUME TypeInv, TypeInv', RequestInv, NEW c \in Callers, InsertCtx(c)
  PROVE  RequestInv'
PROOF
  <1> DEFINE new == NewContext(call[c])
             e == Len(ctx) + 1
  <1>0. /\ call \in [Callers -> CallType] /\ CallInv(call[c]) /\ call[c].pc = "insert"
        /\ UNCHANGED <<queue, pending_req, thr, own, ran, freed>>
        /\ ctx \in Seq(Context) /\ req_hash \subseteq 1 .. Len(ctx)
        /\ ctx' = Append(ctx, new) /\ req_hash' = req_hash \cup {e}
        /\ call' = [call EXCEPT ![c] = Recorded(call[c])]
    BY DEF InsertCtx, TypeInv, TypeOK, RequestInv, CallsOK, workerVars, ghostVars
  <1>1. own.pc \in {"ready", "run"}
    BY <1>0, InUse
  <1>2. PICK r \in Reqs : r = call[c].req
    BY <1>0 DEF TypeInv, LocalsOK, CallOK
  <1>3. PICK b \in Workers : b = call[c].best
    BY <1>0 DEF TypeInv, LocalsOK, CallOK
  <1>4. /\ ContextsOf(r) = {} /\ Cardinality(Queued(r)) = call[c].n
        /\ \A w \in Workers : w # b => OfReq(w, r) = {}
        /\ call[c].n \in 1 .. MaxTaskId
    BY <1>0, <1>2, <1>3 DEF CallInv, SubmitPc
  <1>5. new.request_id = r /\ new.worker_idx = b /\ new.pending_count = call[c].n
    BY <1>2, <1>3 DEF NewContext
  <1> DEFINE s == Recorded(call[c])
  <1>6. \/ s.pc = "idle" /\ s.op = "none"
        \/ s.pc = "readid" /\ s.op = "task" /\ s.req = r /\ s.n = call[c].n
    BY <1>0, <1>2 DEF Recorded, NoCall, CallType
  <1>7. call'[c] = s /\ \A d \in Callers \ {c} : call'[d] = call[d]
    BY <1>0
  <1> HIDE DEF s, new
  <1>8. /\ Len(ctx) \in Nat /\ e \in 1 .. e /\ Len(ctx') = e /\ ctx'[e] = new
        /\ \A j \in 1 .. Len(ctx) : j # e /\ ctx'[j] = ctx[j]
        /\ \A j : j \in 1 .. e <=> j \in 1 .. Len(ctx) \/ j = e
    <2>1. new \in Context /\ Len(ctx) \in Nat
      <3>1. ctx' \in Seq(Context) /\ Len(ctx) \in Nat
        BY <1>0, LenProperties DEF TypeInv, TypeOK
      <3>2. call[c].n \in Int /\ call[c].cb \in BOOLEAN
        BY <1>0 DEF CallType
      <3> QED BY <1>2, <1>3, <3>1, <3>2 DEF new, NewContext, Context
    <2>2. /\ Len(ctx') = e /\ ctx'[e] = new
          /\ \A j \in 1 .. Len(ctx) : ctx'[j] = ctx[j]
      BY <1>0, <2>1, AppendProperties
    <2> QED BY <2>1, <2>2
  <1> HIDE DEF e
  \* What the step moves.
  <1>9. \A q \in Reqs : q # r => ContextsOf(q)' = ContextsOf(q)
    <2>1. \A q : q # r => \A j : j \in 1 .. e /\ ctx'[j].request_id = q <=>
                                 j \in 1 .. Len(ctx) /\ ctx[j].request_id = q
      BY <1>5, <1>8
    <2> QED BY <1>8, <2>1 DEF ContextsOf
  <1>10. ContextsOf(r)' = {e}
    <2>1. \A j : j \in 1 .. e /\ ctx'[j].request_id = r <=> j = e
      BY <1>4, <1>5, <1>8 DEF ContextsOf
    <2> QED BY <1>8, <2>1 DEF ContextsOf
  <1>11. \A q \in Reqs : /\ Queued(q)' = Queued(q) /\ Undecremented(q)' = Undecremented(q)
                         /\ InHand(q)' = InHand(q) /\ RanOf(q)' = RanOf(q)
                         /\ {u \in freed : u.req = q}' = {u \in freed : u.req = q}
                         /\ \A w \in Workers : OfReq(w, q)' = OfReq(w, q)
    BY <1>0 DEF Queued, Undecremented, InHand, RanOf, OfReq
  <1>12. \A q \in Reqs : Unsubtracted(q)' = Unsubtracted(q)
    <2>1. \A d \in Callers : "cupdate" \in {call[d].pc, call'[d].pc} => call'[d] = call[d]
      BY <1>0, <1>6, <1>7
    <2>2. \A q \in Reqs : \A x \in Callers \X (1 .. MaxTaskId) :
             call'[x[1]].pc = "cupdate" /\ call'[x[1]].req = q /\ x[2] <= call'[x[1]].k <=>
             call[x[1]].pc = "cupdate" /\ call[x[1]].req = q /\ x[2] <= call[x[1]].k
      BY <2>1
    <2> QED BY <2>2 DEF Unsubtracted
  <1>13. \A q \in Reqs : Settled(q)' <=> Settled(q)
    BY <1>11, <1>12 DEF Settled
  <1>14. \A q \in Reqs : q # r => Frame(q)
    <2> SUFFICES ASSUME NEW q \in Reqs, q # r PROVE Frame(q)
      OBVIOUS
    <2>1. Accepted(q)' = Accepted(q)
      BY <1>11 DEF Accepted
    <2>2. \A i \in ContextsOf(q) : ctx'[i].worker_idx = ctx[i].worker_idx
      BY <1>8 DEF ContextsOf
    <2> QED BY <1>9, <1>11, <1>13, <2>1, <2>2 DEF Frame
  <1>15. \A q \in Reqs : (\E d \in Callers \ {c} : call[d].pc # "idle" /\ call[d].req = q)
                             => Frame(q)
    BY <1>0, <1>2, <1>14, SubmitAlone
  \* Nothing of the request is going on.
  <1>16. \A w \in Workers : /\ r # 0 => pending_req[w] # r
                            /\ Running(w) => thr[w].task.req # r
    BY <1>4 DEF RequestInv, TableInv, Unbound
  <1>17. Undecremented(r) = {}
    BY <1>16 DEF Undecremented, Running
  <1>18. Unsubtracted(r) = {}
    <2>1. \A d \in Callers : ~(call[d].pc = "cupdate" /\ call[d].req = r)
      BY <1>4 DEF RequestInv, CallsOK, CallInv, FoundPc
    <2> QED BY <2>1 DEF Unsubtracted
  \* The table.
  <1>19. \A j \in 1 .. Len(ctx) : ctx[j].request_id \in Reqs /\ ctx[j].request_id # r
    BY <1>4, ContextType DEF ContextsOf
  <1>20. OneContext'
    <2> SUFFICES ASSUME NEW i \in 1 .. e, NEW j \in 1 .. e,
                        ctx'[i].request_id = ctx'[j].request_id
                 PROVE  i = j
      BY <1>8 DEF OneContext
    <2> QED BY <1>5, <1>8, <1>19 DEF RequestInv, TableInv, OneContext
  <1>21. Unbound'
    <2>1. \A q \in Reqs : ContextsOf(q)' = {} => ContextsOf(q) = {}
      BY <1>9, <1>10
    <2> QED BY <1>0, <2>1 DEF RequestInv, TableInv, Unbound, Running
  <1>22. FreedSettled'
    <2> SUFFICES ASSUME NEW i \in 1 .. e, i \notin req_hash' PROVE Settled(ctx[i].request_id)'
      BY <1>8 DEF FreedSettled
    <2>1. i \in 1 .. Len(ctx) /\ i \notin req_hash /\ ctx'[i] = ctx[i]
      BY <1>0, <1>8
    <2>2. PICK q \in Reqs : q = ctx[i].request_id /\ Settled(q)
      BY <1>19, <2>1 DEF RequestInv, TableInv, FreedSettled
    <2> QED BY <1>13, <2>1, <2>2
  <1>23. Few'
    BY <1>11, <1>12 DEF RequestInv, TableInv, Few
  <1>24. Home'
    <2> SUFFICES ASSUME NEW i \in 1 .. e, NEW v \in Workers,
                        v # ctx'[i].worker_idx, NEW q, q = ctx'[i].request_id
                 PROVE  /\ OfReq(v, q)' = {}
                        /\ Running(v)' => thr'[v].task.req # q
                        /\ pending_req'[v] = q /\ pending_req'[v] # 0 => Settled(q)'
      BY <1>8 DEF Home
    <2>1. CASE i = e
      BY <1>0, <1>4, <1>5, <1>8, <1>11, <1>16, <2>1 DEF Running
    <2>2. CASE i # e
      <3>1. i \in 1 .. Len(ctx) /\ ctx'[i] = ctx[i] /\ q \in Reqs
        BY <1>8, <1>19, <2>2
      <3>2. /\ OfReq(v, q) = {}
            /\ Running(v) => thr[v].task.req # q
            /\ pending_req[v] = q /\ pending_req[v] # 0 => Settled(q)
        BY <3>1 DEF RequestInv, TableInv, Home
      <3> QED BY <1>0, <1>11, <1>13, <3>1, <3>2 DEF Running
    <2> QED BY <2>1, <2>2
  <1>25. Holds'
    <2> SUFFICES ASSUME NEW v \in Workers, thr[v].pc \in {"dec", "cb", "remove"},
                        NEW q, q = thr[v].task.req
                 PROVE  /\ thr[v].ctx \in ContextsOf(q)'
                        /\ thr[v].pc \in {"cb", "remove"} => Settled(q)'
      BY <1>0 DEF Holds
    <2>1. Running(v)
      BY DEF Running
    <2>2. q \in Reqs /\ q # r
      BY <1>16, <2>1 DEF TypeInv, LocalsOK, Task
    <2>3. /\ thr[v].ctx \in ContextsOf(q)
          /\ thr[v].pc \in {"cb", "remove"} => Settled(q)
      BY DEF RequestInv, TableInv, Holds
    <2> QED BY <1>9, <1>13, <2>2, <2>3
  <1>26. CountExact'
    <2> SUFFICES ASSUME NEW j \in req_hash', NEW q, q = ctx'[j].request_id
                 PROVE  ctx'[j].pending_count = Cardinality(Queued(q)')
                    + Cardinality(Undecremented(q)') + Cardinality(Unsubtracted(q)')
      BY DEF CountExact
    <2>1. CASE j = e
      <3>1. q = r /\ ctx'[j].pending_count = call[c].n
        BY <1>5, <1>8, <2>1
      <3>2. /\ Cardinality(Queued(q)') = call[c].n
            /\ Cardinality(Undecremented(q)') = 0 /\ Cardinality(Unsubtracted(q)') = 0
        BY <1>4, <1>11, <1>12, <1>17, <1>18, <3>1, FS_EmptySet
      <3>3. call[c].n \in Nat
        BY <1>0 DEF CallType
      <3> QED BY <3>1, <3>2, <3>3
    <2>2. CASE j # e
      <3>1. j \in req_hash /\ ctx'[j] = ctx[j] /\ q \in Reqs
        BY <1>0, <1>8, <1>19, <2>2
      <3>2. ctx[j].pending_count = Cardinality(Queued(q))
               + Cardinality(Undecremented(q)) + Cardinality(Unsubtracted(q))
        BY <3>1 DEF RequestInv, TableInv, CountExact
      <3> QED BY <1>11, <1>12, <3>1, <3>2
    <2> QED BY <2>1, <2>2
  <1>27. TableInv'
    BY <1>20, <1>21, <1>22, <1>23, <1>24, <1>25, <1>26 DEF TableInv
  <1>28. CallInv(call[c])'
    <2>1. CASE s.pc = "idle" /\ s.op = "none"
      BY <1>7, <2>1, CallIdle
    <2>2. CASE s.pc = "readid" /\ s.op = "task" /\ s.req = r /\ s.n = call[c].n
      BY <1>4, <1>7, <2>2 DEF CallInv, SubmitPc, FoundPc
    <2> QED BY <1>6, <2>1, <2>2
  <1>29. call'[c].pc \in SubmitPc =>
            call[c].pc \in SubmitPc /\ call'[c].req = call[c].req
    BY <1>0, <1>2, <1>6, <1>7 DEF SubmitPc
  <1> QED BY <1>0, <1>1, <1>7, <1>15, <1>27, <1>28, <1>29, CallerLeaves

-----------------------------------------------------------------------------
(* The invariant.                                                          *)

\* Every step of the pool, its callers and its owner keeps the requests in order.
LEMMA RequestStep ==
  ASSUME TypeInv, TypeInv', BusyInv, RequestInv, Remembered, [Next]_vars
  PROVE  RequestInv'
PROOF
  <1>1. ASSUME NEW w \in Workers, WorkerStep(w) \/ SpuriousWakeup(w) PROVE RequestInv'
    BY <1>1, WorkerRequest
  <1>2. ASSUME NEW c \in Callers, NewCall(c) PROVE RequestInv'
    BY <1>2, NewCallRequest
  <1>3. ASSUME NEW c \in Callers, CallStep(c) PROVE RequestInv'
    <2>1. ~AddCtx(c)
      BY DEF AddCtx, RequestInv, CallsOK, CallInv
    <2> QED BY <1>3, <2>1, LocalRequest, WakeSetRequest, CancelQueueRequest,
               CancelCtxRequest, AttachRequest, InsertRequest DEF CallStep
  <1> QED BY <1>1, <1>2, <1>3, OwnerRequest DEF Next

\* A task that was accepted is queued, held, executed or freed ever after.
LEMMA AcceptedGrows ==
  ASSUME TypeInv, BusyInv, [Next]_vars, NEW r
  PROVE  Accepted(r) \subseteq Accepted(r)'
PROOF
  <1>0. /\ thr \in [Workers -> ThreadType] /\ queue \in [Workers -> SUBSET Task]
        /\ own.i \in Workers
    BY DEF TypeInv, TypeOK
  <1>1. ASSUME \A w \in Workers : \A t \in queue[w] :
                  \/ t \in queue'[w] \cup freed'
                  \/ \E v \in Workers : thr'[v].pc = "run" /\ thr'[v].task = t,
               \A w \in Workers : thr[w].pc = "run" =>
                  \/ thr'[w].pc = "run" /\ thr'[w].task = thr[w].task
                  \/ thr[w].task \in ran',
               ran \subseteq ran', freed \subseteq freed'
        PROVE  Accepted(r) \subseteq Accepted(r)'
    <2>1. ASSUME NEW t \in Queued(r) PROVE t \in Accepted(r)'
      <3>1. PICK w \in Workers : t \in queue[w] /\ t.req = r
        BY DEF Queued
      <3>2. CASE t \in queue'[w] \cup freed'
        BY <3>1, <3>2 DEF Accepted, Queued
      <3>3. CASE \E v \in Workers : thr'[v].pc = "run" /\ thr'[v].task = t
        <4>1. t \in InHand(r)'
          BY <3>1, <3>3 DEF InHand
        <4> QED BY <4>1 DEF Accepted
      <3> QED BY <1>1, <3>1, <3>2, <3>3
    <2>2. ASSUME NEW t \in InHand(r) PROVE t \in Accepted(r)'
      <3>1. PICK w \in Workers : thr[w].pc = "run" /\ thr[w].task = t /\ t.req = r
        BY DEF InHand
      <3>2. CASE t \in ran'
        BY <3>1, <3>2 DEF Accepted, RanOf
      <3>3. CASE thr'[w].pc = "run" /\ thr'[w].task = t
        <4>1. t \in InHand(r)'
          BY <3>1, <3>3 DEF InHand
        <4> QED BY <4>1 DEF Accepted
      <3> QED BY <1>1, <3>1, <3>2, <3>3
    <2>3. RanOf(r) \cup {t \in freed : t.req = r} \subseteq Accepted(r)'
      BY <1>1 DEF Accepted, RanOf
    <2> QED BY <2>1, <2>2, <2>3 DEF Accepted
  <1>2. ASSUME NEW w \in Workers, WorkerTake(w) PROVE Accepted(r) \subseteq Accepted(r)'
    <2>1. PICK t \in queue[w] :
             /\ queue' = [queue EXCEPT ![w] = @ \ {t}]
             /\ thr' = [thr EXCEPT ![w] = [pc |-> "run", task |-> t, ctx |-> 0]]
      BY <1>2 DEF WorkerTake, Unlink
    <2>2. thr[w].pc # "run" /\ UNCHANGED <<ran, freed>>
      BY <1>2 DEF WorkerTake, AtLoop, ghostVars
    <2>3. thr'[w].pc = "run" /\ thr'[w].task = t /\ \A v \in Workers : v # w => thr'[v] = thr[v]
      BY <1>0, <2>1
    <2>4. \A v \in Workers : \A u \in queue[v] : u \in queue'[v] \/ u = t
      BY <1>0, <2>1
    <2> QED BY <1>1, <2>2, <2>3, <2>4
  <1>3. ASSUME NEW w \in Workers,
               \/ WorkerStart(w) \/ WorkerWait(w) \/ WorkerExit(w) \/ WorkerTakeNone(w)
               \/ WorkerRun(w) \/ WorkerFindCtx(w) \/ WorkerDec(w) \/ WorkerBatchCb(w)
               \/ WorkerRemoveCtx(w) \/ WorkerFinish(w) \/ SpuriousWakeup(w)
        PROVE  Accepted(r) \subseteq Accepted(r)'
    <2>1. /\ UNCHANGED queue /\ \A v \in Workers : v # w => thr'[v] = thr[v]
          /\ thr[w].pc = "run" => thr[w].task \in ran'
          /\ ran \subseteq ran' /\ freed \subseteq freed'
      BY <1>0, <1>3 DEF WorkerStart, WorkerWait, WorkerExit, WorkerTakeNone, WorkerRun,
           WorkerFindCtx, WorkerDec, WorkerBatchCb, WorkerRemoveCtx, WorkerFinish,
           SpuriousWakeup, AtLoop, ghostVars
    <2> QED BY <1>1, <2>1
  <1>4. CASE FreePool
    <2>1. /\ UNCHANGED <<thr, ran>> /\ freed \subseteq freed'
          /\ \A w \in Workers : queue[w] \subseteq freed'
      BY <1>4 DEF FreePool
    <2> QED BY <1>1, <2>1
  <1>5. ASSUME NEW c \in Callers, CancelQueue(c) PROVE Accepted(r) \subseteq Accepted(r)'
    <2>1. /\ UNCHANGED <<thr, ran>> /\ freed \subseteq freed'
          /\ \A w \in Workers : queue[w] \subseteq queue'[w] \cup freed'
      BY <1>0, <1>5 DEF CancelQueue
    <2> QED BY <1>1, <2>1
  <1>6. ASSUME NEW c \in Callers, Attach(c) PROVE Accepted(r) \subseteq Accepted(r)'
    <2>1. /\ UNCHANGED <<thr, ran, freed>>
          /\ \A w \in Workers : queue[w] \subseteq queue'[w]
      BY <1>0, <1>6 DEF Attach, Linked, ghostVars
    <2> QED BY <1>1, <2>1
  <1>7. CASE \/ CreateWorker \/ CreateFailed \/ AwaitWorker \/ Start \/ ShutdownSignal
             \/ Join \/ BeginDestroy \/ Gone \/ UNCHANGED vars
             \/ \E c \in Callers :
                   \/ NewCall(c) \/ Scan(c) \/ AllocFail(c) \/ FindCtx(c) \/ AddCtx(c)
                   \/ InsertCtx(c) \/ InsertFail(c) \/ ReadId(c) \/ Stray(c) \/ Deref(c) \/ WakeSet(c)
                   \/ CancelCtx(c)
    <2>1. UNCHANGED <<queue, ran, freed>>
      BY <1>7 DEF CreateWorker, CreateFailed, AwaitWorker, Start, ShutdownSignal, Join,
           BeginDestroy, Gone, NewCall, SubmitTask, SubmitBatch, Submit, Wake, Cancel,
           Scan, AllocFail, FindCtx, AddCtx, InsertCtx, InsertFail, ReadId, Stray, Deref,
           WakeSet, CancelCtx, vars, workerVars, ghostVars
    <2>2. \A w \in Workers : thr[w].pc = "run" =>
              \/ thr'[w] = thr[w]
              \/ own.pc = "create" /\ own.i = w
      <3>1. CASE CreateWorker \/ CreateFailed
        BY <1>0, <3>1 DEF CreateWorker, CreateFailed
      <3>2. CASE ShutdownSignal
        BY <1>0, <3>2 DEF ShutdownSignal, Signal
      <3>3. CASE \E c \in Callers : WakeSet(c)
        BY <1>0, <3>3 DEF WakeSet, Signal
      <3>4. CASE AwaitWorker \/ Start \/ Join \/ BeginDestroy \/ Gone \/ UNCHANGED vars
        BY <3>4 DEF AwaitWorker, Start, Join, BeginDestroy, Gone, vars, workerVars
      <3>5. ASSUME NEW c \in Callers,
                   \/ NewCall(c) \/ Scan(c) \/ AllocFail(c) \/ FindCtx(c) \/ AddCtx(c)
                   \/ InsertCtx(c) \/ InsertFail(c) \/ ReadId(c) \/ Stray(c) \/ Deref(c)
                   \/ CancelCtx(c)
            PROVE  thr' = thr
        BY <3>5 DEF NewCall, SubmitTask, SubmitBatch, Submit, Wake, Cancel, Scan,
             AllocFail, FindCtx, AddCtx, InsertCtx, InsertFail, ReadId, Stray, Deref,
             CancelCtx, workerVars
      <3> QED BY <1>7, <3>1, <3>2, <3>3, <3>4, <3>5
    <2>3. own.pc = "create" => thr[own.i].pc = "none"
      <3>1. \A w \in Workers : w >= w
        BY PoolSize DEF Workers
      <3> QED BY <1>0, <3>1 DEF BusyInv, Uncreated
    <2> QED BY <1>1, <2>1, <2>2, <2>3
  <1> QED BY <1>2, <1>3, <1>4, <1>5, <1>6, <1>7
          DEF Next, OwnerStep, WorkerStep, CallStep

\* Only InsertCtx makes a context.
LEMMA ContextsGrow ==
  ASSUME TypeInv, [Next]_vars, \A c \in Callers : ~InsertCtx(c)
  PROVE  SameContexts
PROOF
  <1>1. \/ ctx' = ctx
        \/ \E i \in req_hash, k \in Int : ctx' = [ctx EXCEPT ![i].pending_count = k]
    <2>0. \A i \in req_hash : ctx[i] \in Context
      BY ContextType DEF TypeInv, TypeOK
    <2>1. ASSUME NEW w \in Workers, WorkerDec(w)
          PROVE  \/ ctx' = ctx
                 \/ \E i \in req_hash, k \in Int : ctx' = [ctx EXCEPT ![i].pending_count = k]
      <3>1. \A i \in req_hash : ctx[i].pending_count - 1 \in Int
        BY <2>0 DEF Context
      <3> QED BY <2>1, <3>1 DEF WorkerDec, Live
    <2>2. ASSUME NEW c \in Callers, AddCtx(c) \/ CancelCtx(c)
          PROVE  \/ ctx' = ctx
                 \/ \E i \in req_hash, k \in Int : ctx' = [ctx EXCEPT ![i].pending_count = k]
      <3>1. call[c].n \in Nat /\ call[c].k \in Nat
        BY DEF TypeInv, TypeOK, CallType
      <3>2. \A i \in req_hash : /\ ctx[i].pending_count + call[c].n \in Int
                                /\ ctx[i].pending_count - call[c].k \in Int
        BY <2>0, <3>1 DEF Context
      <3> QED BY <2>2, <3>2 DEF AddCtx, CancelCtx, Live
    <2>3. CASE \/ OwnerStep \/ BeginDestroy \/ Gone \/ UNCHANGED vars
      BY <2>3 DEF OwnerStep, CreateWorker, CreateFailed, AwaitWorker, Start,
           ShutdownSignal, Join, FreePool, BeginDestroy, Gone, vars, tableVars
    <2>4. ASSUME NEW w \in Workers,
                 \/ WorkerStart(w) \/ WorkerWait(w) \/ WorkerExit(w) \/ WorkerTake(w)
                 \/ WorkerTakeNone(w) \/ WorkerRun(w) \/ WorkerFindCtx(w)
                 \/ WorkerBatchCb(w) \/ WorkerRemoveCtx(w) \/ WorkerFinish(w)
                 \/ SpuriousWakeup(w)
          PROVE  ctx' = ctx
      BY <2>4 DEF WorkerStart, WorkerWait, WorkerExit, WorkerTake, WorkerTakeNone,
           WorkerRun, WorkerFindCtx, WorkerBatchCb, WorkerRemoveCtx, WorkerFinish,
           SpuriousWakeup, tableVars
    <2>5. ASSUME NEW c \in Callers,
                 \/ NewCall(c) \/ Scan(c) \/ AllocFail(c) \/ Attach(c) \/ FindCtx(c)
                 \/ InsertFail(c) \/ ReadId(c) \/ Stray(c) \/ Deref(c) \/ WakeSet(c) \/ CancelQueue(c)
          PROVE  ctx' = ctx
      BY <2>5 DEF NewCall, SubmitTask, SubmitBatch, Submit, Wake, Cancel, Scan, AllocFail,
           Attach, FindCtx, InsertFail, ReadId, Stray, Deref, WakeSet, CancelQueue,
           tableVars
    <2> QED BY <2>1, <2>2, <2>3, <2>4, <2>5 DEF Next, WorkerStep, CallStep
  <1>2. CASE ctx' = ctx
    BY <1>2 DEF SameContexts
  <1>3. ASSUME NEW i \in req_hash, NEW k \in Int, ctx' = [ctx EXCEPT ![i].pending_count = k]
        PROVE  SameContexts
    <2>1. /\ ctx \in Seq(Context) /\ i \in 1 .. Len(ctx) /\ DOMAIN ctx = 1 .. Len(ctx)
          /\ \A j \in 1 .. Len(ctx) : ctx[j] \in Context
      BY ContextType, LenProperties DEF TypeInv, TypeOK
    <2>2. Len(ctx') = Len(ctx)
      BY <1>3, <2>1, ContextCounts
    <2>3. \A j \in 1 .. Len(ctx) : /\ ctx'[j].request_id = ctx[j].request_id
                                   /\ ctx'[j].worker_idx = ctx[j].worker_idx
      BY <1>3, <2>1 DEF Context
    <2> QED BY <2>2, <2>3 DEF SameContexts
  <1> QED BY <1>1, <1>2, <1>3

\* A context is only made for a request that a call has submitted.
LEMMA RememberedStep ==
  ASSUME TypeInv, BusyInv, RequestInv, Remembered, [Next]_vars
  PROVE  Remembered'
PROOF
  <1> SUFFICES ASSUME NEW r \in Reqs, ContextsOf(r)' # {} PROVE Accepted(r)' # {}
    BY DEF Remembered
  <1> SUFFICES Accepted(r) # {}
    BY AcceptedGrows
  <1>1. CASE ContextsOf(r) # {}
    BY <1>1 DEF Remembered
  <1>2. CASE ContextsOf(r) = {}
    <2>1. ~SameContexts
      BY <1>2, ContextsKept
    <2>2. PICK c \in Callers : InsertCtx(c)
      BY <2>1, ContextsGrow
    <2>3. /\ ctx' = Append(ctx, NewContext(call[c])) /\ call[c].pc = "insert"
          /\ CallInv(call[c])
      BY <2>2 DEF InsertCtx, RequestInv, CallsOK
    <2>4. PICK q \in Reqs : q = call[c].req
      BY <2>3 DEF TypeInv, LocalsOK, CallOK
    <2>5. q = r
      <3>1. PICK j \in 1 .. Len(ctx') : ctx'[j].request_id = r
        BY DEF ContextsOf
      <3>2. /\ Len(ctx') = Len(ctx) + 1 /\ ctx'[Len(ctx) + 1] = NewContext(call[c])
            /\ \A i \in 1 .. Len(ctx) : ctx'[i] = ctx[i]
            /\ Len(ctx) \in Nat
        <4>1. NewContext(call[c]) \in Context
          <5>1. call[c].n \in Int /\ call[c].cb \in BOOLEAN /\ call[c].best \in Workers
            BY <2>3 DEF TypeInv, TypeOK, CallType, LocalsOK, CallOK
          <5> QED BY <2>4, <5>1 DEF NewContext, Context
        <4> QED BY <2>3, <4>1, AppendProperties, LenProperties DEF TypeInv, TypeOK
      <3>3. j = Len(ctx) + 1
        <4>1. j \notin 1 .. Len(ctx)
          BY <1>2, <3>1, <3>2 DEF ContextsOf
        <4> QED BY <3>2, <4>1
      <3> QED BY <2>4, <3>1, <3>2, <3>3 DEF NewContext
    <2>6. Cardinality(Queued(r)) = call[c].n /\ call[c].n \in 1 .. MaxTaskId
      BY <2>3, <2>4, <2>5 DEF CallInv, SubmitPc
    <2>7. Queued(r) # {}
      BY <2>6, FS_EmptySet
    <2> QED BY <2>7 DEF Accepted
  <1> QED BY <1>1, <1>2

\* The two invariants hold from the start.
LEMMA RequestInit == Init /\ SubmitOnce => RequestInv /\ Remembered
PROOF
  <1> SUFFICES ASSUME Init, SubmitOnce PROVE RequestInv /\ Remembered
    OBVIOUS
  <1>1. /\ ctx = <<>> /\ req_hash = {} /\ Len(ctx) = 0
        /\ \A w \in Workers : thr[w] = NoThread /\ queue[w] = {} /\ pending_req[w] = 0
        /\ \A c \in Callers : call[c] = NoCall
        /\ own.pc = "create"
    BY DEF Init
  <1>2. \A i : i \notin 1 .. Len(ctx)
    BY <1>1
  <1>3. CallsOK /\ OneSubmit
    BY <1>1 DEF CallsOK, CallInv, OneSubmit, NoCall, SubmitPc, FoundPc
  <1>4. Shutdown
    BY <1>1 DEF Shutdown, NoCall
  <1>5. Unbound
    BY <1>1 DEF Unbound, Running, NoThread
  <1>6. Few
    <2> SUFFICES ASSUME NEW r \in Reqs
                 PROVE  Cardinality(Queued(r)) <= MaxTaskId /\ IsFiniteSet(Unsubtracted(r))
      BY DEF Few
    <2>1. Queued(r) = {}
      BY <1>1 DEF Queued
    <2>2. Unsubtracted(r) = {}
      BY <1>1 DEF Unsubtracted, NoCall
    <2> QED BY <2>1, <2>2, FS_EmptySet, BoundsNat
  <1>7. OneContext /\ FreedSettled /\ Home /\ CountExact
    BY <1>1, <1>2 DEF OneContext, FreedSettled, Home, CountExact
  <1>8. Holds
    BY <1>1 DEF Holds, NoThread
  <1>9. Remembered
    BY <1>2 DEF Remembered, ContextsOf
  <1> QED BY <1>3, <1>4, <1>5, <1>6, <1>7, <1>8, <1>9 DEF RequestInv, TableInv

\* The request invariant holds in every behaviour in which no request is submitted
\* twice.
LEMMA RequestInvariant == SubmitOnce /\ Spec => [](RequestInv /\ Remembered)
PROOF
  <1>1. TypeInv /\ TypeInv' /\ BusyInv /\ RequestInv /\ Remembered /\ [Next]_vars
            => RequestInv' /\ Remembered'
    BY RequestStep, RememberedStep
  <1>2. Spec => []TypeInv
    BY InitType, TypeStep, PTL DEF Spec
  <1> QED BY <1>1, <1>2, RequestInit, BusyInvariant, PTL DEF Spec

\* When no request id is submitted twice, pending_count is the number of tasks
\* queued or taken and not yet subtracted, whatever wake-ups and cancels come in
\* between: it meets zero exactly once, and never passes it.
THEOREM CountExactHolds == SubmitOnce /\ Spec => []CountExact
PROOF
  <1>1. RequestInv => CountExact
    BY DEF RequestInv, TableInv
  <1> QED BY <1>1, RequestInvariant, PTL

\* And then pending_count is never written in a context that is freed: the worker
\* and the cancel that subtract hold the count that keeps it alive.
THEOREM NoStaleWriteHolds == SubmitOnce /\ Spec => []NoStaleWrite
PROOF
  <1>1. Init => NoStaleWrite
    BY DEF Init, NoStaleWrite
  <1>2. TypeInv /\ TypeInv' /\ RequestInv /\ NoStaleWrite /\ [Next]_vars => NoStaleWrite'
    <2> SUFFICES ASSUME TypeInv, TypeInv', RequestInv, NoStaleWrite, [Next]_vars
                 PROVE  NoStaleWrite'
      OBVIOUS
    <2>1. ASSUME NEW w \in Workers, WorkerDec(w) PROVE faults' = faults
      BY <2>1, DecRequest
    <2>2. ASSUME NEW c \in Callers, CancelCtx(c) PROVE faults' = faults
      BY <2>2, CancelCtxRequest
    <2>3. \A c \in Callers : ~AddCtx(c)
      BY DEF AddCtx, RequestInv, CallsOK, CallInv
    <2>4. CASE OwnerStep \/ BeginDestroy \/ Gone \/ UNCHANGED vars
      BY <2>4 DEF OwnerStep, CreateWorker, CreateFailed, AwaitWorker, Start,
           ShutdownSignal, Join, FreePool, BeginDestroy, Gone, vars, ghostVars, NoStaleWrite
    <2>5. ASSUME NEW w \in Workers,
                 \/ WorkerStart(w) \/ WorkerWait(w) \/ WorkerExit(w) \/ WorkerTake(w)
                 \/ WorkerTakeNone(w) \/ WorkerRun(w) \/ WorkerFindCtx(w)
                 \/ WorkerBatchCb(w) \/ WorkerRemoveCtx(w) \/ WorkerFinish(w)
                 \/ SpuriousWakeup(w)
          PROVE  faults' = faults
      BY <2>5 DEF WorkerStart, WorkerWait, WorkerExit, WorkerTake, WorkerTakeNone,
           WorkerRun, WorkerFindCtx, WorkerBatchCb, WorkerRemoveCtx, WorkerFinish,
           SpuriousWakeup, ghostVars
    <2>6. ASSUME NEW c \in Callers,
                 \/ NewCall(c) \/ Scan(c) \/ AllocFail(c) \/ Attach(c) \/ FindCtx(c)
                 \/ InsertCtx(c) \/ WakeSet(c) \/ CancelQueue(c)
          PROVE  faults' = faults
      BY <2>6 DEF NewCall, SubmitTask, SubmitBatch, Submit, Wake, Cancel, Scan, AllocFail,
           Attach, FindCtx, InsertCtx, WakeSet, CancelQueue, ghostVars
    <2>7. ASSUME NEW c \in Callers, InsertFail(c) \/ ReadId(c) \/ Stray(c) \/ Deref(c)
          PROVE  NoStaleWrite'
      BY <2>7 DEF InsertFail, ReadId, Stray, Deref, StaleRead, NoStaleWrite
    <2> QED BY <2>1, <2>2, <2>3, <2>4, <2>5, <2>6, <2>7
            DEF Next, WorkerStep, CallStep, NoStaleWrite
  <1>3. Spec => []TypeInv
    BY InitType, TypeStep, PTL DEF Spec
  <1> QED BY <1>1, <1>2, <1>3, RequestInvariant, PTL DEF Spec
=============================================================================

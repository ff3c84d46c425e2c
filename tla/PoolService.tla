------------------------------ MODULE PoolService ------------------------------
(***************************************************************************)
(* What the worker pool promises to the code that uses it, one request id  *)
(* at a time: no workers, no hash table, no locks.                         *)
(*                                                                         *)
(* A request has tasks waiting in the order of their ids, at most one task *)
(* whose function is executing, and ONE slot for a notification.  A        *)
(* notification is spent on the first waiting task; one that comes while   *)
(* another is in the slot is lost.  A notification and a cancel wait for   *)
(* the task that is executing, so neither happens during a task function.  *)
(*                                                                         *)
(* ThreadPool implements this (see `Service' there); Transport is built on *)
(* these actions.                                                          *)
(***************************************************************************)
EXTENDS Integers, FiniteSets

CONSTANT Reqs            \* the request ids in use

VARIABLES waiting,       \* tasks accepted and not yet begun: [id, req]
          slot,          \* the requests with a notification not yet taken
          hand           \* the tasks whose function is executing

vars == <<waiting, slot, hand>>

Of(S, r)   == {t \in S : t.req = r}
First(r)   == {t \in Of(waiting, r) : \A u \in Of(waiting, r) : t.id <= u.id}
Resting(r) == Of(hand, r) = {}
Newer(t)   == \A u \in Of(waiting \cup hand, t.req) : u.id < t.id

Init == waiting = {} /\ slot = {} /\ hand = {}

\* A submit links all its tasks in one step.
Accept(r, tasks) ==
    /\ \A t \in tasks : t.req = r /\ Newer(t)
    /\ waiting' = waiting \cup tasks
    /\ UNCHANGED <<slot, hand>>

\* A wake-up that found the request.
Notify(r) ==
    /\ Resting(r)
    /\ slot' = slot \cup {r}
    /\ UNCHANGED <<waiting, hand>>

\* A worker takes the notification, and with it the first task of the request.
Take(t) ==
    /\ t.req \in slot /\ t \in First(t.req) /\ Resting(t.req)
    /\ slot' = slot \ {t.req}
    /\ waiting' = waiting \ {t}
    /\ hand' = hand \cup {t}

\* Nothing of the request is waiting: the notification is dropped.
Ignore(r) ==
    /\ r \in slot /\ Of(waiting, r) = {}
    /\ slot' = slot \ {r}
    /\ UNCHANGED <<waiting, hand>>

\* The task function returns.
Return(t) ==
    /\ t \in hand
    /\ hand' = hand \ {t}
    /\ UNCHANGED <<waiting, slot>>

\* A cancel drops what is waiting of the request, and touches nothing else.
Cancel(r) ==
    /\ Resting(r)
    /\ waiting' = waiting \ Of(waiting, r)
    /\ UNCHANGED <<slot, hand>>

\* The pool is destroyed: what is still waiting never runs.
Close ==
    /\ hand = {}
    /\ waiting' = {}
    /\ UNCHANGED <<slot, hand>>

Serve(r) == \/ \E t \in Of(waiting, r) : Take(t)
            \/ \E t \in Of(hand, r) : Return(t)
            \/ Ignore(r)

\* The tasks of a submit, in terms of what it added: any number of new tasks.
Submit(r) == Accept(r, waiting' \ waiting)

Next == \/ \E r \in Reqs : Submit(r) \/ Notify(r) \/ Cancel(r) \/ Serve(r)
        \/ Close

\* The workers run.
Fairness == \A r \in Reqs : WF_vars(Serve(r))

Spec == Init /\ [][Next]_vars
FairSpec == Spec /\ Fairness
=============================================================================

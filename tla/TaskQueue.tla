------------------------------- MODULE TaskQueue -------------------------------
(***************************************************************************)
(* What the list of tasks of a worker is for: a sequence of tasks to which *)
(* tasks are added at the end, from which the first task of a request is   *)
(* taken, and from which all tasks of a request are removed.  TaskList     *)
(* implements it with linked nodes.                                        *)
(***************************************************************************)
EXTENDS Integers, Sequences, FiniteSets

CONSTANTS Reqs, NoTask

VARIABLES items,   \* the tasks, each [id, req]
          ret      \* what the last operation returned

OfRequest(r) == {i \in DOMAIN items : items[i].req = r}

Init == items = <<>> /\ ret = [task |-> NoTask, n |-> 0]

\* push and attach: any number of tasks of one request, kept together.
Add == /\ Len(items') > Len(items) /\ DOMAIN items' = 1 .. Len(items')
       /\ \A i \in DOMAIN items : items'[i] = items[i]
       /\ \E r \in Reqs : \A i \in Len(items) + 1 .. Len(items') : items'[i].req = r
       /\ ret' = ret

\* The tasks at the places S stay, in their order; the others go.
Keep(S) ==
    /\ DOMAIN items' = 1 .. Cardinality(S)
    /\ \E place \in [DOMAIN items' -> S] :
          /\ \A i, j \in DOMAIN items' : i < j => place[i] < place[j]
          /\ \A i \in DOMAIN items' : items'[i] = items[place[i]]

TakeFirst(r) ==
    \E i \in OfRequest(r) :
       /\ \A j \in OfRequest(r) : i <= j
       /\ Keep(DOMAIN items \ {i})
       /\ ret' = [task |-> items[i], n |-> 1]

FindNone(r) ==
    /\ OfRequest(r) = {}
    /\ items' = items /\ ret' = [task |-> NoTask, n |-> 0]

RemoveAll(r) ==
    /\ Keep(DOMAIN items \ OfRequest(r))
    /\ ret' = [task |-> NoTask, n |-> Cardinality(OfRequest(r))]

Clear == items' = <<>> /\ ret' = ret

Next == Add \/ Clear \/ \E r \in Reqs : TakeFirst(r) \/ FindNone(r) \/ RemoveAll(r)

Spec == Init /\ [][Next]_<<items, ret>>
=============================================================================

--------------------------- MODULE BlockingQueue ---------------------------
(***************************************************************************)
(* The bounded queues between the threads of the monolith pipeline         *)
(* (event-pipeline-monolith/src/queue.hpp): a mutex, the condition         *)
(* variables not_empty_ and not_full_, a capacity and a closed flag.       *)
(*                                                                         *)
(* A call runs under the mutex and is one step, except where it waits: a   *)
(* thread whose condition does not hold joins the wait set, and re-enters  *)
(* the call once a notification takes it out.  Spurious wake-ups, which    *)
(* the wait loops absorb, would only hide a lost notification and are left *)
(* out.                                                                    *)
(***************************************************************************)
EXTENDS Integers, Sequences, FiniteSets

CONSTANTS
    Queue,
    Capacity    \* max_size, where 0 stands for unbounded

ASSUME CapacityAssumption == Capacity \in Nat

VARIABLES
    items,      \* queue_
    closed,     \* closed_
    emptyWait,  \* threads waiting on not_empty_
    fullWait    \* threads waiting on not_full_

queueVars == <<items, closed, emptyWait, fullWait>>

QueueInit ==
    /\ items = [q \in Queue |-> <<>>]
    /\ closed = [q \in Queue |-> FALSE]
    /\ emptyWait = [q \in Queue |-> {}]
    /\ fullWait = [q \in Queue |-> {}]

\* A mutated HasRoom: one item too many fits.
HasRoomOffByOne(q) == Capacity = 0 \/ Len(items[q]) <= Capacity

HasRoom(q) == Capacity = 0 \/ Len(items[q]) < Capacity
Awake(q, t) == t \notin emptyWait[q] \cup fullWait[q]

\* The wait sets notify_one can leave: one waiter fewer, any of them.
NotifyOne(wait, q) ==
    IF wait[q] = {} THEN {wait} ELSE {[wait EXCEPT ![q] = @ \ {t}] : t \in wait[q]}

Push(q, t, x) ==
    /\ Awake(q, t) /\ ~closed[q] /\ HasRoom(q)
    /\ items' = [items EXCEPT ![q] = Append(@, x)]
    /\ emptyWait' \in NotifyOne(emptyWait, q)
    /\ UNCHANGED <<closed, fullWait>>

PushWait(q, t) ==
    /\ Awake(q, t) /\ ~closed[q] /\ ~HasRoom(q)
    /\ fullWait' = [fullWait EXCEPT ![q] = @ \cup {t}]
    /\ UNCHANGED <<items, closed, emptyWait>>

PushRefused(q, t) == Awake(q, t) /\ closed[q] /\ UNCHANGED queueVars

\* A mutated Pop: it forgets to notify the producers.
PopSilent(q, t) ==
    /\ Awake(q, t) /\ items[q] # <<>>
    /\ items' = [items EXCEPT ![q] = Tail(@)]
    /\ UNCHANGED <<closed, emptyWait, fullWait>>

\* A mutated Pop: the item is handed out but stays in the queue.
PopKeepsItem(q, t) ==
    /\ Awake(q, t) /\ items[q] # <<>>
    /\ fullWait' \in NotifyOne(fullWait, q)
    /\ UNCHANGED <<items, closed, emptyWait>>

Pop(q, t) ==
    /\ Awake(q, t) /\ items[q] # <<>>
    /\ items' = [items EXCEPT ![q] = Tail(@)]
    /\ fullWait' \in NotifyOne(fullWait, q)
    /\ UNCHANGED <<closed, emptyWait>>

PopWait(q, t) ==
    /\ Awake(q, t) /\ items[q] = <<>> /\ ~closed[q]
    /\ emptyWait' = [emptyWait EXCEPT ![q] = @ \cup {t}]
    /\ UNCHANGED <<items, closed, fullWait>>

PopEnd(q, t) == Awake(q, t) /\ items[q] = <<>> /\ closed[q] /\ UNCHANGED queueVars

\* A mutated Close: it notifies one waiting consumer, not all.
CloseNotifyOne(q) ==
    /\ closed' = [closed EXCEPT ![q] = TRUE]
    /\ emptyWait' \in NotifyOne(emptyWait, q)
    /\ fullWait' = [fullWait EXCEPT ![q] = {}]
    /\ UNCHANGED items

Close(q) ==
    /\ closed' = [closed EXCEPT ![q] = TRUE]
    /\ emptyWait' = [emptyWait EXCEPT ![q] = {}]
    /\ fullWait' = [fullWait EXCEPT ![q] = {}]
    /\ UNCHANGED items
=============================================================================

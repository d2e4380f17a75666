----------------------------- MODULE TaskQueue -----------------------------
(***************************************************************************)
(* The dispatcher's task queue (dispatcher/queue.py).  MemoryTaskQueue is  *)
(* a heap of (priority, counter, spec) with an ever growing counter, which *)
(* is one FIFO lane per priority, served from the smallest priority up.    *)
(*                                                                         *)
(* The module has no next-state relation of its own: each operator is the  *)
(* effect of one call, used by the module that owns the queue.             *)
(***************************************************************************)
LOCAL INSTANCE Integers
LOCAL INSTANCE Sequences

CONSTANTS
  Items,       \* what may be queued
  Priorities,  \* the priorities in use; smaller is served first
  PriorityOf   \* [Items -> Priorities], dispatch_spec.priority of an item

VARIABLE queue \* one lane of items per priority

TypeOK == queue \in [Priorities -> Seq(Items)]

Init == queue = [p \in Priorities |-> <<>>]

IsEmpty == \A p \in Priorities : queue[p] = <<>>

Enqueue(item) ==
  queue' = [queue EXCEPT ![PriorityOf[item]] = Append(@, item)]

(* A non-blocking dequeue that finds an item.                              *)
Dequeue(item) ==
  \E p \in Priorities :
    /\ queue[p] # <<>>
    /\ \A q \in Priorities : q < p => queue[q] = <<>>
    /\ item = Head(queue[p])
    /\ queue' = [queue EXCEPT ![p] = Tail(@)]

Contains(item) ==
  \E p \in Priorities : \E k \in DOMAIN queue[p] : queue[p][k] = item
=============================================================================

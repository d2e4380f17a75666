----------------------------- MODULE Dispatcher -----------------------------
(***************************************************************************)
(* The central dispatcher (dispatcher/core.py) with its queue and worker   *)
(* registry, and the compute workers as its environment (compute/worker).  *)
(*                                                                         *)
(* A handler is cut where the code releases Dispatcher._lock: each region  *)
(* is one action, and thread[th] records how far the handler on thread th  *)
(* has got.  Threads has one element for the HTTP server, whose async      *)
(* handlers run one after the other, and several for a Dispatcher called   *)
(* directly from many threads.  The _check_loop thread is always separate. *)
(*                                                                         *)
(* An item is <<t, k>>: k > 0 is the slice "t-s(k-1)" of task t, and k = 0 *)
(* the unsliced spec itself, whose id is t.                                *)
(***************************************************************************)
EXTENDS Integers, Sequences, FiniteSets

CONSTANTS
  Tasks, Workers, Threads, None,
  SliceList,    \* [Tasks -> Seq(Nat)], what shard_task returns for a task
  Mergeable,    \* tasks of a type whose partial results are concatenated
  Priorities,
  Priority,     \* [Tasks -> Priorities]
  TypeOf,       \* [Tasks -> task types]
  Capabilities, \* [Workers -> sets of task types]
  Concurrency,  \* [Workers -> Nat \ {0}]
  HistoryMax,   \* _history_max
  Events,       \* the optional events of the environment a run admits
  MaxEvents,    \* bound: how many of them may happen
  MaxTimeouts   \* bound: how many passes of _check_loop time out a worker

AllEvents == {"resubmit", "cancel", "fail", "retryableFail", "drain", "stop",
  "lateCount", "lateFlag", "crash", "silence", "slowPrefetch",
  "prefetchError", "lostReply", "lostAck"}

MaxRetries == 3

Whole(t) == <<t, 0>>
TaskOf(item) == item[1]
SlicesOf(t) == {<<t, SliceList[t][k]>> : k \in DOMAIN SliceList[t]}
Items == UNION {SlicesOf(t) \cup {Whole(t)} : t \in Tasks}

ASSUME SlicingAssumption ==
  /\ SliceList \in [Tasks -> Seq(Nat)]
  /\ \A t \in Tasks :
       \/ SliceList[t] = <<0>>
       \/ \A k \in DOMAIN SliceList[t] : SliceList[t][k] = k
ASSUME SetsAssumption ==
  /\ IsFiniteSet(Tasks)
  /\ Mergeable \subseteq Tasks
  /\ Priorities \subseteq Int
  /\ Priority \in [Tasks -> Priorities]
  /\ Concurrency \in [Workers -> Nat \ {0}]
  /\ HistoryMax \in Nat \ {0}
  /\ Events \subseteq AllEvents
  /\ MaxEvents \in Nat
  /\ MaxTimeouts \in Nat
ASSUME NoneAssumption == None \notin Workers /\ None \notin Items

VARIABLES
  \* one _TaskState per task
  state,        \* info.state, "unknown" when the id is not in _tasks
  gen,          \* how often the id was submitted: identity of its _TaskState
  published,    \* slices, slices_by_id and n_slices have been set
  assigned,     \* assigned_slices: the worker of an item, or None
  partials,     \* keys of partial_results
  first,        \* the first key inserted into partial_results, or None
  completed,    \* info.completed_slices
  retries,      \* info.retry_count
  result,       \* items whose partial results merged_result_bytes holds
  history,      \* _task_history
  \* queue, registry, handlers and check thread
  queue, wstatus, active, stale,
  thread,       \* the handler running on each thread
  timedOut,     \* workers _check_loop has still to reassign
  reassigning,  \* worker whose items it is moving, under _lock, or None
  \* the compute workers and the environment
  phase,        \* life cycle of the worker process
  held,         \* [worker, item]: executions a worker has running
  failing,      \* executions whose complete call raised at the worker
  events,       \* how many optional events have happened,
  happened,     \* and of which kinds, and "forget" (history variable)
  timeouts      \* how many passes of _check_loop timed out a worker

taskVars  == <<state, gen, published, completed, retries, result>>
partVars  == <<partials, first>>
regVars   == <<wstatus, active, stale>>
checkVars == <<timedOut, reassigning, timeouts>>
eventVars == <<events, happened>>
envVars   == <<phase, held, failing, eventVars>>
tables    == <<taskVars, partVars, assigned, history>>
vars == <<tables, queue, regVars, thread, checkVars, envVars>>

Queue == INSTANCE TaskQueue
           WITH PriorityOf <- [item \in Items |-> Priority[TaskOf(item)]]
Registry == INSTANCE WorkerRegistry

States == {"unknown", "pending", "running", "completed", "failed", "cancelled"}

Idle == [op |-> "idle"]

AssignOps == {"dequeue", "requeue", "prefetch", "commit", "activate", "reply"}
ReportOps == {"releaseCompleted", "merge", "releaseFailed", "retry"}

Call ==
  {Idle}
  \cup [op : {"publish"}, task : Tasks]
  \cup [op : {"enqueue"}, task : Tasks, next : Nat \ {0}]
  \cup [op : {"cancel", "record"}, task : Tasks, gen : Nat]
  \cup [op : {"dequeue", "requeue"}, worker : Workers, skipped : Seq(Items)]
  \cup [op : {"prefetch", "commit", "activate", "reply"},
        worker : Workers, item : Items]
  \cup [op : ReportOps, worker : Workers, item : Items, retryable : BOOLEAN]

(* "stopping" and "drained": the loop has been left, by stop() while up or *)
(* while draining, and the HTTP client is not closed yet.                  *)
Phases == {"new", "up", "draining", "stopping", "drained", "gone", "crashed"}

TypeOK ==
  /\ state \in [Tasks -> States]
  /\ gen \in [Tasks -> Nat]
  /\ published \in [Tasks -> BOOLEAN]
  /\ assigned \in [Items -> Workers \cup {None}]
  /\ partials \in [Tasks -> SUBSET Items]
  /\ first \in [Tasks -> Items \cup {None}]
  /\ completed \in [Tasks -> Nat]
  /\ retries \in [Tasks -> 0 .. MaxRetries]
  /\ result \in [Tasks -> SUBSET Items]
  /\ history \in Seq([task : Tasks, state : States])
  /\ Len(history) <= HistoryMax
  /\ Queue!TypeOK
  /\ Registry!TypeOK
  /\ thread \in [Threads -> Call]
  /\ timedOut \subseteq Workers
  /\ reassigning \in Workers \cup {None}
  /\ phase \in [Workers -> Phases]
  /\ held \in [Workers \X Items -> Nat]
  /\ failing \subseteq Workers \X Items
  /\ events \in Nat
  /\ happened \subseteq Events \cup {"forget"}
  /\ timeouts \in Nat

Init ==
  /\ state = [t \in Tasks |-> "unknown"]
  /\ gen = [t \in Tasks |-> 0]
  /\ published = [t \in Tasks |-> FALSE]
  /\ assigned = [item \in Items |-> None]
  /\ partials = [t \in Tasks |-> {}]
  /\ first = [t \in Tasks |-> None]
  /\ completed = [t \in Tasks |-> 0]
  /\ retries = [t \in Tasks |-> 0]
  /\ result = [t \in Tasks |-> {}]
  /\ history = <<>>
  /\ Queue!Init
  /\ Registry!Init
  /\ thread = [th \in Threads |-> Idle]
  /\ timedOut = {}
  /\ reassigning = None
  /\ phase = [w \in Workers |-> "new"]
  /\ held = [e \in Workers \X Items |-> 0]
  /\ failing = {}
  /\ events = 0
  /\ happened = {}
  /\ timeouts = 0

-----------------------------------------------------------------------------
(* Helpers.                                                                *)

Occurs(event) ==
  /\ event \in Events
  /\ events < MaxEvents
  /\ events' = events + 1
  /\ happened' = happened \cup {event}

(* Several kinds at once, or none at all.                                  *)
OccurAll(kinds) ==
  /\ kinds \subseteq Events
  /\ IF kinds = {} THEN UNCHANGED eventVars
     ELSE /\ events < MaxEvents
          /\ events' = events + 1
          /\ happened' = happened \cup kinds

LockFree == reassigning = None

AnyIdle == \E th \in Threads : thread[th] = Idle

Goto(th, call) == thread' = [thread EXCEPT ![th] = call]
At(th, op) == thread[th].op = op

(* info.n_slices: 0 until the slices are published.                        *)
NSlices(t) == IF published[t] THEN Len(SliceList[t]) ELSE 0

(* on_complete counts completions, it does not look at which slices.       *)
AllIn_AtLeast(t) == completed[t] >= NSlices(t)  \* mutant
AllIn_Any(t) == TRUE                            \* mutant
AllIn(t) == completed[t] = NSlices(t)

MayRetry(t, retryable) == retryable /\ retries[t] < MaxRetries

(* merge_results: a concatenation, or the partial that arrived first.      *)
MergeOf_Assigned(t) == {item \in partials[t] : assigned[item] # None}  \* mutant
MergeOf(t) ==
  IF t \in Mergeable THEN partials[t] ELSE partials[t] \cap {first[t]}

Record_Unbounded(t, s) ==  \* mutant
  history' = Append(history, [task |-> t, state |-> s])

(* _record_history: append, then keep the last _history_max records.       *)
Record(t, s) ==
  LET longer == Append(history, [task |-> t, state |-> s])
  IN  history' = IF Len(longer) > HistoryMax THEN Tail(longer) ELSE longer

Matches(w, item) ==
  \/ TypeOf[TaskOf(item)] \in Capabilities[w]
  \/ "custom" \in Capabilities[w]

(* A call of the worker's poll loop that is still being served.            *)
Polling(w) ==
  \E th \in Threads : thread[th].op \in AssignOps /\ thread[th].worker = w

Reporting(w, item) ==
  \E th \in Threads : /\ thread[th].op \in ReportOps
                      /\ thread[th].worker = w
                      /\ thread[th].item = item

(* Worker._active_futures: keyed by slice id, popped when _execute ends.   *)
ActiveFutures(w) ==
  {item \in Items : \/ held[<<w, item>>] > 0
                    \/ <<w, item>> \in failing
                    \/ Reporting(w, item)}

Running(w) == phase[w] \in {"up", "draining", "stopping", "drained"}

-----------------------------------------------------------------------------
(* Client calls.                                                           *)

FreshInfo(t) ==
  /\ state' = [state EXCEPT ![t] = "pending"]
  /\ gen' = [gen EXCEPT ![t] = @ + 1]
  /\ published' = [published EXCEPT ![t] = FALSE]
  /\ completed' = [completed EXCEPT ![t] = 0]
  /\ retries' = [retries EXCEPT ![t] = 0]
  /\ result' = [result EXCEPT ![t] = {}]

FreshTaskState_KeepsPartials(t) ==  \* mutant
  FreshInfo(t) /\ UNCHANGED <<partVars, assigned>>

FreshTaskState(t) ==
  /\ FreshInfo(t)
  /\ partials' = [partials EXCEPT ![t] = {}]
  /\ first' = [first EXCEPT ![t] = None]
  /\ assigned' = [item \in Items |->
                    IF TaskOf(item) = t THEN None ELSE assigned[item]]

(* submit, first region: a fresh _TaskState replaces whatever the id had.  *)
Submit(th, t) ==
  /\ thread[th] = Idle
  /\ LockFree
  /\ IF state[t] = "unknown" THEN UNCHANGED eventVars ELSE Occurs("resubmit")
  /\ FreshTaskState(t)
  /\ Goto(th, [op |-> "publish", task |-> t])
  /\ UNCHANGED <<history, queue, regVars, checkVars, phase, held, failing>>

(* submit, second region: slices, n_slices and slices_by_id are set.       *)
PublishSlices(th) ==
  /\ At(th, "publish")
  /\ LockFree
  /\ LET t == thread[th].task
     IN  /\ published' = [published EXCEPT ![t] = TRUE]
         /\ Goto(th, IF SliceList[t] = <<>> THEN Idle
                     ELSE [op |-> "enqueue", task |-> t, next |-> 1])
  /\ UNCHANGED <<state, gen, completed, retries, result, partVars, assigned,
                 history, queue, regVars, checkVars, envVars>>

(* submit, the loop that enqueues the slices one by one, without the lock. *)
EnqueueSlice(th) ==
  /\ At(th, "enqueue")
  /\ LET t == thread[th].task
         k == thread[th].next
     IN  /\ Queue!Enqueue(<<t, SliceList[t][k]>>)
         /\ Goto(th, IF k = Len(SliceList[t]) THEN Idle
                     ELSE [op |-> "enqueue", task |-> t, next |-> k + 1])
  /\ UNCHANGED <<tables, regVars, checkVars, envVars>>

(* cancel: the _TaskState is looked up under the lock ...                  *)
Cancel(th, t) ==
  /\ thread[th] = Idle
  /\ LockFree
  /\ state[t] # "unknown"
  /\ Occurs("cancel")
  /\ Goto(th, [op |-> "cancel", task |-> t, gen |-> gen[t]])
  /\ UNCHANGED <<tables, queue, regVars, checkVars, phase, held, failing>>

(* ... and written without it, whatever its state has become.              *)
CancelWrite(th) ==
  /\ At(th, "cancel")
  /\ LET c == thread[th]
     IN  /\ state' = IF c.gen = gen[c.task]
                     THEN [state EXCEPT ![c.task] = "cancelled"] ELSE state
         /\ Goto(th, [op |-> "record", task |-> c.task, gen |-> c.gen])
  /\ UNCHANGED <<gen, published, completed, retries, result, partVars,
                 assigned, history, queue, regVars, checkVars, envVars>>

CancelRecord(th) ==
  /\ At(th, "record")
  /\ LET c == thread[th]
     IN  Record(c.task, IF c.gen = gen[c.task] THEN state[c.task]
                                               ELSE "cancelled")
  /\ Goto(th, Idle)
  /\ UNCHANGED <<taskVars, partVars, assigned, queue, regVars, checkVars,
                 envVars>>

-----------------------------------------------------------------------------
(* assign_task: a worker with a free slot asks for work.                   *)

(* Worker._poll_and_execute; a draining worker polls until it is empty.    *)
Poll(th, w) ==
  /\ thread[th] = Idle
  /\ phase[w] \in {"up", "draining"}
  /\ ~Polling(w)
  /\ Cardinality(ActiveFutures(w)) < Concurrency[w]
  /\ phase[w] = "draining" => ActiveFutures(w) # {}
  /\ Goto(th, [op |-> "dequeue", worker |-> w, skipped |-> <<>>])
  /\ UNCHANGED <<tables, queue, regVars, checkVars, envVars>>

(* One turn of the scan takes an item the worker can run: whatever the     *)
(* scan has skipped so far is forgotten with the local list ("forget").    *)
DequeueMatch(th) ==
  /\ At(th, "dequeue")
  /\ LET c == thread[th]
     IN  /\ \E item \in Items :
              /\ Queue!Dequeue(item)
              /\ Matches(c.worker, item)
              /\ Goto(th, [op |-> "prefetch", worker |-> c.worker,
                           item |-> item])
         /\ happened' = IF c.skipped = <<>> THEN happened
                                            ELSE happened \cup {"forget"}
  /\ UNCHANGED <<tables, regVars, checkVars, phase, held, failing, events>>

DequeueSkip(th) ==
  /\ At(th, "dequeue")
  /\ LET c == thread[th]
     IN  \E item \in Items :
           /\ Queue!Dequeue(item)
           /\ ~Matches(c.worker, item)
           /\ Goto(th, [op |-> "dequeue", worker |-> c.worker,
                        skipped |-> Append(c.skipped, item)])
  /\ UNCHANGED <<tables, regVars, checkVars, envVars>>

DequeueEmpty_Forgets(th) ==  \* mutant
  /\ At(th, "dequeue")
  /\ Queue!IsEmpty
  /\ Goto(th, Idle)
  /\ UNCHANGED <<tables, queue, regVars, checkVars, envVars>>

(* The queue has run empty: put the skipped items back, answer None.       *)
DequeueEmpty(th) ==
  /\ At(th, "dequeue")
  /\ Queue!IsEmpty
  /\ LET c == thread[th]
     IN  Goto(th, IF c.skipped = <<>> THEN Idle
                  ELSE [op |-> "requeue", worker |-> c.worker,
                        skipped |-> c.skipped])
  /\ UNCHANGED <<tables, queue, regVars, checkVars, envVars>>

Requeue(th) ==
  /\ At(th, "requeue")
  /\ LET c == thread[th]
     IN  /\ Queue!Enqueue(Head(c.skipped))
         /\ Goto(th, IF Len(c.skipped) = 1 THEN Idle
                     ELSE [op |-> "requeue", worker |-> c.worker,
                           skipped |-> Tail(c.skipped)])
  /\ UNCHANGED <<tables, regVars, checkVars, envVars>>

(* _prefetch_data: an exception leaves the handler, and the item, behind.  *)
Prefetch(th) ==
  /\ At(th, "prefetch")
  /\ LET c == thread[th]
     IN  \/ /\ Goto(th, [op |-> "commit", worker |-> c.worker,
                          item |-> c.item])
            /\ UNCHANGED eventVars
         \/ /\ Occurs("prefetchError")
            /\ Goto(th, Idle)
  /\ UNCHANGED <<tables, queue, regVars, checkVars, phase, held, failing>>

CommitAssignment_OnlyFirst(th) ==  \* mutant
  /\ At(th, "commit")
  /\ LockFree
  /\ LET c == thread[th]
         t == TaskOf(c.item)
     IN  /\ IF state[t] = "pending"
            THEN /\ assigned' = [assigned EXCEPT ![c.item] = c.worker]
                 /\ state' = [state EXCEPT ![t] = "running"]
            ELSE UNCHANGED <<assigned, state>>
         /\ Goto(th, [op |-> "activate", worker |-> c.worker,
                      item |-> c.item])
  /\ UNCHANGED <<gen, published, completed, retries, result, partVars,
                 history, queue, regVars, checkVars, envVars>>

(* _prepare_assignment, the region under the lock.                         *)
CommitAssignment(th) ==
  /\ At(th, "commit")
  /\ LockFree
  /\ LET c == thread[th]
         t == TaskOf(c.item)
     IN  /\ assigned' = [assigned EXCEPT ![c.item] = c.worker]
         /\ state' = [state EXCEPT ![t] = IF @ = "pending" THEN "running"
                                                           ELSE @]
         /\ Goto(th, [op |-> "activate", worker |-> c.worker,
                      item |-> c.item])
  /\ UNCHANGED <<gen, published, completed, retries, result, partVars,
                 history, queue, regVars, checkVars, envVars>>

ActivateWorker(th) ==
  /\ At(th, "activate")
  /\ LET c == thread[th]
     IN  /\ Registry!IncrementActive(c.worker)
         /\ Goto(th, [op |-> "reply", worker |-> c.worker, item |-> c.item])
  /\ UNCHANGED <<tables, queue, checkVars, envVars>>

(* The answer reaches a worker that still runs, unless fetch_bytes finds   *)
(* the entry evicted or the connection breaks ("lostReply").               *)
Reply(th) ==
  /\ At(th, "reply")
  /\ Goto(th, Idle)
  /\ LET c == thread[th]
         e == <<c.worker, c.item>>
     IN  \/ /\ held' = IF Running(c.worker) THEN [held EXCEPT ![e] = @ + 1]
                                            ELSE held
            /\ UNCHANGED eventVars
         \/ /\ Occurs("lostReply")
            /\ UNCHANGED held
  /\ UNCHANGED <<tables, queue, regVars, checkVars, phase, failing>>

-----------------------------------------------------------------------------
(* on_complete and on_fail.                                                *)

Count(t) == completed' = [completed EXCEPT ![t] = @ + 1]

(* Worker._send_complete, and the first region of on_complete.             *)
CompleteSlice(th, w, item) ==
  /\ thread[th] = Idle
  /\ LockFree
  /\ Running(w)
  /\ held[<<w, item>>] > 0
  /\ held' = [held EXCEPT ![<<w, item>>] = @ - 1]
  /\ LET t == TaskOf(item)
     IN  /\ partials' = [partials EXCEPT ![t] = @ \cup {item}]
         /\ first' = [first EXCEPT ![t] = IF partials[t] = {} THEN item
                                                              ELSE @]
         /\ Count(t)
  /\ Goto(th, [op |-> "releaseCompleted", worker |-> w, item |-> item,
               retryable |-> FALSE])
  /\ UNCHANGED <<state, gen, published, retries, result, assigned, history,
                 queue, regVars, checkVars, phase, failing, eventVars>>

(* on_complete, second region; the 200 may get lost ("lostAck"), and then  *)
(* the worker reports the same slice as failed.                            *)
MergeIfComplete(th) ==
  /\ At(th, "merge")
  /\ LockFree
  /\ LET c == thread[th]
         t == TaskOf(c.item)
     IN  /\ IF AllIn(t)
            THEN /\ result' = [result EXCEPT ![t] = MergeOf(t)]
                 /\ state' = [state EXCEPT ![t] = "completed"]
                 /\ Record(t, "completed")
            ELSE UNCHANGED <<result, state, history>>
         /\ \/ UNCHANGED <<failing, eventVars>>
            \/ /\ Running(c.worker)
               /\ Occurs("lostAck")
               /\ failing' = failing \cup {<<c.worker, c.item>>}
  /\ Goto(th, Idle)
  /\ UNCHANGED <<gen, published, completed, retries, partVars, assigned,
                 queue, regVars, checkVars, phase, held>>

(* First region of on_fail.                                                *)
RecordFailure(th, w, item, retryable) ==
  /\ thread[th] = Idle
  /\ LockFree
  /\ Running(w)
  /\ state' = [state EXCEPT ![TaskOf(item)] = "failed"]
  /\ Goto(th, [op |-> "releaseFailed", worker |-> w, item |-> item,
               retryable |-> retryable])
  /\ UNCHANGED <<gen, published, completed, retries, result, partVars,
                 assigned, history, queue, regVars, checkVars, phase>>

(* The execution raised.  Worker._send_fail never says "retryable"; other  *)
(* senders of the protocol message may.                                    *)
FailSlice(th, w, item) ==
  /\ held[<<w, item>>] > 0
  /\ held' = [held EXCEPT ![<<w, item>>] = @ - 1]
  /\ \/ Occurs("fail") /\ RecordFailure(th, w, item, FALSE)
     \/ Occurs("retryableFail") /\ RecordFailure(th, w, item, TRUE)
  /\ UNCHANGED failing

FailAfterComplete_Resends(th, w, item) ==  \* mutant
  /\ thread[th] = Idle
  /\ LockFree
  /\ Running(w)
  /\ <<w, item>> \in failing
  /\ failing' = failing \ {<<w, item>>}
  /\ Count(TaskOf(item))
  /\ Goto(th, [op |-> "releaseCompleted", worker |-> w, item |-> item,
               retryable |-> FALSE])
  /\ UNCHANGED <<state, gen, published, retries, result, partVars, assigned,
                 history, queue, regVars, checkVars, phase, held, eventVars>>

(* The worker's complete call raised: Worker._execute sends a fail.        *)
FailAfterComplete(th, w, item) ==
  /\ <<w, item>> \in failing
  /\ failing' = failing \ {<<w, item>>}
  /\ RecordFailure(th, w, item, FALSE)
  /\ UNCHANGED <<held, eventVars>>

(* decrement_active, between the two regions of either handler.            *)
ReleaseSlot(th) ==
  /\ thread[th].op \in {"releaseCompleted", "releaseFailed"}
  /\ LET c == thread[th]
     IN  /\ Registry!DecrementActive(c.worker)
         /\ Goto(th, [op |-> IF c.op = "releaseCompleted" THEN "merge"
                                                         ELSE "retry",
                      worker |-> c.worker, item |-> c.item,
                      retryable |-> c.retryable])
  /\ UNCHANGED <<tables, queue, checkVars, envVars>>

(* Second region of on_fail: the retry puts the unsliced spec in line.     *)
RetryOrRecord(th) ==
  /\ At(th, "retry")
  /\ LockFree
  /\ LET c == thread[th]
         t == TaskOf(c.item)
     IN  IF MayRetry(t, c.retryable)
         THEN /\ retries' = [retries EXCEPT ![t] = @ + 1]
              /\ state' = [state EXCEPT ![t] = "pending"]
              /\ Queue!Enqueue(Whole(t))
              /\ UNCHANGED history
         ELSE /\ Record(t, state[t])
              /\ UNCHANGED <<retries, state, queue>>
  /\ Goto(th, Idle)
  /\ UNCHANGED <<gen, published, completed, result, partVars, assigned,
                 regVars, checkVars, envVars>>

-----------------------------------------------------------------------------
(* Life cycle of the workers; each call is a handler with one lock region. *)

RegisterWorker(w) ==
  /\ phase[w] = "new"
  /\ AnyIdle
  /\ phase' = [phase EXCEPT ![w] = "up"]
  /\ Registry!Register(w)
  /\ UNCHANGED <<tables, queue, thread, checkVars, held, failing, eventVars>>

(* Worker._send_heartbeat, on a thread of its own, which may still send    *)
(* while the worker stops.  When the dispatcher comes to a heartbeat, the  *)
(* number of active futures in it may be older than what has happened      *)
(* since ("lateCount": any number up to the concurrency), and the draining *)
(* flag from before a drain that is over by now ("lateFlag"): then the     *)
(* worker is online again.                                                 *)
Heartbeat(w) ==
  /\ Running(w)
  /\ AnyIdle
  /\ \E n \in 0 .. Concurrency[w], reported \in {"online", "draining"} :
       /\ reported = "draining" => phase[w] \in {"draining", "drained"}
       /\ Registry!UpdateHeartbeat(w, n, reported)
       /\ OccurAll({kind \in {"lateCount", "lateFlag"} :
                      IF kind = "lateFlag"
                      THEN reported = "online" /\ phase[w] = "drained"
                      ELSE n # Cardinality(ActiveFutures(w))})
  /\ UNCHANGED <<tables, queue, thread, checkVars, phase, held, failing>>

(* Worker.drain                                                            *)
Drain(w) ==
  /\ phase[w] = "up"
  /\ Occurs("drain")
  /\ phase' = [phase EXCEPT ![w] = "draining"]
  /\ UNCHANGED <<tables, queue, regVars, thread, checkVars, held, failing>>

(* Worker.start leaves its loop, because of stop() or drained, and runs    *)
(* _unregister ...                                                         *)
LeaveLoop(w) ==
  /\ ~Polling(w)
  /\ AnyIdle
  /\ \/ /\ phase[w] \in {"up", "draining"}
        /\ Occurs("stop")
     \/ /\ phase[w] = "draining"
        /\ ActiveFutures(w) = {}
        /\ UNCHANGED eventVars
  /\ phase' = [phase EXCEPT ![w] = IF @ = "up" THEN "stopping" ELSE "drained"]
  /\ Registry!Unregister(w)
  /\ UNCHANGED <<tables, queue, thread, checkVars, held, failing>>

DropExecutions(w) ==
  /\ held' = [e \in Workers \X Items |-> IF e[1] = w THEN 0 ELSE held[e]]
  /\ failing' = {e \in failing : e[1] # w}

(* ... and closes the HTTP client: no running execution can report.        *)
CloseHttp(w) ==
  /\ phase[w] \in {"stopping", "drained"}
  /\ phase' = [phase EXCEPT ![w] = "gone"]
  /\ DropExecutions(w)
  /\ UNCHANGED <<tables, queue, regVars, thread, checkVars, eventVars>>

Crash(w) ==
  /\ Running(w)
  /\ Occurs("crash")
  /\ phase' = [phase EXCEPT ![w] = "crashed"]
  /\ DropExecutions(w)
  /\ UNCHANGED <<tables, queue, regVars, thread, checkVars>>

(* No heartbeat of w for offline_timeout: the process has ended, or runs   *)
(* on without being heard ("silence").  An assign handler of w is shorter  *)
(* than that unless fetching its data takes as long ("slowPrefetch").      *)
FallSilent(w) ==
  /\ ~stale[w]
  /\ OccurAll({kind \in {"silence", "slowPrefetch"} :
                 IF kind = "silence" THEN Running(w) ELSE Polling(w)})
  /\ Registry!FallSilent(w)
  /\ UNCHANGED <<tables, queue, thread, checkVars, phase, held, failing>>

-----------------------------------------------------------------------------
(* The _check_loop thread.                                                 *)

CheckTimeouts ==
  /\ timedOut = {}
  /\ Registry!TimedOut # {}
  /\ timeouts < MaxTimeouts
  /\ timeouts' = timeouts + 1
  /\ timedOut' = Registry!TimedOut
  /\ Registry!CheckTimeouts
  /\ UNCHANGED <<tables, queue, thread, reassigning, envVars>>

(* _reassign_worker_tasks: take the lock, ...                              *)
BeginReassign(w) ==
  /\ w \in timedOut
  /\ LockFree
  /\ reassigning' = w
  /\ UNCHANGED <<tables, queue, regVars, thread, timedOut, timeouts, envVars>>

(* ... move the worker's items one by one: only those in slices_by_id go   *)
(* back to the queue, whether or not they have been completed, ...         *)
ReassignItem(item) ==
  /\ reassigning # None
  /\ assigned[item] = reassigning
  /\ assigned' = [assigned EXCEPT ![item] = None]
  /\ IF published[TaskOf(item)] /\ item \in SlicesOf(TaskOf(item))
     THEN Queue!Enqueue(item)
     ELSE UNCHANGED queue
  /\ UNCHANGED <<taskVars, partVars, history, regVars, thread, checkVars,
                 envVars>>

(* ... and release it.                                                     *)
EndReassign ==
  /\ reassigning # None
  /\ \A item \in Items : assigned[item] # reassigning
  /\ timedOut' = timedOut \ {reassigning}
  /\ reassigning' = None
  /\ UNCHANGED <<tables, queue, regVars, thread, timeouts, envVars>>

-----------------------------------------------------------------------------
(* The handler on th advances to its next region.                          *)
Advance(th) ==
  \/ PublishSlices(th) \/ EnqueueSlice(th)
  \/ CancelWrite(th) \/ CancelRecord(th)
  \/ DequeueMatch(th) \/ DequeueSkip(th) \/ DequeueEmpty(th) \/ Requeue(th)
  \/ Prefetch(th) \/ CommitAssignment(th) \/ ActivateWorker(th) \/ Reply(th)
  \/ ReleaseSlot(th) \/ MergeIfComplete(th) \/ RetryOrRecord(th)

ClientCall(th) == \E t \in Tasks : Submit(th, t) \/ Cancel(th, t)

WorkerCall(th) ==
  \/ \E w \in Workers : Poll(th, w)
  \/ \E w \in Workers, item \in Items :
       \/ CompleteSlice(th, w, item)
       \/ FailSlice(th, w, item)
       \/ FailAfterComplete(th, w, item)

WorkerStep(w) ==
  \/ RegisterWorker(w) \/ Heartbeat(w) \/ Drain(w) \/ LeaveLoop(w)
  \/ CloseHttp(w) \/ Crash(w) \/ FallSilent(w)

CheckLoop ==
  \/ CheckTimeouts
  \/ \E w \in Workers : BeginReassign(w)
  \/ \E item \in Items : ReassignItem(item)
  \/ EndReassign

Next ==
  \/ \E th \in Threads : Advance(th) \/ ClientCall(th) \/ WorkerCall(th)
  \/ \E w \in Workers : WorkerStep(w)
  \/ CheckLoop

Spec == Init /\ [][Next]_vars

=============================================================================

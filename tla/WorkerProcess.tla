---------------------------- MODULE WorkerProcess ----------------------------
(***************************************************************************)
(* One compute worker (compute/worker.py, executor.py): the thread of      *)
(* start() registers, polls the dispatcher for slices and hands each to a  *)
(* pool of threads; stop, drain and join may be called at any time.        *)
(*                                                                         *)
(* The threads share _active_futures, the flags and the HTTP client, none  *)
(* of them under a lock.  The dispatcher is the environment: it answers an *)
(* assign call with any slice, also with one this worker is executing, and *)
(* it does not look at the status of the worker it answers.                *)
(***************************************************************************)
EXTENDS Naturals, FiniteSets

CONSTANTS
  Slices,       \* slice ids the dispatcher may assign
  Futures,      \* bound: Future objects, used again once nothing refers to them
  Concurrency,  \* max_workers of the pool and limit of _active_futures
  Faults,       \* calls that may fail: "register", "complete"
  None

ASSUME WorkerAssumption ==
  /\ Concurrency \in Nat \ {0}
  /\ None \notin Slices \cup Futures

VARIABLES
  main,      \* where the thread of start() is
  known,     \* _worker_id is set
  stopping,  \* _stopping is set
  draining,  \* _draining
  pending,   \* the future that is submitted and not stored yet
  active,    \* _active_futures: [Slices -> Futures \cup {None}]
  of,        \* the slice a future executes
  at,        \* where its execution is
  left,      \* how the loop of start() was left (history variable)
  again,     \* slices assigned while already in execution (history variable)
  overtaken  \* slices that ended before they were stored (history variable)

futVars == <<pending, active, of, at>>
flagVars == <<stopping, draining>>
histVars == <<left, again, overtaken>>
vars == <<main, known, futVars, flagVars, histVars>>

Places == {"free", "queued", "running", "reporting", "failing", "popping"}
Running == {"running", "reporting", "failing", "popping"}

TypeOK ==
  /\ main \in {"register", "loop", "poll", "store", "unregister", "closed"}
  /\ known \in BOOLEAN
  /\ stopping \in BOOLEAN /\ draining \in BOOLEAN
  /\ pending \in Futures \cup {None}
  /\ active \in [Slices -> Futures \cup {None}]
  /\ of \in [Futures -> Slices \cup {None}]
  /\ at \in [Futures -> Places]
  /\ \A f \in Futures : at[f] # "free" \/ f = pending => of[f] \in Slices
  /\ left \in {"no", "drain", "stop"}
  /\ again \subseteq Slices /\ overtaken \subseteq Slices
  /\ (main = "store") = (pending # None)

Init ==
  /\ main = "register" /\ known = FALSE
  /\ stopping = FALSE /\ draining = FALSE
  /\ pending = None
  /\ active = [s \in Slices |-> None]
  /\ of = [f \in Futures |-> None]
  /\ at = [f \in Futures |-> "free"]
  /\ left = "no" /\ again = {} /\ overtaken = {}

Entries == {s \in Slices : active[s] # None}

(* The active_tasks of a heartbeat, and what is compared to concurrency.   *)
Load == Cardinality(Entries)

-----------------------------------------------------------------------------
(* The thread of start().                                                  *)

(* A failed registration is swallowed: the worker runs on without an id.   *)
Register ==
  /\ main = "register"
  /\ main' = "loop"
  /\ \/ known' = TRUE
     \/ "register" \in Faults /\ known' = FALSE
  /\ UNCHANGED <<futVars, flagVars, histVars>>

MayLeave_Early == draining  \* mutant: active tasks are not looked at
MayLeave == draining /\ Entries = {}

LoopTest ==
  /\ main = "loop"
  /\ \/ stopping /\ main' = "unregister" /\ left' = "stop"
     \/ ~stopping /\ MayLeave /\ main' = "unregister" /\ left' = "drain"
     \/ ~stopping /\ ~MayLeave /\ main' = "poll" /\ UNCHANGED left
  /\ UNCHANGED <<known, futVars, flagVars, again, overtaken>>

CanPoll == Load < Concurrency /\ known

(* No slot, no id, no task, or the call failed.                            *)
PollNothing ==
  /\ main = "poll"
  /\ main' = "loop"
  /\ UNCHANGED <<known, futVars, flagVars, histVars>>

Idle(f) == at[f] = "free" /\ \A s \in Slices : active[s] # f

(* The pool has the future before _active_futures has it.                  *)
Poll(s) ==
  LET f == CHOOSE g \in Futures : Idle(g) IN
  /\ main = "poll" /\ CanPoll
  /\ \E g \in Futures : Idle(g)
  /\ main' = "store"
  /\ pending' = f
  /\ of' = [of EXCEPT ![f] = s]
  /\ at' = [at EXCEPT ![f] = "queued"]
  /\ again' = IF \E g \in Futures : at[g] # "free" /\ of[g] = s
              THEN again \cup {s} ELSE again
  /\ UNCHANGED <<known, active, flagVars, left, overtaken>>

StoreFuture ==
  /\ main = "store"
  /\ main' = "loop"
  /\ active' = [active EXCEPT ![of[pending]] = pending]
  /\ pending' = None
  /\ overtaken' = IF at[pending] = "free" THEN overtaken \cup {of[pending]}
                                          ELSE overtaken
  /\ UNCHANGED <<known, of, at, flagVars, left, again>>

(* _unregister swallows errors; the HTTP client is closed in any case.     *)
Unregister ==
  /\ main = "unregister"
  /\ main' = "closed"
  /\ UNCHANGED <<known, futVars, flagVars, histVars>>

-----------------------------------------------------------------------------
(* _execute, in a thread of the pool.                                      *)

StartExecution(f) ==
  /\ at[f] = "queued"
  /\ Cardinality({g \in Futures : at[g] \in Running}) < Concurrency
  /\ at' = [at EXCEPT ![f] = "running"]
  /\ UNCHANGED <<main, known, pending, active, of, flagVars, histVars>>

(* The handler returns or raises; without a handler dispatch raises.       *)
Run(f) ==
  /\ at[f] = "running"
  /\ \E next \in {"reporting", "failing"} : at' = [at EXCEPT ![f] = next]
  /\ UNCHANGED <<main, known, pending, active, of, flagVars, histVars>>

SendComplete(f) ==
  /\ at[f] = "reporting"
  /\ \/ main # "closed" /\ at' = [at EXCEPT ![f] = "popping"]
     \/ main = "closed" /\ at' = [at EXCEPT ![f] = "failing"]
     \/ "complete" \in Faults /\ at' = [at EXCEPT ![f] = "failing"]
  /\ UNCHANGED <<main, known, pending, active, of, flagVars, histVars>>

(* Whatever becomes of the call, the finally block follows.                *)
SendFail(f) ==
  /\ at[f] = "failing"
  /\ at' = [at EXCEPT ![f] = "popping"]
  /\ UNCHANGED <<main, known, pending, active, of, flagVars, histVars>>

PopFuture_Kept(f) ==  \* mutant: the finally block is missing
  /\ at[f] = "popping"
  /\ at' = [at EXCEPT ![f] = "free"]
  /\ UNCHANGED <<main, known, pending, active, of, flagVars, histVars>>

(* The entry of the slice goes, whichever future it holds by now.          *)
PopFuture(f) ==
  /\ at[f] = "popping"
  /\ at' = [at EXCEPT ![f] = "free"]
  /\ active' = [active EXCEPT ![of[f]] = None]
  /\ UNCHANGED <<main, known, pending, of, flagVars, histVars>>

Execution(f) ==
  Run(f) \/ SendComplete(f) \/ SendFail(f) \/ PopFuture(f)

-----------------------------------------------------------------------------
(* Calls of other threads.                                                 *)

(* stop, and join, which then only waits for some of the futures.          *)
Stop ==
  /\ ~stopping /\ stopping' = TRUE
  /\ UNCHANGED <<main, known, futVars, draining, histVars>>

Drain ==
  /\ ~draining /\ draining' = TRUE
  /\ UNCHANGED <<main, known, futVars, stopping, histVars>>

MainThread ==
  \/ Register \/ LoopTest \/ PollNothing \/ StoreFuture \/ Unregister
  \/ \E s \in Slices : Poll(s)

Next ==
  \/ MainThread
  \/ \E f \in Futures : StartExecution(f) \/ Execution(f)
  \/ Stop \/ Drain

Spec == Init /\ [][Next]_vars

(* The loop runs on, the pool runs what it is given, handlers terminate    *)
(* and HTTP calls come back or time out (30 s).                            *)
FairSpec ==
  /\ Spec
  /\ WF_vars(MainThread)
  /\ \A f \in Futures : WF_vars(StartExecution(f)) /\ WF_vars(Execution(f))

-----------------------------------------------------------------------------
(* An entry of _active_futures is a task in execution, and a task in       *)
(* execution has its entry, so that len(_active_futures), which limits the *)
(* polling and is reported as the load, counts the tasks.  It does unless  *)
(* a slice was assigned again while it ran, or ended before it was stored. *)
EntriesAreTasks ==
  /\ \A s \in Entries \ overtaken :
       at[active[s]] # "free" /\ of[active[s]] = s
  /\ \A f \in Futures :
       at[f] # "free" /\ f # pending /\ of[f] \notin again =>
         active[of[f]] = f

(* A worker that leaves by draining has reported every slice it was given  *)
(* before it closes its HTTP client (again with the one exception that a   *)
(* slice is assigned twice: the first end removes the entry of both).      *)
DrainKeepsResults ==
  left = "drain" =>
    \A f \in Futures : at[f] # "free" => of[f] \in again

(* Draining ends if the dispatcher stops assigning slices to the worker    *)
(* (assign_task does not look at its status, so a full queue may keep it   *)
(* at work), and unless an entry was stored after its task had ended:      *)
(* nobody will ever remove that one (start, drain).                        *)
DrainEnds ==
  <>[](main # "store") =>
    (draining ~> (main = "closed" \/ overtaken # {}))
=============================================================================

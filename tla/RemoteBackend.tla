---------------------------- MODULE RemoteBackend ----------------------------
(***************************************************************************)
(* RemoteComputeBackend and AutoComputeBackend (compute/backend/remote.py, *)
(* auto.py) under a client that submits, polls, waits for, streams and     *)
(* cancels tasks by id.                                                    *)
(*                                                                         *)
(* Of the local backend (module LocalBackend) only the ids it knows are    *)
(* kept, and of the dispatcher (module Dispatcher) the state it reports    *)
(* for a task.  That changes between any two requests of the client: a     *)
(* task is run, reports of its slices come late or twice, it is cancelled  *)
(* or submitted again by others, and a dispatcher that restarts knows none *)
(* of its tasks.  A request or an answer may be lost.                      *)
(***************************************************************************)
EXTENDS Naturals, ClientCalls

CONSTANTS
  TaskIds,    \* task ids
  MaxRetries, \* retries the dispatcher grants a submission (3 in the code)
  MaxEvents  \* bound: restarts, and cancellations and submissions by others

VARIABLES
  via,       \* the backend the client was built with
  task,      \* [TaskIds -> States], what the dispatcher reports
  local,     \* ids the local backend knows
  broken,    \* ids whose task at the dispatcher will make its handler raise
  retries,   \* info.retry_count
  route,     \* AutoComputeBackend._routing, "local" by default
  polling,   \* the call the client is in
  late,      \* the deadline of its wait has passed
  reply,     \* what its last call returned or raised
  events,    \* events so far
  withdrawn, \* while the call ran, its task was completed and is so no more
             \* (history variable)
  sent,      \* ids whose last submission was accepted (history variable)
  failed     \* ids of which a submission raised (history variable)

dispatcherVars == <<task, local, broken, retries>>
callVars == <<polling, late, reply>>
remoteHistory == <<withdrawn, sent, failed>>
remoteVars == <<via, dispatcherVars, route, callVars, events, remoteHistory>>

TaskStates ==
  {"unknown", "pending", "running", "completed", "failed", "cancelled"}

NoCall == [op |-> "idle"]
NoAnswer == [op |-> "none"]

RemoteOps == {"wait", "stream", "readWaited", "readStreamed"}
RemoteAnswers == {"result", "errorPayload", "failed", "cancelled", "timeout",
            "connection", "nothing", "local", "notFound"}

RemoteTypeOK ==
  /\ via \in Vias
  /\ task \in [TaskIds -> TaskStates]
  /\ local \subseteq TaskIds /\ broken \subseteq TaskIds
  /\ retries \in [TaskIds -> Nat]
  /\ route \in [TaskIds -> Backends]
  /\ polling \in {NoCall} \cup [op : RemoteOps, id : TaskIds]
  /\ late \in BOOLEAN
  /\ reply \in {NoAnswer} \cup
                 [op : RemoteOps, id : TaskIds, is : RemoteAnswers]
  /\ events \in Nat
  /\ withdrawn \in BOOLEAN
  /\ sent \subseteq TaskIds /\ failed \subseteq TaskIds

(* A client is configured with any name.                                   *)
RemoteInit ==
  /\ via \in {DefaultBackend(name) : name \in Vias \cup {"celery"}}
  /\ task = [id \in TaskIds |-> "unknown"]
  /\ local = {} /\ broken = {} /\ retries = [id \in TaskIds |-> 0]
  /\ route = [id \in TaskIds |-> "local"]
  /\ polling = NoCall /\ late = FALSE /\ reply = NoAnswer
  /\ events = 0 /\ withdrawn = FALSE /\ sent = {} /\ failed = {}

Where(id) == IF via = "auto" THEN route[id] ELSE via

-----------------------------------------------------------------------------
(* submit.                                                                 *)

Routed_Failed(id, b, accepted) ==  \* mutant: the failed ones are routed
  IF via = "auto" /\ ~accepted THEN [route EXCEPT ![id] = b] ELSE route

(* AutoComputeBackend stores the route before it submits.                  *)
Routed(id, b, accepted) ==
  IF via = "auto" THEN [route EXCEPT ![id] = b] ELSE route

SubmitLocal(call, id) ==
  /\ Target(call) = "local"
  /\ local' = local \cup {id}
  /\ route' = Routed(id, "local", TRUE)
  /\ sent' = sent \cup {id}
  /\ UNCHANGED <<task, broken, retries, failed>>

(* The dispatcher has the task, although its answer may be lost.           *)
SubmitRemote(call, id) ==
  /\ Target(call) = "remote" /\ Posts(call)
  /\ task' = [task EXCEPT ![id] = "pending"]
  /\ retries' = [retries EXCEPT ![id] = 0]
  /\ broken' = IF HandlerAccepts(call) THEN broken \ {id} ELSE broken \cup {id}
  /\ route' = Routed(id, "remote", TRUE)
  /\ \/ sent' = sent \cup {id} /\ UNCHANGED failed
     \/ failed' = failed \cup {id} /\ UNCHANGED sent
  /\ UNCHANGED local

(* No connection, or params that are not JSON: there is no fallback.       *)
SubmitFails(call, id) ==
  /\ Target(call) = "remote"
  /\ route' = Routed(id, "remote", FALSE)
  /\ failed' = failed \cup {id}
  /\ UNCHANGED <<dispatcherVars, sent>>

SubmitTask(call, id) ==
  /\ polling = NoCall
  /\ call.via = via /\ ~ComputedByCaller(call)
  /\ SubmitLocal(call, id) \/ SubmitRemote(call, id) \/ SubmitFails(call, id)
  /\ UNCHANGED <<via, callVars, events, withdrawn>>

-----------------------------------------------------------------------------
(* wait and stream_results: status requests until the task has ended, then *)
(* a request of its own for the result.  The local backend answers itself. *)

Ask(op, id) ==
  /\ polling = NoCall
  /\ IF Where(id) = "remote"
     THEN polling' = [op |-> op, id |-> id] /\ reply' = NoAnswer
     ELSE /\ reply' = [op |-> op, id |-> id,
                        is |-> IF id \in local THEN "local" ELSE "notFound"]
          /\ UNCHANGED polling
  /\ late' = FALSE
  /\ withdrawn' = FALSE
  /\ UNCHANGED <<via, dispatcherVars, route, events, sent, failed>>

EndCall(is) ==
  /\ polling' = NoCall
  /\ reply' = [op |-> polling.op, id |-> polling.id, is |-> is]
  /\ UNCHANGED <<via, dispatcherVars, route, late, events, remoteHistory>>

NextStep(op) ==
  /\ polling' = [polling EXCEPT !.op = op]
  /\ UNCHANGED <<via, dispatcherVars, route, late, reply, events,
                 remoteHistory>>

(* TaskInfo.from_dict: the payload of an error (a task that is not known)  *)
(* names no state, and reads as a pending task.                            *)
Reported(id) == IF task[id] = "unknown" THEN "pending" ELSE task[id]

WaitPoll_AnyEnd ==  \* mutant: the states are not told apart
  /\ polling.op = "wait" /\ ~late
  /\ Reported(polling.id) \in {"completed", "failed", "cancelled"}
  /\ NextStep("readWaited")

WaitPoll ==
  /\ polling.op = "wait" /\ ~late
  /\ \/ Reported(polling.id) = "completed" /\ NextStep("readWaited")
     \/ Reported(polling.id) = "failed" /\ EndCall("failed")
     \/ Reported(polling.id) = "cancelled" /\ EndCall("cancelled")

WaitTimeout == polling.op = "wait" /\ late /\ EndCall("timeout")

StreamPoll_Results ==  \* mutant: only a result ends the stream
  /\ polling.op = "stream"
  /\ Reported(polling.id) = "completed" /\ NextStep("readStreamed")

StreamPoll ==
  /\ polling.op = "stream"
  /\ \/ Reported(polling.id) = "completed" /\ NextStep("readStreamed")
     \/ Reported(polling.id) \in {"failed", "cancelled"} /\ EndCall("nothing")

(* result(): any payload without a result is handed out as if it were one. *)
FetchResult ==
  /\ polling.op \in {"readWaited", "readStreamed"}
  /\ EndCall(IF task[polling.id] = "completed" THEN "result"
                                              ELSE "errorPayload")

ConnectionFails == polling.op \in RemoteOps /\ EndCall("connection")

(* The sleep between two polls outlasts the deadline.                      *)
Deadline ==
  /\ polling.op = "wait" /\ ~late
  /\ late' = TRUE
  /\ UNCHANGED <<via, dispatcherVars, route, polling, reply, events,
                 remoteHistory>>

(* Dispatcher.cancel overwrites whatever has become of the task.           *)
CancelTask(id) ==
  /\ polling = NoCall /\ Where(id) = "remote"
  /\ task[id] # "unknown"
  /\ task' = [task EXCEPT ![id] = "cancelled"]
  /\ UNCHANGED <<via, local, broken, retries, route, callVars, events,
                 remoteHistory>>

-----------------------------------------------------------------------------
(* The dispatcher.                                                         *)

Becomes(id, s) == task' = [task EXCEPT ![id] = s]

(* The task of the call has left the completed state.                      *)
NoteWithdrawal ==
  withdrawn' = (withdrawn \/ (/\ polling # NoCall
                             /\ task[polling.id] = "completed"
                             /\ task'[polling.id] # "completed"))

Moved == NoteWithdrawal /\ UNCHANGED <<via, local, broken, route, callVars,
                                      events, sent, failed>>

Start(id) == task[id] = "pending" /\ Becomes(id, "running")

EndTask(id) ==
  /\ task[id] = "running"
  /\ Becomes(id, "failed") \/ (id \notin broken /\ Becomes(id, "completed"))

RunTask(id) == (Start(id) \/ EndTask(id)) /\ Moved /\ UNCHANGED retries

(* on_complete and on_fail look at no state.  A slice that was assigned    *)
(* twice ends twice, and a worker that gets no answer to its complete      *)
(* reports the same slice as failed (Worker._execute).                     *)
LateReport(id) ==
  /\ task[id] # "unknown"
  /\ Becomes(id, "failed") \/ (id \notin broken /\ Becomes(id, "completed"))
  /\ Moved /\ UNCHANGED retries

(* on_fail of a report that says so puts the task in line again.           *)
Retry(id) ==
  /\ task[id] # "unknown" /\ retries[id] < MaxRetries
  /\ retries' = [retries EXCEPT ![id] = @ + 1]
  /\ Becomes(id, "pending")
  /\ Moved

(* Others cancel the task or submit it again, or the dispatcher restarts   *)
(* and forgets all of them.                                                *)
Event ==
  /\ events < MaxEvents
  /\ events' = events + 1
  /\ \/ /\ \E id \in TaskIds : task[id] # "unknown" /\ Becomes(id, "cancelled")
        /\ UNCHANGED retries
     \/ \E id \in TaskIds :
          /\ task[id] # "unknown" /\ Becomes(id, "pending")
          /\ retries' = [retries EXCEPT ![id] = 0]
     \/ task' = [id \in TaskIds |-> "unknown"] /\ UNCHANGED retries
  /\ NoteWithdrawal
  /\ UNCHANGED <<via, local, broken, route, callVars, sent, failed>>

RemoteNext ==
  \/ \E id \in TaskIds :
       \/ \E call \in Calls : SubmitTask(call, id)
       \/ \E op \in {"wait", "stream"} : Ask(op, id)
       \/ CancelTask(id) \/ RunTask(id) \/ LateReport(id) \/ Retry(id)
  \/ WaitPoll \/ WaitTimeout \/ StreamPoll \/ FetchResult \/ ConnectionFails
  \/ Deadline \/ Event

(* Time passes, requests come back, and a task that is there is run.  No   *)
(* report has to come late.                                                *)
RemoteSpec ==
  /\ RemoteInit /\ [][RemoteNext]_remoteVars
  /\ WF_remoteVars(WaitPoll) /\ WF_remoteVars(WaitTimeout)
  /\ WF_remoteVars(StreamPoll) /\ WF_remoteVars(FetchResult)
  /\ WF_remoteVars(Deadline)
  /\ \A id \in TaskIds : WF_remoteVars(RunTask(id))

-----------------------------------------------------------------------------
(* What wait and stream_results hand out as a result is a result, unless   *)
(* the task was completed and left that state during the call: status and  *)
(* result are two requests, an error payload passes for a result, and a    *)
(* late report of a failure, a retry, a cancellation, a submission by      *)
(* others or a restart undoes a completion.  No task that failed or was    *)
(* cancelled before the call saw it completed is ever read.                *)
ErrorIsNoResult ==
  reply # NoAnswer /\ reply.is = "errorPayload" => withdrawn

(* A task whose submission was accepted is found again through the routing *)
(* table, unless a submission of its id raised, before or after: then the  *)
(* route may lead to a backend that has never seen the task.               *)
RouteFindsTask ==
  \A id \in sent \ failed :
    IF Where(id) = "local" THEN id \in local
    ELSE task[id] # "unknown" \/ events > 0

(* Calls come back.  A wait does whatever happens to the task, because of  *)
(* its deadline.  stream_results has none: it does unless the dispatcher   *)
(* has never heard of the task, or has forgotten it.                       *)
CallsComeBack ==
  /\ (polling.op \in {"wait", "readWaited"}) ~> (polling = NoCall)
  /\ \A id \in TaskIds :
       (polling = [op |-> "stream", id |-> id]) ~>
         (polling = NoCall \/ task[id] = "unknown")
=============================================================================

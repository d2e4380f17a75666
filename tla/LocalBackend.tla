---------------------------- MODULE LocalBackend ----------------------------
(***************************************************************************)
(* LocalComputeBackend (compute/backend/local.py): submit starts a daemon  *)
(* thread that executes the task, while any number of client threads wait  *)
(* for it, read its result and cancel it.                                  *)
(*                                                                         *)
(* Only the table of tasks is guarded by a lock.  The fields of a          *)
(* _LocalTaskState are written by its execution thread and by cancel       *)
(* without one, so each access to a shared field is a step of its own.     *)
(*                                                                         *)
(* A submission is one _LocalTaskState.  Submitting an id again makes the  *)
(* table point to a new one; the calls that found the old one keep it.     *)
(***************************************************************************)
EXTENDS Naturals, FiniteSets

CONSTANTS
  Ids,          \* task ids
  Submissions,  \* the _LocalTaskState objects that calls of submit create
  Clients,      \* client threads
  MaxCalls,     \* bound: calls of wait, result, stream_results and cancel
  None

ASSUME LocalAssumption ==
  /\ MaxCalls \in Nat
  /\ None \notin Submissions

VARIABLES
  table,    \* _tasks: [Ids -> Submissions \cup {None}]
  state,    \* info.state, "unknown" before the submission
  stored,   \* state.result holds what the handler returned
  error,    \* state.error holds what the handler raised
  done,     \* the event _done is set
  exec,     \* where the execution thread of a submission is
  client,   \* the call a client thread is in
  answer,   \* what its last call returned or raised
  calls,    \* calls made so far
  cancelled, \* submissions cancel has written to (history variable)
  escaped   \* submissions whose handler raised no Exception but, say,
            \* SystemExit, which nobody catches (history variable)

taskVars == <<state, stored, error, done>>
history == <<cancelled, escaped>>
vars == <<table, taskVars, exec, client, answer, calls, history>>

States == {"unknown", "pending", "running", "completed", "failed", "cancelled"}

Places == {"absent", "start", "run", "complete", "fail", "finish", "ended"}

Idle == [op |-> "idle"]

Ops == {"start", "wait", "checkFailed", "checkCancelled", "readWaited",
        "checkCompleted", "readResult", "stream", "streamed", "checkOpen",
        "cancel", "setDone"}

Answers == {"none", "result", "failed", "cancelled", "timeout", "notReady",
            "nothing", "true", "false"}

TypeOK ==
  /\ table \in [Ids -> Submissions \cup {None}]
  /\ state \in [Submissions -> States]
  /\ stored \in [Submissions -> BOOLEAN]
  /\ error \in [Submissions -> BOOLEAN]
  /\ done \in [Submissions -> BOOLEAN]
  /\ exec \in [Submissions -> Places]
  /\ client \in [Clients -> {Idle} \cup [op : Ops, sub : Submissions]]
  /\ answer \in [Clients -> {Idle} \cup
                   [op : Ops, sub : Submissions, is : Answers]]
  /\ calls \in Nat
  /\ cancelled \subseteq Submissions /\ escaped \subseteq Submissions

Init ==
  /\ table = [id \in Ids |-> None]
  /\ state = [s \in Submissions |-> "unknown"]
  /\ stored = [s \in Submissions |-> FALSE]
  /\ error = [s \in Submissions |-> FALSE]
  /\ done = [s \in Submissions |-> FALSE]
  /\ exec = [s \in Submissions |-> "absent"]
  /\ client = [c \in Clients |-> Idle]
  /\ answer = [c \in Clients |-> Idle]
  /\ calls = 0
  /\ cancelled = {} /\ escaped = {}

At(c, op) == client[c].op = op
Goto(c, op) == client' = [client EXCEPT ![c].op = op]

(* The call of c, which is at op, ends and gives the client this answer.   *)
Answer(c, is) ==
  /\ answer' = [answer EXCEPT ![c] =
                  [op |-> client[c].op, sub |-> client[c].sub, is |-> is]]
  /\ client' = [client EXCEPT ![c] = Idle]

-----------------------------------------------------------------------------
(* submit                                                                  *)

Submit(c, id, s) ==
  /\ client[c] = Idle
  /\ state[s] = "unknown"
  /\ state' = [state EXCEPT ![s] = "pending"]
  /\ table' = [table EXCEPT ![id] = s]
  /\ client' = [client EXCEPT ![c] = [op |-> "start", sub |-> s]]
  /\ UNCHANGED <<stored, error, done, exec, answer, calls, history>>

(* The task is in the table before its thread runs.                        *)
StartThread(c) ==
  /\ At(c, "start")
  /\ exec' = [exec EXCEPT ![client[c].sub] = "start"]
  /\ client' = [client EXCEPT ![c] = Idle]
  /\ UNCHANGED <<table, taskVars, answer, calls, history>>

-----------------------------------------------------------------------------
(* _run_local, the execution thread.  It writes RUNNING, COMPLETED and     *)
(* FAILED without looking at the state.                                    *)

MarkRunning(s) ==
  /\ exec[s] = "start"
  /\ exec' = [exec EXCEPT ![s] = "run"]
  /\ state' = [state EXCEPT ![s] = "running"]
  /\ UNCHANGED <<table, stored, error, done, client, answer, calls, history>>

Return_TooLate(s) ==  \* mutant: the result is stored in the finally block
  /\ exec[s] = "run"
  /\ exec' = [exec EXCEPT ![s] = "complete"]
  /\ UNCHANGED <<table, taskVars, client, answer, calls, history>>

(* The handler returns: state.result is stored first ...                   *)
Return(s) ==
  /\ exec[s] = "run"
  /\ exec' = [exec EXCEPT ![s] = "complete"]
  /\ stored' = [stored EXCEPT ![s] = TRUE]
  /\ UNCHANGED <<table, state, error, done, client, answer, calls, history>>

(* ... and then the task is completed.                                     *)
WriteCompleted(s) ==
  /\ exec[s] = "complete"
  /\ exec' = [exec EXCEPT ![s] = "finish"]
  /\ state' = [state EXCEPT ![s] = "completed"]
  /\ UNCHANGED <<table, stored, error, done, client, answer, calls, history>>

Raise_DoneFirst(s) ==  \* mutant: the event is set before the state
  /\ exec[s] = "run"
  /\ exec' = [exec EXCEPT ![s] = "fail"]
  /\ error' = [error EXCEPT ![s] = TRUE]
  /\ done' = [done EXCEPT ![s] = TRUE]
  /\ UNCHANGED <<table, state, stored, client, answer, calls, history>>

(* The handler raises.                                                     *)
Raise(s) ==
  /\ exec[s] = "run"
  /\ exec' = [exec EXCEPT ![s] = "fail"]
  /\ error' = [error EXCEPT ![s] = TRUE]
  /\ UNCHANGED <<table, state, stored, done, client, answer, calls, history>>

WriteFailed_NoFinally(s) ==  \* mutant
  /\ exec[s] = "fail"
  /\ exec' = [exec EXCEPT ![s] = "ended"]
  /\ state' = [state EXCEPT ![s] = "failed"]
  /\ UNCHANGED <<table, stored, error, done, client, answer, calls, history>>

WriteFailed(s) ==
  /\ exec[s] = "fail"
  /\ exec' = [exec EXCEPT ![s] = "finish"]
  /\ state' = [state EXCEPT ![s] = "failed"]
  /\ UNCHANGED <<table, stored, error, done, client, answer, calls, history>>

(* A BaseException that is no Exception: neither state nor error is        *)
(* written, and the task stays RUNNING; the finally block runs.            *)
Escape(s) ==
  /\ exec[s] = "run"
  /\ exec' = [exec EXCEPT ![s] = "finish"]
  /\ escaped' = escaped \cup {s}
  /\ UNCHANGED <<table, taskVars, client, answer, calls, cancelled>>

(* The finally block.                                                      *)
Finish(s) ==
  /\ exec[s] = "finish"
  /\ exec' = [exec EXCEPT ![s] = "ended"]
  /\ done' = [done EXCEPT ![s] = TRUE]
  /\ UNCHANGED <<table, state, stored, error, client, answer, calls, history>>

-----------------------------------------------------------------------------
(* Calls on a task: the lookup under the lock gives the submission.        *)

Call(c, id, op) ==
  /\ client[c] = Idle
  /\ table[id] # None
  /\ calls < MaxCalls
  /\ calls' = calls + 1
  /\ client' = [client EXCEPT ![c] = [op |-> op, sub |-> table[id]]]
  /\ UNCHANGED <<table, taskVars, exec, answer, history>>

Wait(c, id)          == Call(c, id, "wait")
Result(c, id)        == Call(c, id, "checkCompleted")
StreamResults(c, id) == Call(c, id, "stream")
Cancel(c, id)        == Call(c, id, "checkOpen")

(* wait: the event, then the state, then the state again, then the result. *)
WaitEnds(c) ==
  /\ At(c, "wait")
  /\ done[client[c].sub]
  /\ Goto(c, "checkFailed")
  /\ UNCHANGED <<table, taskVars, exec, answer, calls, history>>

WaitTimesOut(c) ==
  /\ At(c, "wait")
  /\ ~done[client[c].sub]
  /\ Answer(c, "timeout")
  /\ UNCHANGED <<table, taskVars, exec, calls, history>>

CheckFailed(c) ==
  /\ At(c, "checkFailed")
  /\ IF state[client[c].sub] = "failed"
     THEN Answer(c, "failed")
     ELSE Goto(c, "checkCancelled") /\ UNCHANGED answer
  /\ UNCHANGED <<table, taskVars, exec, calls, history>>

CheckCancelled(c) ==
  /\ At(c, "checkCancelled")
  /\ IF state[client[c].sub] = "cancelled"
     THEN Answer(c, "cancelled")
     ELSE Goto(c, "readWaited") /\ UNCHANGED answer
  /\ UNCHANGED <<table, taskVars, exec, calls, history>>

(* result: refuses unless COMPLETED.                                       *)
CheckCompleted(c) ==
  /\ At(c, "checkCompleted")
  /\ IF state[client[c].sub] # "completed"
     THEN Answer(c, "notReady")
     ELSE Goto(c, "readResult") /\ UNCHANGED answer
  /\ UNCHANGED <<table, taskVars, exec, calls, history>>

(* stream_results: no partial is ever recorded; wait, without a timeout.   *)
StreamWaited(c) ==
  /\ At(c, "stream")
  /\ done[client[c].sub]
  /\ Goto(c, "streamed")
  /\ UNCHANGED <<table, taskVars, exec, answer, calls, history>>

CheckStreamed(c) ==
  /\ At(c, "streamed")
  /\ IF state[client[c].sub] # "completed"
     THEN Answer(c, "nothing")
     ELSE Goto(c, "readResult") /\ UNCHANGED answer
  /\ UNCHANGED <<table, taskVars, exec, calls, history>>

(* The three of them end with: return state.result.                        *)
ReadResult(c) ==
  /\ client[c].op \in {"readWaited", "readResult"}
  /\ Answer(c, IF stored[client[c].sub] THEN "result" ELSE "none")
  /\ UNCHANGED <<table, taskVars, exec, calls, history>>

(* cancel: look at the state, write it, set the event.                     *)
CheckOpen(c) ==
  /\ At(c, "checkOpen")
  /\ IF state[client[c].sub] \in {"pending", "running"}
     THEN Goto(c, "cancel") /\ UNCHANGED answer
     ELSE Answer(c, "false")
  /\ UNCHANGED <<table, taskVars, exec, calls, history>>

WriteCancelled_All(c) ==  \* mutant: every submission of the table
  /\ At(c, "cancel")
  /\ state' = [s \in Submissions |->
                 IF \E id \in Ids : table[id] = s THEN "cancelled"
                                                  ELSE state[s]]
  /\ cancelled' = cancelled \cup {client[c].sub}
  /\ Goto(c, "setDone")
  /\ UNCHANGED <<table, stored, error, done, exec, answer, calls, escaped>>

WriteCancelled(c) ==
  /\ At(c, "cancel")
  /\ state' = [state EXCEPT ![client[c].sub] = "cancelled"]
  /\ cancelled' = cancelled \cup {client[c].sub}
  /\ Goto(c, "setDone")
  /\ UNCHANGED <<table, stored, error, done, exec, answer, calls, escaped>>

SetDone(c) ==
  /\ At(c, "setDone")
  /\ done' = [done EXCEPT ![client[c].sub] = TRUE]
  /\ Answer(c, "true")
  /\ UNCHANGED <<table, state, stored, error, exec, calls, history>>

-----------------------------------------------------------------------------
Execution(s) ==
  \/ MarkRunning(s) \/ Return(s) \/ WriteCompleted(s)
  \/ Raise(s) \/ WriteFailed(s) \/ Escape(s) \/ Finish(s)

CallOn(c, id) ==
  \/ \E s \in Submissions : Submit(c, id, s)
  \/ Wait(c, id) \/ Result(c, id) \/ StreamResults(c, id) \/ Cancel(c, id)

Advance(c) ==
  \/ StartThread(c)
  \/ WaitEnds(c) \/ CheckFailed(c) \/ CheckCancelled(c)
  \/ CheckCompleted(c) \/ StreamWaited(c) \/ CheckStreamed(c) \/ ReadResult(c)
  \/ CheckOpen(c) \/ WriteCancelled(c) \/ SetDone(c)

Next ==
  \/ \E s \in Submissions : Execution(s)
  \/ \E c \in Clients : Advance(c) \/ WaitTimesOut(c)
  \/ \E c \in Clients, id \in Ids : CallOn(c, id)

Spec == Init /\ [][Next]_vars

(* A thread that has started goes on, and a handler returns or raises.     *)
(* A wait need not have a timeout.                                         *)
FairSpec ==
  /\ Spec
  /\ \A s \in Submissions : WF_vars(Execution(s))
  /\ \A c \in Clients : WF_vars(Advance(c))
=============================================================================

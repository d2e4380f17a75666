----------------------- MODULE LocalBackendProperties -----------------------
(***************************************************************************)
(* What LocalComputeBackend promises to its clients.                       *)
(***************************************************************************)
EXTENDS LocalBackend

(* What result() would hand out for a submission.                          *)
Visible ==
  [s \in Submissions |->
     IF state[s] = "completed" /\ stored[s] THEN s ELSE None]

Lifecycle == INSTANCE TaskLifecycle
               WITH Tasks <- Submissions, result <- Visible

(* The backend implements the life cycle of a task for every submission    *)
(* that no cancel has written to, whatever other clients do to other       *)
(* submissions, of the same id too.  (cancel and the execution thread      *)
(* overwrite each other's state, so the promise ends there.)               *)
LifecycleUntilCancel ==
  /\ Lifecycle!Init
  /\ [][\A s \in Submissions \ cancelled' :
          \/ Lifecycle!Step(s)
          \/ UNCHANGED <<state[s], Visible[s]>>]_vars

(* result() and stream_results() hand out what the handler returned or     *)
(* nothing: state.result is stored before COMPLETED can be seen, also when *)
(* a late cancel overwrites that state.                                    *)
ResultIsStored ==
  \A c \in Clients :
    answer[c].op = "readResult" => answer[c].is = "result"

(* wait() tells how the execution ended: it raises TaskError only for an   *)
(* exception of the handler, and TaskCancelledError only after a cancel.   *)
(* It may return None in place of a result only for a cancelled task,      *)
(* whose state the execution thread goes on writing after _done is set,    *)
(* and for one whose handler raised what _run_local does not catch.        *)
WaitTellsTheOutcome ==
  \A c \in Clients :
    LET a == answer[c]
    IN  a # Idle =>
          /\ a.is = "failed" => error[a.sub]
          /\ a.is = "cancelled" => a.sub \in cancelled
          /\ a.is = "none" => a.sub \in cancelled \cup escaped

(* A wait or a stream without a timeout comes back, however the task ends. *)
WaitComesBack ==
  \A c \in Clients :
    client[c] # Idle ~> client[c] = Idle
=============================================================================

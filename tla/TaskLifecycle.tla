---------------------------- MODULE TaskLifecycle ----------------------------
(***************************************************************************)
(* What every compute backend promises about a task: the state machine of  *)
(* the protocol, and a result that a client can read from the moment the   *)
(* task is completed, and that never changes again.                        *)
(*                                                                         *)
(* An abstract specification: LocalBackend and Dispatcher are shown to     *)
(* implement it as far as they do.                                         *)
(***************************************************************************)
CONSTANTS Tasks, None

VARIABLES
  state,   \* [Tasks -> TaskState], "unknown" before the submission
  result   \* what get_result hands out, None while it refuses to

lifeVars == <<state, result>>

Init ==
  /\ state = [t \in Tasks |-> "unknown"]
  /\ result = [t \in Tasks |-> None]

Moves(t, from, to) ==
  /\ state[t] \in from
  /\ state' = [state EXCEPT ![t] = to]

Submit(t) == Moves(t, {"unknown"}, "pending") /\ UNCHANGED result
Run(t)    == Moves(t, {"pending"}, "running") /\ UNCHANGED result
Fail(t)   == Moves(t, {"running"}, "failed") /\ UNCHANGED result
Cancel(t) == Moves(t, {"pending", "running"}, "cancelled") /\ UNCHANGED result

Complete(t) ==
  /\ Moves(t, {"running"}, "completed")
  /\ \A u \in Tasks \ {t} : result'[u] = result[u]
  /\ result'[t] # None

Step(t) == Submit(t) \/ Run(t) \/ Fail(t) \/ Cancel(t) \/ Complete(t)

Next == \E t \in Tasks : Step(t)

Spec == Init /\ [][Next]_lifeVars
=============================================================================

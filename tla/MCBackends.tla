------------------------------ MODULE MCBackends ------------------------------
(***************************************************************************)
(* The backends a client of the library may be built with, side by side in *)
(* one run: of a behaviour either the local backend moves, or the remote   *)
(* and the auto backend.  They share no variable.                          *)
(***************************************************************************)
EXTENDS LocalBackendProperties, RemoteBackend

VARIABLE subject

allVars == <<subject, vars, remoteVars>>

MCInit ==
  /\ Init /\ RemoteInit
  /\ \/ subject = "local" /\ via = "local"
     \/ subject = "remote"

LocalMoves(A) == subject = "local" /\ A /\ UNCHANGED <<subject, remoteVars>>
RemoteMoves(A) == subject = "remote" /\ A /\ UNCHANGED <<subject, vars>>

MCNext == LocalMoves(Next) \/ RemoteMoves(RemoteNext)

(* The fairness of FairSpec and of RemoteSpec.                             *)
MCFairness ==
  /\ \A s \in Submissions : WF_allVars(LocalMoves(Execution(s)))
  /\ \A c \in Clients : WF_allVars(LocalMoves(Advance(c)))
  /\ WF_allVars(RemoteMoves(WaitPoll)) /\ WF_allVars(RemoteMoves(WaitTimeout))
  /\ WF_allVars(RemoteMoves(StreamPoll))
  /\ WF_allVars(RemoteMoves(FetchResult))
  /\ WF_allVars(RemoteMoves(Deadline))
  /\ \A id \in Ids : WF_allVars(RemoteMoves(RunTask(id)))

MCSpec == MCInit /\ [][MCNext]_allVars /\ MCFairness
=============================================================================

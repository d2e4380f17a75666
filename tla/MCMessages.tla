------------------------------ MODULE MCMessages ------------------------------
(***************************************************************************)
(* The two components that pass messages, side by side in one run: of a    *)
(* behaviour either the transport moves or the queue of the dispatcher.    *)
(***************************************************************************)
EXTENDS Transport

CONSTANTS Tasks, Processes

VARIABLES subject, priority, lists, sent, scan, present, got, taken, lost

Queue == INSTANCE RedisQueue

queueVars == <<priority, lists, sent, scan, present, got, taken, lost>>
allVars == <<subject, vars, queueVars>>

MCInit ==
  /\ Init /\ Queue!Init
  /\ \/ subject = "transport" /\ priority = [t \in Tasks |-> 0]
     \/ subject = "queue" /\ kind = "redis" /\ finite = {}

MCNext ==
  \/ subject = "transport" /\ Next /\ UNCHANGED <<subject, queueVars>>
  \/ subject = "queue" /\ Queue!Next /\ UNCHANGED <<subject, vars>>

MCFairness ==
  \A id \in Ids :
    /\ WF_allVars(subject = "transport" /\ Requester(id)
                    /\ UNCHANGED <<subject, queueVars>>)
    /\ WF_allVars(subject = "transport" /\ Peer(id)
                    /\ UNCHANGED <<subject, queueVars>>)

MCSpec == MCInit /\ [][MCNext]_allVars /\ MCFairness

(* A dequeue returns no task before a more urgent or an older one that was *)
(* there all the time (RedisQueue).                                        *)
DequeueOrder == Queue!DequeueOrder
=============================================================================

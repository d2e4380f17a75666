------------------------------ MODULE Transport ------------------------------
(***************************************************************************)
(* Request and reply over InProcessTransport and RedisTransport            *)
(* (foundation/transport/in_process.py, redis.py): requests of one node,   *)
(* each on a thread of its own, the threads of its peer that answer them,  *)
(* and a close of the requesting side.  No lock is held between the steps  *)
(* below.  A reply of RedisTransport goes to a queue named after the       *)
(* request, which no node reads.                                           *)
(***************************************************************************)
EXTENDS Naturals, FiniteSets

CONSTANT Ids  \* requests, each with an envelope id of its own

VARIABLES
  kind,     \* "in_process" or "redis"
  finite,   \* ids of the requests made with a timeout
  pc,       \* [Ids -> the requester's next step]
  outcome,  \* [Ids -> what request returned or raised]
  events,   \* keys of _reply_events
  woken,    \* ids whose Event object is set
  replies,  \* keys of _replies
  queue,    \* redis: requests in the peer's list
  inbox,    \* requests in the peer's inbox
  server,   \* [Ids -> the step of the peer's thread that answers]
  strays,   \* replies put into the requester's inbox
  unread,   \* redis: replies in a list nobody reads
  closing,  \* how far close has come
  counted,  \* keys of _reply_events when close began to go through them
  raced     \* ids registered while close ran (history variable)

reqVars == <<pc, outcome>>
table == <<events, woken, replies>>
peerVars == <<queue, inbox, server, strays, unread>>
closeVars == <<closing, counted, raced>>
vars == <<kind, finite, reqVars, table, peerVars, closeVars>>

Steps == {"idle", "send", "wait", "pop", "leave", "drop", "done"}
Outcomes == {"none", "reply", "timeout", "KeyError", "sendError"}
ServerSteps == {"none", "reply", "store", "set", "done", "KeyError"}

TypeOK ==
  /\ kind \in {"in_process", "redis"} /\ finite \subseteq Ids
  /\ pc \in [Ids -> Steps] /\ outcome \in [Ids -> Outcomes]
  /\ events \subseteq Ids /\ woken \subseteq Ids /\ replies \subseteq Ids
  /\ queue \subseteq Ids /\ inbox \subseteq Ids
  /\ server \in [Ids -> ServerSteps]
  /\ strays \subseteq Ids /\ unread \subseteq Ids
  /\ closing \in {"no", "setting", "failed", "set", "cleared", "closed"}
  /\ counted \subseteq Ids
  /\ raced \subseteq Ids

Init ==
  /\ kind \in {"in_process", "redis"} /\ finite \in SUBSET Ids
  /\ pc = [id \in Ids |-> "idle"] /\ outcome = [id \in Ids |-> "none"]
  /\ events = {} /\ woken = {} /\ replies = {}
  /\ queue = {} /\ inbox = {} /\ strays = {} /\ unread = {}
  /\ server = [id \in Ids |-> "none"]
  /\ closing = "no" /\ counted = {} /\ raced = {}

At(id, from, to) == pc[id] = from /\ pc' = [pc EXCEPT ![id] = to]
Result(id, what) == outcome' = [outcome EXCEPT ![id] = what]

-----------------------------------------------------------------------------
(* request.                                                                *)

Register(id) ==
  /\ At(id, "idle", "send")
  /\ events' = events \cup {id}
  /\ raced' = IF closing \in {"setting", "set", "cleared"} THEN raced \cup {id}
                                                           ELSE raced
  /\ UNCHANGED <<kind, finite, outcome, woken, replies, peerVars, closing,
                 counted>>

Send(id) ==
  /\ At(id, "send", "wait")
  /\ IF kind = "redis" THEN queue' = queue \cup {id} /\ UNCHANGED inbox
                       ELSE inbox' = inbox \cup {id} /\ UNCHANGED queue
  /\ UNCHANGED <<kind, finite, outcome, table, server, strays, unread,
                 closeVars>>

(* No connection to the Redis server, or the client is closed.             *)
SendFails(id) ==
  /\ kind = "redis"
  /\ At(id, "send", "leave") /\ Result(id, "sendError")
  /\ UNCHANGED <<kind, finite, table, peerVars, closeVars>>

Wake(id) ==
  /\ id \in woken
  /\ At(id, "wait", "pop")
  /\ UNCHANGED <<kind, finite, outcome, table, peerVars, closeVars>>

WaitTimeout(id) ==
  /\ id \in finite \ woken
  /\ At(id, "wait", "leave") /\ Result(id, "timeout")
  /\ UNCHANGED <<kind, finite, table, peerVars, closeVars>>

PopReply(id) ==
  /\ At(id, "pop", "leave")
  /\ Result(id, IF id \in replies THEN "reply" ELSE "KeyError")
  /\ replies' = replies \ {id}
  /\ UNCHANGED <<kind, finite, events, woken, peerVars, closeVars>>

(* The finally clause, in two steps; RedisTransport holds its lock.        *)
DropEvent(id) ==
  /\ At(id, "leave", IF kind = "redis" THEN "done" ELSE "drop")
  /\ events' = events \ {id}
  /\ replies' = IF kind = "redis" THEN replies \ {id} ELSE replies
  /\ UNCHANGED <<kind, finite, outcome, woken, peerVars, closeVars>>

DropReply(id) ==
  /\ At(id, "drop", "done")
  /\ replies' = replies \ {id}
  /\ UNCHANGED <<kind, finite, outcome, events, woken, peerVars, closeVars>>

-----------------------------------------------------------------------------
(* The peer: _dispatch_loop, receive and reply.                            *)

Serving(id, from, to) ==
  server[id] = from /\ server' = [server EXCEPT ![id] = to]

Deliver(id) ==
  /\ id \in queue
  /\ queue' = queue \ {id} /\ inbox' = inbox \cup {id}
  /\ UNCHANGED <<kind, finite, reqVars, table, server, strays, unread,
                 closeVars>>

Receive(id) ==
  /\ id \in inbox
  /\ Serving(id, "none", "reply")
  /\ inbox' = inbox \ {id}
  /\ UNCHANGED <<kind, finite, reqVars, table, queue, strays, unread,
                 closeVars>>

ReplyCheck_SetsFirst(id) ==  \* mutant: the event before the reply
  /\ kind = "in_process"
  /\ Serving(id, "reply", IF id \in events THEN "store" ELSE "done")
  /\ woken' = woken \cup (events \cap {id})
  /\ strays' = strays \cup ({id} \ events)
  /\ UNCHANGED <<kind, finite, reqVars, events, replies, queue, inbox, unread,
                 closeVars>>

ReplyCheck_InboxToo(id) ==  \* mutant: the inbox gets every reply
  /\ kind = "in_process"
  /\ Serving(id, "reply", IF id \in events THEN "store" ELSE "done")
  /\ strays' = strays \cup {id}
  /\ UNCHANGED <<kind, finite, reqVars, table, queue, inbox, unread,
                 closeVars>>

ReplyCheck(id) ==
  /\ kind = "in_process"
  /\ Serving(id, "reply", IF id \in events THEN "store" ELSE "done")
  /\ strays' = strays \cup ({id} \ events)
  /\ UNCHANGED <<kind, finite, reqVars, table, queue, inbox, unread,
                 closeVars>>

ReplyStore(id) ==
  /\ Serving(id, "store", "set")
  /\ replies' = replies \cup {id}
  /\ UNCHANGED <<kind, finite, reqVars, events, woken, queue, inbox, strays,
                 unread, closeVars>>

(* The event is looked up again; the requester may have removed it.        *)
ReplySet(id) ==
  /\ Serving(id, "set", IF id \in events THEN "done" ELSE "KeyError")
  /\ woken' = woken \cup (events \cap {id})
  /\ UNCHANGED <<kind, finite, reqVars, events, replies, queue, inbox, strays,
                 unread, closeVars>>

(* send pushes to the list of the node named in reply_to, the request's id. *)
ReplyRedis(id) ==
  /\ kind = "redis"
  /\ Serving(id, "reply", "done")
  /\ unread' = unread \cup {id}
  /\ UNCHANGED <<kind, finite, reqVars, table, queue, inbox, strays,
                 closeVars>>

-----------------------------------------------------------------------------
(* close: the events are set, one after another, then forgotten, then the  *)
(* replies, which RedisTransport does under its lock.  InProcessTransport  *)
(* goes through the dict itself: when its size has changed meanwhile, the  *)
(* loop raises RuntimeError, and so does close, which forgets nothing.     *)

CloseSet_Skipped ==  \* mutant: the events are only forgotten
  /\ kind = "in_process" /\ closing = "no" /\ closing' = "set"
  /\ counted' = events
  /\ UNCHANGED <<kind, finite, reqVars, table, peerVars, raced>>

CloseSet ==
  /\ kind = "in_process" /\ closing = "no" /\ closing' = "setting"
  /\ counted' = events
  /\ UNCHANGED <<kind, finite, reqVars, table, peerVars, raced>>

SameSize == Cardinality(events) = Cardinality(counted)

CloseWake(id) ==
  /\ closing = "setting" /\ SameSize
  /\ id \in events \ woken
  /\ woken' = woken \cup {id}
  /\ UNCHANGED <<kind, finite, reqVars, events, replies, peerVars, closeVars>>

CloseSetEnds ==
  /\ closing = "setting"
  /\ IF SameSize THEN events \subseteq woken /\ closing' = "set"
                 ELSE closing' = "failed"
  /\ UNCHANGED <<kind, finite, reqVars, table, peerVars, counted, raced>>

CloseEvents ==
  /\ closing = "set" /\ closing' = "cleared"
  /\ events' = {}
  /\ UNCHANGED <<kind, finite, reqVars, woken, replies, peerVars, counted,
                 raced>>

CloseReplies ==
  /\ closing = "cleared" /\ closing' = "closed"
  /\ replies' = {}
  /\ UNCHANGED <<kind, finite, reqVars, events, woken, peerVars, counted,
                 raced>>

CloseRedis ==
  /\ kind = "redis" /\ closing = "no" /\ closing' = "closed"
  /\ woken' = woken \cup events /\ events' = {} /\ replies' = {}
  /\ UNCHANGED <<kind, finite, reqVars, peerVars, counted, raced>>

Requester(id) ==
  \/ Send(id) \/ SendFails(id) \/ Wake(id) \/ WaitTimeout(id)
  \/ PopReply(id) \/ DropEvent(id) \/ DropReply(id)

Peer(id) ==
  \/ Deliver(id) \/ Receive(id) \/ ReplyCheck(id) \/ ReplyStore(id)
  \/ ReplySet(id) \/ ReplyRedis(id)

Close == CloseSet \/ CloseSetEnds \/ CloseEvents \/ CloseReplies \/ CloseRedis

Next ==
  \/ \E id \in Ids : Register(id) \/ Requester(id) \/ Peer(id) \/ CloseWake(id)
  \/ Close

(* Threads that have a step to take take it, the peer's included; nobody   *)
(* has to make a request or to close.                                      *)
Fairness ==
  \A id \in Ids : WF_vars(Requester(id)) /\ WF_vars(Peer(id))

Spec == Init /\ [][Next]_vars /\ Fairness

-----------------------------------------------------------------------------
(* Properties.                                                             *)

(* Of two nodes that nobody closes, a request never fails for want of its  *)
(* reply once it was woken: the reply is stored before the event is set    *)
(* (reply), and a second thread's request does not touch it.               *)
WokenHasReply ==
  \A id \in Ids : outcome[id] = "KeyError" => closing # "no"

(* A reply that a request returned is nowhere else: not in the inbox,      *)
(* where it would be taken for a message, and not left in _replies, where  *)
(* nobody would remove it (request, reply).                                *)
ReplyIsOnce ==
  \A id \in Ids : outcome[id] = "reply" => id \notin strays \cup replies

(* A request with a timeout ends; so does one without, when the transport  *)
(* brings replies back, unless it was registered while close was at work   *)
(* on the events, which it may forget without having set them all.  A      *)
(* close that fails leaves the events in place for the replies.            *)
RequestEnds ==
  \A id \in Ids :
    (pc[id] = "send" /\ (id \in finite \/ (kind = "in_process" /\ id \notin raced)))
      ~> pc[id] = "done"
=============================================================================

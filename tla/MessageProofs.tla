--------------------------- MODULE MessageProofs ----------------------------
(***************************************************************************)
(* Proofs about Transport for any number of requests, on either transport, *)
(* and about RedisQueue for any number of tasks and processes.             *)
(*                                                                         *)
(* TransportInv is inductive.  No lock orders the requester, the thread    *)
(* that answers and close, so each part says what one of them may conclude *)
(* from its own step: StoredBeforeSet for whoever is woken, AnsweredOnce   *)
(* for the thread that is about to store or to misdirect a reply.          *)
(*                                                                         *)
(* QueueInv is inductive.  A dequeue looks at three lists one after the    *)
(* other, while others change them; PresentIsAhead says what it may still  *)
(* conclude of a list it has passed.                                       *)
(***************************************************************************)
EXTENDS MCMessages, SequenceTheorems, TLAPS

Over == {"leave", "drop", "done"}

(* While nobody closes, a request that is set or about to be set, and that *)
(* has not ended, has its reply in _replies; only a woken one looks.       *)
StoredBeforeSet ==
  \A id \in Ids :
    /\ pc[id] = "pop" => id \in woken
    /\ closing = "no" /\ pc[id] \notin Over
         /\ (server[id] = "set" \/ id \in woken) => id \in replies

(* A reply is stored by a thread that found the event, and put into the    *)
(* inbox by one that did not, and there is one thread for each request.    *)
AnsweredOnce ==
  \A id \in Ids :
    /\ id \in replies \/ outcome[id] = "reply" =>
         server[id] \in {"set", "done", "KeyError"}
    /\ id \in strays =>
         server[id] = "done" /\ id \notin replies /\ outcome[id] # "reply"

TransportFacts ==
  StoredBeforeSet /\ AnsweredOnce /\ WokenHasReply /\ ReplyIsOnce

TransportInv == TypeOK /\ TransportFacts

-----------------------------------------------------------------------------
(* Init establishes the invariant.                                         *)
LEMMA TransportInit == Init => TransportInv
BY DEF Init, TransportInv, TransportFacts, TypeOK, Steps, Outcomes,
       ServerSteps, StoredBeforeSet, AnsweredOnce, WokenHasReply, ReplyIsOnce,
       Over

(* Every action keeps the types.                                           *)
LEMMA TransportTypeNext == TypeOK /\ [Next]_vars => TypeOK'
<1> SUFFICES ASSUME TypeOK, [Next]_vars PROVE TypeOK'
  OBVIOUS
<1> USE DEF TypeOK, Steps, Outcomes, ServerSteps, At, Result, Serving,
            reqVars, table, peerVars, closeVars
<1>1. ASSUME NEW id \in Ids, Register(id) PROVE TypeOK'
  BY <1>1 DEF Register
<1>2. ASSUME NEW id \in Ids, Send(id) PROVE TypeOK'
  BY <1>2 DEF Send
<1>3. ASSUME NEW id \in Ids, SendFails(id) PROVE TypeOK'
  BY <1>3 DEF SendFails
<1>4. ASSUME NEW id \in Ids, Wake(id) PROVE TypeOK'
  BY <1>4 DEF Wake
<1>5. ASSUME NEW id \in Ids, WaitTimeout(id) PROVE TypeOK'
  BY <1>5 DEF WaitTimeout
<1>6. ASSUME NEW id \in Ids, PopReply(id) PROVE TypeOK'
  BY <1>6 DEF PopReply
<1>7. ASSUME NEW id \in Ids, DropEvent(id) PROVE TypeOK'
  BY <1>7 DEF DropEvent
<1>8. ASSUME NEW id \in Ids, DropReply(id) PROVE TypeOK'
  BY <1>8 DEF DropReply
<1>9. ASSUME NEW id \in Ids, Deliver(id) PROVE TypeOK'
  BY <1>9 DEF Deliver
<1>10. ASSUME NEW id \in Ids, Receive(id) PROVE TypeOK'
  BY <1>10 DEF Receive
<1>11. ASSUME NEW id \in Ids, ReplyCheck(id) PROVE TypeOK'
  BY <1>11 DEF ReplyCheck
<1>12. ASSUME NEW id \in Ids, ReplyStore(id) PROVE TypeOK'
  BY <1>12 DEF ReplyStore
<1>13. ASSUME NEW id \in Ids, ReplySet(id) PROVE TypeOK'
  BY <1>13 DEF ReplySet
<1>14. ASSUME NEW id \in Ids, ReplyRedis(id) PROVE TypeOK'
  BY <1>14 DEF ReplyRedis
<1>15. CASE CloseSet
  BY <1>15 DEF CloseSet
<1>16. CASE CloseSetEnds
  BY <1>16 DEF CloseSetEnds
<1>17. ASSUME NEW id \in Ids, CloseWake(id) PROVE TypeOK'
  BY <1>17 DEF CloseWake
<1>18. CASE CloseEvents
  BY <1>18 DEF CloseEvents
<1>19. CASE CloseReplies
  BY <1>19 DEF CloseReplies
<1>20. CASE CloseRedis
  BY <1>20 DEF CloseRedis
<1>21. CASE UNCHANGED vars
  BY <1>21 DEF vars
<1> QED
  BY <1>1, <1>2, <1>3, <1>4, <1>5, <1>6, <1>7, <1>8, <1>9, <1>10, <1>11,
     <1>12, <1>13, <1>14, <1>15, <1>16, <1>17, <1>18, <1>19, <1>20, <1>21
     DEF Next, Requester, Peer, Close

-----------------------------------------------------------------------------
(* Every action keeps the facts.                                           *)
LEMMA TransportFactsNext ==
  TransportInv /\ TypeOK' /\ [Next]_vars => TransportFacts'
<1> SUFFICES ASSUME TransportInv, TypeOK', [Next]_vars PROVE TransportFacts'
  OBVIOUS
<1> USE DEF TransportInv, TransportFacts, TypeOK, StoredBeforeSet,
            AnsweredOnce, WokenHasReply, ReplyIsOnce, Over, Steps, Outcomes,
            ServerSteps, At, Result, Serving, reqVars, table, peerVars, closeVars
<1>1. ASSUME NEW id \in Ids, Register(id) PROVE TransportFacts'
  BY <1>1 DEF Register
<1>2. ASSUME NEW id \in Ids, Send(id) PROVE TransportFacts'
  BY <1>2 DEF Send
<1>3. ASSUME NEW id \in Ids, SendFails(id) PROVE TransportFacts'
  BY <1>3 DEF SendFails
<1>4. ASSUME NEW id \in Ids, Wake(id) PROVE TransportFacts'
  BY <1>4 DEF Wake
<1>5. ASSUME NEW id \in Ids, WaitTimeout(id) PROVE TransportFacts'
  BY <1>5 DEF WaitTimeout
<1>6. ASSUME NEW id \in Ids, PopReply(id) PROVE TransportFacts'
  BY <1>6 DEF PopReply
<1>7. ASSUME NEW id \in Ids, DropEvent(id) PROVE TransportFacts'
  BY <1>7 DEF DropEvent
<1>8. ASSUME NEW id \in Ids, DropReply(id) PROVE TransportFacts'
  BY <1>8 DEF DropReply
<1>9. ASSUME NEW id \in Ids, Deliver(id) PROVE TransportFacts'
  BY <1>9 DEF Deliver
<1>10. ASSUME NEW id \in Ids, Receive(id) PROVE TransportFacts'
  BY <1>10 DEF Receive
<1>11. ASSUME NEW id \in Ids, ReplyCheck(id) PROVE TransportFacts'
  BY <1>11 DEF ReplyCheck
<1>12. ASSUME NEW id \in Ids, ReplyStore(id) PROVE TransportFacts'
  BY <1>12 DEF ReplyStore
<1>13. ASSUME NEW id \in Ids, ReplySet(id) PROVE TransportFacts'
  BY <1>13 DEF ReplySet
<1>14. ASSUME NEW id \in Ids, ReplyRedis(id) PROVE TransportFacts'
  BY <1>14 DEF ReplyRedis
<1>15. CASE CloseSet
  BY <1>15 DEF CloseSet
<1>16. CASE CloseSetEnds
  BY <1>16 DEF CloseSetEnds
<1>17. ASSUME NEW id \in Ids, CloseWake(id) PROVE TransportFacts'
  BY <1>17 DEF CloseWake
<1>18. CASE CloseEvents
  BY <1>18 DEF CloseEvents
<1>19. CASE CloseReplies
  BY <1>19 DEF CloseReplies
<1>20. CASE CloseRedis
  BY <1>20 DEF CloseRedis
<1>21. CASE UNCHANGED vars
  BY <1>21 DEF vars
<1> QED
  BY <1>1, <1>2, <1>3, <1>4, <1>5, <1>6, <1>7, <1>8, <1>9, <1>10, <1>11,
     <1>12, <1>13, <1>14, <1>15, <1>16, <1>17, <1>18, <1>19, <1>20, <1>21
     DEF Next, Requester, Peer, Close

-----------------------------------------------------------------------------
(* TransportInv is an invariant of the transports.                         *)
LEMMA TransportInvariant == Spec => []TransportInv
<1>1. TransportInv /\ [Next]_vars => TransportInv'
  BY TransportTypeNext, TransportFactsNext DEF TransportInv
<1> QED
  BY TransportInit, <1>1, PTL DEF Spec

(* Every variable of the transport keeps its type.                         *)
THEOREM TypeCorrect == Spec => []TypeOK
<1>1. TransportInv => TypeOK
  BY DEF TransportInv
<1> QED
  BY TransportInvariant, <1>1, PTL

(* A request that was woken finds its reply (request, reply), however many *)
(* requests time out around it, unless the transport is being closed.      *)
THEOREM WokenFindsReply == Spec => []WokenHasReply
<1>1. TransportInv => WokenHasReply
  BY DEF TransportInv, TransportFacts
<1> QED
  BY TransportInvariant, <1>1, PTL

(* A reply that was returned is neither in the inbox nor left in _replies, *)
(* whatever the timing of the timeout and the close.                       *)
THEOREM RepliesAreTakenOnce == Spec => []ReplyIsOnce
<1>1. TransportInv => ReplyIsOnce
  BY DEF TransportInv, TransportFacts
<1> QED
  BY TransportInvariant, <1>1, PTL

-----------------------------------------------------------------------------
(* The Redis queue.                                                        *)

Lists(task) == {l \in Queue!Lanes : \E k \in DOMAIN lists[l] : lists[l][k] = task}

QueueTypes ==
  /\ priority \in [Tasks -> -1 .. 1]
  /\ lists \in [Queue!Lanes -> Seq(Tasks)]
  /\ sent \in Seq(Tasks)
  /\ scan \in [Processes -> 0 .. 3]
  /\ present \in [Processes -> SUBSET Tasks]
  /\ got \in [Processes -> SUBSET Tasks]

SentBefore(t, u) ==
  \E i, j \in DOMAIN sent : i < j /\ sent[i] = t /\ sent[j] = u

(* A list holds the tasks of its lane, in the order they were sent.        *)
ListsInOrder ==
  \A l \in Queue!Lanes :
    /\ \A k \in DOMAIN lists[l] :
         /\ Queue!Lane(lists[l][k]) = l
         /\ \E i \in DOMAIN sent : sent[i] = lists[l][k]
    /\ \A j, k \in DOMAIN lists[l] : j < k => SentBefore(lists[l][j], lists[l][k])

(* What was there all the time is still there, and not in a list that a    *)
(* dequeue has passed, for it has found that list empty.                   *)
PresentIsAhead ==
  \A p \in Processes : \A u \in present[p] :
    /\ Lists(u) # {}
    /\ scan[p] <= Queue!Lane(u)

QueueInv == QueueTypes /\ ListsInOrder /\ PresentIsAhead /\ DequeueOrder

(* The three lists are the three priorities.                               *)
LEMMA LaneIsPriority ==
  ASSUME QueueTypes, NEW t \in Tasks, NEW u \in Tasks
  PROVE  /\ Queue!Lane(t) \in Queue!Lanes
         /\ Queue!Lane(t) = Queue!Lane(u) => priority[t] = priority[u]
         /\ Queue!Lane(t) < Queue!Lane(u) => priority[t] < priority[u]
<1>1. priority[t] \in -1 .. 1 /\ priority[u] \in -1 .. 1
  BY DEF QueueTypes
<1> QED BY <1>1 DEF Queue!Lane, Queue!Lanes

LEMMA QueueInit == MCInit => QueueInv
<1> SUFFICES ASSUME MCInit PROVE QueueInv
  OBVIOUS
<1> USE DEF MCInit, Queue!Init
<1>1. QueueTypes
  BY DEF QueueTypes, Queue!Lanes
<1>2. ListsInOrder
  BY DEF ListsInOrder
<1>3. PresentIsAhead /\ DequeueOrder
  BY DEF PresentIsAhead, DequeueOrder, Queue!DequeueOrder
<1> QED BY <1>1, <1>2, <1>3 DEF QueueInv

(* The order in which tasks were sent is never forgotten.                  *)
LEMMA EnqueueKeepsQueue ==
  ASSUME QueueInv, NEW task \in Tasks, Queue!Enqueue(task)
  PROVE  QueueInv'
<1> DEFINE lane == Queue!Lane(task)
<1> USE DEF QueueInv, Queue!Enqueue
<1>1. lane \in Queue!Lanes
  BY DEF Queue!Lane, Queue!Lanes
<1>2. QueueTypes'
  BY <1>1 DEF QueueTypes
<1>3. ASSUME NEW l \in Queue!Lanes, l # lane
      PROVE  lists'[l] = lists[l]
  BY <1>3, <1>1 DEF QueueTypes
<1>4. lists'[lane] = Append(lists[lane], task)
  BY <1>1 DEF QueueTypes
<1>5. /\ \A k \in DOMAIN sent : k \in DOMAIN sent' /\ sent'[k] = sent[k]
      /\ Len(sent') \in DOMAIN sent' /\ sent'[Len(sent')] = task
      /\ \A k \in DOMAIN sent : k < Len(sent')
  BY DEF QueueTypes
<1>7. ASSUME NEW l \in Queue!Lanes, NEW k \in DOMAIN lists'[l]
      PROVE  \/ k \in DOMAIN lists[l] /\ lists'[l][k] = lists[l][k]
             \/ /\ l = lane /\ lists'[l][k] = task /\ k \notin DOMAIN lists[l]
                /\ \A j \in DOMAIN lists[l] : j < k
  <2>1. CASE l = lane
    <3>1. lists[lane] \in Seq(Tasks)
      BY <1>1 DEF QueueTypes
    <3> QED BY <2>1, <3>1, <1>4
  <2> QED BY <2>1, <1>3
<1>8. ListsInOrder'
  <2> SUFFICES ASSUME NEW l \in Queue!Lanes
               PROVE /\ \A k \in DOMAIN lists'[l] :
                          /\ Queue!Lane(lists'[l][k]) = l
                          /\ \E i \in DOMAIN sent' : sent'[i] = lists'[l][k]
                     /\ \A j, k \in DOMAIN lists'[l] : j < k =>
                          \E m, n \in DOMAIN sent' : /\ m < n
                             /\ sent'[m] = lists'[l][j] /\ sent'[n] = lists'[l][k]
    <3>1. priority' = priority
      OBVIOUS
    <3> HIDE DEF QueueInv, Queue!Enqueue, lane
    <3> QED BY <3>1, Zenon DEF ListsInOrder, SentBefore, Queue!Lane
  <2>1. ASSUME NEW k \in DOMAIN lists'[l]
        PROVE  /\ Queue!Lane(lists'[l][k]) = l
               /\ \E i \in DOMAIN sent' : sent'[i] = lists'[l][k]
    BY <1>5, <1>7 DEF ListsInOrder
  <2>2. ASSUME NEW j \in DOMAIN lists'[l], NEW k \in DOMAIN lists'[l], j < k
        PROVE  \E m, n \in DOMAIN sent' : /\ m < n
                  /\ sent'[m] = lists'[l][j] /\ sent'[n] = lists'[l][k]
    <3>1. lists[l] \in Seq(Tasks) /\ lists'[l] \in Seq(Tasks)
      BY <1>2 DEF QueueTypes
    <3>2. j \in DOMAIN lists[l] /\ lists'[l][j] = lists[l][j]
      <4>1. ASSUME l = lane, j \notin DOMAIN lists[l] PROVE FALSE
        BY <4>1, <2>2, <3>1, <1>4
      <4> QED BY <4>1, <1>7
    <3>3. CASE k \in DOMAIN lists[l]
      <4>1. SentBefore(lists[l][j], lists[l][k])
        BY <2>2, <3>2, <3>3 DEF ListsInOrder
      <4>2. lists'[l][k] = lists[l][k]
        BY <3>1, <3>3, <1>3, <1>4
      <4> QED BY <4>1, <4>2, <3>2, <1>5 DEF SentBefore
    <3>4. CASE k \notin DOMAIN lists[l]
      <4>1. lists'[l][k] = task
        BY <3>4, <1>7
      <4>2. PICK i \in DOMAIN sent : sent[i] = lists[l][j]
        BY <3>2 DEF ListsInOrder
      <4> QED BY <4>1, <4>2, <3>2, <1>5
    <3> QED BY <3>3, <3>4
  <2> QED BY <2>1, <2>2
<1>9. ASSUME NEW u, Lists(u) # {} PROVE Lists(u)' # {}
  <2>1. PICK l \in Queue!Lanes : \E k \in DOMAIN lists[l] : lists[l][k] = u
    BY <1>9 DEF Lists
  <2>2. PICK k \in DOMAIN lists[l] : lists[l][k] = u
    BY <2>1
  <2>3. k \in DOMAIN lists'[l] /\ lists'[l][k] = u
    <3>1. CASE l = lane
      BY <2>2, <3>1, <1>4 DEF QueueTypes
    <3> QED BY <2>2, <3>1, <1>3
  <2> QED BY <2>3 DEF Lists
<1>10. PresentIsAhead'
  BY <1>9 DEF PresentIsAhead, Queue!Lane
<1>11. DequeueOrder'
  BY <1>5 DEF DequeueOrder, Queue!DequeueOrder, Queue!Before
<1> QED BY <1>2, <1>8, <1>10, <1>11

(* A dequeue begins: nothing has been passed yet, and nothing returned.    *)
LEMMA DequeueKeepsQueue ==
  ASSUME QueueInv, NEW p \in Processes, Queue!Dequeue(p)
  PROVE  QueueInv'
<1> USE DEF QueueInv, Queue!Dequeue
<1>1. ASSUME NEW u \in Queue!Queued
      PROVE  u \in Tasks /\ Lists(u) # {}
  BY DEF Queue!Queued, Queue!ToSet, QueueTypes, Lists
<1>2. QueueTypes'
  BY <1>1 DEF QueueTypes
<1>3. ListsInOrder'
  BY DEF ListsInOrder, SentBefore, Queue!Lane
<1>4. PresentIsAhead'
  BY <1>1 DEF PresentIsAhead, Lists, Queue!Lane, QueueTypes
<1>5. DequeueOrder'
  BY DEF DequeueOrder, Queue!DequeueOrder, Queue!Before, QueueTypes
<1> QED BY <1>2, <1>3, <1>4, <1>5

(* The list is empty, so nothing that was there all the time is in it.     *)
LEMMA NextLaneKeepsQueue ==
  ASSUME QueueInv, NEW p \in Processes, Queue!NextLane(p)
  PROVE  QueueInv'
<1> USE DEF QueueInv, Queue!NextLane
<1>1. QueueTypes'
  BY DEF QueueTypes, Queue!Lanes
<1>2. ListsInOrder'
  BY DEF ListsInOrder, SentBefore, Queue!Lane
<1>3. ASSUME NEW u \in present[p] PROVE scan[p] # Queue!Lane(u)
  BY DEF PresentIsAhead, ListsInOrder, Lists
<1>4. ASSUME NEW q \in Processes, NEW u \in present[q]
      PROVE  scan'[q] <= Queue!Lane(u)
  BY <1>3 DEF PresentIsAhead, QueueTypes, Queue!Lane, Queue!Lanes
<1>5. PresentIsAhead'
  BY <1>4 DEF PresentIsAhead, Lists, Queue!Lane
<1>6. DequeueOrder'
  BY DEF DequeueOrder, Queue!DequeueOrder, Queue!Before
<1> QED BY <1>1, <1>2, <1>5, <1>6

(* The tail of a list has all its tasks but the first.                     *)
LEMMA TailCells ==
  ASSUME NEW S, NEW s \in Seq(S), s # <<>>
  PROVE  /\ DOMAIN s = 1 .. Len(s) /\ DOMAIN Tail(s) = 1 .. Len(s) - 1
         /\ Len(s) \in Nat \ {0}
         /\ \A k \in DOMAIN Tail(s) : Tail(s)[k] = s[k + 1]
BY HeadTailProperties

(* What is taken is the oldest of the most urgent list that is not empty.  *)
LEMMA PopKeepsQueue ==
  ASSUME QueueInv, NEW p \in Processes, Queue!Pop(p)
  PROVE  QueueInv'
<1> DEFINE lane == scan[p]
           task == Head(lists[lane])
<1> USE DEF QueueInv, Queue!Pop
<1>1. /\ lane \in Queue!Lanes /\ lists[lane] \in Seq(Tasks)
      /\ lists[lane] # <<>> /\ task \in Tasks
      /\ 1 \in DOMAIN lists[lane] /\ task = lists[lane][1]
  BY DEF QueueTypes
<1>2. QueueTypes'
  <2>1. Tail(lists[lane]) \in Seq(Tasks)
    BY <1>1
  <2>2. lists' \in [Queue!Lanes -> Seq(Tasks)]
    BY <1>1, <2>1 DEF QueueTypes
  <2>3. present' \in [Processes -> SUBSET Tasks]
    BY DEF Queue!Gone, QueueTypes
  <2>4. got' \in [Processes -> SUBSET Tasks]
    <3>1. CASE got' = [got EXCEPT ![p] = {task}]
      BY <1>1, <3>1 DEF QueueTypes
    <3>2. CASE got' = got
      BY <3>2 DEF QueueTypes
    <3> QED BY <3>1, <3>2
  <2>5. scan' \in [Processes -> 0 .. 3]
    BY DEF QueueTypes
  <2> QED BY <2>2, <2>3, <2>4, <2>5 DEF QueueTypes
<1>3. ASSUME NEW l \in Queue!Lanes, l # lane
      PROVE  lists'[l] = lists[l]
  BY <1>3, <1>1 DEF QueueTypes
<1>4. lists'[lane] = Tail(lists[lane])
  BY <1>1 DEF QueueTypes
<1>5. /\ DOMAIN lists[lane] = 1 .. Len(lists[lane])
      /\ DOMAIN lists'[lane] = 1 .. Len(lists[lane]) - 1
      /\ \A k \in DOMAIN lists'[lane] : lists'[lane][k] = lists[lane][k + 1]
  BY <1>1, <1>4, TailCells
<1>6. ASSUME NEW u, Lists(u) # {}, u # task PROVE Lists(u)' # {}
  <2>1. PICK l \in Queue!Lanes : \E k \in DOMAIN lists[l] : lists[l][k] = u
    BY <1>6 DEF Lists
  <2>2. PICK k \in DOMAIN lists[l] : lists[l][k] = u
    BY <2>1
  <2>3. CASE l = lane
    <3>1. k # 1
      BY <1>1, <1>6, <2>2, <2>3
    <3>2. k - 1 \in DOMAIN lists'[lane] /\ lists'[lane][k - 1] = u
      BY <1>1, <1>5, <2>2, <2>3, <3>1
    <3> QED BY <1>1, <3>2 DEF Lists
  <2>4. CASE l # lane
    BY <2>2, <2>4, <1>3 DEF Lists
  <2> QED BY <2>3, <2>4
<1>7. ListsInOrder'
  <2> SUFFICES ASSUME NEW l \in Queue!Lanes
               PROVE /\ \A k \in DOMAIN lists'[l] :
                          /\ Queue!Lane(lists'[l][k]) = l
                          /\ \E i \in DOMAIN sent : sent[i] = lists'[l][k]
                     /\ \A j, k \in DOMAIN lists'[l] :
                          j < k => SentBefore(lists'[l][j], lists'[l][k])
    BY DEF ListsInOrder, SentBefore, Queue!Lane
  <2>1. CASE l = lane
    <3>1. \A k \in DOMAIN lists'[l] :
             k \in Int /\ k + 1 \in DOMAIN lists[l]
             /\ lists'[l][k] = lists[l][k + 1]
      BY <1>1, <1>5, <2>1
    <3> QED BY <3>1 DEF ListsInOrder
  <2>2. CASE l # lane
    BY <2>2, <1>3 DEF ListsInOrder
  <2> QED BY <2>1, <2>2
<1>8. ASSUME NEW q \in Processes
      PROVE  present'[q] = present[q] \ {task} /\ (scan'[q] = scan[q] \/ scan'[q] = 0)
  BY DEF Queue!Gone, QueueTypes
<1>9. PresentIsAhead'
  <2> SUFFICES ASSUME NEW q \in Processes, NEW u \in present'[q]
               PROVE  Lists(u)' # {} /\ scan'[q] <= Queue!Lane(u)
    BY DEF PresentIsAhead, Queue!Lane
  <2>1. u \in present[q] /\ u # task
    BY <1>8
  <2> QED BY <2>1, <1>6, <1>8 DEF PresentIsAhead, Queue!Lane
<1>10. ASSUME NEW u \in present[p], u # task PROVE Queue!Before(task, u)
  <2>1. u \in Tasks /\ Lists(u) # {} /\ lane <= Queue!Lane(u)
    BY DEF PresentIsAhead, QueueTypes
  <2>2. Queue!Lane(task) = lane
    BY <1>1 DEF ListsInOrder
  <2>3. CASE Queue!Lane(u) = lane
    <3>1. PICK l \in Queue!Lanes : \E k \in DOMAIN lists[l] : lists[l][k] = u
      BY <2>1 DEF Lists
    <3>2. l = lane
      BY <3>1, <2>3 DEF ListsInOrder
    <3>3. PICK k \in DOMAIN lists[lane] : lists[lane][k] = u
      BY <3>1, <3>2
    <3>4. 1 < k
      BY <1>1, <1>10, <3>3
    <3>5. SentBefore(task, u)
      BY <1>1, <3>3, <3>4 DEF ListsInOrder
    <3>6. priority[task] = priority[u]
      BY <1>1, <2>1, <2>2, <2>3, LaneIsPriority
    <3> QED BY <3>5, <3>6 DEF Queue!Before, SentBefore
  <2>4. CASE Queue!Lane(u) # lane
    <3>1. lane < Queue!Lane(u)
      BY <1>1, <2>1, <2>4, LaneIsPriority DEF Queue!Lanes
    <3> QED BY <1>1, <2>1, <2>2, <3>1, LaneIsPriority DEF Queue!Before
  <2> QED BY <2>3, <2>4
<1>11. DequeueOrder'
  <2> SUFFICES ASSUME NEW q \in Processes, NEW t \in got'[q], NEW u \in present'[q]
               PROVE  Queue!Before(t, u)
    BY DEF DequeueOrder, Queue!DequeueOrder, Queue!Before
  <2>1. CASE t \in got[q]
    BY <2>1, <1>8 DEF DequeueOrder, Queue!DequeueOrder
  <2>2. CASE t \notin got[q]
    <3>1. q = p /\ t = task
      BY <2>2 DEF QueueTypes
    <3> QED BY <3>1, <1>8, <1>10
  <2> QED BY <2>1, <2>2
<1> QED BY <1>2, <1>7, <1>9, <1>11

LEMMA ClearKeepsQueue ==
  ASSUME QueueInv, Queue!Clear
  PROVE  QueueInv'
<1> USE DEF QueueInv, Queue!Clear
<1>1. QueueTypes'
  BY DEF QueueTypes
<1>2. ListsInOrder'
  BY DEF ListsInOrder
<1>3. PresentIsAhead' /\ DequeueOrder'
  BY DEF PresentIsAhead, DequeueOrder, Queue!DequeueOrder
<1> QED BY <1>1, <1>2, <1>3

LEMMA QueueNext == QueueInv /\ [MCNext]_allVars => QueueInv'
<1> SUFFICES ASSUME QueueInv, [MCNext]_allVars PROVE QueueInv'
  OBVIOUS
<1>1. CASE UNCHANGED queueVars
  BY <1>1 DEF queueVars, QueueInv, QueueTypes, ListsInOrder, SentBefore,
     PresentIsAhead, Lists, DequeueOrder, Queue!DequeueOrder, Queue!Before,
     Queue!Lane
<1>2. CASE Queue!Next
  BY <1>2, EnqueueKeepsQueue, DequeueKeepsQueue, PopKeepsQueue,
     NextLaneKeepsQueue, ClearKeepsQueue DEF Queue!Next
<1> QED BY <1>1, <1>2 DEF MCNext, allVars

(* However many processes share the three lists, a dequeue returns no task *)
(* before a more urgent or an older one that was there all the time        *)
(* (RedisTaskQueue.enqueue, dequeue, clear).                               *)
THEOREM QueueKeepsItsOrder == MCSpec => []DequeueOrder
<1>1. QueueInv => DequeueOrder
  BY DEF QueueInv
<1> QED BY QueueInit, QueueNext, <1>1, PTL DEF MCSpec
=============================================================================

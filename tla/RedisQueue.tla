------------------------------ MODULE RedisQueue ------------------------------
(***************************************************************************)
(* RedisTaskQueue (dispatcher/queue.py) between processes: three lists, one *)
(* for the negative priorities, one for zero and one for the positive.     *)
(* enqueue and every pop of dequeue are one command each; a dequeue looks  *)
(* at the lists in turn, and others enqueue and dequeue meanwhile.  A      *)
(* process that dies has lost what it has popped.                          *)
(***************************************************************************)
EXTENDS Integers, Sequences, SequencesExt

CONSTANTS
  Tasks,     \* each is enqueued at most once
  Processes

VARIABLES
  priority,  \* [Tasks -> Int]
  lists,     \* [Lanes -> Seq(Tasks)], the oldest first
  sent,      \* the tasks that were enqueued, in order
  scan,      \* [Processes -> the lane its dequeue looks at next, 0 if none]
  present,   \* [Processes -> the tasks in the lists ever since its dequeue
             \*  began] (history variable)
  got,       \* [Processes -> what its last dequeue returned, {} or a task]
  taken,     \* tasks that were dequeued and returned
  lost       \* tasks that died with their process

vars == <<priority, lists, sent, scan, present, got, taken, lost>>

Lanes == 1 .. 3

Lane(t) == IF priority[t] < 0 THEN 1 ELSE IF priority[t] > 0 THEN 3 ELSE 2

Queued == UNION {ToSet(lists[l]) : l \in Lanes}

Init ==
  /\ priority \in [Tasks -> -1 .. 1]
  /\ lists = [l \in Lanes |-> <<>>]
  /\ sent = <<>> /\ taken = {} /\ lost = {}
  /\ scan = [p \in Processes |-> 0]
  /\ present = [p \in Processes |-> {}]
  /\ got = [p \in Processes |-> {}]

Enqueue(t) ==
  /\ t \notin ToSet(sent)
  /\ lists' = [lists EXCEPT ![Lane(t)] = Append(@, t)]
  /\ sent' = Append(sent, t)
  /\ UNCHANGED <<priority, scan, present, got, taken, lost>>

Dequeue(p) ==
  /\ scan[p] = 0
  /\ scan' = [scan EXCEPT ![p] = 1]
  /\ present' = [present EXCEPT ![p] = Queued]
  /\ got' = [got EXCEPT ![p] = {}]
  /\ UNCHANGED <<priority, lists, sent, taken, lost>>

Gone(t) == [q \in Processes |-> present[q] \ {t}]

Pop_Newest(p) ==  \* mutant: lpop where rpop takes the oldest
  /\ scan[p] \in Lanes /\ lists[scan[p]] # <<>>
  /\ LET t == Last(lists[scan[p]])
     IN /\ lists' = [lists EXCEPT ![scan[p]] = Front(@)]
        /\ present' = Gone(t)
        /\ got' = [got EXCEPT ![p] = {t}] /\ taken' = taken \cup {t}
  /\ scan' = [scan EXCEPT ![p] = 0]
  /\ UNCHANGED <<priority, sent, lost>>

(* rpop takes the oldest of the list.                                      *)
Pop(p) ==
  /\ scan[p] \in Lanes /\ lists[scan[p]] # <<>>
  /\ LET t == Head(lists[scan[p]])
     IN /\ lists' = [lists EXCEPT ![scan[p]] = Tail(@)]
        /\ present' = Gone(t)
        /\ \/ got' = [got EXCEPT ![p] = {t}] /\ taken' = taken \cup {t}
              /\ UNCHANGED lost
           \/ lost' = lost \cup {t} /\ UNCHANGED <<got, taken>>
  /\ scan' = [scan EXCEPT ![p] = 0]
  /\ UNCHANGED <<priority, sent>>

(* The list is empty: on to the next, or back with nothing.                *)
NextLane(p) ==
  /\ scan[p] \in Lanes /\ lists[scan[p]] = <<>>
  /\ scan' = [scan EXCEPT ![p] = (@ + 1) % 4]
  /\ UNCHANGED <<priority, lists, sent, present, got, taken, lost>>

(* clear deletes the lists one after another; here at once.                *)
Clear ==
  /\ Queued # {}
  /\ lists' = [l \in Lanes |-> <<>>]
  /\ present' = [p \in Processes |-> {}]
  /\ lost' = lost \cup Queued
  /\ UNCHANGED <<priority, sent, scan, got, taken>>

Next ==
  \/ \E t \in Tasks : Enqueue(t)
  \/ \E p \in Processes : Dequeue(p) \/ Pop(p) \/ NextLane(p)
  \/ Clear

Spec == Init /\ [][Next]_vars

-----------------------------------------------------------------------------
(* Property.                                                               *)

Before(t, u) ==
  \/ priority[t] < priority[u]
  \/ /\ priority[t] = priority[u]
     /\ \E i, j \in DOMAIN sent : i < j /\ sent[i] = t /\ sent[j] = u

(* However many processes share the lists, a dequeue never returns a task  *)
(* while a more urgent one, or an older one as urgent, was there to take   *)
(* from the beginning of the call to its end (enqueue, dequeue).           *)
DequeueOrder ==
  \A p \in Processes : \A t \in got[p], u \in present[p] : Before(t, u)
=============================================================================

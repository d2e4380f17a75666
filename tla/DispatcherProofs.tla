-------------------------- MODULE DispatcherProofs --------------------------
(***************************************************************************)
(* Theorems about Dispatcher, for every set of tasks, slicing, set of      *)
(* workers, number of handler threads and kind of fault.  The chapters,    *)
(* each with its own invariant on top of the earlier ones:                 *)
(*                                                                         *)
(*   1. TypeInv: types, and loops that stay within their data              *)
(*   2. ResultInv: worker status, progress and results                     *)
(*   3. LossInv, CrashInv: no slice is lost, or only by a crash            *)
(*   4. OnceInv: a slice is in one place, once                             *)
(*   5. PeaceInv: the life of a task, and the refinement of TaskLifecycle  *)
(***************************************************************************)
EXTENDS DispatcherProperties, FiniteSetTheorems, SequenceTheorems, TLAPS

-----------------------------------------------------------------------------
(* Chapter 1.  Types.                                                      *)

(* Items and calls.                                                        *)

LEMMA SliceIsItem ==
  ASSUME NEW t \in Tasks, NEW k \in DOMAIN SliceList[t]
  PROVE  /\ <<t, SliceList[t][k]>> \in SlicesOf(t)
         /\ <<t, SliceList[t][k]>> \in Items
BY DEF SlicesOf, Items

LEMMA WholeIsItem == \A t \in Tasks : Whole(t) \in Items
BY DEF Items

LEMMA TaskOfItem == \A item \in Items : TaskOf(item) \in Tasks
BY DEF Items, SlicesOf, Whole, TaskOf

(* A finite number of tasks has a finite number of items.                  *)
LEMMA ItemsFinite == IsFiniteSet(Items)
<1>1. ASSUME NEW t \in Tasks
      PROVE  IsFiniteSet(SlicesOf(t) \cup {Whole(t)})
  <2> DEFINE slice == [k \in DOMAIN SliceList[t] |-> <<t, SliceList[t][k]>>]
  <2>1. IsFiniteSet(DOMAIN SliceList[t])
    <3>1. SliceList[t] \in Seq(Nat)
      BY SlicingAssumption
    <3>2. DOMAIN SliceList[t] = 1 .. Len(SliceList[t]) /\ Len(SliceList[t]) \in Nat
      BY <3>1
    <3> QED BY <3>2, FS_Interval
  <2>2. slice \in Surjection(DOMAIN SliceList[t], SlicesOf(t))
    BY DEF Surjection, SlicesOf
  <2>3. IsFiniteSet(SlicesOf(t))
    BY <2>1, <2>2, FS_Surjection
  <2> QED BY <2>3, FS_AddElement
<1> DEFINE itemsOf == [t \in Tasks |-> SlicesOf(t) \cup {Whole(t)}]
           Family == {SlicesOf(t) \cup {Whole(t)} : t \in Tasks}
<1>2. itemsOf \in Surjection(Tasks, Family)
  BY DEF Surjection
<1>3. IsFiniteSet(Family)
  BY <1>2, SetsAssumption, FS_Surjection
<1> QED BY <1>1, <1>3, FS_UNION DEF Items

(* The fields a call has, by its operation.                                *)
LEMMA CallFields ==
  ASSUME NEW c \in Call
  PROVE  /\ c.op = "publish" => c.task \in Tasks
         /\ c.op = "enqueue" => c.task \in Tasks /\ c.next \in Nat \ {0}
         /\ c.op \in {"cancel", "record"} => c.task \in Tasks /\ c.gen \in Nat
         /\ c.op \in {"dequeue", "requeue"} =>
              c.worker \in Workers /\ c.skipped \in Seq(Items)
         /\ c.op \in {"prefetch", "commit", "activate", "reply"} =>
              c.worker \in Workers /\ c.item \in Items
         /\ c.op \in ReportOps =>
              /\ c.worker \in Workers /\ c.item \in Items
              /\ c.retryable \in BOOLEAN
BY DEF Call, Idle, ReportOps

LEMMA CallConstructors ==
  /\ Idle \in Call
  /\ \A t \in Tasks :
       /\ [op |-> "publish", task |-> t] \in Call
       /\ \A n \in Nat \ {0} : [op |-> "enqueue", task |-> t, next |-> n] \in Call
       /\ \A n \in Nat : /\ [op |-> "cancel", task |-> t, gen |-> n] \in Call
                         /\ [op |-> "record", task |-> t, gen |-> n] \in Call
  /\ \A w \in Workers :
       /\ \A s \in Seq(Items) :
            /\ [op |-> "dequeue", worker |-> w, skipped |-> s] \in Call
            /\ [op |-> "requeue", worker |-> w, skipped |-> s] \in Call
       /\ \A item \in Items :
            /\ [op |-> "prefetch", worker |-> w, item |-> item] \in Call
            /\ [op |-> "commit", worker |-> w, item |-> item] \in Call
            /\ [op |-> "activate", worker |-> w, item |-> item] \in Call
            /\ [op |-> "reply", worker |-> w, item |-> item] \in Call
            /\ \A op \in ReportOps, r \in BOOLEAN :
                 [op |-> op, worker |-> w, item |-> item, retryable |-> r] \in Call
BY DEF Call

-----------------------------------------------------------------------------
(* The queue and the registry.                                             *)

LEMMA EnqueueTyped ==
  ASSUME Queue!TypeOK, NEW item \in Items, Queue!Enqueue(item)
  PROVE  Queue!TypeOK'
<1>1. Priority[TaskOf(item)] \in Priorities
  BY TaskOfItem, SetsAssumption
<1> QED BY <1>1 DEF Queue!TypeOK, Queue!Enqueue

LEMMA DequeueTyped ==
  ASSUME Queue!TypeOK, NEW item, Queue!Dequeue(item)
  PROVE  Queue!TypeOK' /\ item \in Items
<1>1. PICK p \in Priorities :
        /\ queue[p] # <<>>
        /\ item = Head(queue[p])
        /\ queue' = [queue EXCEPT ![p] = Tail(@)]
  BY DEF Queue!Dequeue
<1>2. queue[p] \in Seq(Items)
  BY DEF Queue!TypeOK
<1>3. Head(queue[p]) \in Items /\ Tail(queue[p]) \in Seq(Items)
  BY <1>1, <1>2
<1> QED BY <1>1, <1>3 DEF Queue!TypeOK

LEMMA RegistryTyped ==
  ASSUME Registry!TypeOK, NEW w \in Workers
  PROVE  /\ Registry!Register(w) => Registry!TypeOK'
         /\ Registry!Unregister(w) => Registry!TypeOK'
         /\ Registry!IncrementActive(w) => Registry!TypeOK'
         /\ Registry!DecrementActive(w) => Registry!TypeOK'
         /\ Registry!FallSilent(w) => Registry!TypeOK'
         /\ \A n \in Nat, s \in {"online", "draining"} :
              Registry!UpdateHeartbeat(w, n, s) => Registry!TypeOK'
         /\ Registry!CheckTimeouts => Registry!TypeOK'
<1> USE DEF Registry!TypeOK, Registry!Status
<1>1. Registry!Register(w) => Registry!TypeOK'
  BY DEF Registry!Register
<1>2. Registry!Unregister(w) => Registry!TypeOK'
  BY DEF Registry!Unregister
<1>3. Registry!IncrementActive(w) => Registry!TypeOK'
  BY DEF Registry!IncrementActive
<1>4. Registry!DecrementActive(w) => Registry!TypeOK'
  BY DEF Registry!DecrementActive
<1>5. Registry!FallSilent(w) => Registry!TypeOK'
  BY DEF Registry!FallSilent
<1>6. ASSUME NEW n \in Nat, NEW s \in {"online", "draining"},
             Registry!UpdateHeartbeat(w, n, s)
      PROVE  Registry!TypeOK'
  BY <1>6 DEF Registry!UpdateHeartbeat, Registry!StatusAfterHeartbeat
<1>7. Registry!CheckTimeouts => Registry!TypeOK'
  BY DEF Registry!CheckTimeouts
<1> QED BY <1>1, <1>2, <1>3, <1>4, <1>5, <1>6, <1>7

-----------------------------------------------------------------------------
(* Type correctness.  TypeOK alone is not inductive: the loop of submit    *)
(* must not run past the slices it enqueues, nor the loop of assign_task   *)
(* past the items it puts back.                                            *)

LoopInRange(c) ==
  /\ c.op = "enqueue" => c.next \in DOMAIN SliceList[c.task]
  /\ c.op = "requeue" => c.skipped # <<>>

LoopsInRange == \A th \in Threads : LoopInRange(thread[th])

TypeInv == TypeOK /\ LoopsInRange

LEMMA SliceLists ==
  \A t \in Tasks : /\ SliceList[t] \in Seq(Nat)
                    /\ Len(SliceList[t]) \in Nat
                    /\ DOMAIN SliceList[t] = 1 .. Len(SliceList[t])
BY SlicingAssumption

(* Most handler steps move one thread and leave the rest of it alone.      *)
LEMMA GotoInRange ==
  ASSUME TypeInv, NEW th \in Threads, NEW c \in Call, Goto(th, c),
         LoopInRange(c)
  PROVE  thread' \in [Threads -> Call] /\ LoopsInRange'
<1>1. thread' = [thread EXCEPT ![th] = c] /\ thread \in [Threads -> Call]
  BY DEF TypeInv, TypeOK, Goto
<1> QED BY <1>1 DEF TypeInv, LoopsInRange, LoopInRange

LEMMA TailNonEmpty ==
  ASSUME NEW S, NEW s \in Seq(S), s # <<>>, Len(s) # 1
  PROVE  Tail(s) \in Seq(S) /\ Tail(s) # <<>>
<1>1. /\ Len(s) \in Nat \ {0}
      /\ Tail(s) \in Seq(S)
      /\ Len(Tail(s)) = Len(s) - 1
  BY HeadTailProperties, EmptySeq
<1>2. Len(Tail(s)) # 0
  BY <1>1
<1>3. Len(<<>>) = 0
  OBVIOUS
<1> QED BY <1>1, <1>2, <1>3

LEMMA RecordTyped ==
  ASSUME TypeOK, NEW t \in Tasks, NEW s \in States, Record(t, s)
  PROVE  /\ history' \in Seq([task : Tasks, state : States])
         /\ Len(history') <= HistoryMax
<1> DEFINE Records == [task : Tasks, state : States]
           longer == Append(history, [task |-> t, state |-> s])
<1>1. /\ history \in Seq(Records)
      /\ Len(history) \in Nat /\ Len(history) <= HistoryMax
      /\ [task |-> t, state |-> s] \in Records
  BY DEF TypeOK
<1>2. /\ longer \in Seq(Records)
      /\ longer # <<>>
      /\ Len(longer) = Len(history) + 1
  <2> HIDE DEF Records
  <2> QED BY <1>1
<1>3. history' = IF Len(longer) > HistoryMax THEN Tail(longer) ELSE longer
  BY DEF Record
<1> HIDE DEF longer, Records
<1>4. /\ Tail(longer) \in Seq(Records)
      /\ Len(Tail(longer)) = Len(longer) - 1
  BY <1>2
<1>5. history' \in Seq(Records) /\ Len(history') <= HistoryMax
  BY <1>1, <1>2, <1>3, <1>4, SetsAssumption
<1> QED BY <1>5 DEF Records

LEMMA TypeInit == Init => TypeInv
<1> SUFFICES ASSUME Init PROVE TypeInv
  OBVIOUS
<1>1. Queue!TypeOK
  BY DEF Init, Queue!Init, Queue!TypeOK
<1>2. Registry!TypeOK
  BY DEF Init, Registry!Init, Registry!TypeOK, Registry!Status
<1>3. thread \in [Threads -> Call] /\ LoopsInRange
  BY CallConstructors DEF Init, LoopsInRange, LoopInRange, Idle
<1> QED BY <1>1, <1>2, <1>3, SetsAssumption
        DEF Init, TypeInv, TypeOK, States, Phases, MaxRetries

LEMMA ClientCallTyped ==
  ASSUME TypeInv, NEW th \in Threads, ClientCall(th)
  PROVE  TypeInv'
<1> USE DEF TypeInv
<1>1. ASSUME NEW t \in Tasks, Submit(th, t) PROVE TypeInv'
  <2>1. thread' \in [Threads -> Call] /\ LoopsInRange'
    BY <1>1, CallConstructors, GotoInRange DEF Submit, LoopInRange
  <2>2. events' \in Nat /\ happened' \subseteq Events \cup {"forget"}
    BY <1>1 DEF Submit, TypeOK, Occurs, eventVars
  <2> QED BY <1>1, <2>1, <2>2
    DEF Submit, TypeOK, FreshTaskState, FreshInfo, States, MaxRetries,
        Queue!TypeOK, Registry!TypeOK, regVars, checkVars
<1>2. ASSUME NEW t \in Tasks, Cancel(th, t) PROVE TypeInv'
  <2>1. thread' \in [Threads -> Call] /\ LoopsInRange'
    BY <1>2, CallConstructors, GotoInRange DEF Cancel, TypeOK, LoopInRange
  <2> QED BY <1>2, <2>1
    DEF Cancel, TypeOK, Occurs, Queue!TypeOK, Registry!TypeOK, tables,
        taskVars, partVars, regVars, checkVars
<1> QED BY <1>1, <1>2 DEF ClientCall

LEMMA AdvanceTyped ==
  ASSUME TypeInv, NEW th \in Threads, Advance(th)
  PROVE  TypeInv'
<1> USE DEF TypeInv
<1> DEFINE c == thread[th]
<1> c \in Call
  BY DEF TypeOK
<1>a. thread' \in [Threads -> Call] /\ LoopsInRange'
  <2>1. CASE PublishSlices(th)
    <3>1. c.task \in Tasks
      BY <2>1, CallFields DEF PublishSlices, At
    <3>2. CASE SliceList[c.task] = <<>>
      BY <2>1, <3>2, CallConstructors, GotoInRange DEF PublishSlices, LoopInRange, Idle
    <3>3. CASE SliceList[c.task] # <<>>
      <4>1. Goto(th, [op |-> "enqueue", task |-> c.task, next |-> 1])
        BY <2>1, <3>3 DEF PublishSlices
      <4>2. 1 \in DOMAIN SliceList[c.task]
        BY <3>1, <3>3, SliceLists
      <4>3. [op |-> "enqueue", task |-> c.task, next |-> 1] \in Call
        BY <3>1, CallConstructors, 1 \in Nat \ {0}
      <4> QED BY <4>1, <4>2, <4>3, GotoInRange DEF LoopInRange
    <3> QED BY <3>2, <3>3
  <2>2. CASE EnqueueSlice(th)
    <3>1. c.task \in Tasks /\ c.next \in Nat \ {0}
      BY <2>2, CallFields DEF EnqueueSlice, At
    <3>2. c.next \in 1 .. Len(SliceList[c.task])
      BY <2>2, <3>1, SliceLists DEF EnqueueSlice, At, LoopsInRange, LoopInRange
    <3>3. CASE c.next = Len(SliceList[c.task])
      BY <2>2, <3>3, CallConstructors, GotoInRange DEF EnqueueSlice, LoopInRange, Idle
    <3>4. CASE c.next # Len(SliceList[c.task])
      <4>1. Goto(th, [op |-> "enqueue", task |-> c.task, next |-> c.next + 1])
        BY <2>2, <3>4 DEF EnqueueSlice
      <4>2. c.next + 1 \in DOMAIN SliceList[c.task] /\ c.next + 1 \in Nat \ {0}
        BY <3>1, <3>2, <3>4, SliceLists
      <4> QED BY <3>1, <4>1, <4>2, CallConstructors, GotoInRange DEF LoopInRange
    <3> QED BY <3>3, <3>4
  <2>3. CASE CancelWrite(th) \/ CancelRecord(th)
    BY <2>3, CallFields, CallConstructors, GotoInRange
       DEF CancelWrite, CancelRecord, At, LoopInRange, Idle
  <2>4. CASE DequeueMatch(th) \/ DequeueSkip(th)
    <3>1. c.worker \in Workers /\ c.skipped \in Seq(Items)
      BY <2>4, CallFields DEF DequeueMatch, DequeueSkip, At
    <3>2. \A item \in Items : Append(c.skipped, item) \in Seq(Items)
      BY <3>1
    <3> QED BY <2>4, <3>1, <3>2, CallConstructors, GotoInRange
            DEF DequeueMatch, DequeueSkip, LoopInRange
  <2>5. CASE DequeueEmpty(th) \/ Requeue(th)
    <3>1. c.worker \in Workers /\ c.skipped \in Seq(Items)
      BY <2>5, CallFields DEF DequeueEmpty, Requeue, At
    <3>2. CASE DequeueEmpty(th)
      BY <3>1, <3>2, CallConstructors, GotoInRange
         DEF DequeueEmpty, LoopInRange, Idle
    <3>3. CASE Requeue(th) /\ Len(c.skipped) = 1
      BY <3>3, CallConstructors, GotoInRange DEF Requeue, LoopInRange, Idle
    <3>4. CASE Requeue(th) /\ Len(c.skipped) # 1
      <4>1. c.skipped # <<>>
        BY <3>4 DEF Requeue, At, LoopsInRange, LoopInRange
      <4>2. Tail(c.skipped) \in Seq(Items) /\ Tail(c.skipped) # <<>>
        BY <3>1, <3>4, <4>1, TailNonEmpty
      <4> QED BY <3>1, <3>4, <4>2, CallConstructors, GotoInRange
              DEF Requeue, LoopInRange
    <3> QED BY <2>5, <3>2, <3>3, <3>4
  <2>6. CASE Prefetch(th) \/ CommitAssignment(th) \/ ActivateWorker(th)
             \/ Reply(th)
    BY <2>6, CallFields, CallConstructors, GotoInRange
       DEF Prefetch, CommitAssignment, ActivateWorker, Reply, At, LoopInRange,
           Idle
  <2>7. CASE ReleaseSlot(th)
    <3>1. c.worker \in Workers /\ c.item \in Items /\ c.retryable \in BOOLEAN
      BY <2>7, CallFields DEF ReleaseSlot, ReportOps
    <3> QED BY <2>7, <3>1, CallConstructors, GotoInRange
            DEF ReleaseSlot, ReportOps, LoopInRange
  <2>8. CASE MergeIfComplete(th) \/ RetryOrRecord(th)
    BY <2>8, CallConstructors, GotoInRange
       DEF MergeIfComplete, RetryOrRecord, LoopInRange, Idle
  <2> QED BY <2>1, <2>2, <2>3, <2>4, <2>5, <2>6, <2>7, <2>8 DEF Advance
<1> USE <1>a
<1>1. CASE PublishSlices(th)
  BY <1>1 DEF PublishSlices, TypeOK, Queue!TypeOK, Registry!TypeOK, regVars,
              checkVars, envVars, eventVars, partVars
<1>2. CASE EnqueueSlice(th)
  <2>1. c.task \in Tasks /\ c.next \in DOMAIN SliceList[c.task]
    BY <1>2, CallFields DEF EnqueueSlice, At, LoopsInRange, LoopInRange
  <2>2. Queue!TypeOK'
    BY <1>2, <2>1, SliceIsItem, EnqueueTyped DEF EnqueueSlice, TypeOK
  <2> QED BY <1>2, <2>2
      DEF EnqueueSlice, TypeOK, Registry!TypeOK, tables, taskVars, partVars,
          regVars, checkVars, envVars, eventVars
<1>3. CASE CancelWrite(th)
  BY <1>3, CallFields
     DEF CancelWrite, TypeOK, Queue!TypeOK, Registry!TypeOK, States, partVars,
         regVars, checkVars, envVars, eventVars
<1>4. CASE CancelRecord(th)
  <2>1. c.task \in Tasks
    BY <1>4, CallFields DEF CancelRecord, At
  <2>2. PICK s \in States : Record(c.task, s)
    BY <1>4, <2>1 DEF CancelRecord, States, TypeOK
  <2>3. /\ history' \in Seq([task : Tasks, state : States])
        /\ Len(history') <= HistoryMax
    BY <2>1, <2>2, RecordTyped
  <2> QED BY <1>4, <2>3
      DEF CancelRecord, TypeOK, Queue!TypeOK, Registry!TypeOK, taskVars,
          partVars, regVars, checkVars, envVars, eventVars
<1>5. CASE DequeueMatch(th) \/ DequeueSkip(th)
  <2>1. Queue!TypeOK'
    BY <1>5, DequeueTyped DEF DequeueMatch, DequeueSkip, TypeOK
  <2>2. events' \in Nat /\ happened' \subseteq Events \cup {"forget"}
    BY <1>5 DEF DequeueMatch, DequeueSkip, TypeOK, envVars, eventVars
  <2> QED BY <1>5, <2>1, <2>2
      DEF DequeueMatch, DequeueSkip, TypeOK, Registry!TypeOK, tables, taskVars,
          partVars, regVars, checkVars, envVars, eventVars
<1>6. CASE DequeueEmpty(th)
  BY <1>6 DEF DequeueEmpty, TypeOK, Queue!TypeOK, Registry!TypeOK, tables,
              taskVars, partVars, regVars, checkVars, envVars, eventVars
<1>7. CASE Requeue(th)
  <2>1. c.skipped \in Seq(Items)
    BY <1>7, CallFields DEF Requeue, At
  <2>2. Head(c.skipped) \in Items
    BY <1>7, <2>1 DEF Requeue, At, LoopsInRange, LoopInRange
  <2>3. Queue!TypeOK'
    BY <1>7, <2>2, EnqueueTyped DEF Requeue, TypeOK
  <2> QED BY <1>7, <2>3
      DEF Requeue, TypeOK, Registry!TypeOK, tables, taskVars, partVars,
          regVars, checkVars, envVars, eventVars
<1>8. CASE Prefetch(th)
  BY <1>8 DEF Prefetch, TypeOK, Queue!TypeOK, Registry!TypeOK, Occurs, tables,
              taskVars, partVars, regVars, checkVars, eventVars
<1>9. CASE CommitAssignment(th)
  <2>1. c.worker \in Workers /\ c.item \in Items /\ TaskOf(c.item) \in Tasks
    BY <1>9, CallFields, TaskOfItem DEF CommitAssignment, At
  <2> QED BY <1>9, <2>1
      DEF CommitAssignment, TypeOK, Queue!TypeOK, Registry!TypeOK, States,
          partVars, regVars, checkVars, envVars, eventVars
<1>10. CASE ActivateWorker(th)
  <2>1. Registry!TypeOK'
    BY <1>10, CallFields, RegistryTyped DEF ActivateWorker, At, TypeOK
  <2> QED BY <1>10, <2>1
      DEF ActivateWorker, TypeOK, Queue!TypeOK, tables, taskVars, partVars,
          checkVars, envVars, eventVars
<1>11. CASE Reply(th)
  <2>1. held' \in [Workers \X Items -> Nat]
    <3>1. c.worker \in Workers /\ c.item \in Items
      BY <1>11, CallFields DEF Reply, At
    <3>2. held \in [Workers \X Items -> Nat]
      BY DEF TypeOK
    <3> QED BY <1>11, <3>1, <3>2 DEF Reply
  <2> QED BY <1>11, <2>1
      DEF Reply, TypeOK, Queue!TypeOK, Registry!TypeOK, Occurs, tables,
          taskVars, partVars, regVars, checkVars, eventVars
<1>12. CASE ReleaseSlot(th)
  <2>1. Registry!TypeOK'
    BY <1>12, CallFields, RegistryTyped DEF ReleaseSlot, ReportOps, TypeOK
  <2> QED BY <1>12, <2>1
      DEF ReleaseSlot, TypeOK, Queue!TypeOK, tables, taskVars, partVars,
          checkVars, envVars, eventVars
<1>13. CASE MergeIfComplete(th)
  <2>1. c.worker \in Workers /\ c.item \in Items /\ TaskOf(c.item) \in Tasks
    BY <1>13, CallFields, TaskOfItem DEF MergeIfComplete, At, ReportOps
  <2>2. /\ history' \in Seq([task : Tasks, state : States])
        /\ Len(history') <= HistoryMax
    BY <1>13, <2>1, RecordTyped DEF MergeIfComplete, TypeOK, States
  <2>3. result' \in [Tasks -> SUBSET Items] /\ state' \in [Tasks -> States]
    <3>1. MergeOf(TaskOf(c.item)) \subseteq Items
      BY <2>1 DEF MergeOf, TypeOK
    <3>2. result \in [Tasks -> SUBSET Items] /\ state \in [Tasks -> States]
      BY DEF TypeOK
    <3> QED BY <1>13, <2>1, <3>1, <3>2 DEF MergeIfComplete, States
  <2>4. /\ failing' \subseteq Workers \X Items
        /\ events' \in Nat
        /\ happened' \subseteq Events \cup {"forget"}
    BY <1>13, <2>1 DEF MergeIfComplete, Occurs, TypeOK, eventVars
  <2> QED BY <1>13, <2>2, <2>3, <2>4
      DEF MergeIfComplete, TypeOK, Queue!TypeOK, Registry!TypeOK, partVars,
          regVars, checkVars
<1>14. CASE RetryOrRecord(th)
  <2>1. TaskOf(c.item) \in Tasks
    BY <1>14, CallFields, TaskOfItem DEF RetryOrRecord, At, ReportOps
  <2>2. /\ history' \in Seq([task : Tasks, state : States])
        /\ Len(history') <= HistoryMax
    BY <1>14, <2>1, RecordTyped DEF RetryOrRecord, TypeOK
  <2>3. Queue!TypeOK'
    <3>1. CASE UNCHANGED queue
      BY <3>1 DEF TypeOK, Queue!TypeOK
    <3>2. CASE Queue!Enqueue(Whole(TaskOf(c.item)))
      BY <2>1, <3>2, WholeIsItem, EnqueueTyped DEF TypeOK
    <3> QED BY <1>14, <3>1, <3>2 DEF RetryOrRecord
  <2>4. /\ retries' \in [Tasks -> 0 .. MaxRetries]
        /\ state' \in [Tasks -> States]
    <3>1. /\ retries \in [Tasks -> 0 .. MaxRetries]
          /\ state \in [Tasks -> States]
      BY DEF TypeOK
    <3>2. CASE MayRetry(TaskOf(c.item), c.retryable)
      BY <1>14, <2>1, <3>1, <3>2 DEF RetryOrRecord, MayRetry, MaxRetries, States
    <3>3. CASE ~MayRetry(TaskOf(c.item), c.retryable)
      BY <1>14, <3>1, <3>3 DEF RetryOrRecord
    <3> QED BY <3>2, <3>3
  <2> QED BY <1>14, <2>2, <2>3, <2>4
      DEF RetryOrRecord, TypeOK, Registry!TypeOK, partVars, regVars, checkVars,
          envVars, eventVars
<1> QED BY <1>1, <1>2, <1>3, <1>4, <1>5, <1>6, <1>7, <1>8, <1>9, <1>10, <1>11,
           <1>12, <1>13, <1>14 DEF Advance

LEMMA EventsTyped ==
  ASSUME TypeOK, \/ UNCHANGED eventVars \/ \E event : Occurs(event)
                 \/ \E kinds : OccurAll(kinds)
  PROVE  events' \in Nat /\ happened' \subseteq Events \cup {"forget"}
BY DEF TypeOK, eventVars, Occurs, OccurAll

LEMMA WorkerCallTyped ==
  ASSUME TypeInv, NEW th \in Threads, WorkerCall(th)
  PROVE  TypeInv'
<1> USE DEF TypeInv
<1>1. ASSUME NEW w \in Workers, Poll(th, w) PROVE TypeInv'
  <2>1. thread' \in [Threads -> Call] /\ LoopsInRange'
    BY <1>1, CallConstructors, EmptySeq, GotoInRange DEF Poll, LoopInRange
  <2> QED BY <1>1, <2>1
      DEF Poll, TypeOK, Queue!TypeOK, Registry!TypeOK, tables, taskVars,
          partVars, regVars, checkVars, envVars, eventVars
<1>2. ASSUME NEW w \in Workers, NEW item \in Items, CompleteSlice(th, w, item)
      PROVE  TypeInv'
  <2>1. thread' \in [Threads -> Call] /\ LoopsInRange'
    BY <1>2, CallConstructors, GotoInRange
       DEF CompleteSlice, LoopInRange, ReportOps
  <2>2. held' \in [Workers \X Items -> Nat]
    <3>1. held \in [Workers \X Items -> Nat] /\ held[<<w, item>>] \in Nat \ {0}
      BY <1>2 DEF CompleteSlice, TypeOK
    <3> QED BY <1>2, <3>1 DEF CompleteSlice
  <2>3. /\ partials' \in [Tasks -> SUBSET Items]
        /\ first' \in [Tasks -> Items \cup {None}]
        /\ completed' \in [Tasks -> Nat]
    BY <1>2, TaskOfItem DEF CompleteSlice, Count, TypeOK
  <2> QED BY <1>2, <2>1, <2>2, <2>3
      DEF CompleteSlice, TypeOK, Queue!TypeOK, Registry!TypeOK, regVars,
          checkVars, eventVars
<1>3. ASSUME NEW w \in Workers, NEW item \in Items, NEW r \in BOOLEAN,
             RecordFailure(th, w, item, r),
             held' \in [Workers \X Items -> Nat],
             failing' \subseteq Workers \X Items,
             events' \in Nat, happened' \subseteq Events \cup {"forget"}
      PROVE  TypeInv'
  <2>1. thread' \in [Threads -> Call] /\ LoopsInRange'
    BY <1>3, CallConstructors, GotoInRange
       DEF RecordFailure, LoopInRange, ReportOps
  <2>2. state' \in [Tasks -> States]
    BY <1>3, TaskOfItem DEF RecordFailure, TypeOK, States
  <2> QED BY <1>3, <2>1, <2>2
      DEF RecordFailure, TypeOK, Queue!TypeOK, Registry!TypeOK, partVars,
          regVars, checkVars
<1>4. ASSUME NEW w \in Workers, NEW item \in Items, FailSlice(th, w, item)
      PROVE  TypeInv'
  <2>1. held' \in [Workers \X Items -> Nat]
    <3>1. held \in [Workers \X Items -> Nat] /\ held[<<w, item>>] \in Nat \ {0}
      BY <1>4 DEF FailSlice, TypeOK
    <3> QED BY <1>4, <3>1 DEF FailSlice
  <2>2. failing' \subseteq Workers \X Items
    BY <1>4 DEF FailSlice, TypeOK
  <2>3. events' \in Nat /\ happened' \subseteq Events \cup {"forget"}
    BY <1>4, EventsTyped DEF FailSlice
  <2> QED BY <1>4, <1>3, <2>1, <2>2, <2>3 DEF FailSlice
<1>5. ASSUME NEW w \in Workers, NEW item \in Items,
             FailAfterComplete(th, w, item)
      PROVE  TypeInv'
  <2>1. /\ held' \in [Workers \X Items -> Nat]
        /\ failing' \subseteq Workers \X Items
        /\ events' \in Nat
        /\ happened' \subseteq Events \cup {"forget"}
    BY <1>5 DEF FailAfterComplete, TypeOK, eventVars
  <2> QED BY <1>5, <1>3, <2>1 DEF FailAfterComplete
<1> QED BY <1>1, <1>2, <1>4, <1>5 DEF WorkerCall

LEMMA DropExecutionsTyped ==
  ASSUME TypeOK, NEW w \in Workers, DropExecutions(w)
  PROVE  /\ held' \in [Workers \X Items -> Nat]
         /\ failing' \subseteq Workers \X Items
BY DEF DropExecutions, TypeOK

LEMMA WorkerStepTyped ==
  ASSUME TypeInv, NEW w \in Workers, WorkerStep(w)
  PROVE  TypeInv'
<1> USE DEF TypeInv
<1>1. thread' = thread /\ LoopsInRange'
  BY DEF WorkerStep, RegisterWorker, Heartbeat, Drain, LeaveLoop, CloseHttp,
         Crash, FallSilent, LoopsInRange
<1>2. Registry!TypeOK'
  <2>1. Registry!TypeOK
    BY DEF TypeOK
  <2>2. CASE UNCHANGED regVars
    BY <2>1, <2>2 DEF Registry!TypeOK, regVars
  <2>3. CASE Heartbeat(w)
    BY <2>1, <2>3, SetsAssumption, RegistryTyped DEF Heartbeat
  <2> QED BY <2>1, <2>2, <2>3, RegistryTyped
          DEF WorkerStep, RegisterWorker, Drain, LeaveLoop, CloseHttp, Crash,
              FallSilent
<1>3. phase' \in [Workers -> Phases]
  <2>1. phase \in [Workers -> Phases]
    BY DEF TypeOK
  <2> QED BY <2>1
      DEF WorkerStep, RegisterWorker, Heartbeat, Drain, LeaveLoop, CloseHttp,
          Crash, FallSilent, Phases, envVars
<1>6. events' \in Nat /\ happened' \subseteq Events \cup {"forget"}
  <2>1. \/ UNCHANGED eventVars \/ \E event : Occurs(event)
        \/ \E kinds : OccurAll(kinds)
    BY DEF WorkerStep, RegisterWorker, Heartbeat, Drain, LeaveLoop, CloseHttp,
           Crash, FallSilent, envVars
  <2> QED BY <2>1, EventsTyped
<1>4. /\ held' \in [Workers \X Items -> Nat]
      /\ failing' \subseteq Workers \X Items
  <2>1. CASE DropExecutions(w)
    BY <2>1, DropExecutionsTyped
  <2>2. CASE UNCHANGED <<held, failing>>
    BY <2>2 DEF TypeOK
  <2> QED BY <2>1, <2>2
      DEF WorkerStep, RegisterWorker, Heartbeat, Drain, LeaveLoop, CloseHttp,
          Crash, FallSilent, envVars
<1>5. UNCHANGED <<tables, queue, checkVars>>
  BY DEF WorkerStep, RegisterWorker, Heartbeat, Drain, LeaveLoop, CloseHttp,
         Crash, FallSilent
<1> QED BY <1>1, <1>2, <1>3, <1>4, <1>5, <1>6
    DEF TypeOK, Queue!TypeOK, tables, taskVars, partVars, checkVars

LEMMA CheckLoopTyped ==
  ASSUME TypeInv, CheckLoop
  PROVE  TypeInv'
<1> USE DEF TypeInv
<1>1. CASE CheckTimeouts
  <2>1. Registry!TypeOK'
    BY <1>1 DEF CheckTimeouts, TypeOK, Registry!CheckTimeouts,
                Registry!TypeOK, Registry!Status
  <2>2. timedOut' \subseteq Workers /\ timeouts' \in Nat
    BY <1>1 DEF CheckTimeouts, TypeOK, Registry!TimedOut
  <2> QED BY <1>1, <2>1, <2>2
      DEF CheckTimeouts, TypeOK, LoopsInRange, Queue!TypeOK, tables, taskVars,
          partVars, envVars, eventVars
<1>2. ASSUME NEW w \in Workers, BeginReassign(w) PROVE TypeInv'
  BY <1>2 DEF BeginReassign, TypeOK, LoopsInRange, Queue!TypeOK,
              Registry!TypeOK, tables, taskVars, partVars, regVars, envVars,
              eventVars
<1>3. ASSUME NEW item \in Items, ReassignItem(item) PROVE TypeInv'
  <2>1. Queue!TypeOK'
    <3>1. CASE Queue!Enqueue(item)
      BY <3>1, EnqueueTyped DEF TypeOK
    <3>2. CASE UNCHANGED queue
      BY <3>2 DEF TypeOK, Queue!TypeOK
    <3> QED BY <1>3, <3>1, <3>2 DEF ReassignItem
  <2>2. assigned' \in [Items -> Workers \cup {None}]
    BY <1>3 DEF ReassignItem, TypeOK
  <2> QED BY <1>3, <2>1, <2>2
      DEF ReassignItem, TypeOK, LoopsInRange, Registry!TypeOK, taskVars,
          partVars, regVars, checkVars, envVars, eventVars
<1>4. CASE EndReassign
  BY <1>4 DEF EndReassign, TypeOK, LoopsInRange, Queue!TypeOK,
              Registry!TypeOK, tables, taskVars, partVars, regVars, envVars,
              eventVars
<1> QED BY <1>1, <1>2, <1>3, <1>4 DEF CheckLoop

LEMMA TypeNext == TypeInv /\ [Next]_vars => TypeInv'
<1> SUFFICES ASSUME TypeInv, [Next]_vars PROVE TypeInv'
  OBVIOUS
<1>1. CASE Next
  BY <1>1, AdvanceTyped, ClientCallTyped, WorkerCallTyped, WorkerStepTyped,
     CheckLoopTyped DEF Next
<1>2. CASE UNCHANGED vars
  BY <1>2 DEF vars, TypeInv, TypeOK, LoopsInRange, Queue!TypeOK,
     Registry!TypeOK, tables, taskVars, partVars, regVars, checkVars, envVars,
     eventVars
<1> QED BY <1>1, <1>2

(* Every variable keeps its type, and no handler loop runs past its data,  *)
(* for any number of tasks, slices, workers, threads and faults.           *)
THEOREM TypeCorrect == Spec => []TypeOK
<1>1. Spec => []TypeInv
  BY TypeInit, TypeNext, PTL DEF Spec
<1>2. TypeInv => TypeOK
  BY DEF TypeInv
<1> QED BY <1>1, <1>2, PTL

-----------------------------------------------------------------------------
(* Chapter 2.  What on_complete, on_fail, cancel and the check loop        *)
(* together promise about results, progress and worker status, whatever    *)
(* faults happen.                                                          *)

USE DEF TypeInv

-----------------------------------------------------------------------------
(* Worker status.                                                          *)

LEMMA RegistryStep ==
  ASSUME TypeInv, [Next]_vars
  PROVE  \/ UNCHANGED regVars
         \/ Registry!CheckTimeouts
         \/ \E w \in Workers :
              \/ Registry!Register(w) \/ Registry!Unregister(w)
              \/ Registry!IncrementActive(w) \/ Registry!DecrementActive(w)
              \/ Registry!FallSilent(w)
              \/ \E n \in Nat, s \in {"online", "draining"} :
                   Registry!UpdateHeartbeat(w, n, s)
<1>1. CASE UNCHANGED vars
  BY <1>1 DEF vars, regVars
<1>2. ASSUME NEW th \in Threads, Advance(th)
      PROVE  \/ UNCHANGED regVars
             \/ \E w \in Workers : \/ Registry!IncrementActive(w)
                                   \/ Registry!DecrementActive(w)
  <2>1. CASE ActivateWorker(th) \/ ReleaseSlot(th)
    <3>1. thread[th].worker \in Workers
      BY <2>1, CallFields DEF TypeOK, ActivateWorker, ReleaseSlot, At, ReportOps
    <3> QED BY <2>1, <3>1 DEF ActivateWorker, ReleaseSlot
  <2> QED BY <1>2, <2>1
      DEF Advance, PublishSlices, EnqueueSlice, CancelWrite, CancelRecord,
          DequeueMatch, DequeueSkip, DequeueEmpty, Requeue, Prefetch,
          CommitAssignment, Reply, MergeIfComplete, RetryOrRecord
<1>3. ASSUME NEW th \in Threads, ClientCall(th) \/ WorkerCall(th)
      PROVE  UNCHANGED regVars
  BY <1>3 DEF ClientCall, WorkerCall, Submit, Cancel, Poll, CompleteSlice,
              FailSlice, FailAfterComplete, RecordFailure
<1>4. ASSUME NEW w \in Workers, WorkerStep(w)
      PROVE  \/ UNCHANGED regVars
             \/ Registry!Register(w) \/ Registry!Unregister(w)
             \/ Registry!FallSilent(w)
             \/ \E n \in Nat, s \in {"online", "draining"} :
                  Registry!UpdateHeartbeat(w, n, s)
  <2>1. CASE Heartbeat(w)
    BY <2>1, SetsAssumption DEF Heartbeat
  <2> QED BY <1>4, <2>1
          DEF WorkerStep, RegisterWorker, Drain, LeaveLoop, CloseHttp, Crash,
              FallSilent
<1>5. CASE CheckLoop
  BY <1>5 DEF CheckLoop, CheckTimeouts, BeginReassign, ReassignItem, EndReassign
<1> QED BY <1>1, <1>2, <1>3, <1>4, <1>5 DEF Next

LEMMA BusyNext ==
  ASSUME TypeInv, BusyMeansFull, [Next]_vars
  PROVE  BusyMeansFull'
<1> USE SetsAssumption DEF BusyMeansFull, Registry!BusyMeansFull
<1>0. Registry!TypeOK
  BY DEF TypeOK
<1>1. CASE UNCHANGED regVars
  BY <1>1 DEF regVars
<1>2. CASE Registry!CheckTimeouts
  BY <1>0, <1>2 DEF Registry!CheckTimeouts, Registry!TypeOK
<1>3. ASSUME NEW w \in Workers, Registry!Register(w) PROVE BusyMeansFull'
  BY <1>0, <1>3 DEF Registry!Register, Registry!TypeOK
<1>4. ASSUME NEW w \in Workers, Registry!Unregister(w) PROVE BusyMeansFull'
  BY <1>0, <1>4 DEF Registry!Unregister, Registry!TypeOK
<1>5. ASSUME NEW w \in Workers, Registry!IncrementActive(w)
      PROVE  BusyMeansFull'
  BY <1>0, <1>5 DEF Registry!IncrementActive, Registry!TypeOK
<1>6. ASSUME NEW w \in Workers, Registry!DecrementActive(w)
      PROVE  BusyMeansFull'
  BY <1>0, <1>6 DEF Registry!DecrementActive, Registry!TypeOK
<1>7. ASSUME NEW w \in Workers, Registry!FallSilent(w) PROVE BusyMeansFull'
  BY <1>7 DEF Registry!FallSilent
<1>8. ASSUME NEW w \in Workers, NEW n \in Nat, NEW s \in {"online", "draining"},
             Registry!UpdateHeartbeat(w, n, s)
      PROVE  BusyMeansFull'
  BY <1>0, <1>8 DEF Registry!UpdateHeartbeat, Registry!StatusAfterHeartbeat,
                    Registry!TypeOK
<1> QED BY <1>1, <1>2, <1>3, <1>4, <1>5, <1>6, <1>7, <1>8, RegistryStep

(* "busy" and "online" tell a full worker from one with a free slot, for   *)
(* any order of assignments, completions, heartbeats and timeouts.         *)
THEOREM StatusMatchesLoad == Spec => []BusyMeansFull
<1>1. Init => BusyMeansFull
  BY SetsAssumption
     DEF Init, Registry!Init, BusyMeansFull, Registry!BusyMeansFull
<1> QED BY <1>1, BusyNext, TypeInit, TypeNext, PTL DEF Spec

-----------------------------------------------------------------------------
(* The steps that change what a task has collected.                        *)

LEMMA ResultSteps ==
  ASSUME [Next]_vars
  PROVE  \/ \E th \in Threads :
              \/ \E t \in Tasks : Submit(th, t)
              \/ PublishSlices(th)
              \/ \E w \in Workers, item \in Items : CompleteSlice(th, w, item)
              \/ MergeIfComplete(th)
         \/ UNCHANGED <<published, completed, partVars, result>>
<1> DEFINE Same == UNCHANGED <<published, completed, partVars, result>>
<1>1. CASE UNCHANGED vars
  BY <1>1 DEF vars, tables, taskVars
<1>2. ASSUME NEW th \in Threads, Advance(th)
      PROVE  PublishSlices(th) \/ MergeIfComplete(th) \/ Same
  BY <1>2 DEF Advance, EnqueueSlice, CancelWrite, CancelRecord, DequeueMatch,
              DequeueSkip, DequeueEmpty, Requeue, Prefetch, CommitAssignment,
              ActivateWorker, Reply, ReleaseSlot, RetryOrRecord, tables, taskVars
<1>3. ASSUME NEW th \in Threads, ClientCall(th)
      PROVE  (\E t \in Tasks : Submit(th, t)) \/ Same
  BY <1>3 DEF ClientCall, Cancel, tables, taskVars
<1>4. ASSUME NEW th \in Threads, WorkerCall(th)
      PROVE  \/ \E w \in Workers, item \in Items : CompleteSlice(th, w, item)
             \/ Same
  BY <1>4 DEF WorkerCall, Poll, FailSlice, FailAfterComplete, RecordFailure,
              tables, taskVars
<1>5. ASSUME NEW w \in Workers, WorkerStep(w) PROVE Same
  BY <1>5 DEF WorkerStep, RegisterWorker, Heartbeat, Drain, LeaveLoop,
              CloseHttp, Crash, FallSilent, tables, taskVars
<1>6. ASSUME CheckLoop PROVE Same
  BY <1>6 DEF CheckLoop, CheckTimeouts, BeginReassign, ReassignItem,
              EndReassign, tables, taskVars
<1> QED BY <1>1, <1>2, <1>3, <1>4, <1>5, <1>6 DEF Next

LEMMA CountsNext ==
  ASSUME TypeInv, CountsCoverPartials, [Next]_vars
  PROVE  CountsCoverPartials'
<1>0. /\ completed \in [Tasks -> Nat]
      /\ partials \in [Tasks -> SUBSET Items]
      /\ \A t \in Tasks : IsFiniteSet(partials[t])
  BY ItemsFinite, FS_Subset DEF TypeOK
<1>1. ASSUME NEW th \in Threads, NEW t \in Tasks, Submit(th, t)
      PROVE  CountsCoverPartials'
  BY <1>0, <1>1, FS_EmptySet
     DEF CountsCoverPartials, Submit, FreshTaskState, FreshInfo
<1>2. ASSUME NEW th \in Threads, NEW w \in Workers, NEW item \in Items,
             CompleteSlice(th, w, item)
      PROVE  CountsCoverPartials'
  <2> DEFINE t == TaskOf(item)
  <2>1. t \in Tasks
    BY TaskOfItem
  <2>2. /\ partials' = [partials EXCEPT ![t] = @ \cup {item}]
        /\ completed' = [completed EXCEPT ![t] = @ + 1]
    BY <1>2 DEF CompleteSlice, Count
  <2>3. /\ Cardinality(partials[t] \cup {item}) <= Cardinality(partials[t]) + 1
        /\ Cardinality(partials[t]) \in Nat
    <3>1. IsFiniteSet(partials[t])
      BY <1>0, <2>1
    <3>2. Cardinality(partials[t]) \in Nat
      BY <3>1, FS_CardinalityType
    <3>3. Cardinality(partials[t] \cup {item}) =
            IF item \in partials[t] THEN Cardinality(partials[t])
                                    ELSE Cardinality(partials[t]) + 1
      BY <3>1, FS_AddElement
    <3> QED BY <3>2, <3>3
  <2> HIDE DEF t
  <2>4. /\ partials'[t] = partials[t] \cup {item}
        /\ completed'[t] = completed[t] + 1
        /\ \A u \in Tasks \ {t} : /\ partials'[u] = partials[u]
                                  /\ completed'[u] = completed[u]
    BY <1>0, <2>1, <2>2
  <2>5. Cardinality(partials[t]) <= completed[t] /\ completed[t] \in Nat
    BY <1>0, <2>1 DEF CountsCoverPartials
  <2>6. Cardinality(partials'[t]) <= completed'[t]
    <3>1. Cardinality(partials'[t]) = Cardinality(partials[t] \cup {item})
      BY <2>4
    <3>2. Cardinality(partials'[t]) \in Nat
      BY <1>0, <2>1, <3>1, FS_AddElement, FS_CardinalityType
    <3> QED BY <2>3, <2>4, <2>5, <3>1, <3>2
  <2> QED BY <2>4, <2>6 DEF CountsCoverPartials
<1>3. ASSUME UNCHANGED <<completed, partials>> PROVE CountsCoverPartials'
  BY <1>3 DEF CountsCoverPartials
<1> QED BY <1>1, <1>2, <1>3, ResultSteps
        DEF PublishSlices, MergeIfComplete, partVars

(* A task that has stored the partial result of every slice has counted at *)
(* least as many completions, under every interleaving and every fault.    *)
THEOREM CountsCover == Spec => []CountsCoverPartials
<1>1. Init => CountsCoverPartials
  BY FS_EmptySet DEF Init, CountsCoverPartials
<1> QED BY <1>1, CountsNext, TypeInit, TypeNext, PTL DEF Spec

-----------------------------------------------------------------------------
(* Results.  CompletedHasResult and ResultWriteOnce are not inductive: why *)
(* MergeIfComplete finds something to merge, and finds it once, depends on *)
(* where the items of a task can be before and after its slices are set.   *)

NoResubmit == Never({"resubmit"})

(* What a handler in progress knows of the task it works for.              *)
KnownCall(c, st, pub, par) ==
  /\ c.op = "publish" => st[c.task] # "unknown"
  /\ c.op = "enqueue" => pub[c.task]
  /\ c.op \in {"dequeue", "requeue"} =>
       \A k \in DOMAIN c.skipped : pub[TaskOf(c.skipped[k])]
  /\ c.op \in {"prefetch", "commit", "activate", "reply"} \cup ReportOps =>
       pub[TaskOf(c.item)]
  /\ c.op \in {"releaseCompleted", "merge"} => par[TaskOf(c.item)] # {}

CallsKnown ==
  \A th \in Threads : KnownCall(thread[th], state, published, partials)

QueueKnown ==
  \A item \in Items : Queue!Contains(item) => published[TaskOf(item)]

HeldKnown ==
  \A w \in Workers, item \in Items :
    held[<<w, item>>] > 0 \/ <<w, item>> \in failing => published[TaskOf(item)]

TasksKnown ==
  \A t \in Tasks :
    /\ state[t] = "unknown" => ~published[t]
    /\ ~published[t] => partials[t] = {} /\ result[t] = {}
    /\ partials[t] # {} => first[t] \in partials[t]

(* Once merged, a task has at least n_slices completions, and while it has *)
(* just these its partial results are those that were merged.              *)
ResultsFinal ==
  \A t \in Tasks : result[t] # {} =>
    /\ completed[t] >= Len(SliceList[t])
    /\ completed[t] = Len(SliceList[t]) => result[t] = MergeOf(t)

CompletedMerged == \A t \in Tasks : state[t] = "completed" => result[t] # {}

MergeInv == /\ CallsKnown /\ QueueKnown /\ HeldKnown /\ TasksKnown
            /\ ResultsFinal /\ CompletedMerged

ResultInv == NoResubmit => MergeInv

LEMMA HappenedGrows ==
  ASSUME [Next]_vars
  PROVE  happened \subseteq happened'
<1> USE DEF Occurs, OccurAll, eventVars, envVars
<1>1. ASSUME NEW th \in Threads, Advance(th)
      PROVE  happened \subseteq happened'
  BY <1>1 DEF Advance, PublishSlices, EnqueueSlice, CancelWrite, CancelRecord,
              DequeueMatch, DequeueSkip, DequeueEmpty, Requeue, Prefetch,
              CommitAssignment, ActivateWorker, Reply, ReleaseSlot,
              MergeIfComplete, RetryOrRecord
<1>2. ASSUME NEW th \in Threads, ClientCall(th) \/ WorkerCall(th)
      PROVE  happened \subseteq happened'
  BY <1>2 DEF ClientCall, WorkerCall, Submit, Cancel, Poll, CompleteSlice,
              FailSlice, FailAfterComplete
<1>3. ASSUME NEW w \in Workers, WorkerStep(w)
      PROVE  happened \subseteq happened'
  BY <1>3 DEF WorkerStep, RegisterWorker, Heartbeat, Drain, LeaveLoop,
              CloseHttp, Crash, FallSilent
<1>4. ASSUME CheckLoop \/ UNCHANGED vars PROVE happened \subseteq happened'
  BY <1>4 DEF CheckLoop, CheckTimeouts, BeginReassign, ReassignItem,
              EndReassign, vars
<1> QED BY <1>1, <1>2, <1>3, <1>4 DEF Next

(* A first submission finds a task with nothing in it.                     *)
LEMMA FirstSubmit ==
  ASSUME TypeInv, TasksKnown, NEW th \in Threads, NEW t \in Tasks,
         Submit(th, t), NoResubmit'
  PROVE  /\ published' = published
         /\ partials' = partials
         /\ result' = result
         /\ result[t] = {} /\ partials[t] = {}
         /\ state' = [state EXCEPT ![t] = "pending"]
<1>1. state[t] = "unknown"
  BY DEF Submit, Occurs, NoResubmit, Never
<1>2. ~published[t] /\ partials[t] = {} /\ result[t] = {}
  BY <1>1 DEF TasksKnown
<1> QED BY <1>2 DEF Submit, FreshTaskState, FreshInfo, TypeOK

LEMMA StateSteps ==
  ASSUME TypeInv, [Next]_vars, NEW t \in Tasks, state[t] # "unknown"
  PROVE  state'[t] # "unknown"
<1>0. state \in [Tasks -> States]
  BY DEF TypeOK
<1>1. ASSUME NEW th \in Threads, Advance(th) PROVE state'[t] # "unknown"
  BY <1>0, <1>1
     DEF Advance, PublishSlices, EnqueueSlice, CancelWrite, CancelRecord,
         DequeueMatch, DequeueSkip, DequeueEmpty, Requeue, Prefetch,
         CommitAssignment, ActivateWorker, Reply, ReleaseSlot,
         MergeIfComplete, RetryOrRecord, tables, taskVars
<1>2. ASSUME NEW th \in Threads, ClientCall(th) PROVE state'[t] # "unknown"
  BY <1>0, <1>2 DEF ClientCall, Submit, Cancel, FreshTaskState, FreshInfo,
                    tables, taskVars
<1>3. ASSUME NEW th \in Threads, WorkerCall(th) PROVE state'[t] # "unknown"
  BY <1>0, <1>3 DEF WorkerCall, Poll, CompleteSlice, FailSlice,
                    FailAfterComplete, RecordFailure, tables, taskVars
<1>4. ASSUME \/ \E w \in Workers : WorkerStep(w)
             \/ CheckLoop \/ UNCHANGED vars
      PROVE  UNCHANGED state
  BY <1>4 DEF WorkerStep, RegisterWorker, Heartbeat, Drain, LeaveLoop,
              CloseHttp, Crash, FallSilent, CheckLoop, CheckTimeouts,
              BeginReassign, ReassignItem, EndReassign, vars, tables, taskVars
<1> QED BY <1>1, <1>2, <1>3, <1>4 DEF Next

(* Without resubmission, what is known of a task stays known.              *)
Growing ==
  \A t \in Tasks :
    /\ published[t] => published'[t]
    /\ partials[t] # {} => partials'[t] # {}
    /\ state[t] # "unknown" => state'[t] # "unknown"

LEMMA Grows ==
  ASSUME TypeInv, TasksKnown, [Next]_vars, NoResubmit'
  PROVE  Growing
<1>1. ASSUME NEW th \in Threads, NEW t \in Tasks, Submit(th, t)
      PROVE  published' = published /\ partials' = partials
  BY <1>1, FirstSubmit
<1>2. ASSUME NEW th \in Threads, NEW w \in Workers, NEW item \in Items,
             CompleteSlice(th, w, item)
      PROVE  /\ published' = published
             /\ \A t \in Tasks : partials[t] \subseteq partials'[t]
  BY <1>2 DEF CompleteSlice, TypeOK
<1>3. ASSUME NEW th \in Threads, PublishSlices(th)
      PROVE  /\ partials' = partials
             /\ \A t \in Tasks : published[t] => published'[t]
  BY <1>3 DEF PublishSlices, TypeOK, partVars
<1>4. ASSUME NEW th \in Threads, MergeIfComplete(th)
      PROVE  published' = published /\ partials' = partials
  BY <1>4 DEF MergeIfComplete, partVars
<1> QED BY <1>1, <1>2, <1>3, <1>4, ResultSteps, StateSteps
        DEF Growing, partVars

-----------------------------------------------------------------------------
(* Calls.                                                                  *)

LEMMA KnownCallStays ==
  ASSUME Growing, NEW c \in Call, KnownCall(c, state, published, partials)
  PROVE  KnownCall(c, state', published', partials')
<1>1. \A k \in DOMAIN c.skipped :
        c.op \in {"dequeue", "requeue"} => c.skipped[k] \in Items
  BY CallFields
<1> QED BY <1>1, CallFields, TaskOfItem DEF Growing, KnownCall, ReportOps

LEMMA CallsStay ==
  ASSUME TypeInv, CallsKnown, Growing, UNCHANGED thread
  PROVE  CallsKnown'
BY KnownCallStays DEF CallsKnown, TypeOK

LEMMA CallsGoto ==
  ASSUME TypeInv, CallsKnown, Growing, NEW th \in Threads, NEW c,
         Goto(th, c), KnownCall(c, state', published', partials')
  PROVE  CallsKnown'
<1>1. thread' = [thread EXCEPT ![th] = c] /\ thread \in [Threads -> Call]
  BY DEF Goto, TypeOK
<1>2. \A u \in Threads : KnownCall(thread[u], state', published', partials')
  BY <1>1, KnownCallStays DEF CallsKnown
<1> QED BY <1>1, <1>2 DEF CallsKnown

LEMMA TailElements ==
  ASSUME NEW S, NEW s \in Seq(S), s # <<>>, NEW k \in DOMAIN Tail(s)
  PROVE  k + 1 \in DOMAIN s /\ Tail(s)[k] = s[k + 1]
OBVIOUS

LEMMA ContainsAfterEnqueue ==
  ASSUME Queue!TypeOK, NEW item \in Items, Queue!Enqueue(item),
         NEW other \in Items, Queue!Contains(other)'
  PROVE  Queue!Contains(other) \/ other = item
<1>0. PICK p \in Priorities : \E k \in DOMAIN queue'[p] : queue'[p][k] = other
  BY DEF Queue!Contains
<1>1. PICK k \in DOMAIN queue'[p] : queue'[p][k] = other
  BY <1>0
<1>2. CASE p = Priority[TaskOf(item)]
  <2>1. queue'[p] = Append(queue[p], item) /\ queue[p] \in Seq(Items)
    BY <1>2 DEF Queue!Enqueue, Queue!TypeOK
  <2>2. \/ k \in DOMAIN queue[p] /\ queue'[p][k] = queue[p][k]
        \/ queue'[p][k] = item
    BY <1>1, <2>1
  <2> QED BY <1>1, <2>2 DEF Queue!Contains
<1>3. CASE p # Priority[TaskOf(item)]
  BY <1>1, <1>3 DEF Queue!Enqueue, Queue!TypeOK, Queue!Contains
<1> QED BY <1>2, <1>3

LEMMA ContainsAfterDequeue ==
  ASSUME Queue!TypeOK, NEW item, Queue!Dequeue(item)
  PROVE  /\ Queue!Contains(item)
         /\ \A other : Queue!Contains(other)' => Queue!Contains(other)
<1>1. PICK p \in Priorities :
        /\ queue[p] # <<>>
        /\ item = Head(queue[p])
        /\ queue' = [queue EXCEPT ![p] = Tail(@)]
  BY DEF Queue!Dequeue
<1>2. queue[p] \in Seq(Items) /\ queue'[p] = Tail(queue[p])
  BY <1>1 DEF Queue!TypeOK
<1>3. 1 \in DOMAIN queue[p] /\ item = queue[p][1]
  BY <1>1, <1>2
<1>4. ASSUME NEW k \in DOMAIN queue'[p]
      PROVE  k + 1 \in DOMAIN queue[p] /\ queue'[p][k] = queue[p][k + 1]
  BY <1>1, <1>2, TailElements
<1>5. \A q \in Priorities \ {p} : queue'[q] = queue[q]
  BY <1>1 DEF Queue!TypeOK
<1> QED BY <1>3, <1>4, <1>5 DEF Queue!Contains

LEMMA CallsNext ==
  ASSUME TypeInv, CallsKnown, QueueKnown, HeldKnown, TasksKnown, Growing,
         [Next]_vars
  PROVE  CallsKnown'
<1> USE DEF KnownCall
<1>0. /\ thread \in [Threads -> Call] /\ Queue!TypeOK
      /\ state \in [Tasks -> States]
      /\ published \in [Tasks -> BOOLEAN]
      /\ partials \in [Tasks -> SUBSET Items]
  BY DEF TypeOK
<1>1. CASE UNCHANGED thread
  BY <1>1, CallsStay
<1>2. ASSUME NEW th \in Threads, Goto(th, Idle) PROVE CallsKnown'
  BY <1>2, CallsGoto DEF Idle, ReportOps
<1>3. ASSUME NEW th \in Threads, NEW t \in Tasks, Submit(th, t)
      PROVE  CallsKnown'
  <2>1. Goto(th, [op |-> "publish", task |-> t]) /\ state'[t] # "unknown"
    BY <1>0, <1>3 DEF Submit, FreshTaskState, FreshInfo
  <2> QED BY <2>1, CallsGoto DEF ReportOps
<1>4. ASSUME NEW th \in Threads, NEW t \in Tasks, Cancel(th, t)
      PROVE  CallsKnown'
  BY <1>4, CallsGoto DEF Cancel, ReportOps
<1>5. ASSUME NEW th \in Threads, NEW w \in Workers, Poll(th, w)
      PROVE  CallsKnown'
  BY <1>5, CallsGoto DEF Poll, ReportOps
<1>6. ASSUME NEW th \in Threads, NEW w \in Workers, NEW item \in Items,
             CompleteSlice(th, w, item)
      PROVE  CallsKnown'
  <2>1. TaskOf(item) \in Tasks /\ published[TaskOf(item)]
    BY <1>6, TaskOfItem DEF CompleteSlice, HeldKnown
  <2>2. published'[TaskOf(item)] /\ partials'[TaskOf(item)] # {}
    BY <1>0, <1>6, <2>1 DEF CompleteSlice
  <2> QED BY <1>6, <2>2, CallsGoto DEF CompleteSlice, ReportOps
<1>7. ASSUME NEW th \in Threads, NEW w \in Workers, NEW item \in Items,
             FailSlice(th, w, item) \/ FailAfterComplete(th, w, item)
      PROVE  CallsKnown'
  <2>1. TaskOf(item) \in Tasks /\ published'[TaskOf(item)]
    BY <1>7, TaskOfItem
       DEF FailSlice, FailAfterComplete, HeldKnown, Growing
  <2>2. PICK r : Goto(th, [op |-> "releaseFailed", worker |-> w, item |-> item,
                           retryable |-> r])
    BY <1>7 DEF FailSlice, FailAfterComplete, RecordFailure
  <2> QED BY <2>1, <2>2, CallsGoto DEF ReportOps
<1>8. ASSUME NEW th \in Threads, Advance(th) PROVE CallsKnown'
  <2> DEFINE c == thread[th]
  <2>0. c \in Call /\ KnownCall(c, state', published', partials')
    BY <1>0, KnownCallStays DEF CallsKnown
  <2>1. CASE PublishSlices(th)
    <3>1. c.task \in Tasks /\ published'[c.task]
      BY <1>0, <2>0, <2>1, CallFields DEF PublishSlices, At
    <3>2. \/ Goto(th, Idle)
          \/ Goto(th, [op |-> "enqueue", task |-> c.task, next |-> 1])
      BY <2>1 DEF PublishSlices
    <3> QED BY <1>2, <3>1, <3>2, CallsGoto DEF ReportOps
  <2>2. CASE EnqueueSlice(th)
    <3>1. published'[c.task]
      BY <2>0, <2>2 DEF EnqueueSlice, At
    <3>2. \/ Goto(th, Idle)
          \/ Goto(th, [op |-> "enqueue", task |-> c.task, next |-> c.next + 1])
      BY <2>2 DEF EnqueueSlice
    <3> QED BY <1>2, <3>1, <3>2, CallsGoto DEF ReportOps
  <2>3. CASE CancelWrite(th)
    BY <2>3, CallsGoto DEF CancelWrite, ReportOps
  <2>4. CASE DequeueMatch(th) \/ DequeueSkip(th)
    <3>1. PICK item \in Items :
            /\ Queue!Dequeue(item)
            /\ \/ Goto(th, [op |-> "prefetch", worker |-> c.worker,
                            item |-> item])
               \/ Goto(th, [op |-> "dequeue", worker |-> c.worker,
                            skipped |-> Append(c.skipped, item)])
      BY <2>4 DEF DequeueMatch, DequeueSkip
    <3>2. published'[TaskOf(item)]
      BY <1>0, <3>1, ContainsAfterDequeue, TaskOfItem DEF QueueKnown, Growing
    <3>3. /\ c.skipped \in Seq(Items)
          /\ \A k \in DOMAIN c.skipped : published'[TaskOf(c.skipped[k])]
      BY <2>0, <2>4, CallFields DEF DequeueMatch, DequeueSkip, At
    <3>4. \A k \in DOMAIN Append(c.skipped, item) :
            published'[TaskOf(Append(c.skipped, item)[k])]
      <4> SUFFICES ASSUME NEW k \in DOMAIN Append(c.skipped, item)
                   PROVE  published'[TaskOf(Append(c.skipped, item)[k])]
        OBVIOUS
      <4>1. \/ /\ k \in DOMAIN c.skipped
               /\ Append(c.skipped, item)[k] = c.skipped[k]
            \/ Append(c.skipped, item)[k] = item
        BY <3>3
      <4> QED BY <3>2, <3>3, <4>1
    <3> QED BY <3>1, <3>2, <3>4, CallsGoto DEF ReportOps
  <2>5. CASE DequeueEmpty(th)
    <3>1. \A k \in DOMAIN c.skipped : published'[TaskOf(c.skipped[k])]
      BY <2>0, <2>5 DEF DequeueEmpty, At
    <3>2. \/ Goto(th, Idle)
          \/ Goto(th, [op |-> "requeue", worker |-> c.worker,
                       skipped |-> c.skipped])
      BY <2>5 DEF DequeueEmpty
    <3> QED BY <1>2, <3>1, <3>2, CallsGoto DEF ReportOps
  <2>6. CASE Requeue(th)
    <3>1. /\ c.skipped \in Seq(Items) /\ c.skipped # <<>>
          /\ \A k \in DOMAIN c.skipped : published'[TaskOf(c.skipped[k])]
      BY <2>0, <2>6, CallFields DEF Requeue, At, LoopsInRange, LoopInRange
    <3>2. \A k \in DOMAIN Tail(c.skipped) :
            published'[TaskOf(Tail(c.skipped)[k])]
      <4> SUFFICES ASSUME NEW k \in DOMAIN Tail(c.skipped)
                   PROVE  published'[TaskOf(Tail(c.skipped)[k])]
        OBVIOUS
      <4>1. /\ k + 1 \in DOMAIN c.skipped
            /\ Tail(c.skipped)[k] = c.skipped[k + 1]
        BY <3>1, TailElements
      <4> QED BY <3>1, <4>1
    <3>3. \/ Goto(th, Idle)
          \/ Goto(th, [op |-> "requeue", worker |-> c.worker,
                       skipped |-> Tail(c.skipped)])
      BY <2>6 DEF Requeue
    <3> QED BY <1>2, <3>2, <3>3, CallsGoto DEF ReportOps
  <2>7. CASE Prefetch(th) \/ CommitAssignment(th) \/ ActivateWorker(th)
    <3>1. published'[TaskOf(c.item)]
      BY <2>0, <2>7 DEF Prefetch, CommitAssignment, ActivateWorker, At
    <3>2. \/ Goto(th, Idle)
          \/ \E op \in {"commit", "activate", "reply"} :
               Goto(th, [op |-> op, worker |-> c.worker, item |-> c.item])
      BY <2>7 DEF Prefetch, CommitAssignment, ActivateWorker
    <3> QED BY <1>2, <3>1, <3>2, CallsGoto DEF ReportOps
  <2>8. CASE ReleaseSlot(th)
    <3>1. /\ published'[TaskOf(c.item)]
          /\ c.op = "releaseCompleted" => partials'[TaskOf(c.item)] # {}
      BY <2>0, <2>8 DEF ReleaseSlot, ReportOps
    <3>2. Goto(th, [op |-> IF c.op = "releaseCompleted" THEN "merge"
                                                        ELSE "retry",
                    worker |-> c.worker, item |-> c.item,
                    retryable |-> c.retryable])
      BY <2>8 DEF ReleaseSlot
    <3> QED BY <3>1, <3>2, CallsGoto DEF ReportOps
  <2>9. CASE CancelRecord(th) \/ Reply(th) \/ MergeIfComplete(th)
             \/ RetryOrRecord(th)
    BY <1>2, <2>9 DEF CancelRecord, Reply, MergeIfComplete, RetryOrRecord
  <2> QED BY <1>8, <2>1, <2>2, <2>3, <2>4, <2>5, <2>6, <2>7, <2>8, <2>9
          DEF Advance
<1>9. ASSUME \/ \E w \in Workers : WorkerStep(w)
             \/ CheckLoop \/ UNCHANGED vars
      PROVE  UNCHANGED thread
  BY <1>9 DEF WorkerStep, RegisterWorker, Heartbeat, Drain, LeaveLoop,
              CloseHttp, Crash, FallSilent, CheckLoop, CheckTimeouts,
              BeginReassign, ReassignItem, EndReassign, vars
<1> QED BY <1>1, <1>3, <1>4, <1>5, <1>6, <1>7, <1>8, <1>9
        DEF Next, ClientCall, WorkerCall

-----------------------------------------------------------------------------
(* Items in the queue and at the workers.                                  *)

LEMMA QueueSteps ==
  ASSUME TypeInv, CallsKnown, [Next]_vars
  PROVE  \/ UNCHANGED queue
         \/ \E item \in Items : Queue!Dequeue(item)
         \/ \E item \in Items : Queue!Enqueue(item) /\ published[TaskOf(item)]
<1> DEFINE Grown ==
      \E item \in Items : Queue!Enqueue(item) /\ published[TaskOf(item)]
<1>1. ASSUME NEW th \in Threads, Advance(th)
      PROVE  \/ UNCHANGED queue \/ Grown
             \/ \E item \in Items : Queue!Dequeue(item)
  <2> DEFINE c == thread[th]
  <2>0. c \in Call /\ KnownCall(c, state, published, partials)
    BY DEF TypeOK, CallsKnown
  <2>1. CASE EnqueueSlice(th)
    <3>1. /\ c.task \in Tasks /\ published[c.task]
          /\ c.next \in DOMAIN SliceList[c.task]
      BY <2>0, <2>1, CallFields
         DEF EnqueueSlice, At, KnownCall, LoopsInRange, LoopInRange
    <3>2. Queue!Enqueue(<<c.task, SliceList[c.task][c.next]>>)
      BY <2>1 DEF EnqueueSlice
    <3> QED BY <3>1, <3>2, SliceIsItem DEF TaskOf
  <2>2. CASE Requeue(th)
    <3>1. /\ c.skipped \in Seq(Items) /\ c.skipped # <<>>
          /\ \A k \in DOMAIN c.skipped : published[TaskOf(c.skipped[k])]
      BY <2>0, <2>2, CallFields
         DEF Requeue, At, KnownCall, LoopsInRange, LoopInRange
    <3>2. /\ Head(c.skipped) \in Items
          /\ 1 \in DOMAIN c.skipped
          /\ Head(c.skipped) = c.skipped[1]
      BY <3>1
    <3> QED BY <2>2, <3>1, <3>2 DEF Requeue
  <2>3. CASE RetryOrRecord(th)
    <3>1. TaskOf(c.item) \in Tasks /\ published[TaskOf(c.item)]
      BY <2>0, <2>3, CallFields, TaskOfItem
         DEF RetryOrRecord, At, KnownCall, ReportOps
    <3>2. UNCHANGED queue \/ Queue!Enqueue(Whole(TaskOf(c.item)))
      BY <2>3 DEF RetryOrRecord
    <3>3. TaskOf(Whole(TaskOf(c.item))) = TaskOf(c.item)
      BY DEF Whole, TaskOf
    <3> QED BY <3>1, <3>2, <3>3, WholeIsItem
  <2> QED BY <1>1, <2>1, <2>2, <2>3
      DEF Advance, PublishSlices, CancelWrite, CancelRecord, DequeueMatch,
          DequeueSkip, DequeueEmpty, Prefetch, CommitAssignment,
          ActivateWorker, Reply, ReleaseSlot, MergeIfComplete
<1>2. ASSUME NEW th \in Threads, ClientCall(th) \/ WorkerCall(th)
      PROVE  UNCHANGED queue
  BY <1>2 DEF ClientCall, WorkerCall, Submit, Cancel, Poll, CompleteSlice,
              FailSlice, FailAfterComplete, RecordFailure
<1>3. ASSUME NEW w \in Workers, WorkerStep(w) PROVE UNCHANGED queue
  BY <1>3 DEF WorkerStep, RegisterWorker, Heartbeat, Drain, LeaveLoop,
              CloseHttp, Crash, FallSilent
<1>4. ASSUME CheckLoop \/ UNCHANGED vars PROVE UNCHANGED queue \/ Grown
  BY <1>4 DEF CheckLoop, CheckTimeouts, BeginReassign, ReassignItem,
              EndReassign, vars
<1> QED BY <1>1, <1>2, <1>3, <1>4 DEF Next

LEMMA QueueNext ==
  ASSUME TypeInv, CallsKnown, QueueKnown, Growing, [Next]_vars
  PROVE  QueueKnown'
<1> SUFFICES ASSUME NEW other \in Items, Queue!Contains(other)'
             PROVE  published'[TaskOf(other)]
  BY DEF QueueKnown
<1>1. Queue!TypeOK /\ TaskOf(other) \in Tasks
  BY TaskOfItem DEF TypeOK
<1>2. Queue!Contains(other) => published'[TaskOf(other)]
  BY <1>1 DEF QueueKnown, Growing
<1>3. CASE UNCHANGED queue
  BY <1>2, <1>3 DEF Queue!Contains
<1>4. ASSUME NEW item \in Items, Queue!Dequeue(item)
      PROVE  published'[TaskOf(other)]
  BY <1>1, <1>2, <1>4, ContainsAfterDequeue
<1>5. ASSUME NEW item \in Items, Queue!Enqueue(item), published[TaskOf(item)]
      PROVE  published'[TaskOf(other)]
  <2>1. Queue!Contains(other) \/ other = item
    BY <1>1, <1>5, ContainsAfterEnqueue
  <2> QED BY <1>1, <1>2, <1>5, <2>1 DEF Growing
<1> QED BY <1>3, <1>4, <1>5, QueueSteps

LEMMA HeldNext ==
  ASSUME TypeInv, CallsKnown, HeldKnown, Growing, [Next]_vars
  PROVE  HeldKnown'
<1> SUFFICES ASSUME NEW w \in Workers, NEW item \in Items,
                    held'[<<w, item>>] > 0 \/ <<w, item>> \in failing'
             PROVE  published'[TaskOf(item)]
  BY DEF HeldKnown
<1> DEFINE e == <<w, item>>
           Same == /\ held'[e] > 0 => held[e] > 0
                   /\ e \in failing' => e \in failing
<1>0. /\ TaskOf(item) \in Tasks
      /\ held \in [Workers \X Items -> Nat]
  BY TaskOfItem DEF TypeOK
<1>1. Same => published'[TaskOf(item)]
  BY <1>0 DEF HeldKnown, Growing
<1>2. ASSUME NEW th \in Threads, Advance(th) PROVE published'[TaskOf(item)]
  <2> DEFINE c == thread[th]
  <2>0. c \in Call /\ KnownCall(c, state, published, partials)
    BY DEF TypeOK, CallsKnown
  <2>1. CASE Reply(th)
    <3>1. /\ published[TaskOf(c.item)]
          /\ c.worker \in Workers /\ c.item \in Items
      BY <2>0, <2>1, CallFields DEF Reply, At, KnownCall
    <3>2. CASE item = c.item
      BY <1>0, <3>1, <3>2 DEF Growing
    <3>3. CASE item # c.item
      BY <1>0, <1>1, <2>1, <3>1, <3>3 DEF Reply
    <3> QED BY <3>2, <3>3
  <2>2. CASE MergeIfComplete(th)
    <3>1. /\ published[TaskOf(c.item)]
          /\ c.worker \in Workers /\ c.item \in Items
      BY <2>0, <2>2, CallFields DEF MergeIfComplete, At, KnownCall, ReportOps
    <3>2. CASE item = c.item
      BY <1>0, <3>1, <3>2 DEF Growing
    <3>3. CASE item # c.item
      BY <1>1, <2>2, <3>3 DEF MergeIfComplete
    <3> QED BY <3>2, <3>3
  <2>3. CASE UNCHANGED <<held, failing>>
    BY <1>1, <2>3
  <2> QED BY <1>2, <2>1, <2>2, <2>3
      DEF Advance, PublishSlices, EnqueueSlice, CancelWrite, CancelRecord,
          DequeueMatch, DequeueSkip, DequeueEmpty, Requeue, Prefetch,
          CommitAssignment, ActivateWorker, ReleaseSlot, RetryOrRecord, envVars
<1>3. ASSUME NEW th \in Threads, ClientCall(th) \/ WorkerCall(th)
      PROVE  Same
  BY <1>0, <1>3
     DEF ClientCall, WorkerCall, Submit, Cancel, Poll, CompleteSlice,
         FailSlice, FailAfterComplete, RecordFailure, envVars
<1>4. ASSUME NEW v \in Workers, WorkerStep(v) PROVE Same
  BY <1>0, <1>4
     DEF WorkerStep, RegisterWorker, Heartbeat, Drain, LeaveLoop, CloseHttp,
         Crash, FallSilent, DropExecutions, envVars
<1>5. ASSUME CheckLoop \/ UNCHANGED vars PROVE Same
  BY <1>5 DEF CheckLoop, CheckTimeouts, BeginReassign, ReassignItem,
              EndReassign, vars, envVars
<1> QED BY <1>1, <1>2, <1>3, <1>4, <1>5 DEF Next

-----------------------------------------------------------------------------
(* Tasks.                                                                  *)

LEMMA TasksNext ==
  ASSUME TypeInv, CallsKnown, HeldKnown, TasksKnown, Growing, [Next]_vars,
         NoResubmit'
  PROVE  TasksKnown'
<1>0. /\ state \in [Tasks -> States] /\ published \in [Tasks -> BOOLEAN]
      /\ partials \in [Tasks -> SUBSET Items]
      /\ first \in [Tasks -> Items \cup {None}]
      /\ result \in [Tasks -> SUBSET Items]
  BY DEF TypeOK
<1>1. ASSUME UNCHANGED <<published, partVars, result>> PROVE TasksKnown'
  BY <1>1 DEF TasksKnown, Growing, partVars
<1>2. ASSUME NEW th \in Threads, NEW t \in Tasks, Submit(th, t)
      PROVE  TasksKnown'
  BY <1>0, <1>2, FirstSubmit
     DEF TasksKnown, Submit, FreshTaskState, FreshInfo
<1>3. ASSUME NEW th \in Threads, PublishSlices(th) PROVE TasksKnown'
  <2>1. thread[th].task \in Tasks /\ state[thread[th].task] # "unknown"
    BY <1>3, CallFields DEF PublishSlices, At, CallsKnown, KnownCall, TypeOK
  <2> QED BY <1>0, <1>3, <2>1 DEF TasksKnown, PublishSlices, partVars
<1>4. ASSUME NEW th \in Threads, NEW w \in Workers, NEW item \in Items,
             CompleteSlice(th, w, item)
      PROVE  TasksKnown'
  <2>1. TaskOf(item) \in Tasks /\ published[TaskOf(item)]
    BY <1>4, TaskOfItem DEF CompleteSlice, HeldKnown
  <2> QED BY <1>0, <1>4, <2>1 DEF TasksKnown, CompleteSlice
<1>5. ASSUME NEW th \in Threads, MergeIfComplete(th) PROVE TasksKnown'
  <2>1. TaskOf(thread[th].item) \in Tasks /\ published[TaskOf(thread[th].item)]
    BY <1>5, CallFields, TaskOfItem
       DEF MergeIfComplete, At, CallsKnown, KnownCall, ReportOps, TypeOK
  <2>2. UNCHANGED <<published, partials, first>>
    BY <1>5 DEF MergeIfComplete, partVars
  <2>3. \A t \in Tasks : ~published[t] => result'[t] = result[t]
    BY <1>0, <1>5, <2>1 DEF MergeIfComplete
  <2> QED BY <2>2, <2>3 DEF TasksKnown, Growing
<1> QED BY <1>1, <1>2, <1>3, <1>4, <1>5, ResultSteps

-----------------------------------------------------------------------------
(* The merged result.                                                      *)

(* What a handler that may merge knows: the slices are set, one partial    *)
(* result at least is there, and so is the one that arrived first.         *)
LEMMA MergeKnows ==
  ASSUME TypeInv, CallsKnown, TasksKnown, NEW th \in Threads,
         MergeIfComplete(th)
  PROVE  LET t == TaskOf(thread[th].item)
         IN  /\ t \in Tasks /\ published[t]
             /\ AllIn(t) <=> completed[t] = Len(SliceList[t])
             /\ MergeOf(t) # {}
<1> DEFINE c == thread[th]
           t == TaskOf(c.item)
<1>1. t \in Tasks /\ published[t] /\ partials[t] # {}
  BY CallFields, TaskOfItem
     DEF MergeIfComplete, At, CallsKnown, KnownCall, ReportOps, TypeOK
<1>2. first[t] \in partials[t]
  BY <1>1 DEF TasksKnown
<1> HIDE DEF t
<1>3. AllIn(t) <=> completed[t] = Len(SliceList[t])
  BY <1>1 DEF AllIn, NSlices
<1>4. MergeOf(t) # {}
  BY <1>1, <1>2 DEF MergeOf
<1> QED BY <1>1, <1>3, <1>4 DEF t

LEMMA WriteOnceStep ==
  ASSUME TypeInv, MergeInv, [Next]_vars, NoResubmit', NEW t \in Tasks,
         result[t] # {}
  PROVE  result'[t] = result[t]
<1>1. ASSUME NEW th \in Threads, MergeIfComplete(th)
      PROVE  result'[t] = result[t]
  <2> DEFINE u == TaskOf(thread[th].item)
  <2>1. /\ u \in Tasks
        /\ AllIn(u) <=> completed[u] = Len(SliceList[u])
    BY <1>1, MergeKnows DEF MergeInv
  <2>2. result' = IF AllIn(u) THEN [result EXCEPT ![u] = MergeOf(u)]
                              ELSE result
    BY <1>1 DEF MergeIfComplete
  <2>3. result \in [Tasks -> SUBSET Items]
    BY DEF TypeOK
  <2> HIDE DEF u
  <2>4. u = t /\ AllIn(u) => MergeOf(u) = result[t]
    BY <2>1 DEF MergeInv, ResultsFinal
  <2> QED BY <2>1, <2>2, <2>3, <2>4
<1>2. ASSUME NEW th \in Threads, NEW u \in Tasks, Submit(th, u)
      PROVE  result' = result
  BY <1>2, FirstSubmit DEF MergeInv
<1> QED BY <1>1, <1>2, ResultSteps DEF PublishSlices, CompleteSlice

LEMMA FinalNext ==
  ASSUME TypeInv, MergeInv, [Next]_vars, NoResubmit'
  PROVE  ResultsFinal'
<1>0. /\ completed \in [Tasks -> Nat] /\ partials \in [Tasks -> SUBSET Items]
      /\ first \in [Tasks -> Items \cup {None}]
      /\ result \in [Tasks -> SUBSET Items]
      /\ ResultsFinal
  BY DEF TypeOK, MergeInv
<1>1. ASSUME UNCHANGED <<completed, partVars, result>> PROVE ResultsFinal'
  BY <1>0, <1>1 DEF ResultsFinal, MergeOf, partVars
<1>2. ASSUME NEW th \in Threads, NEW t \in Tasks, Submit(th, t)
      PROVE  ResultsFinal'
  <2>1. /\ result' = result /\ partials' = partials /\ result[t] = {}
    BY <1>2, FirstSubmit DEF MergeInv
  <2>2. \A u \in Tasks \ {t} : completed'[u] = completed[u] /\ first'[u] = first[u]
    BY <1>0, <1>2 DEF Submit, FreshTaskState, FreshInfo
  <2> QED BY <1>0, <2>1, <2>2 DEF ResultsFinal, MergeOf
<1>3. ASSUME NEW th \in Threads, NEW w \in Workers, NEW item \in Items,
             CompleteSlice(th, w, item)
      PROVE  ResultsFinal'
  <2> DEFINE t == TaskOf(item)
  <2>1. t \in Tasks /\ Len(SliceList[t]) \in Nat
    BY TaskOfItem, SliceLists
  <2>2. result' = result /\ completed'[t] = completed[t] + 1
    BY <1>0, <1>3, <2>1 DEF CompleteSlice, Count
  <2>3. \A u \in Tasks \ {t} : /\ completed'[u] = completed[u]
                              /\ partials'[u] = partials[u]
                              /\ first'[u] = first[u]
    BY <1>0, <1>3, <2>1 DEF CompleteSlice, Count
  <2> HIDE DEF t
  <2>4. result[t] # {} => completed'[t] > Len(SliceList[t])
    BY <1>0, <2>1, <2>2 DEF ResultsFinal
  <2>5. \A u \in Tasks \ {t} : MergeOf(u)' = MergeOf(u)
    BY <2>3 DEF MergeOf
  <2>6. completed'[t] \in Nat
    BY <1>0, <2>1, <2>2
  <2> QED BY <1>0, <2>1, <2>2, <2>3, <2>4, <2>5, <2>6 DEF ResultsFinal
<1>4. ASSUME NEW th \in Threads, MergeIfComplete(th) PROVE ResultsFinal'
  <2> DEFINE t == TaskOf(thread[th].item)
  <2>1. t \in Tasks /\ (AllIn(t) <=> completed[t] = Len(SliceList[t]))
    BY <1>4, MergeKnows DEF MergeInv
  <2>2. /\ result' = IF AllIn(t) THEN [result EXCEPT ![t] = MergeOf(t)]
                                 ELSE result
        /\ UNCHANGED <<completed, partials, first>>
    BY <1>4 DEF MergeIfComplete, partVars
  <2> HIDE DEF t
  <2>3. \A u \in Tasks : MergeOf(u)' = MergeOf(u)
    BY <2>2 DEF MergeOf
  <2>4. \A u \in Tasks : Len(SliceList[u]) \in Nat
    BY SliceLists
  <2> QED BY <1>0, <2>1, <2>2, <2>3, <2>4 DEF ResultsFinal
<1> QED BY <1>1, <1>2, <1>3, <1>4, ResultSteps DEF PublishSlices

LEMMA CompletedSteps ==
  ASSUME TypeInv, [Next]_vars, NEW t \in Tasks, state'[t] = "completed"
  PROVE  \/ state[t] = "completed"
         \/ \E th \in Threads : /\ MergeIfComplete(th)
                                /\ t = TaskOf(thread[th].item)
                                /\ AllIn(t)
<1> DEFINE Merged == \E th \in Threads : /\ MergeIfComplete(th)
                                         /\ t = TaskOf(thread[th].item)
                                         /\ AllIn(t)
<1>0. state \in [Tasks -> States]
  BY DEF TypeOK
<1>1. ASSUME NEW th \in Threads, Advance(th)
      PROVE  state[t] = "completed" \/ Merged
  <2>1. CASE MergeIfComplete(th)
    BY <1>0, <2>1 DEF MergeIfComplete
  <2>2. CASE CancelWrite(th)
    BY <1>0, <2>2 DEF CancelWrite
  <2>3. CASE CommitAssignment(th)
    BY <1>0, <2>3 DEF CommitAssignment
  <2>4. CASE RetryOrRecord(th)
    BY <1>0, <2>4 DEF RetryOrRecord
  <2>5. CASE UNCHANGED state
    BY <2>5
  <2> QED BY <1>1, <2>1, <2>2, <2>3, <2>4, <2>5
      DEF Advance, PublishSlices, EnqueueSlice, CancelRecord, DequeueMatch,
          DequeueSkip, DequeueEmpty, Requeue, Prefetch, ActivateWorker, Reply,
          ReleaseSlot, tables, taskVars
<1>2. ASSUME NEW th \in Threads, ClientCall(th) \/ WorkerCall(th)
      PROVE  state[t] = "completed"
  BY <1>0, <1>2
     DEF ClientCall, WorkerCall, Submit, FreshTaskState, FreshInfo, Cancel,
         Poll, CompleteSlice, FailSlice, FailAfterComplete, RecordFailure,
         tables, taskVars
<1>3. ASSUME \/ \E w \in Workers : WorkerStep(w)
             \/ CheckLoop \/ UNCHANGED vars
      PROVE  UNCHANGED state
  BY <1>3 DEF WorkerStep, RegisterWorker, Heartbeat, Drain, LeaveLoop,
              CloseHttp, Crash, FallSilent, CheckLoop, CheckTimeouts,
              BeginReassign, ReassignItem, EndReassign, vars, tables, taskVars
<1> QED BY <1>1, <1>2, <1>3 DEF Next

LEMMA MergedNext ==
  ASSUME TypeInv, MergeInv, [Next]_vars, NoResubmit'
  PROVE  CompletedMerged'
<1> SUFFICES ASSUME NEW t \in Tasks, state'[t] = "completed"
             PROVE  result'[t] # {}
  BY DEF CompletedMerged
<1>1. CASE state[t] = "completed"
  BY <1>1, WriteOnceStep DEF MergeInv, CompletedMerged
<1>2. ASSUME NEW th \in Threads, MergeIfComplete(th),
             t = TaskOf(thread[th].item), AllIn(t)
      PROVE  result'[t] # {}
  BY <1>2, MergeKnows DEF MergeInv, MergeIfComplete, TypeOK
<1> QED BY <1>1, <1>2, CompletedSteps

-----------------------------------------------------------------------------
LEMMA ResultInit == Init => ResultInv
<1> SUFFICES ASSUME Init PROVE MergeInv
  BY DEF ResultInv
<1>1. QueueKnown
  BY DEF Init, Queue!Init, Queue!Contains, QueueKnown
<1>2. CallsKnown
  BY DEF Init, CallsKnown, KnownCall, Idle, ReportOps
<1> QED BY <1>1, <1>2
    DEF Init, MergeInv, HeldKnown, TasksKnown, ResultsFinal, CompletedMerged

LEMMA ResultNext == TypeInv /\ ResultInv /\ [Next]_vars => ResultInv'
<1> SUFFICES ASSUME TypeInv, ResultInv, [Next]_vars, NoResubmit'
             PROVE  MergeInv'
  BY DEF ResultInv
<1>1. MergeInv
  BY HappenedGrows DEF ResultInv, NoResubmit, Never
<1>2. Growing
  BY <1>1, Grows DEF MergeInv
<1>3. CallsKnown' /\ QueueKnown' /\ HeldKnown' /\ TasksKnown'
  BY <1>1, <1>2, CallsNext, QueueNext, HeldNext, TasksNext DEF MergeInv
<1>4. ResultsFinal' /\ CompletedMerged'
  BY <1>1, FinalNext, MergedNext
<1> QED BY <1>3, <1>4 DEF MergeInv

LEMMA ResultInvariant == Spec => [](TypeInv /\ ResultInv)
BY TypeInit, TypeNext, ResultInit, ResultNext, PTL DEF Spec

(* As long as no id is submitted twice, a task reported as completed has a *)
(* merged result, whatever fails and however handlers interleave.          *)
THEOREM CompletedTasksHaveResults == Spec => []CompletedHasResult
<1>1. TypeInv /\ ResultInv => CompletedHasResult
  BY DEF ResultInv, NoResubmit, MergeInv, CompletedMerged, CompletedHasResult
<1> QED BY <1>1, ResultInvariant, PTL

(* As long as no id is submitted twice, the merged result of a task never  *)
(* changes once it is there: late, repeated and retried completions leave  *)
(* alone what a client may already have read.                              *)
THEOREM ResultsAreStable == Spec => ResultWriteOnce
<1>1. TypeInv /\ ResultInv /\ [Next]_vars =>
        [Never({"resubmit"})' =>
           \A t \in Tasks : result[t] # {} => result'[t] = result[t]]_vars
  <2> SUFFICES ASSUME TypeInv, ResultInv, [Next]_vars, NoResubmit',
                      NEW t \in Tasks, result[t] # {}
               PROVE  result'[t] = result[t]
    BY DEF NoResubmit
  <2>1. MergeInv
    BY HappenedGrows DEF ResultInv, NoResubmit, Never
  <2> QED BY <2>1, WriteOnceStep
<1> QED BY <1>1, ResultInvariant, PTL DEF Spec, ResultWriteOnce

-----------------------------------------------------------------------------
(* Chapter 3.  Where a slice is, and that it is not lost.                  *)

(* Which items a handler has in its hands.                                 *)

(* It will queue them, put them back, or hand them out to a worker.        *)
Carries(c, item) ==
  \/ /\ c.op = "enqueue"
     /\ \E k \in DOMAIN SliceList[c.task] :
          k >= c.next /\ item = <<c.task, SliceList[c.task][k]>>
  \/ /\ c.op \in {"dequeue", "requeue"}
     /\ \E k \in DOMAIN c.skipped : c.skipped[k] = item
  \/ c.op \in {"prefetch", "commit", "activate", "reply"} /\ c.item = item

(* Or it is a submission that has not set the slices yet.                  *)
Owes(c, item) ==
  \/ c.op = "publish" /\ item \in SlicesOf(c.task)
  \/ Carries(c, item)

LEMMA IdleOwesNothing == \A item : ~Owes(Idle, item)
BY DEF Idle, Owes, Carries

(* A thread is moved by the handler that runs on it, or by a new call.     *)
LEMMA ThreadSteps ==
  ASSUME TypeInv, [Next]_vars, NEW th \in Threads
  PROVE  \/ thread'[th] = thread[th]
         \/ Advance(th)
         \/ thread[th] = Idle /\ (ClientCall(th) \/ WorkerCall(th))
<1>0. thread \in [Threads -> Call]
  BY DEF TypeOK
<1>1. ASSUME NEW u \in Threads, Advance(u), u # th
      PROVE  thread'[th] = thread[th]
  BY <1>0, <1>1
     DEF Advance, PublishSlices, EnqueueSlice, CancelWrite, CancelRecord,
         DequeueMatch, DequeueSkip, DequeueEmpty, Requeue, Prefetch,
         CommitAssignment, ActivateWorker, Reply, ReleaseSlot,
         MergeIfComplete, RetryOrRecord, Goto
<1>2. ASSUME NEW u \in Threads, ClientCall(u) \/ WorkerCall(u)
      PROVE  thread[u] = Idle /\ (u # th => thread'[th] = thread[th])
  BY <1>0, <1>2
     DEF ClientCall, WorkerCall, Submit, Cancel, Poll, CompleteSlice,
         FailSlice, FailAfterComplete, RecordFailure, Goto
<1>3. ASSUME \/ \E w \in Workers : WorkerStep(w)
             \/ CheckLoop \/ UNCHANGED vars
      PROVE  UNCHANGED thread
  BY <1>3 DEF WorkerStep, RegisterWorker, Heartbeat, Drain, LeaveLoop,
              CloseHttp, Crash, FallSilent, CheckLoop, CheckTimeouts,
              BeginReassign, ReassignItem, EndReassign, vars
<1> QED BY <1>1, <1>2, <1>3 DEF Next

LEMMA PollingSteps ==
  ASSUME TypeInv, [Next]_vars, NEW w \in Workers, Polling(w)'
  PROVE  Polling(w) \/ \E th \in Threads : Poll(th, w)
<1>1. PICK th \in Threads :
        thread'[th].op \in AssignOps /\ thread'[th].worker = w
  BY DEF Polling
<1>2. CASE thread'[th] = thread[th]
  BY <1>1, <1>2 DEF Polling
<1>3. CASE ClientCall(th) \/ WorkerCall(th)
  <2>1. ASSUME NEW c, Goto(th, c) PROVE c.op \in AssignOps /\ c.worker = w
    BY <1>1, <2>1 DEF Goto, TypeOK
  <2>2. ASSUME NEW v \in Workers, Poll(th, v) PROVE v = w
    BY <2>1, <2>2 DEF Poll
  <2>3. ASSUME NEW t \in Tasks PROVE ~Submit(th, t) /\ ~Cancel(th, t)
    BY <2>1 DEF Submit, Cancel, AssignOps
  <2>4. ASSUME NEW v \in Workers, NEW item \in Items
        PROVE  /\ ~CompleteSlice(th, v, item) /\ ~FailSlice(th, v, item)
               /\ ~FailAfterComplete(th, v, item)
    BY <2>1 DEF CompleteSlice, FailSlice, FailAfterComplete, RecordFailure,
                AssignOps
  <2> QED BY <1>3, <2>2, <2>3, <2>4 DEF ClientCall, WorkerCall
<1>4. CASE Advance(th)
  <2> USE <1>1 DEF Goto, At, AssignOps, Idle, TypeOK
  <2>1. CASE PublishSlices(th) \/ EnqueueSlice(th)
    BY <2>1 DEF PublishSlices, EnqueueSlice
  <2>2. CASE CancelWrite(th) \/ CancelRecord(th) \/ ReleaseSlot(th)
             \/ MergeIfComplete(th) \/ RetryOrRecord(th)
    BY <2>2 DEF CancelWrite, CancelRecord, ReleaseSlot, MergeIfComplete,
                RetryOrRecord
  <2>3. CASE DequeueMatch(th) \/ DequeueSkip(th) \/ DequeueEmpty(th)
             \/ Requeue(th)
    BY <2>3 DEF DequeueMatch, DequeueSkip, DequeueEmpty, Requeue, Polling
  <2>4. CASE Prefetch(th) \/ CommitAssignment(th) \/ ActivateWorker(th)
             \/ Reply(th)
    BY <2>4 DEF Prefetch, CommitAssignment, ActivateWorker, Reply, Polling
  <2> QED BY <1>4, <2>1, <2>2, <2>3, <2>4 DEF Advance
<1> QED BY <1>2, <1>3, <1>4, ThreadSteps

-----------------------------------------------------------------------------
(* The queue keeps what it is given.                                       *)

LEMMA EnqueueContains ==
  ASSUME Queue!TypeOK, NEW item \in Items, Queue!Enqueue(item)
  PROVE  /\ Queue!Contains(item)'
         /\ \A other : Queue!Contains(other) => Queue!Contains(other)'
<1> DEFINE p == Priority[TaskOf(item)]
<1>1. p \in Priorities
  BY TaskOfItem, SetsAssumption
<1>2. /\ queue[p] \in Seq(Items)
      /\ queue'[p] = Append(queue[p], item)
      /\ \A q \in Priorities \ {p} : queue'[q] = queue[q]
  BY <1>1 DEF Queue!TypeOK, Queue!Enqueue
<1> HIDE DEF p
<1>3. /\ Len(queue[p]) + 1 \in DOMAIN queue'[p]
      /\ queue'[p][Len(queue[p]) + 1] = item
      /\ \A k \in DOMAIN queue[p] : /\ k \in DOMAIN queue'[p]
                                    /\ queue'[p][k] = queue[p][k]
  BY <1>2
<1> QED BY <1>1, <1>2, <1>3 DEF Queue!Contains

LEMMA HeadOrTail ==
  ASSUME NEW S, NEW s \in Seq(S), s # <<>>, NEW k \in DOMAIN s
  PROVE  s[k] = Head(s) \/ (k - 1 \in DOMAIN Tail(s) /\ Tail(s)[k - 1] = s[k])
OBVIOUS

LEMMA DequeueContains ==
  ASSUME Queue!TypeOK, NEW item, Queue!Dequeue(item), NEW other,
         Queue!Contains(other)
  PROVE  other = item \/ Queue!Contains(other)'
<1>1. PICK p \in Priorities :
        /\ queue[p] # <<>>
        /\ item = Head(queue[p])
        /\ queue' = [queue EXCEPT ![p] = Tail(@)]
  BY DEF Queue!Dequeue
<1>2. /\ queue[p] \in Seq(Items) /\ queue'[p] = Tail(queue[p])
      /\ \A q \in Priorities \ {p} : queue'[q] = queue[q]
  BY <1>1 DEF Queue!TypeOK
<1>3. PICK q \in Priorities : \E k \in DOMAIN queue[q] : queue[q][k] = other
  BY DEF Queue!Contains
<1>4. CASE q # p
  BY <1>2, <1>3, <1>4 DEF Queue!Contains
<1>5. CASE q = p
  <2>1. PICK k \in DOMAIN queue[p] : queue[p][k] = other
    BY <1>3, <1>5
  <2>2. \/ other = item
        \/ k - 1 \in DOMAIN queue'[p] /\ queue'[p][k - 1] = other
    BY <1>1, <1>2, <2>1, HeadOrTail
  <2> QED BY <2>2 DEF Queue!Contains
<1> QED BY <1>4, <1>5

(* Only the head of the first lane that is not empty can be taken.         *)
LEMMA SameHead ==
  ASSUME NEW item, Queue!Dequeue(item), NEW other, Queue!Dequeue(other)
  PROVE  other = item
<1>1. PICK p \in Priorities :
        /\ queue[p] # <<>> /\ item = Head(queue[p])
        /\ \A q \in Priorities : q < p => queue[q] = <<>>
  BY DEF Queue!Dequeue
<1>2. PICK q \in Priorities :
        /\ queue[q] # <<>> /\ other = Head(queue[q])
        /\ \A r \in Priorities : r < q => queue[r] = <<>>
  BY DEF Queue!Dequeue
<1>3. p \in Int /\ q \in Int
  BY SetsAssumption
<1>4. p = q
  BY <1>1, <1>2, <1>3
<1> QED BY <1>1, <1>2, <1>4

(* The steps that take an item from the queue.                             *)
LEMMA DequeueSteps ==
  ASSUME TypeInv, [Next]_vars, NEW item \in Items, Queue!Contains(item)
  PROVE  \/ Queue!Contains(item)'
         \/ \E th \in Threads : /\ DequeueMatch(th) \/ DequeueSkip(th)
                                /\ Queue!Dequeue(item)
<1>0. Queue!TypeOK /\ thread \in [Threads -> Call]
  BY DEF TypeOK
<1>1. CASE UNCHANGED queue
  BY <1>1 DEF Queue!Contains
<1>2. ASSUME NEW other \in Items, Queue!Enqueue(other)
      PROVE  Queue!Contains(item)'
  BY <1>0, <1>2, EnqueueContains
<1>3. ASSUME NEW th \in Threads, Advance(th)
      PROVE  \/ UNCHANGED queue
             \/ \E other \in Items : Queue!Enqueue(other)
             \/ /\ DequeueMatch(th) \/ DequeueSkip(th)
                /\ \E other \in Items : Queue!Dequeue(other)
  <2> DEFINE c == thread[th]
  <2>0. c \in Call
    BY <1>0
  <2>1. CASE EnqueueSlice(th)
    <3>1. c.task \in Tasks /\ c.next \in DOMAIN SliceList[c.task]
      BY <2>0, <2>1, CallFields DEF EnqueueSlice, At, LoopsInRange, LoopInRange
    <3> QED BY <2>1, <3>1, SliceIsItem DEF EnqueueSlice
  <2>2. CASE Requeue(th)
    <3>1. c.skipped \in Seq(Items) /\ c.skipped # <<>>
      BY <2>0, <2>2, CallFields DEF Requeue, At, LoopsInRange, LoopInRange
    <3>2. Head(c.skipped) \in Items
      BY <3>1
    <3> QED BY <2>2, <3>2 DEF Requeue
  <2>3. CASE RetryOrRecord(th)
    <3>1. TaskOf(c.item) \in Tasks
      BY <2>0, <2>3, CallFields, TaskOfItem DEF RetryOrRecord, At, ReportOps
    <3> QED BY <2>3, <3>1, WholeIsItem DEF RetryOrRecord
  <2> QED BY <1>3, <2>1, <2>2, <2>3
      DEF Advance, PublishSlices, CancelWrite, CancelRecord, DequeueMatch,
          DequeueSkip, DequeueEmpty, Prefetch, CommitAssignment,
          ActivateWorker, Reply, ReleaseSlot, MergeIfComplete
<1>4. ASSUME NEW th \in Threads, NEW other \in Items, Queue!Dequeue(other),
             DequeueMatch(th) \/ DequeueSkip(th)
      PROVE  Queue!Contains(item)' \/ Queue!Dequeue(item)
  BY <1>0, <1>4, DequeueContains
<1>5. ASSUME NEW th \in Threads, ClientCall(th) \/ WorkerCall(th)
      PROVE  UNCHANGED queue
  BY <1>5 DEF ClientCall, WorkerCall, Submit, Cancel, Poll, CompleteSlice,
              FailSlice, FailAfterComplete, RecordFailure
<1>6. ASSUME NEW w \in Workers, WorkerStep(w) PROVE UNCHANGED queue
  BY <1>6 DEF WorkerStep, RegisterWorker, Heartbeat, Drain, LeaveLoop,
              CloseHttp, Crash, FallSilent
<1>7. ASSUME CheckLoop \/ UNCHANGED vars
      PROVE  UNCHANGED queue \/ \E other \in Items : Queue!Enqueue(other)
  BY <1>7 DEF CheckLoop, CheckTimeouts, BeginReassign, ReassignItem,
              EndReassign, vars
<1> QED BY <1>1, <1>2, <1>3, <1>4, <1>5, <1>6, <1>7 DEF Next

-----------------------------------------------------------------------------
(* No slice is lost on its way to a worker, unless a scan forgets what it  *)
(* has skipped or fetching its data fails.                                 *)

LEMMA QueueGoesOn ==
  ASSUME TypeInv, [Next]_vars, NEW item \in Items, Queue!Contains(item)
  PROVE  \/ Queue!Contains(item)'
         \/ \E th \in Threads : /\ Carries(thread'[th], item)
                                /\ thread'[th].op \in {"dequeue", "prefetch"}
<1>1. ASSUME NEW th \in Threads, DequeueMatch(th) \/ DequeueSkip(th),
             Queue!Dequeue(item)
      PROVE  /\ Carries(thread'[th], item)
             /\ thread'[th].op \in {"dequeue", "prefetch"}
  <2> DEFINE c == thread[th]
  <2>0. /\ thread \in [Threads -> Call] /\ c.skipped \in Seq(Items)
        /\ Queue!TypeOK
    BY <1>1, CallFields DEF TypeOK, DequeueMatch, DequeueSkip, At
  <2>1. PICK other \in Items :
          /\ Queue!Dequeue(other)
          /\ \/ Goto(th, [op |-> "prefetch", worker |-> c.worker,
                          item |-> other])
             \/ Goto(th, [op |-> "dequeue", worker |-> c.worker,
                          skipped |-> Append(c.skipped, other)])
    BY <1>1 DEF DequeueMatch, DequeueSkip
  <2>2. other = item
    BY <2>1, <1>1, SameHead
  <2>3. CASE Goto(th, [op |-> "prefetch", worker |-> c.worker, item |-> item])
    BY <2>0, <2>3 DEF Goto, Carries
  <2>4. CASE Goto(th, [op |-> "dequeue", worker |-> c.worker,
                       skipped |-> Append(c.skipped, item)])
    <3>1. /\ Len(c.skipped) + 1 \in DOMAIN Append(c.skipped, item)
          /\ Append(c.skipped, item)[Len(c.skipped) + 1] = item
      BY <2>0
    <3> QED BY <2>0, <2>4, <3>1 DEF Goto, Carries
  <2> QED BY <2>1, <2>2, <2>3, <2>4
<1> QED BY <1>1, DequeueSteps

LEMMA CallGoesOn ==
  ASSUME TypeInv, [Next]_vars, Never({"forget", "prefetchError"})',
         NEW th \in Threads, NEW item \in Items, Carries(thread[th], item)
  PROVE  \/ Queue!Contains(item)'
         \/ /\ Carries(thread'[th], item)
            /\ \/ thread'[th].op \notin {"activate", "reply"}
               \/ thread[th].op = "activate"
               \/ thread[th].op = "reply" /\ thread'[th] = thread[th]
               \/ CommitAssignment(th) /\ thread[th].item = item
         \/ Reply(th) /\ thread[th].item = item
<1> DEFINE c == thread[th]
<1>0. thread \in [Threads -> Call] /\ c \in Call /\ Queue!TypeOK
  BY DEF TypeOK
<1>1. c.op \in {"enqueue", "dequeue", "requeue", "prefetch", "commit",
                "activate", "reply"}
  BY DEF Carries
<1>2. CASE thread'[th] = thread[th]
  BY <1>1, <1>2
<1>3. CASE EnqueueSlice(th)
  <2>1. /\ c.task \in Tasks /\ c.next \in DOMAIN SliceList[c.task]
        /\ SliceList[c.task] \in Seq(Nat)
    BY <1>0, <1>3, CallFields, SliceLists
       DEF EnqueueSlice, At, LoopsInRange, LoopInRange
  <2>2. PICK k \in DOMAIN SliceList[c.task] :
          k >= c.next /\ item = <<c.task, SliceList[c.task][k]>>
    BY <1>3 DEF Carries, EnqueueSlice, At
  <2>3. CASE k = c.next
    BY <1>0, <1>3, <2>2, <2>3, EnqueueContains DEF EnqueueSlice
  <2>4. CASE k # c.next
    <3>1. k >= c.next + 1 /\ c.next # Len(SliceList[c.task])
      BY <2>1, <2>2, <2>4
    <3>2. thread'[th] = [op |-> "enqueue", task |-> c.task, next |-> c.next + 1]
      BY <1>0, <1>3, <3>1 DEF EnqueueSlice, Goto
    <3> QED BY <2>2, <3>1, <3>2 DEF Carries
  <2> QED BY <2>3, <2>4
<1>4. CASE DequeueMatch(th)
  <2>1. c.skipped = <<>>
    BY <1>4 DEF DequeueMatch, Never
  <2> QED BY <1>4, <2>1 DEF DequeueMatch, At, Carries
<1>5. CASE DequeueSkip(th)
  <2>1. PICK k \in DOMAIN c.skipped : c.skipped[k] = item
    BY <1>5 DEF DequeueSkip, At, Carries
  <2>2. PICK other \in Items :
          thread'[th] = [op |-> "dequeue", worker |-> c.worker,
                         skipped |-> Append(c.skipped, other)]
    BY <1>0, <1>5 DEF DequeueSkip, Goto
  <2>3. c.skipped \in Seq(Items)
    BY <1>0, <1>5, CallFields DEF DequeueSkip, At
  <2>4. /\ k \in DOMAIN Append(c.skipped, other)
        /\ Append(c.skipped, other)[k] = item
    BY <2>1, <2>3
  <2> QED BY <2>2, <2>4 DEF Carries
<1>6. CASE DequeueEmpty(th)
  <2>1. PICK k \in DOMAIN c.skipped : c.skipped[k] = item
    BY <1>6 DEF DequeueEmpty, At, Carries
  <2>2. c.skipped \in Seq(Items)
    BY <1>0, <1>6, CallFields DEF DequeueEmpty, At
  <2>3. c.skipped # <<>>
    BY <2>1, <2>2
  <2>4. thread'[th] = [op |-> "requeue", worker |-> c.worker,
                       skipped |-> c.skipped]
    BY <1>0, <1>6, <2>3 DEF DequeueEmpty, Goto
  <2> QED BY <2>1, <2>4 DEF Carries
<1>7. CASE Requeue(th)
  <2>1. PICK k \in DOMAIN c.skipped : c.skipped[k] = item
    BY <1>7 DEF Requeue, At, Carries
  <2>2. c.skipped \in Seq(Items) /\ c.skipped # <<>>
    BY <1>0, <1>7, CallFields DEF Requeue, At, LoopsInRange, LoopInRange
  <2>3. CASE item = Head(c.skipped)
    BY <1>0, <1>7, <2>3, EnqueueContains DEF Requeue
  <2>4. CASE item # Head(c.skipped)
    <3>1. k - 1 \in DOMAIN Tail(c.skipped) /\ Tail(c.skipped)[k - 1] = item
      BY <2>1, <2>2, <2>4, HeadOrTail
    <3>2. Len(c.skipped) # 1
      BY <2>1, <2>2, <2>4
    <3>3. thread'[th] = [op |-> "requeue", worker |-> c.worker,
                         skipped |-> Tail(c.skipped)]
      BY <1>0, <1>7, <3>2 DEF Requeue, Goto
    <3> QED BY <3>1, <3>3 DEF Carries
  <2> QED BY <2>3, <2>4
<1>8. CASE Prefetch(th)
  <2>1. thread'[th] = [op |-> "commit", worker |-> c.worker, item |-> c.item]
    BY <1>0, <1>8 DEF Prefetch, Goto, Occurs, Never
  <2> QED BY <1>8, <2>1 DEF Prefetch, At, Carries
<1>9. CASE CommitAssignment(th)
  <2>1. thread'[th] = [op |-> "activate", worker |-> c.worker, item |-> c.item]
    BY <1>0, <1>9 DEF CommitAssignment, Goto
  <2> QED BY <1>9, <2>1 DEF CommitAssignment, At, Carries
<1>10. CASE ActivateWorker(th)
  <2>1. thread'[th] = [op |-> "reply", worker |-> c.worker, item |-> c.item]
    BY <1>0, <1>10 DEF ActivateWorker, Goto
  <2> QED BY <1>10, <2>1 DEF ActivateWorker, At, Carries
<1>11. CASE Reply(th)
  BY <1>11 DEF Reply, At, Carries
<1>12. Advance(th) \/ thread'[th] = thread[th]
  BY <1>1, ThreadSteps DEF Idle
<1> QED BY <1>1, <1>2, <1>3, <1>4, <1>5, <1>6, <1>7, <1>8, <1>9, <1>10, <1>11,
           <1>12
    DEF Advance, PublishSlices, CancelWrite, CancelRecord, ReleaseSlot,
        MergeIfComplete, RetryOrRecord, At, ReportOps

(* Once the slices of a task are set, what is stored of them stays, as     *)
(* long as the id is not submitted again.                                  *)
LEMMA PublishedSteps ==
  ASSUME TypeInv, [Next]_vars, NEW t \in Tasks, published'[t]
  PROVE  \/ published[t] /\ partials[t] \subseteq partials'[t]
         \/ \E th \in Threads : PublishSlices(th) /\ thread[th].task = t
<1>0. published \in [Tasks -> BOOLEAN] /\ partials \in [Tasks -> SUBSET Items]
  BY DEF TypeOK
<1>1. ASSUME NEW th \in Threads, NEW u \in Tasks, Submit(th, u)
      PROVE  published[t] /\ partials[t] \subseteq partials'[t]
  BY <1>0, <1>1 DEF Submit, FreshTaskState, FreshInfo
<1>2. ASSUME NEW th \in Threads, PublishSlices(th), thread[th].task # t
      PROVE  published[t] /\ partials[t] \subseteq partials'[t]
  BY <1>0, <1>2 DEF PublishSlices, partVars
<1>3. ASSUME NEW th \in Threads, NEW w \in Workers, NEW item \in Items,
             CompleteSlice(th, w, item)
      PROVE  published[t] /\ partials[t] \subseteq partials'[t]
  BY <1>0, <1>3 DEF CompleteSlice
<1>4. ASSUME NEW th \in Threads, MergeIfComplete(th)
      PROVE  published[t] /\ partials[t] \subseteq partials'[t]
  BY <1>4 DEF MergeIfComplete, partVars
<1> QED BY <1>1, <1>2, <1>3, <1>4, ResultSteps DEF partVars

(* Setting the slices hands them all to the loop that enqueues them.       *)
LEMMA PublishCarries ==
  ASSUME TypeInv, NEW th \in Threads, PublishSlices(th),
         NEW item \in SlicesOf(thread[th].task)
  PROVE  Carries(thread'[th], item) /\ thread'[th].op = "enqueue"
<1> DEFINE t == thread[th].task
<1>1. t \in Tasks /\ thread \in [Threads -> Call]
  BY CallFields DEF PublishSlices, At, TypeOK
<1>2. PICK k \in DOMAIN SliceList[t] : item = <<t, SliceList[t][k]>>
  BY DEF SlicesOf
<1>3. SliceList[t] # <<>> /\ k >= 1
  BY <1>1, <1>2, SliceLists
<1>4. thread'[th] = [op |-> "enqueue", task |-> t, next |-> 1]
  BY <1>1, <1>3 DEF PublishSlices, Goto
<1> QED BY <1>2, <1>3, <1>4 DEF Carries

(* An execution goes on until it is reported or its process ends.          *)
LEMMA HeldSteps ==
  ASSUME TypeInv, [Next]_vars, NEW w \in Workers, NEW item \in Items,
         held[<<w, item>>] > 0
  PROVE  \/ held'[<<w, item>>] > 0
         \/ \E th \in Threads : \/ CompleteSlice(th, w, item)
                                \/ FailSlice(th, w, item)
         \/ CloseHttp(w) \/ Crash(w)
<1>0. held \in [Workers \X Items -> Nat]
  BY DEF TypeOK
<1>1. ASSUME NEW th \in Threads, Advance(th) PROVE held'[<<w, item>>] > 0
  <2>1. CASE Reply(th)
    <3>1. \/ held' = held
          \/ LET e == <<thread[th].worker, thread[th].item>>
             IN  held' = [held EXCEPT ![e] = @ + 1]
      BY <2>1 DEF Reply
    <3> QED BY <1>0, <3>1
  <2> QED BY <1>1, <2>1
      DEF Advance, PublishSlices, EnqueueSlice, CancelWrite, CancelRecord,
          DequeueMatch, DequeueSkip, DequeueEmpty, Requeue, Prefetch,
          CommitAssignment, ActivateWorker, ReleaseSlot, MergeIfComplete,
          RetryOrRecord, envVars
<1>2. ASSUME NEW th \in Threads, ClientCall(th) \/ WorkerCall(th)
      PROVE  \/ held'[<<w, item>>] > 0
             \/ CompleteSlice(th, w, item) \/ FailSlice(th, w, item)
  <2>1. ASSUME NEW v \in Workers, NEW other \in Items,
               CompleteSlice(th, v, other) \/ FailSlice(th, v, other),
               <<v, other>> # <<w, item>>
        PROVE  held'[<<w, item>>] > 0
    BY <1>0, <2>1 DEF CompleteSlice, FailSlice
  <2> QED BY <1>2, <2>1
      DEF ClientCall, WorkerCall, Submit, Cancel, Poll, FailAfterComplete,
          envVars
<1>3. ASSUME NEW v \in Workers, WorkerStep(v)
      PROVE  held'[<<w, item>>] > 0 \/ CloseHttp(w) \/ Crash(w)
  BY <1>3 DEF WorkerStep, RegisterWorker, Heartbeat, Drain, LeaveLoop,
              CloseHttp, Crash, FallSilent, DropExecutions, envVars
<1>4. ASSUME CheckLoop \/ UNCHANGED vars PROVE held' = held
  BY <1>4 DEF CheckLoop, CheckTimeouts, BeginReassign, ReassignItem,
              EndReassign, vars, envVars
<1> QED BY <1>1, <1>2, <1>3, <1>4 DEF Next

LEMMA PhaseSteps ==
  ASSUME TypeInv, [Next]_vars, NEW w \in Workers
  PROVE  UNCHANGED phase \/ WorkerStep(w)
         \/ \E v \in Workers \ {w} : WorkerStep(v) /\ phase'[w] = phase[w]
<1>1. ASSUME NEW th \in Threads, Advance(th) PROVE UNCHANGED phase
  BY <1>1 DEF Advance, PublishSlices, EnqueueSlice, CancelWrite, CancelRecord,
              DequeueMatch, DequeueSkip, DequeueEmpty, Requeue, Prefetch,
              CommitAssignment, ActivateWorker, Reply, ReleaseSlot,
              MergeIfComplete, RetryOrRecord, envVars
<1>2. ASSUME NEW th \in Threads, ClientCall(th) \/ WorkerCall(th)
      PROVE  UNCHANGED phase
  BY <1>2 DEF ClientCall, WorkerCall, Submit, Cancel, Poll, CompleteSlice,
              FailSlice, FailAfterComplete, RecordFailure, envVars
<1>3. ASSUME NEW v \in Workers \ {w}, WorkerStep(v) PROVE phase'[w] = phase[w]
  BY <1>3 DEF WorkerStep, RegisterWorker, Heartbeat, Drain, LeaveLoop,
              CloseHttp, Crash, FallSilent, envVars, TypeOK
<1>4. ASSUME CheckLoop \/ UNCHANGED vars PROVE UNCHANGED phase
  BY <1>4 DEF CheckLoop, CheckTimeouts, BeginReassign, ReassignItem,
              EndReassign, vars, envVars
<1> QED BY <1>1, <1>2, <1>3, <1>4 DEF Next

-----------------------------------------------------------------------------
(* No slice is lost while nothing has failed.  That a slice handed to a    *)
(* worker arrives there rests on the worker being up: it polls only after  *)
(* it has registered.                                                      *)

AllUp ==
  \A w \in Workers : phase[w] \in {"new", "up"} /\ (Polling(w) => phase[w] = "up")

InSight(item) ==
  \/ item \in partials[TaskOf(item)] \/ Queue!Contains(item) \/ Held(item)
  \/ \E th \in Threads : Carries(thread[th], item)

AllInSight ==
  \A t \in Tasks : published[t] => \A item \in SlicesOf(t) : InSight(item)

LossInv == Never(Losing) => AllUp /\ AllInSight

LEMMA CarriedSomehow ==
  ASSUME NEW item
  PROVE  (\E th \in Threads : Carries(thread[th], item))
         <=> ToBeEnqueued(item) \/ Skipped(item) \/ BeingAssigned(item)
BY DEF Carries, ToBeEnqueued, Skipped, BeingAssigned

LEMMA SlicesAreItems ==
  ASSUME NEW t \in Tasks, NEW item \in SlicesOf(t)
  PROVE  item \in Items /\ TaskOf(item) = t
BY SliceIsItem DEF SlicesOf, TaskOf

LEMMA AllUpNext ==
  ASSUME TypeInv, AllUp, [Next]_vars, Never(Losing)'
  PROVE  AllUp'
<1> SUFFICES ASSUME NEW w \in Workers
             PROVE  /\ phase'[w] \in {"new", "up"}
                    /\ Polling(w)' => phase'[w] = "up"
  BY DEF AllUp
<1>1. phase'[w] = phase[w] \/ phase'[w] = "up"
  <2>1. ASSUME WorkerStep(w) PROVE phase'[w] = phase[w] \/ phase'[w] = "up"
    BY <2>1 DEF WorkerStep, RegisterWorker, Heartbeat, Drain, LeaveLoop,
                CloseHttp, Crash, FallSilent, envVars, TypeOK, Occurs, Never,
                Losing, Repeating, AllUp
  <2> QED BY <2>1, PhaseSteps
<1>2. Polling(w)' => phase[w] = "up"
  BY PollingSteps DEF AllUp, Poll
<1> QED BY <1>1, <1>2 DEF AllUp

LEMMA InSightNext ==
  ASSUME TypeInv, AllUp, [Next]_vars, Never(Losing)', NEW item \in Items,
         InSight(item), partials[TaskOf(item)] \subseteq partials'[TaskOf(item)]
  PROVE  InSight(item)'
<1>0. /\ partials \in [Tasks -> SUBSET Items] /\ TaskOf(item) \in Tasks
      /\ held \in [Workers \X Items -> Nat]
      /\ thread \in [Threads -> Call]
  BY TaskOfItem DEF TypeOK
<1>1. CASE item \in partials[TaskOf(item)]
  BY <1>1 DEF InSight
<1>2. CASE Queue!Contains(item)
  BY <1>2, QueueGoesOn DEF InSight
<1>3. ASSUME NEW w \in Workers, held[<<w, item>>] > 0 PROVE InSight(item)'
  <2>1. ASSUME NEW th \in Threads, CompleteSlice(th, w, item)
        PROVE  item \in partials'[TaskOf(item)]
    BY <1>0, <2>1 DEF CompleteSlice
  <2>2. ASSUME NEW th \in Threads PROVE ~FailSlice(th, w, item)
    BY DEF FailSlice, Occurs, Never, Losing, Repeating
  <2>3. ~CloseHttp(w) /\ ~Crash(w)
    BY DEF AllUp, CloseHttp, Crash, Occurs, Never, Losing, Repeating
  <2> QED BY <1>3, <2>1, <2>2, <2>3, HeldSteps DEF InSight, Held
<1>4. ASSUME NEW th \in Threads, Carries(thread[th], item)
      PROVE  InSight(item)'
  <2>1. CASE Reply(th) /\ thread[th].item = item
    <3> DEFINE w == thread[th].worker
    <3>1. w \in Workers /\ Polling(w)
      BY <1>0, <2>1, CallFields DEF Reply, At, Polling, AssignOps
    <3>2. Running(w)
      BY <3>1 DEF AllUp, Running
    <3>3. held' = [held EXCEPT ![<<w, item>>] = @ + 1]
      BY <2>1, <3>2 DEF Reply, Occurs, Never, Losing
    <3>4. held'[<<w, item>>] > 0
      BY <1>0, <3>1, <3>3
    <3> QED BY <3>1, <3>4 DEF InSight, Held
  <2>2. Never({"forget", "prefetchError"})'
    BY DEF Never, Losing
  <2> QED BY <1>4, <2>1, <2>2, CallGoesOn DEF InSight
<1> QED BY <1>1, <1>2, <1>3, <1>4 DEF InSight, Held

LEMMA AllInSightNext ==
  ASSUME TypeInv, AllUp, AllInSight, [Next]_vars, Never(Losing)'
  PROVE  AllInSight'
<1> SUFFICES ASSUME NEW t \in Tasks, published'[t], NEW item \in SlicesOf(t)
             PROVE  InSight(item)'
  BY DEF AllInSight
<1>1. item \in Items /\ TaskOf(item) = t
  BY SlicesAreItems
<1>2. CASE published[t] /\ partials[t] \subseteq partials'[t]
  BY <1>1, <1>2, InSightNext DEF AllInSight
<1>3. ASSUME NEW th \in Threads, PublishSlices(th), thread[th].task = t
      PROVE  InSight(item)'
  BY <1>3, PublishCarries DEF InSight
<1> QED BY <1>2, <1>3, PublishedSteps

(* While no call fails and no worker leaves, every slice of a submitted    *)
(* task is stored, queued, in the hands of a handler or being executed.    *)
THEOREM NothingIsLost == Spec => []NoSliceLost
<1>1. Init => LossInv
  BY DEF Init, LossInv, AllUp, AllInSight, Polling, Idle, AssignOps
<1>2. TypeInv /\ LossInv /\ [Next]_vars => LossInv'
  <2> SUFFICES ASSUME TypeInv, LossInv, [Next]_vars, Never(Losing)'
               PROVE  AllUp' /\ AllInSight'
    BY DEF LossInv
  <2>1. AllUp /\ AllInSight
    BY HappenedGrows DEF LossInv, Never
  <2> QED BY <2>1, AllUpNext, AllInSightNext
<1>3. LossInv => NoSliceLost
  BY CarriedSomehow, SlicesAreItems
     DEF LossInv, NoSliceLost, AllInSight, InSight
<1> QED BY <1>1, <1>2, <1>3, TypeInit, TypeNext, PTL DEF Spec

-----------------------------------------------------------------------------
(* Crashes.  A slice whose worker has crashed comes back because the check *)
(* loop finds the worker online or busy when its heartbeats have stopped;  *)
(* that no handler assigns a slice to a worker given up already rests on a *)
(* worker being heard while its poll is served.                            *)

Crashing == (Losing \ {"crash"}) \cup {"slowPrefetch"}

UpOrCrashed ==
  \A w \in Workers :
    /\ phase[w] \in {"new", "up", "crashed"}
    /\ phase[w] = "new" => wstatus[w] = "absent" /\ ~Polling(w)
    /\ phase[w] = "up" \/ Polling(w) =>
         ~stale[w] /\ wstatus[w] \in {"online", "busy"}

OnItsWay(item) ==
  \/ item \in partials[TaskOf(item)] \/ Queue!Contains(item)
  \/ \E th \in Threads : /\ Carries(thread[th], item)
                         /\ thread[th].op \notin {"activate", "reply"}

WillComeBack(item) == assigned[item] # None /\ WillBeReassigned(assigned[item])

AllComeBack ==
  \A t \in Tasks : published[t] =>
    \A item \in SlicesOf(t) : OnItsWay(item) \/ WillComeBack(item)

CrashInv == Never(Crashing) => UpOrCrashed /\ AllComeBack

(* The steps that may touch what the registry holds of one worker.         *)
LEMMA StatusSteps ==
  ASSUME TypeInv, [Next]_vars, NEW w \in Workers
  PROVE  \/ wstatus'[w] = wstatus[w] /\ stale'[w] = stale[w]
         \/ /\ \/ Registry!IncrementActive(w) /\ Polling(w)
               \/ Registry!DecrementActive(w)
            /\ UNCHANGED phase
         \/ RegisterWorker(w) \/ Heartbeat(w) \/ LeaveLoop(w) \/ FallSilent(w)
         \/ CheckTimeouts
<1>0. Registry!TypeOK /\ thread \in [Threads -> Call]
  BY DEF TypeOK
<1>1. ASSUME NEW th \in Threads, Advance(th)
      PROVE  \/ UNCHANGED regVars
             \/ \E v \in Workers :
                  /\ \/ Registry!IncrementActive(v) /\ Polling(v)
                     \/ Registry!DecrementActive(v)
                  /\ UNCHANGED phase
  <2>1. CASE ActivateWorker(th)
    <3>1. thread[th].worker \in Workers /\ Polling(thread[th].worker)
      BY <1>0, <2>1, CallFields DEF ActivateWorker, At, Polling, AssignOps
    <3> QED BY <2>1, <3>1 DEF ActivateWorker, envVars
  <2>2. CASE ReleaseSlot(th)
    <3>1. thread[th].worker \in Workers
      BY <1>0, <2>2, CallFields DEF ReleaseSlot, ReportOps
    <3> QED BY <2>2, <3>1 DEF ReleaseSlot, envVars
  <2> QED BY <1>1, <2>1, <2>2
      DEF Advance, PublishSlices, EnqueueSlice, CancelWrite, CancelRecord,
          DequeueMatch, DequeueSkip, DequeueEmpty, Requeue, Prefetch,
          CommitAssignment, Reply, MergeIfComplete, RetryOrRecord
<1>2. ASSUME NEW v \in Workers \ {w},
             Registry!IncrementActive(v) \/ Registry!DecrementActive(v)
      PROVE  wstatus'[w] = wstatus[w] /\ stale'[w] = stale[w]
  BY <1>0, <1>2 DEF Registry!IncrementActive, Registry!DecrementActive,
                    Registry!TypeOK
<1>3. ASSUME NEW th \in Threads, ClientCall(th) \/ WorkerCall(th)
      PROVE  UNCHANGED regVars
  BY <1>3 DEF ClientCall, WorkerCall, Submit, Cancel, Poll, CompleteSlice,
              FailSlice, FailAfterComplete, RecordFailure
<1>4. ASSUME NEW v \in Workers \ {w}, WorkerStep(v)
      PROVE  wstatus'[w] = wstatus[w] /\ stale'[w] = stale[w]
  BY <1>0, <1>4
     DEF WorkerStep, RegisterWorker, Heartbeat, Drain, LeaveLoop, CloseHttp,
         Crash, FallSilent, regVars, Registry!Register,
         Registry!UpdateHeartbeat, Registry!Unregister, Registry!FallSilent,
         Registry!TypeOK
<1>5. ASSUME WorkerStep(w)
      PROVE  \/ UNCHANGED regVars \/ RegisterWorker(w) \/ Heartbeat(w)
             \/ LeaveLoop(w) \/ FallSilent(w)
  BY <1>5 DEF WorkerStep, Drain, CloseHttp, Crash
<1>6. ASSUME CheckLoop \/ UNCHANGED vars
      PROVE  UNCHANGED regVars \/ CheckTimeouts
  BY <1>6 DEF CheckLoop, BeginReassign, ReassignItem, EndReassign, vars
<1>7. ASSUME UNCHANGED regVars
      PROVE  wstatus'[w] = wstatus[w] /\ stale'[w] = stale[w]
  BY <1>7 DEF regVars
<1> QED BY <1>1, <1>2, <1>3, <1>4, <1>5, <1>6, <1>7 DEF Next

(* Under the excuses of CrashRecoverable, each of them but one.            *)
LEMMA CrashingSteps ==
  ASSUME TypeInv, UpOrCrashed, [Next]_vars, Never(Crashing)', NEW w \in Workers
  PROVE  /\ ~LeaveLoop(w) /\ ~Drain(w) /\ ~CloseHttp(w)
         /\ FallSilent(w) => ~Running(w) /\ ~Polling(w)
         /\ Heartbeat(w) => /\ phase[w] = "up" /\ stale'[w] = FALSE
                            /\ wstatus'[w] \in {"online", "busy"}
<1> USE DEF Never, Crashing, Losing, Repeating, UpOrCrashed
<1>1. ~LeaveLoop(w) /\ ~Drain(w) /\ ~CloseHttp(w)
  BY DEF LeaveLoop, Drain, CloseHttp, Occurs
<1>2. FallSilent(w) => ~Running(w) /\ ~Polling(w)
  BY DEF FallSilent, OccurAll
<1>3. ASSUME Heartbeat(w)
      PROVE  /\ phase[w] = "up" /\ stale'[w] = FALSE
             /\ wstatus'[w] \in {"online", "busy"}
  BY <1>3 DEF Heartbeat, Running, Registry!UpdateHeartbeat,
              Registry!StatusAfterHeartbeat, TypeOK, Registry!TypeOK
<1> QED BY <1>1, <1>2, <1>3

LEMMA UpOrCrashedNext ==
  ASSUME TypeInv, UpOrCrashed, [Next]_vars, Never(Crashing)'
  PROVE  UpOrCrashed'
<1> SUFFICES ASSUME NEW w \in Workers
             PROVE  /\ phase'[w] \in {"new", "up", "crashed"}
                    /\ phase'[w] = "new" =>
                         wstatus'[w] = "absent" /\ ~Polling(w)'
                    /\ phase'[w] = "up" \/ Polling(w)' =>
                         ~stale'[w] /\ wstatus'[w] \in {"online", "busy"}
  BY DEF UpOrCrashed
<1>0. /\ phase[w] \in {"new", "up", "crashed"}
      /\ phase[w] = "new" => wstatus[w] = "absent" /\ ~Polling(w)
      /\ phase[w] = "up" \/ Polling(w) =>
           ~stale[w] /\ wstatus[w] \in {"online", "busy"}
      /\ Registry!TypeOK /\ phase \in [Workers -> Phases]
  BY DEF UpOrCrashed, TypeOK
<1>1. Polling(w)' => Polling(w) \/ phase[w] = "up"
  BY <1>0, PollingSteps DEF Poll
<1>2. \/ phase'[w] = phase[w]
      \/ RegisterWorker(w) /\ phase[w] = "new" /\ phase'[w] = "up"
      \/ Crash(w) /\ phase[w] = "up" /\ phase'[w] = "crashed"
  <2>1. ASSUME WorkerStep(w)
        PROVE  \/ phase'[w] = phase[w]
               \/ RegisterWorker(w) /\ phase[w] = "new" /\ phase'[w] = "up"
               \/ Crash(w) /\ phase[w] = "up" /\ phase'[w] = "crashed"
    BY <1>0, <2>1, CrashingSteps
       DEF WorkerStep, RegisterWorker, Heartbeat, Crash, FallSilent, Running,
           envVars
  <2> QED BY <2>1, PhaseSteps
<1>3. CASE wstatus'[w] = wstatus[w] /\ stale'[w] = stale[w]
  <2>1. ~RegisterWorker(w)
    BY <1>0, <1>3 DEF RegisterWorker, Registry!Register, Registry!TypeOK
  <2> QED BY <1>0, <1>1, <1>2, <1>3, <2>1
<1>4. CASE /\ Registry!IncrementActive(w) \/ Registry!DecrementActive(w)
           /\ UNCHANGED phase
  BY <1>0, <1>1, <1>4
     DEF Registry!IncrementActive, Registry!DecrementActive, Registry!Known,
         Registry!TypeOK
<1>5. CASE RegisterWorker(w)
  BY <1>0, <1>5 DEF RegisterWorker, Registry!Register, Registry!TypeOK
<1>6. CASE Heartbeat(w)
  <2>1. phase' = phase
    BY <1>6 DEF Heartbeat, envVars
  <2> QED BY <1>6, <2>1, CrashingSteps
<1>7. CASE FallSilent(w)
  <2>1. UNCHANGED <<phase, thread, wstatus>>
    BY <1>7 DEF FallSilent, Registry!FallSilent
  <2>2. phase[w] # "up" /\ ~Polling(w) /\ Registry!Known(w)
    BY <1>7, CrashingSteps DEF FallSilent, Registry!FallSilent, Running
  <2>3. ~Polling(w)'
    BY <2>1, <2>2 DEF Polling
  <2> QED BY <1>0, <2>1, <2>2, <2>3 DEF Registry!Known
<1>8. CASE CheckTimeouts
  <2>1. UNCHANGED <<phase, thread, stale>>
    BY <1>8 DEF CheckTimeouts, Registry!CheckTimeouts, envVars
  <2>2. wstatus'[w] = IF w \in Registry!TimedOut THEN "offline" ELSE wstatus[w]
    BY <1>8 DEF CheckTimeouts, Registry!CheckTimeouts
  <2>3. w \in Registry!TimedOut => wstatus[w] \in {"online", "busy"} /\ stale[w]
    BY DEF Registry!TimedOut
  <2>4. Polling(w)' = Polling(w)
    BY <2>1 DEF Polling
  <2> QED BY <1>0, <2>1, <2>2, <2>3, <2>4
<1> QED BY <1>3, <1>4, <1>5, <1>6, <1>7, <1>8, StatusSteps, CrashingSteps

LEMMA AssignedSteps ==
  ASSUME TypeInv, [Next]_vars, NEW item \in Items
  PROVE  \/ assigned'[item] = assigned[item]
         \/ \E th \in Threads : /\ CommitAssignment(th)
                                /\ thread[th].item = item
                                /\ assigned'[item] = thread[th].worker
         \/ ReassignItem(item)
         \/ \E th \in Threads : Submit(th, TaskOf(item))
<1>0. assigned \in [Items -> Workers \cup {None}]
  BY DEF TypeOK
<1>1. ASSUME NEW th \in Threads, Advance(th)
      PROVE  \/ assigned'[item] = assigned[item]
             \/ /\ CommitAssignment(th) /\ thread[th].item = item
                /\ assigned'[item] = thread[th].worker
  <2>1. CASE CommitAssignment(th)
    BY <1>0, <2>1 DEF CommitAssignment
  <2> QED BY <1>1, <2>1
      DEF Advance, PublishSlices, EnqueueSlice, CancelWrite, CancelRecord,
          DequeueMatch, DequeueSkip, DequeueEmpty, Requeue, Prefetch,
          ActivateWorker, Reply, ReleaseSlot, MergeIfComplete, RetryOrRecord,
          tables
<1>2. ASSUME NEW th \in Threads, ClientCall(th) \/ WorkerCall(th)
      PROVE  assigned'[item] = assigned[item] \/ Submit(th, TaskOf(item))
  <2>1. ASSUME NEW t \in Tasks, Submit(th, t), TaskOf(item) # t
        PROVE  assigned'[item] = assigned[item]
    BY <2>1 DEF Submit, FreshTaskState
  <2> QED BY <1>2, <2>1
          DEF ClientCall, WorkerCall, Cancel, Poll, CompleteSlice, FailSlice,
              FailAfterComplete, RecordFailure, tables
<1>3. ASSUME NEW w \in Workers, WorkerStep(w) PROVE assigned' = assigned
  BY <1>3 DEF WorkerStep, RegisterWorker, Heartbeat, Drain, LeaveLoop,
              CloseHttp, Crash, FallSilent, tables
<1>4. ASSUME CheckLoop \/ UNCHANGED vars
      PROVE  assigned'[item] = assigned[item] \/ ReassignItem(item)
  BY <1>0, <1>4 DEF CheckLoop, CheckTimeouts, BeginReassign, ReassignItem,
                    EndReassign, vars, tables
<1> QED BY <1>1, <1>2, <1>3, <1>4 DEF Next

LEMMA TimedOutSteps ==
  ASSUME TypeInv, [Next]_vars, NEW w \in timedOut
  PROVE  w \in timedOut' \/ (EndReassign /\ w = reassigning)
<1>1. ASSUME NEW th \in Threads,
             Advance(th) \/ ClientCall(th) \/ WorkerCall(th)
      PROVE  UNCHANGED checkVars
  BY <1>1 DEF Advance, PublishSlices, EnqueueSlice, CancelWrite, CancelRecord,
              DequeueMatch, DequeueSkip, DequeueEmpty, Requeue, Prefetch,
              CommitAssignment, ActivateWorker, Reply, ReleaseSlot,
              MergeIfComplete, RetryOrRecord, ClientCall, WorkerCall, Submit,
              Cancel, Poll, CompleteSlice, FailSlice, FailAfterComplete,
              RecordFailure
<1>2. ASSUME NEW v \in Workers, WorkerStep(v) PROVE UNCHANGED checkVars
  BY <1>2 DEF WorkerStep, RegisterWorker, Heartbeat, Drain, LeaveLoop,
              CloseHttp, Crash, FallSilent
<1>3. ASSUME CheckLoop \/ UNCHANGED vars
      PROVE  w \in timedOut' \/ (EndReassign /\ w = reassigning)
  BY <1>3 DEF CheckLoop, CheckTimeouts, BeginReassign, ReassignItem,
              EndReassign, vars, checkVars
<1> QED BY <1>1, <1>2, <1>3 DEF Next, checkVars

LEMMA StaysReassignable ==
  ASSUME TypeInv, UpOrCrashed, [Next]_vars, Never(Crashing)', NEW w \in Workers,
         WillBeReassigned(w)
  PROVE  WillBeReassigned(w)' \/ (EndReassign /\ w = reassigning)
<1>0. Registry!TypeOK
  BY DEF TypeOK
<1>1. CASE w \in timedOut
  BY <1>1, TimedOutSteps DEF WillBeReassigned
<1>2. CASE wstatus[w] \in {"online", "busy"}
  <2>1. CASE Registry!IncrementActive(w) \/ Registry!DecrementActive(w)
    BY <1>0, <1>2, <2>1
       DEF WillBeReassigned, Registry!IncrementActive,
           Registry!DecrementActive, Registry!TypeOK
  <2>2. CASE RegisterWorker(w)
    BY <1>0, <2>2 DEF WillBeReassigned, RegisterWorker, Registry!Register,
                      Registry!TypeOK
  <2>3. CASE Heartbeat(w)
    BY <2>3, CrashingSteps DEF WillBeReassigned
  <2>4. CASE FallSilent(w)
    BY <1>2, <2>4 DEF WillBeReassigned, FallSilent, Registry!FallSilent
  <2>5. CASE CheckTimeouts
    BY <1>2, <2>5 DEF WillBeReassigned, CheckTimeouts, Registry!CheckTimeouts
  <2>6. CASE wstatus'[w] = wstatus[w]
    BY <1>2, <2>6 DEF WillBeReassigned
  <2> QED BY <2>1, <2>2, <2>3, <2>4, <2>5, <2>6, StatusSteps, CrashingSteps
<1> QED BY <1>1, <1>2 DEF WillBeReassigned

LEMMA ComesBackNext ==
  ASSUME TypeInv, UpOrCrashed, UpOrCrashed', [Next]_vars, Never(Crashing)',
         NEW t \in Tasks, NEW item \in SlicesOf(t), published[t], published'[t],
         partials[t] \subseteq partials'[t],
         OnItsWay(item) \/ WillComeBack(item)
  PROVE  OnItsWay(item)' \/ WillComeBack(item)'
<1>0. /\ item \in Items /\ TaskOf(item) = t
      /\ thread \in [Threads -> Call] /\ Queue!TypeOK
      /\ assigned \in [Items -> Workers \cup {None}]
  BY SlicesAreItems DEF TypeOK
<1>1. CASE item \in partials[t]
  BY <1>0, <1>1 DEF OnItsWay
<1>2. CASE Queue!Contains(item)
  BY <1>0, <1>2, QueueGoesOn DEF OnItsWay
<1>3. ASSUME NEW th \in Threads, CommitAssignment(th), thread[th].item = item
      PROVE  WillComeBack(item)'
  <2> DEFINE w == thread[th].worker
  <2>1. w \in Workers /\ Polling(w) /\ assigned'[item] = w
    BY <1>0, <1>3, CallFields DEF CommitAssignment, At, Polling, AssignOps
  <2>2. wstatus'[w] \in {"online", "busy"}
    <3>1. wstatus' = wstatus
      BY <1>3 DEF CommitAssignment, regVars
    <3> QED BY <2>1, <3>1 DEF UpOrCrashed
  <2> QED BY <2>1, <2>2, NoneAssumption DEF WillComeBack, WillBeReassigned
<1>4. ASSUME NEW th \in Threads, Carries(thread[th], item),
             thread[th].op \notin {"activate", "reply"}
      PROVE  OnItsWay(item)' \/ WillComeBack(item)'
  <2>1. Never({"forget", "prefetchError"})'
    BY DEF Never, Crashing, Losing
  <2>2. ~Reply(th)
    BY <1>4 DEF Reply, At
  <2> QED BY <1>0, <1>3, <1>4, <2>1, <2>2, CallGoesOn DEF OnItsWay
<1>5. CASE WillComeBack(item)
  <2> DEFINE w == assigned[item]
  <2>1. w \in Workers /\ WillBeReassigned(w)
    BY <1>0, <1>5 DEF WillComeBack
  <2>2. CASE assigned'[item] = w
    <3>1. ~(EndReassign /\ w = reassigning)
      BY <1>0 DEF EndReassign
    <3> QED BY <2>1, <2>2, <3>1, StaysReassignable, NoneAssumption
            DEF WillComeBack
  <2>3. CASE ReassignItem(item)
    <3>1. Queue!Enqueue(item)
      BY <1>0, <2>3 DEF ReassignItem
    <3> QED BY <1>0, <3>1, EnqueueContains DEF OnItsWay
  <2>4. ASSUME NEW th \in Threads PROVE ~Submit(th, TaskOf(item))
    BY <1>0 DEF Submit, FreshTaskState, FreshInfo, TypeOK
  <2> QED BY <1>0, <1>3, <2>2, <2>3, <2>4, AssignedSteps
<1> QED BY <1>0, <1>1, <1>2, <1>4, <1>5 DEF OnItsWay

LEMMA AllComeBackNext ==
  ASSUME TypeInv, UpOrCrashed, UpOrCrashed', AllComeBack, [Next]_vars,
         Never(Crashing)'
  PROVE  AllComeBack'
<1> SUFFICES ASSUME NEW t \in Tasks, published'[t], NEW item \in SlicesOf(t)
             PROVE  OnItsWay(item)' \/ WillComeBack(item)'
  BY DEF AllComeBack
<1>1. CASE published[t] /\ partials[t] \subseteq partials'[t]
  BY <1>1, ComesBackNext DEF AllComeBack
<1>2. ASSUME NEW th \in Threads, PublishSlices(th), thread[th].task = t
      PROVE  OnItsWay(item)'
  BY <1>2, PublishCarries DEF OnItsWay
<1> QED BY <1>1, <1>2, PublishedSteps

(* While workers crash and nothing worse happens, every slice that is not  *)
(* stored is on its way to a worker or will be taken back from one.        *)
THEOREM CrashesAreRecovered == Spec => []CrashRecoverable
<1>1. Init => CrashInv
  BY DEF Init, CrashInv, UpOrCrashed, AllComeBack, Polling, Idle, AssignOps,
         Registry!Init
<1>2. TypeInv /\ CrashInv /\ [Next]_vars => CrashInv'
  <2> SUFFICES ASSUME TypeInv, CrashInv, [Next]_vars, Never(Crashing)'
               PROVE  UpOrCrashed' /\ AllComeBack'
    BY DEF CrashInv
  <2>1. UpOrCrashed /\ AllComeBack
    BY HappenedGrows DEF CrashInv, Never
  <2> QED BY <2>1, UpOrCrashedNext, AllComeBackNext
<1>3. CrashInv => CrashRecoverable
  BY CarriedSomehow, SlicesAreItems
     DEF CrashInv, Crashing, CrashRecoverable, AllComeBack, OnItsWay,
         WillComeBack
<1> QED BY <1>1, <1>2, <1>3, TypeInit, TypeNext, PTL DEF Spec

-----------------------------------------------------------------------------
(* Chapter 4.  A slice is in one place, once.                              *)

(* Nothing that happens puts a second copy of a slice into circulation     *)
(* (Never(Repeating)): no process ends that had something to report, the   *)
(* check loop never finds a worker to give up, and no failure is retried.  *)

NoRetry == \A th \in Threads : thread[th].op \in ReportOps => ~thread[th].retryable

Undisturbed ==
  /\ \A w \in Workers :
       /\ phase[w] \in {"new", "up", "draining", "drained", "gone"}
       /\ phase[w] = "new" => wstatus[w] = "absent"
       /\ phase[w] \in {"drained", "gone"} =>
            ~Polling(w) /\ wstatus[w] \notin {"online", "busy"}
       /\ stale[w] => phase[w] = "gone"
  /\ timedOut = {} /\ reassigning = None

LEMMA NoRetryNext ==
  ASSUME TypeInv, NoRetry, [Next]_vars, Never({"retryableFail"})'
  PROVE  NoRetry'
<1> SUFFICES ASSUME NEW th \in Threads, thread'[th].op \in ReportOps
             PROVE  ~thread'[th].retryable
  BY DEF NoRetry
<1>0. thread \in [Threads -> Call]
  BY DEF TypeOK
<1>1. CASE thread'[th] = thread[th]
  BY <1>1 DEF NoRetry
<1>2. ASSUME NEW c, Goto(th, c) PROVE c.op \in ReportOps /\ thread'[th] = c
  BY <1>0, <1>2 DEF Goto
<1>3. CASE ClientCall(th) \/ WorkerCall(th)
  <2>1. ASSUME NEW t \in Tasks PROVE ~Submit(th, t) /\ ~Cancel(th, t)
    BY <1>2 DEF Submit, Cancel, ReportOps
  <2>2. ASSUME NEW w \in Workers PROVE ~Poll(th, w)
    BY <1>2 DEF Poll, ReportOps
  <2>3. ASSUME NEW w \in Workers, NEW item \in Items,
               \/ CompleteSlice(th, w, item) \/ FailSlice(th, w, item)
               \/ FailAfterComplete(th, w, item)
        PROVE  ~thread'[th].retryable
    <3>1. ASSUME NEW op, Goto(th, [op |-> op, worker |-> w, item |-> item,
                                   retryable |-> FALSE])
          PROVE  ~thread'[th].retryable
      BY <1>2, <3>1
    <3> QED BY <2>3, <3>1 DEF CompleteSlice, FailSlice, FailAfterComplete,
                              RecordFailure, Occurs, Never
  <2> QED BY <1>3, <2>1, <2>2, <2>3 DEF ClientCall, WorkerCall
<1>4. CASE ReleaseSlot(th)
  BY <1>0, <1>4 DEF ReleaseSlot, Goto, NoRetry, ReportOps
<1>5. ASSUME Advance(th), ~ReleaseSlot(th) PROVE FALSE
  <2>1. thread'[th].op \notin ReportOps
    <3> USE <1>0 DEF ReportOps, Goto, At, Idle
    <3>1. CASE PublishSlices(th) \/ EnqueueSlice(th)
      BY <3>1 DEF PublishSlices, EnqueueSlice
    <3>2. CASE CancelWrite(th) \/ CancelRecord(th) \/ MergeIfComplete(th)
               \/ RetryOrRecord(th)
      BY <3>2 DEF CancelWrite, CancelRecord, MergeIfComplete, RetryOrRecord
    <3>3. CASE DequeueMatch(th) \/ DequeueSkip(th) \/ DequeueEmpty(th)
               \/ Requeue(th)
      BY <3>3 DEF DequeueMatch, DequeueSkip, DequeueEmpty, Requeue
    <3>4. CASE Prefetch(th) \/ CommitAssignment(th) \/ ActivateWorker(th)
               \/ Reply(th)
      BY <3>4 DEF Prefetch, CommitAssignment, ActivateWorker, Reply
    <3> QED BY <1>5, <3>1, <3>2, <3>3, <3>4 DEF Advance
  <2> QED BY <2>1
<1> QED BY <1>1, <1>3, <1>4, <1>5, ThreadSteps

LEMMA UndisturbedNext ==
  ASSUME TypeInv, Undisturbed, [Next]_vars, Never(Repeating)'
  PROVE  Undisturbed'
<1>0. Registry!TypeOK /\ phase \in [Workers -> Phases]
  BY DEF TypeOK
<1>1. ASSUME NEW w \in Workers
      PROVE  /\ phase'[w] \in {"new", "up", "draining", "drained", "gone"}
             /\ phase'[w] = "new" => wstatus'[w] = "absent"
             /\ phase'[w] \in {"drained", "gone"} =>
                  ~Polling(w)' /\ wstatus'[w] \notin {"online", "busy"}
             /\ stale'[w] => phase'[w] = "gone"
  <2>0. /\ phase[w] \in {"new", "up", "draining", "drained", "gone"}
        /\ phase[w] = "new" => wstatus[w] = "absent"
        /\ phase[w] \in {"drained", "gone"} =>
             ~Polling(w) /\ wstatus[w] \notin {"online", "busy"}
        /\ stale[w] => phase[w] = "gone"
    BY DEF Undisturbed
  <2> USE DEF Never, Repeating, Occurs
  <2>1. Polling(w)' => Polling(w) \/ phase[w] \in {"up", "draining"}
    BY PollingSteps DEF Poll
  <2>2. CASE RegisterWorker(w)
    BY <1>0, <2>0, <2>2 DEF RegisterWorker, Registry!Register, Registry!TypeOK
  <2>3. CASE Heartbeat(w)
    <3>1. phase' = phase /\ thread' = thread
      BY <2>3 DEF Heartbeat, envVars
    <3>2. PICK n \in 0 .. Concurrency[w], reported \in {"online", "draining"} :
            /\ Registry!UpdateHeartbeat(w, n, reported)
            /\ reported = "online" => phase[w] # "drained"
      BY <2>3 DEF Heartbeat, OccurAll
    <3>3. /\ phase[w] \in {"up", "draining", "drained"} /\ stale'[w] = FALSE
          /\ phase[w] = "drained" => wstatus'[w] = "draining"
      BY <1>0, <2>0, <2>3, <3>2
         DEF Heartbeat, Running, Registry!UpdateHeartbeat,
             Registry!StatusAfterHeartbeat, Registry!TypeOK
    <3> QED BY <2>0, <3>1, <3>3 DEF Polling
  <2>4. CASE LeaveLoop(w)
    <3>1. /\ phase[w] = "draining" /\ phase'[w] = "drained"
          /\ ~Polling(w) /\ thread' = thread
      BY <1>0, <2>4 DEF LeaveLoop
    <3>2. wstatus'[w] \in {"absent", "offline"} /\ stale' = stale
      BY <1>0, <2>4 DEF LeaveLoop, Registry!Unregister, Registry!Known,
                        Registry!TypeOK
    <3> QED BY <2>0, <3>1, <3>2 DEF Polling
  <2>5. CASE FallSilent(w)
    <3>1. ~Running(w) /\ wstatus[w] # "absent"
          /\ UNCHANGED <<phase, thread, wstatus>>
      BY <2>5 DEF FallSilent, OccurAll, Registry!FallSilent, Registry!Known
    <3>2. phase[w] = "gone"
      BY <2>0, <3>1 DEF Running
    <3> QED BY <2>0, <3>1, <3>2 DEF Polling
  <2>6. CASE Drain(w) \/ CloseHttp(w)
    <3>1. UNCHANGED <<wstatus, stale, thread>>
      BY <2>6 DEF Drain, CloseHttp, regVars
    <3>2. \/ phase[w] = "up" /\ phase'[w] = "draining"
          \/ phase[w] = "drained" /\ phase'[w] = "gone"
      BY <1>0, <2>0, <2>6 DEF Drain, CloseHttp
    <3> QED BY <2>0, <3>1, <3>2 DEF Polling
  <2>7. ~Crash(w)
    BY DEF Crash
  <2>8. \/ phase'[w] = phase[w] \/ WorkerStep(w)
    BY PhaseSteps
  <2>9. CASE CheckTimeouts
    <3>1. UNCHANGED <<phase, thread, stale>>
      BY <2>9 DEF CheckTimeouts, Registry!CheckTimeouts, envVars
    <3>2. wstatus'[w] = wstatus[w] \/ (wstatus'[w] = "offline" /\ stale[w])
      BY <2>9 DEF CheckTimeouts, Registry!CheckTimeouts, Registry!TimedOut
    <3> QED BY <2>0, <3>1, <3>2 DEF Polling
  <2>10. CASE Registry!IncrementActive(w) /\ Polling(w) /\ UNCHANGED phase
    BY <1>0, <2>0, <2>1, <2>10
       DEF Registry!IncrementActive, Registry!Known, Registry!TypeOK
  <2>11. CASE Registry!DecrementActive(w) /\ UNCHANGED phase
    BY <1>0, <2>0, <2>1, <2>11 DEF Registry!DecrementActive, Registry!TypeOK
  <2>12. CASE wstatus'[w] = wstatus[w] /\ stale'[w] = stale[w]
              /\ phase'[w] = phase[w]
    BY <2>0, <2>1, <2>12
  <2>13. \/ WorkerStep(w) \/ CheckTimeouts
         \/ Registry!IncrementActive(w) /\ Polling(w) /\ UNCHANGED phase
         \/ Registry!DecrementActive(w) /\ UNCHANGED phase
         \/ /\ wstatus'[w] = wstatus[w] /\ stale'[w] = stale[w]
            /\ phase'[w] = phase[w]
    BY <2>8, StatusSteps DEF WorkerStep
  <2> QED BY <2>2, <2>3, <2>4, <2>5, <2>6, <2>7, <2>9, <2>10, <2>11, <2>12,
             <2>13 DEF WorkerStep
<1>2. timedOut' = {} /\ reassigning' = None
  <2>0. timedOut = {} /\ reassigning = None
    BY DEF Undisturbed
  <2>1. ~CheckTimeouts
    BY DEF CheckTimeouts, Registry!TimedOut, Undisturbed
  <2>2. ASSUME NEW th \in Threads,
               Advance(th) \/ ClientCall(th) \/ WorkerCall(th)
        PROVE  UNCHANGED checkVars
    BY <2>2
       DEF Advance, PublishSlices, EnqueueSlice, CancelWrite, CancelRecord,
           DequeueMatch, DequeueSkip, DequeueEmpty, Requeue, Prefetch,
           CommitAssignment, ActivateWorker, Reply, ReleaseSlot,
           MergeIfComplete, RetryOrRecord, ClientCall, WorkerCall, Submit,
           Cancel, Poll, CompleteSlice, FailSlice, FailAfterComplete,
           RecordFailure
  <2>3. ASSUME NEW w \in Workers, WorkerStep(w) PROVE UNCHANGED checkVars
    BY <2>3 DEF WorkerStep, RegisterWorker, Heartbeat, Drain, LeaveLoop,
                CloseHttp, Crash, FallSilent
  <2>4. ASSUME CheckLoop \/ UNCHANGED vars
        PROVE  UNCHANGED <<timedOut, reassigning>>
    BY <2>0, <2>1, <2>4 DEF CheckLoop, BeginReassign, ReassignItem,
                            EndReassign, vars, checkVars
  <2> QED BY <2>0, <2>2, <2>3, <2>4 DEF Next, checkVars
<1> QED BY <1>1, <1>2 DEF Undisturbed

-----------------------------------------------------------------------------
(* Until then a slice is in one place at a time: with one handler, on one  *)
(* worker, in the queue, or among the partial results.                     *)

Places == ({"handler"} \X Threads) \cup ({"worker"} \X Workers)
          \cup {<<"queue", None>>, <<"done", None>>}

IsAt(p, item) ==
  \/ p[1] = "handler" /\ Owes(thread[p[2]], item)
  \/ p[1] = "worker" /\ held[<<p[2], item>>] > 0
  \/ p[1] = "queue" /\ Queue!Contains(item)
  \/ p[1] = "done" /\ item \in partials[TaskOf(item)]

OnePlace ==
  \A item \in Items, p, q \in Places : IsAt(p, item) /\ IsAt(q, item) => p = q

(* ... and only once in that place.                                        *)
NoRepeats(s) == \A k, l \in DOMAIN s : s[k] = s[l] => k = l

OnceInLanes ==
  \A p \in Priorities :
    /\ NoRepeats(queue[p])
    /\ \A k \in DOMAIN queue[p] : Priority[TaskOf(queue[p][k])] = p

OnceSkipped ==
  \A th \in Threads :
    thread[th].op \in {"dequeue", "requeue"} => NoRepeats(thread[th].skipped)

OnceHeld == \A e \in Workers \X Items : held[e] <= 1

(* Nothing but slices is queued, and every completion is counted once.     *)
OnlySlices ==
  \A item \in Items, p \in Places :
    IsAt(p, item) => item \in SlicesOf(TaskOf(item))

Counted ==
  \A t \in Tasks : /\ partials[t] \subseteq SlicesOf(t)
                   /\ completed[t] = Cardinality(partials[t])

OneEach == /\ OnePlace /\ OnceInLanes /\ OnceSkipped /\ OnceHeld
           /\ OnlySlices /\ Counted

OnceInv == Never(Repeating) => NoRetry /\ Undisturbed /\ OneEach

LEMMA ThePlaces ==
  /\ \A th \in Threads : <<"handler", th>> \in Places
  /\ \A w \in Workers : <<"worker", w>> \in Places
  /\ <<"queue", None>> \in Places /\ <<"done", None>> \in Places
BY DEF Places

LEMMA PlaceCases ==
  ASSUME NEW p \in Places
  PROVE  \/ \E th \in Threads : p = <<"handler", th>>
         \/ \E w \in Workers : p = <<"worker", w>>
         \/ p = <<"queue", None>> \/ p = <<"done", None>>
BY DEF Places

(* What IsAt says of each place.                                           *)
LEMMA PlaceOf ==
  ASSUME NEW item
  PROVE  /\ \A th : IsAt(<<"handler", th>>, item) <=> Owes(thread[th], item)
         /\ \A w : IsAt(<<"worker", w>>, item) <=> held[<<w, item>>] > 0
         /\ IsAt(<<"queue", None>>, item) <=> Queue!Contains(item)
         /\ IsAt(<<"done", None>>, item) <=> item \in partials[TaskOf(item)]
         /\ \A th : IsAt(<<"handler", th>>, item)' <=> Owes(thread'[th], item)
         /\ \A w : IsAt(<<"worker", w>>, item)' <=> held'[<<w, item>>] > 0
         /\ IsAt(<<"queue", None>>, item)' <=> Queue!Contains(item)'
         /\ IsAt(<<"done", None>>, item)' <=> item \in partials'[TaskOf(item)]
<1>1. /\ \A th : IsAt(<<"handler", th>>, item) <=> Owes(thread[th], item)
      /\ \A w : IsAt(<<"worker", w>>, item) <=> held[<<w, item>>] > 0
      /\ IsAt(<<"queue", None>>, item) <=> Queue!Contains(item)
      /\ IsAt(<<"done", None>>, item) <=> item \in partials[TaskOf(item)]
  BY DEF IsAt
<1>2. /\ \A th : IsAt(<<"handler", th>>, item)' <=> Owes(thread'[th], item)
      /\ \A w : IsAt(<<"worker", w>>, item)' <=> held'[<<w, item>>] > 0
      /\ IsAt(<<"queue", None>>, item)' <=> Queue!Contains(item)'
      /\ IsAt(<<"done", None>>, item)' <=> item \in partials'[TaskOf(item)]
  BY DEF IsAt, Owes, Carries
<1> QED BY <1>1, <1>2

-----------------------------------------------------------------------------
(* A step leaves the slices where they are, moves one of them, or creates  *)
(* those of a new task.                                                    *)

Stays ==
  \A item \in Items, r \in Places : IsAt(r, item)' => IsAt(r, item)

Moves(x, q, p) ==
  /\ IsAt(q, x)
  /\ \A item \in Items, r \in Places : IsAt(r, item)' =>
       \/ item = x /\ r = p
       \/ (item # x \/ r # q) /\ IsAt(r, item)

Starts(t, p) ==
  /\ \A item \in SlicesOf(t), r \in Places : ~IsAt(r, item)
  /\ \A item \in Items, r \in Places : IsAt(r, item)' =>
       IsAt(r, item) \/ (item \in SlicesOf(t) /\ r = p)

LEMMA OnePlaceKept ==
  ASSUME OnePlace, OnlySlices,
         \/ Stays
         \/ \E x \in Items, q, p \in Places : Moves(x, q, p)
         \/ \E t \in Tasks, p \in Places : Starts(t, p)
  PROVE  OnePlace' /\ OnlySlices'
<1>0. Places' = Places /\ Items' = Items
  OBVIOUS
<1>1. CASE Stays
  BY <1>1 DEF Stays, OnePlace, OnlySlices
<1>2. ASSUME NEW x \in Items, NEW q \in Places, NEW p \in Places, Moves(x, q, p)
      PROVE  OnePlace' /\ OnlySlices'
  BY <1>2 DEF Moves, OnePlace, OnlySlices
<1>3. ASSUME NEW t \in Tasks, NEW p \in Places, Starts(t, p)
      PROVE  OnePlace' /\ OnlySlices'
  BY <1>3, SlicesAreItems DEF Starts, OnePlace, OnlySlices
<1> QED BY <1>1, <1>2, <1>3

LEMMA StaysPut ==
  ASSUME \A item \in Items, th \in Threads :
           Owes(thread'[th], item) => Owes(thread[th], item),
         \A item \in Items : Queue!Contains(item)' => Queue!Contains(item),
         \A t \in Tasks : partials'[t] \subseteq partials[t],
         \A e \in Workers \X Items : held'[e] > 0 => held[e] > 0
  PROVE  Stays
<1> SUFFICES ASSUME NEW item \in Items, NEW r \in Places, IsAt(r, item)'
             PROVE  IsAt(r, item)
  BY DEF Stays
<1>1. TaskOf(item) \in Tasks
  BY TaskOfItem
<1> QED BY <1>1, PlaceCases, PlaceOf

LEMMA GotoMoves ==
  ASSUME TypeInv, NEW th \in Threads, NEW c, Goto(th, c)
  PROVE  thread'[th] = c /\ \A u \in Threads \ {th} : thread'[u] = thread[u]
BY DEF Goto, TypeOK

LEMMA SlicesDiffer ==
  ASSUME NEW t \in Tasks, NEW j \in DOMAIN SliceList[t],
         NEW k \in DOMAIN SliceList[t], SliceList[t][j] = SliceList[t][k]
  PROVE  j = k
BY SlicingAssumption

(* A handler gives up an item it has in its hands.                         *)
LEMMA HandsOn ==
  ASSUME NEW x \in Items, NEW th \in Threads, NEW p, Owes(thread[th], x),
         \A item \in Items :
           Owes(thread'[th], item) => Owes(thread[th], item) /\ item # x,
         \A u \in Threads \ {th} : thread'[u] = thread[u],
         \A item \in Items : Queue!Contains(item)' =>
           Queue!Contains(item) \/ (item = x /\ p = <<"queue", None>>),
         \A w \in Workers, item \in Items : held'[<<w, item>>] > 0 =>
           held[<<w, item>>] > 0 \/ (item = x /\ p = <<"worker", w>>),
         partials' = partials
  PROVE  Moves(x, <<"handler", th>>, p)
<1>1. IsAt(<<"handler", th>>, x)
  BY PlaceOf
<1>2. ASSUME NEW item \in Items, NEW r \in Places, IsAt(r, item)'
      PROVE  \/ item = x /\ r = p
             \/ (item # x \/ r # <<"handler", th>>) /\ IsAt(r, item)
  <2>1. ASSUME NEW u \in Threads, r = <<"handler", u>>
        PROVE  IsAt(r, item) /\ (u = th => item # x)
    <3>1. Owes(thread'[u], item)
      BY <1>2, <2>1, PlaceOf
    <3>2. Owes(thread[u], item) /\ (u = th => item # x)
      BY <3>1
    <3> QED BY <2>1, <3>2, PlaceOf
  <2>2. ASSUME NEW w \in Workers, r = <<"worker", w>>
        PROVE  IsAt(r, item) \/ (item = x /\ r = p)
    BY <1>2, <2>2, PlaceOf
  <2>3. CASE r = <<"queue", None>>
    BY <1>2, <2>3, PlaceOf
  <2>4. CASE r = <<"done", None>>
    BY <1>2, <2>4, PlaceOf
  <2> QED BY <2>1, <2>2, <2>3, <2>4, PlaceCases
<1> QED BY <1>1, <1>2 DEF Moves

LEMMA EnqueueSliceMoves ==
  ASSUME TypeInv, NEW th \in Threads, EnqueueSlice(th)
  PROVE  \E x \in Items : /\ Queue!Enqueue(x)
                          /\ Moves(x, <<"handler", th>>, <<"queue", None>>)
<1> DEFINE c == thread[th]
           t == c.task
           k == c.next
           y == <<t, SliceList[t][k]>>
<1>0. Queue!TypeOK /\ c \in Call /\ c.op = "enqueue"
  BY DEF TypeOK, EnqueueSlice, At
<1>1. t \in Tasks /\ k \in DOMAIN SliceList[t] /\ y \in Items
  BY <1>0, CallFields, SliceIsItem DEF LoopsInRange, LoopInRange
<1> PICK x \in Items : x = y
  BY <1>1
<1>2. /\ Queue!Enqueue(x)
      /\ Goto(th, IF k = Len(SliceList[t]) THEN Idle
                  ELSE [op |-> "enqueue", task |-> t, next |-> k + 1])
      /\ partials' = partials /\ held' = held
  BY DEF EnqueueSlice, tables, partVars, envVars
<1>3. /\ thread'[th] = IF k = Len(SliceList[t]) THEN Idle
                       ELSE [op |-> "enqueue", task |-> t, next |-> k + 1]
      /\ \A u \in Threads \ {th} : thread'[u] = thread[u]
  BY <1>2, GotoMoves
<1>4. Owes(c, x)
  BY <1>0, <1>1, SliceLists DEF Owes, Carries
<1>5. ASSUME NEW item \in Items, Owes(thread'[th], item)
      PROVE  Owes(c, item) /\ item # x
  <2>1. thread'[th] = [op |-> "enqueue", task |-> t, next |-> k + 1]
    BY <1>3, <1>5, IdleOwesNothing
  <2>2. PICK j \in DOMAIN SliceList[t] :
          j >= k + 1 /\ item = <<t, SliceList[t][j]>>
    BY <1>5, <2>1 DEF Owes, Carries
  <2>3. j # k /\ j >= k
    BY <1>1, <2>2, SliceLists
  <2> QED BY <1>0, <1>1, <2>2, <2>3, SlicesDiffer DEF Owes, Carries
<1>6. \A item \in Items :
        Queue!Contains(item)' => Queue!Contains(item) \/ item = x
  BY <1>0, <1>1, <1>2, ContainsAfterEnqueue
<1>7. Moves(x, <<"handler", th>>, <<"queue", None>>)
  BY <1>2, <1>3, <1>4, <1>5, <1>6, HandsOn
<1> QED BY <1>2, <1>7

LEMMA RequeueMoves ==
  ASSUME TypeInv, OnceSkipped, NEW th \in Threads, Requeue(th)
  PROVE  \E x \in Items : /\ Queue!Enqueue(x)
                          /\ Moves(x, <<"handler", th>>, <<"queue", None>>)
<1> DEFINE c == thread[th]
<1>0. Queue!TypeOK /\ c \in Call /\ c.op = "requeue"
  BY DEF TypeOK, Requeue, At
<1>1. /\ c.skipped \in Seq(Items) /\ c.skipped # <<>> /\ NoRepeats(c.skipped)
      /\ Head(c.skipped) \in Items /\ Head(c.skipped) = c.skipped[1]
      /\ 1 \in DOMAIN c.skipped
  <2>1. c.skipped \in Seq(Items) /\ c.skipped # <<>>
    BY <1>0, CallFields DEF LoopsInRange, LoopInRange
  <2> QED BY <1>0, <2>1 DEF OnceSkipped
<1> PICK x \in Items : x = Head(c.skipped)
  BY <1>1
<1>2. /\ Queue!Enqueue(x)
      /\ Goto(th, IF Len(c.skipped) = 1 THEN Idle
                  ELSE [op |-> "requeue", worker |-> c.worker,
                        skipped |-> Tail(c.skipped)])
      /\ partials' = partials /\ held' = held
  BY DEF Requeue, tables, partVars, envVars
<1>3. /\ thread'[th] = IF Len(c.skipped) = 1 THEN Idle
                       ELSE [op |-> "requeue", worker |-> c.worker,
                             skipped |-> Tail(c.skipped)]
      /\ \A u \in Threads \ {th} : thread'[u] = thread[u]
  BY <1>2, GotoMoves
<1>4. Owes(c, x)
  BY <1>0, <1>1 DEF Owes, Carries
<1>5. ASSUME NEW item \in Items, Owes(thread'[th], item)
      PROVE  Owes(c, item) /\ item # x
  <2>1. thread'[th] = [op |-> "requeue", worker |-> c.worker,
                       skipped |-> Tail(c.skipped)]
    BY <1>3, <1>5, IdleOwesNothing
  <2>2. PICK j \in DOMAIN Tail(c.skipped) : Tail(c.skipped)[j] = item
    BY <1>5, <2>1 DEF Owes, Carries
  <2>3. j + 1 \in DOMAIN c.skipped /\ c.skipped[j + 1] = item
    BY <1>1, <2>2, TailElements
  <2>4. j + 1 # 1
    BY <1>1, <2>2
  <2> QED BY <1>0, <1>1, <2>3, <2>4 DEF Owes, Carries, NoRepeats
<1>6. \A item \in Items :
        Queue!Contains(item)' => Queue!Contains(item) \/ item = x
  BY <1>0, <1>1, <1>2, ContainsAfterEnqueue
<1>7. Moves(x, <<"handler", th>>, <<"queue", None>>)
  BY <1>2, <1>3, <1>4, <1>5, <1>6, HandsOn
<1> QED BY <1>2, <1>7

(* What leaves a lane in which it is once is not in the queue any more.    *)
LEMMA DequeueOnce ==
  ASSUME TypeInv, OnceInLanes, NEW x \in Items, Queue!Dequeue(x)
  PROVE  ~Queue!Contains(x)' /\ OnceInLanes'
<1>1. PICK p \in Priorities :
        /\ queue[p] # <<>> /\ x = Head(queue[p])
        /\ queue' = [queue EXCEPT ![p] = Tail(@)]
  BY DEF Queue!Dequeue
<1>2. /\ queue[p] \in Seq(Items) /\ queue'[p] = Tail(queue[p])
      /\ \A q \in Priorities \ {p} : queue'[q] = queue[q]
      /\ NoRepeats(queue[p])
  BY <1>1 DEF TypeOK, Queue!TypeOK, OnceInLanes
<1>3. 1 \in DOMAIN queue[p] /\ x = queue[p][1] /\ Priority[TaskOf(x)] = p
  BY <1>1, <1>2 DEF OnceInLanes
<1>4. ASSUME NEW k \in DOMAIN queue'[p]
      PROVE  /\ k + 1 \in DOMAIN queue[p] /\ queue'[p][k] = queue[p][k + 1]
             /\ k \in Nat /\ k + 1 # 1
  <2>1. k + 1 \in DOMAIN queue[p] /\ Tail(queue[p])[k] = queue[p][k + 1]
    BY <1>1, <1>2, TailElements
  <2>2. k \in Nat /\ k + 1 # 1
    BY <1>1, <1>2
  <2> QED BY <1>2, <2>1, <2>2
<1>5. NoRepeats(queue'[p])
  <2> SUFFICES ASSUME NEW k \in DOMAIN queue'[p], NEW l \in DOMAIN queue'[p],
                      queue'[p][k] = queue'[p][l]
               PROVE  k = l
    BY DEF NoRepeats
  <2>1. k + 1 = l + 1
    BY <1>2, <1>4 DEF NoRepeats
  <2> QED BY <1>4, <2>1
<1>6. ASSUME NEW q \in Priorities, NEW k \in DOMAIN queue'[q]
      PROVE  queue'[q][k] # x /\ Priority[TaskOf(queue'[q][k])] = q
  <2>1. CASE q = p
    <3>1. /\ k + 1 \in DOMAIN queue[p] /\ queue'[p][k] = queue[p][k + 1]
          /\ k + 1 # 1
      BY <1>4, <2>1
    <3>2. queue[p][k + 1] # x
      BY <1>2, <1>3, <3>1 DEF NoRepeats
    <3> QED BY <2>1, <3>1, <3>2 DEF OnceInLanes
  <2>2. CASE q # p
    BY <1>2, <1>3, <2>2 DEF OnceInLanes
  <2> QED BY <2>1, <2>2
<1>7. \A q \in Priorities : NoRepeats(queue'[q])
  BY <1>2, <1>5 DEF OnceInLanes
<1>8. ~Queue!Contains(x)'
  BY <1>6 DEF Queue!Contains
<1>9. OnceInLanes'
  BY <1>6, <1>7 DEF OnceInLanes, NoRepeats
<1> QED BY <1>8, <1>9

LEMMA AppendOnce ==
  ASSUME NEW S, NEW s \in Seq(S), NEW x \in S, NoRepeats(s),
         \A k \in DOMAIN s : s[k] # x
  PROVE  NoRepeats(Append(s, x))
BY DEF NoRepeats

LEMMA EnqueueOnce ==
  ASSUME TypeInv, OnceInLanes, NEW x \in Items, Queue!Enqueue(x),
         ~Queue!Contains(x)
  PROVE  OnceInLanes'
<1> DEFINE p == Priority[TaskOf(x)]
<1>1. /\ p \in Priorities /\ queue[p] \in Seq(Items)
      /\ queue'[p] = Append(queue[p], x)
      /\ \A q \in Priorities \ {p} : queue'[q] = queue[q]
      /\ NoRepeats(queue[p])
  BY TaskOfItem, SetsAssumption
     DEF TypeOK, Queue!TypeOK, Queue!Enqueue, OnceInLanes
<1>2. NoRepeats(queue'[p])
  <2>1. \A k \in DOMAIN queue[p] : queue[p][k] # x
    BY <1>1 DEF Queue!Contains
  <2> QED BY <1>1, <2>1, AppendOnce
<1>3. ASSUME NEW k \in DOMAIN queue'[p]
      PROVE  Priority[TaskOf(queue'[p][k])] = p
  <2>1. \/ k \in DOMAIN queue[p] /\ queue'[p][k] = queue[p][k]
        \/ queue'[p][k] = x
    BY <1>1
  <2> QED BY <1>1, <2>1 DEF OnceInLanes
<1> QED BY <1>1, <1>2, <1>3 DEF OnceInLanes, NoRepeats

(* The scan of assign_task: what it takes is with this handler from then   *)
(* on, to be handed out or to be put back.                                 *)
LEMMA DequeueMoves ==
  ASSUME TypeInv, OnceInLanes, NEW th \in Threads,
         DequeueMatch(th) \/ DequeueSkip(th)
  PROVE  \E x \in Items : /\ Queue!Dequeue(x)
                          /\ Moves(x, <<"queue", None>>, <<"handler", th>>)
<1> DEFINE c == thread[th]
<1>0. Queue!TypeOK /\ c \in Call /\ c.op = "dequeue" /\ c.skipped \in Seq(Items)
  BY CallFields DEF TypeOK, DequeueMatch, DequeueSkip, At
<1>1. PICK x \in Items :
        /\ Queue!Dequeue(x)
        /\ \/ Goto(th, [op |-> "prefetch", worker |-> c.worker, item |-> x])
           \/ Goto(th, [op |-> "dequeue", worker |-> c.worker,
                        skipped |-> Append(c.skipped, x)])
  BY DEF DequeueMatch, DequeueSkip
<1>2. partials' = partials /\ held' = held
  BY DEF DequeueMatch, DequeueSkip, tables, partVars, envVars
<1>3. /\ thread'[th] \in {[op |-> "prefetch", worker |-> c.worker, item |-> x],
                          [op |-> "dequeue", worker |-> c.worker,
                           skipped |-> Append(c.skipped, x)]}
      /\ \A u \in Threads \ {th} : thread'[u] = thread[u]
  BY <1>1, GotoMoves
<1>4. ASSUME NEW item \in Items, Owes(thread'[th], item)
      PROVE  Owes(c, item) \/ item = x
  <2>1. CASE thread'[th] = [op |-> "prefetch", worker |-> c.worker, item |-> x]
    BY <1>4, <2>1 DEF Owes, Carries
  <2>2. CASE thread'[th] = [op |-> "dequeue", worker |-> c.worker,
                            skipped |-> Append(c.skipped, x)]
    <3>1. PICK j \in DOMAIN Append(c.skipped, x) :
            Append(c.skipped, x)[j] = item
      BY <1>4, <2>2 DEF Owes, Carries
    <3>2. \/ j \in DOMAIN c.skipped /\ c.skipped[j] = item
          \/ item = x
      BY <1>0, <3>1
    <3> QED BY <1>0, <3>2 DEF Owes, Carries
  <2> QED BY <1>3, <2>1, <2>2
<1>5. /\ Queue!Contains(x) /\ ~Queue!Contains(x)'
      /\ \A item : Queue!Contains(item)' => Queue!Contains(item)
  BY <1>0, <1>1, ContainsAfterDequeue, DequeueOnce
<1>6. IsAt(<<"queue", None>>, x)
  BY <1>5, PlaceOf
<1>7. ASSUME NEW item \in Items, NEW r \in Places, IsAt(r, item)'
      PROVE  \/ item = x /\ r = <<"handler", th>>
             \/ (item # x \/ r # <<"queue", None>>) /\ IsAt(r, item)
  <2>1. ASSUME NEW u \in Threads, r = <<"handler", u>>
        PROVE  IsAt(r, item) \/ (item = x /\ u = th)
    <3>1. Owes(thread'[u], item)
      BY <1>7, <2>1, PlaceOf
    <3>2. Owes(thread[u], item) \/ (item = x /\ u = th)
      BY <1>3, <1>4, <3>1
    <3> QED BY <2>1, <3>2, PlaceOf
  <2>2. ASSUME NEW w \in Workers, r = <<"worker", w>> PROVE IsAt(r, item)
    BY <1>2, <1>7, <2>2, PlaceOf
  <2>3. CASE r = <<"queue", None>>
    BY <1>5, <1>7, <2>3, PlaceOf
  <2>4. CASE r = <<"done", None>>
    BY <1>2, <1>7, <2>4, PlaceOf
  <2> QED BY <2>1, <2>2, <2>3, <2>4, PlaceCases
<1> QED BY <1>1, <1>6, <1>7 DEF Moves

LEMMA ReplyMoves ==
  ASSUME TypeInv, NEW th \in Threads, Reply(th)
  PROVE  \/ Stays /\ held' = held
         \/ \E x \in Items, w \in Workers :
              /\ held' = [held EXCEPT ![<<w, x>>] = @ + 1]
              /\ Owes(thread[th], x)
              /\ Moves(x, <<"handler", th>>, <<"worker", w>>)
<1> DEFINE c == thread[th]
<1>0. /\ c \in Call /\ c.op = "reply" /\ c.worker \in Workers /\ c.item \in Items
      /\ held \in [Workers \X Items -> Nat]
  BY CallFields DEF TypeOK, Reply, At
<1>1. PICK x \in Items, w \in Workers : x = c.item /\ w = c.worker
  BY <1>0
<1>2. /\ queue' = queue /\ partials' = partials
      /\ held' = held \/ held' = [held EXCEPT ![<<w, x>>] = @ + 1]
      /\ Goto(th, Idle)
  BY <1>1 DEF Reply, tables, partVars
<1>3. /\ thread'[th] = Idle
      /\ \A u \in Threads \ {th} : thread'[u] = thread[u]
  BY <1>2, GotoMoves
<1>4. \A item \in Items : ~Owes(thread'[th], item)
  BY <1>3, IdleOwesNothing
<1>5. \A item \in Items : Queue!Contains(item)' => Queue!Contains(item)
  BY <1>2 DEF Queue!Contains
<1>6. CASE held' = held
  BY <1>2, <1>3, <1>4, <1>5, <1>6, StaysPut
<1>7. CASE held' = [held EXCEPT ![<<w, x>>] = @ + 1]
  <2>1. Owes(thread[th], x)
    BY <1>0, <1>1 DEF Owes, Carries
  <2>2. \A v \in Workers, item \in Items : held'[<<v, item>>] > 0 =>
          held[<<v, item>>] > 0 \/ (item = x /\ v = w)
    BY <1>0, <1>7
  <2>3. Moves(x, <<"handler", th>>, <<"worker", w>>)
    BY <1>2, <1>3, <1>4, <1>5, <2>1, <2>2, HandsOn
  <2> QED BY <1>7, <2>1, <2>3
<1> QED BY <1>2, <1>6, <1>7

LEMMA CompleteMoves ==
  ASSUME TypeInv, OnceHeld, NEW th \in Threads, NEW w \in Workers,
         NEW x \in Items, CompleteSlice(th, w, x)
  PROVE  Moves(x, <<"worker", w>>, <<"done", None>>)
<1> DEFINE t == TaskOf(x)
<1>0. /\ held \in [Workers \X Items -> Nat] /\ partials \in [Tasks -> SUBSET Items]
      /\ t \in Tasks
  BY TaskOfItem DEF TypeOK
<1>1. /\ held[<<w, x>>] > 0 /\ held[<<w, x>>] <= 1
      /\ held' = [held EXCEPT ![<<w, x>>] = @ - 1]
      /\ partials' = [partials EXCEPT ![t] = @ \cup {x}]
      /\ queue' = queue /\ thread[th] = Idle
      /\ Goto(th, [op |-> "releaseCompleted", worker |-> w, item |-> x,
                   retryable |-> FALSE])
  BY DEF CompleteSlice, OnceHeld
<1>2. /\ thread'[th] = [op |-> "releaseCompleted", worker |-> w, item |-> x,
                        retryable |-> FALSE]
      /\ \A u \in Threads \ {th} : thread'[u] = thread[u]
  BY <1>1, GotoMoves
<1>3. \A item \in Items : ~Owes(thread'[th], item)
  BY <1>2 DEF Owes, Carries
<1>4. \A item \in Items : Queue!Contains(item)' => Queue!Contains(item)
  BY <1>1 DEF Queue!Contains
<1>5. held'[<<w, x>>] = 0 /\
      \A v \in Workers, item \in Items :
        held'[<<v, item>>] > 0 => held[<<v, item>>] > 0
  BY <1>0, <1>1
<1>6. IsAt(<<"worker", w>>, x)
  BY <1>1, PlaceOf
<1>7. ASSUME NEW item \in Items, NEW r \in Places, IsAt(r, item)'
      PROVE  \/ item = x /\ r = <<"done", None>>
             \/ (item # x \/ r # <<"worker", w>>) /\ IsAt(r, item)
  <2>1. ASSUME NEW u \in Threads, r = <<"handler", u>> PROVE IsAt(r, item)
    <3>1. Owes(thread'[u], item)
      BY <1>7, <2>1, PlaceOf
    <3>2. Owes(thread[u], item)
      BY <1>2, <1>3, <3>1
    <3> QED BY <2>1, <3>2, PlaceOf
  <2>2. ASSUME NEW v \in Workers, r = <<"worker", v>>
        PROVE  IsAt(r, item) /\ (item # x \/ v # w)
    <3>1. held'[<<v, item>>] > 0
      BY <1>7, <2>2, PlaceOf
    <3>2. held[<<v, item>>] > 0 /\ (item # x \/ v # w)
      BY <1>5, <3>1
    <3> QED BY <2>2, <3>2, PlaceOf
  <2>3. CASE r = <<"queue", None>>
    BY <1>4, <1>7, <2>3, PlaceOf
  <2>4. CASE r = <<"done", None>>
    <3>1. item \in partials'[TaskOf(item)] /\ TaskOf(item) \in Tasks
      BY <1>7, <2>4, PlaceOf, TaskOfItem
    <3>2. item = x \/ item \in partials[TaskOf(item)]
      BY <1>0, <1>1, <3>1
    <3> QED BY <2>4, <3>2, PlaceOf
  <2> QED BY <2>1, <2>2, <2>3, <2>4, PlaceCases
<1> QED BY <1>6, <1>7 DEF Moves

(* A task that has not been submitted has no slice anywhere.               *)
LEMMA NowhereYet ==
  ASSUME TypeInv, MergeInv, NEW t \in Tasks, state[t] = "unknown",
         NEW item \in SlicesOf(t), NEW r \in Places
  PROVE  ~IsAt(r, item)
<1>0. /\ item \in Items /\ TaskOf(item) = t
      /\ ~published[t] /\ partials[t] = {}
  BY SlicesAreItems DEF MergeInv, TasksKnown
<1>1. ASSUME NEW u \in Threads PROVE ~Owes(thread[u], item)
  <2> DEFINE c == thread[u]
  <2>1. KnownCall(c, state, published, partials) /\ c \in Call
    BY DEF MergeInv, CallsKnown, TypeOK
  <2>2. ~(c.op = "publish" /\ item \in SlicesOf(c.task))
    <3> SUFFICES ASSUME c.op = "publish", item \in SlicesOf(c.task) PROVE FALSE
      OBVIOUS
    <3>1. c.task \in Tasks /\ state[c.task] # "unknown"
      BY <2>1, CallFields DEF KnownCall
    <3>2. TaskOf(item) = c.task
      BY <3>1, SlicesAreItems
    <3> QED BY <1>0, <3>1, <3>2
  <2>3. ~Carries(c, item)
    <3>1. CASE c.op = "enqueue"
      BY <1>0, <2>1, <3>1 DEF KnownCall, Carries, TaskOf
    <3>2. CASE c.op \in {"dequeue", "requeue"}
      BY <1>0, <2>1, <3>2 DEF KnownCall, Carries
    <3>3. CASE c.op \in {"prefetch", "commit", "activate", "reply"}
      BY <1>0, <2>1, <3>3 DEF KnownCall, Carries
    <3> QED BY <3>1, <3>2, <3>3 DEF Carries
  <2> QED BY <2>2, <2>3 DEF Owes
<1>2. /\ ~Queue!Contains(item)
      /\ \A w \in Workers : ~(held[<<w, item>>] > 0)
  BY <1>0 DEF MergeInv, QueueKnown, HeldKnown
<1> QED BY <1>0, <1>1, <1>2, PlaceOf, PlaceCases

LEMMA SubmitStarts ==
  ASSUME TypeInv, MergeInv, NoResubmit', NEW th \in Threads, NEW t \in Tasks,
         Submit(th, t)
  PROVE  Starts(t, <<"handler", th>>)
<1>1. state[t] = "unknown"
  BY DEF Submit, Occurs, NoResubmit, Never
<1>2. /\ Goto(th, [op |-> "publish", task |-> t])
      /\ queue' = queue /\ held' = held /\ partials' = partials
  BY FirstSubmit DEF MergeInv, Submit
<1>3. /\ thread'[th] = [op |-> "publish", task |-> t]
      /\ \A u \in Threads \ {th} : thread'[u] = thread[u]
  BY <1>2, GotoMoves
<1>4. \A item \in Items : Owes(thread'[th], item) => item \in SlicesOf(t)
  BY <1>3 DEF Owes, Carries
<1>5. ASSUME NEW item \in Items, NEW r \in Places, IsAt(r, item)'
      PROVE  IsAt(r, item) \/ (item \in SlicesOf(t) /\ r = <<"handler", th>>)
  <2>1. ASSUME NEW u \in Threads, r = <<"handler", u>>
        PROVE  IsAt(r, item) \/ (item \in SlicesOf(t) /\ u = th)
    <3>1. Owes(thread'[u], item)
      BY <1>5, <2>1, PlaceOf
    <3>2. Owes(thread[u], item) \/ (item \in SlicesOf(t) /\ u = th)
      BY <1>3, <1>4, <3>1
    <3> QED BY <2>1, <3>2, PlaceOf
  <2>2. ASSUME NEW w \in Workers, r = <<"worker", w>> PROVE IsAt(r, item)
    BY <1>2, <1>5, <2>2, PlaceOf
  <2>3. CASE r = <<"queue", None>>
    BY <1>2, <1>5, <2>3, PlaceOf DEF Queue!Contains
  <2>4. CASE r = <<"done", None>>
    BY <1>2, <1>5, <2>4, PlaceOf
  <2> QED BY <2>1, <2>2, <2>3, <2>4, PlaceCases
<1> QED BY <1>1, <1>5, NowhereYet DEF Starts

(* All the other steps leave the slices where they are, or drop them.      *)
Quiet ==
  /\ \A item \in Items, u \in Threads :
       Owes(thread'[u], item) => Owes(thread[u], item)
  /\ queue' = queue /\ partials' = partials
  /\ \A e \in Workers \X Items : held'[e] \in 0 .. held[e]

LEMMA AdvanceStays ==
  ASSUME TypeInv, NoRetry, NEW th \in Threads,
         \/ PublishSlices(th) \/ CancelWrite(th) \/ CancelRecord(th)
         \/ DequeueEmpty(th) \/ Prefetch(th) \/ CommitAssignment(th)
         \/ ActivateWorker(th) \/ ReleaseSlot(th) \/ MergeIfComplete(th)
         \/ RetryOrRecord(th)
  PROVE  Quiet
<1> DEFINE c == thread[th]
<1>0. /\ thread \in [Threads -> Call] /\ c \in Call
      /\ held \in [Workers \X Items -> Nat]
  BY DEF TypeOK
<1>1. \A u \in Threads \ {th} : thread'[u] = thread[u]
  BY <1>0 DEF PublishSlices, CancelWrite, CancelRecord, DequeueEmpty, Prefetch,
              CommitAssignment, ActivateWorker, ReleaseSlot, MergeIfComplete,
              RetryOrRecord, Goto
<1>2. queue' = queue /\ partials' = partials /\ held' = held
  <2>1. CASE RetryOrRecord(th)
    BY <2>1 DEF RetryOrRecord, NoRetry, ReportOps, At, MayRetry, partVars, envVars
  <2> QED BY <2>1 DEF PublishSlices, CancelWrite, CancelRecord, DequeueEmpty,
              Prefetch, CommitAssignment, ActivateWorker, ReleaseSlot,
              MergeIfComplete, partVars, tables, envVars
<1>3. ASSUME NEW item \in Items, Owes(thread'[th], item) PROVE Owes(c, item)
  <2> USE <1>0 DEF Goto, At
  <2>1. CASE PublishSlices(th)
    <3>1. thread'[th] = Idle \/ thread'[th] = [op |-> "enqueue", task |-> c.task,
                                               next |-> 1]
      BY <2>1 DEF PublishSlices
    <3>2. thread'[th] # Idle
      BY <1>3, IdleOwesNothing
    <3>3. item \in SlicesOf(c.task)
      BY <1>3, <3>1, <3>2 DEF Owes, Carries, SlicesOf
    <3> QED BY <2>1, <3>3 DEF PublishSlices, Owes
  <2>2. CASE DequeueEmpty(th)
    <3>1. thread'[th] = Idle \/ thread'[th] = [op |-> "requeue",
                                 worker |-> c.worker, skipped |-> c.skipped]
      BY <2>2 DEF DequeueEmpty
    <3>2. thread'[th] # Idle
      BY <1>3, IdleOwesNothing
    <3> QED BY <1>3, <2>2, <3>1, <3>2 DEF DequeueEmpty, Owes, Carries
  <2>3. CASE Prefetch(th)
    <3>1. thread'[th] = Idle \/ thread'[th] = [op |-> "commit",
                                 worker |-> c.worker, item |-> c.item]
      BY <2>3 DEF Prefetch
    <3>2. thread'[th] # Idle
      BY <1>3, IdleOwesNothing
    <3> QED BY <1>3, <2>3, <3>1, <3>2 DEF Prefetch, Owes, Carries
  <2>4. CASE CommitAssignment(th)
    <3>1. thread'[th] = [op |-> "activate", worker |-> c.worker, item |-> c.item]
      BY <2>4 DEF CommitAssignment
    <3> QED BY <1>3, <2>4, <3>1 DEF CommitAssignment, Owes, Carries
  <2>5. CASE ActivateWorker(th)
    <3>1. thread'[th] = [op |-> "reply", worker |-> c.worker, item |-> c.item]
      BY <2>5 DEF ActivateWorker
    <3> QED BY <1>3, <2>5, <3>1 DEF ActivateWorker, Owes, Carries
  <2>6. CASE CancelWrite(th)
    <3>1. thread'[th].op = "record"
      BY <2>6 DEF CancelWrite
    <3> QED BY <1>3, <3>1 DEF Owes, Carries
  <2>7. CASE ReleaseSlot(th)
    <3>1. thread'[th].op \in {"merge", "retry"}
      BY <2>7 DEF ReleaseSlot
    <3> QED BY <1>3, <3>1 DEF Owes, Carries
  <2>8. CASE CancelRecord(th) \/ MergeIfComplete(th) \/ RetryOrRecord(th)
    <3>1. thread'[th] = Idle
      BY <2>8 DEF CancelRecord, MergeIfComplete, RetryOrRecord
    <3> QED BY <1>3, <3>1, IdleOwesNothing
  <2> QED BY <2>1, <2>2, <2>3, <2>4, <2>5, <2>6, <2>7, <2>8
<1>4. \A e \in Workers \X Items : held'[e] \in 0 .. held[e]
  BY <1>0, <1>2
<1> QED BY <1>1, <1>2, <1>3, <1>4 DEF Quiet

LEMMA CallStays ==
  ASSUME TypeInv, NEW th \in Threads,
         \/ \E t \in Tasks : Cancel(th, t)
         \/ \E w \in Workers : Poll(th, w)
         \/ \E w \in Workers, item \in Items :
              FailSlice(th, w, item) \/ FailAfterComplete(th, w, item)
  PROVE  Quiet
<1>0. /\ thread \in [Threads -> Call] /\ held \in [Workers \X Items -> Nat]
  BY DEF TypeOK
<1>1. \A u \in Threads \ {th} : thread'[u] = thread[u]
  BY <1>0 DEF Cancel, Poll, FailSlice, FailAfterComplete, RecordFailure, Goto
<1>2. queue' = queue /\ partials' = partials
  BY DEF Cancel, Poll, FailSlice, FailAfterComplete, RecordFailure, tables,
         partVars
<1>3. \A item : ~Owes(thread'[th], item)
  <2>1. ASSUME NEW w \in Workers, Poll(th, w)
        PROVE  \A item : ~Owes(thread'[th], item)
    <3>1. thread'[th] = [op |-> "dequeue", worker |-> w, skipped |-> <<>>]
      BY <1>0, <2>1 DEF Poll, Goto
    <3>2. DOMAIN <<>> = {}
      OBVIOUS
    <3> QED BY <3>1, <3>2 DEF Owes, Carries
  <2>2. ASSUME NEW t \in Tasks, Cancel(th, t)
        PROVE  thread'[th].op = "cancel"
    BY <1>0, <2>2 DEF Cancel, Goto
  <2>3. ASSUME NEW w \in Workers, NEW item \in Items,
               FailSlice(th, w, item) \/ FailAfterComplete(th, w, item)
        PROVE  thread'[th].op = "releaseFailed"
    BY <1>0, <2>3 DEF FailSlice, FailAfterComplete, RecordFailure, Goto
  <2>4. CASE thread'[th].op \in {"cancel", "releaseFailed"}
    BY <2>4 DEF Owes, Carries
  <2> QED BY <2>1, <2>2, <2>3, <2>4
<1>4. \A e \in Workers \X Items : held'[e] \in 0 .. held[e]
  <2>1. ASSUME NEW w \in Workers, NEW item \in Items, FailSlice(th, w, item)
        PROVE  \A e \in Workers \X Items : held'[e] \in 0 .. held[e]
    BY <1>0, <2>1 DEF FailSlice
  <2>2. CASE held' = held
    BY <1>0, <2>2
  <2> QED BY <2>1, <2>2 DEF Cancel, Poll, FailAfterComplete, envVars
<1> QED BY <1>1, <1>2, <1>3, <1>4 DEF Quiet

LEMMA BackgroundStays ==
  ASSUME TypeInv, reassigning = None,
         (\E w \in Workers : WorkerStep(w)) \/ CheckLoop \/ UNCHANGED vars
  PROVE  Quiet
<1>0. /\ held \in [Workers \X Items -> Nat]
  BY DEF TypeOK
<1>1. thread' = thread /\ queue' = queue /\ partials' = partials
  BY DEF WorkerStep, RegisterWorker, Heartbeat, Drain, LeaveLoop, CloseHttp,
         Crash, FallSilent, CheckLoop, CheckTimeouts, BeginReassign,
         ReassignItem, EndReassign, vars, tables, partVars
<1>2. held' = held \/ \E w \in Workers : DropExecutions(w)
  BY DEF WorkerStep, RegisterWorker, Heartbeat, Drain, LeaveLoop, CloseHttp,
         Crash, FallSilent, CheckLoop, CheckTimeouts, BeginReassign,
         ReassignItem, EndReassign, vars, envVars
<1>3. \A e \in Workers \X Items : held'[e] \in 0 .. held[e]
  BY <1>0, <1>2 DEF DropExecutions
<1> QED BY <1>1, <1>3 DEF Quiet

LEMMA StayingStays ==
  ASSUME TypeInv, Quiet PROVE Stays
<1>1. \A item \in Items : Queue!Contains(item)' => Queue!Contains(item)
  BY DEF Quiet, Queue!Contains
<1>2. \A e \in Workers \X Items : held'[e] > 0 => held[e] > 0
  <2>1. held \in [Workers \X Items -> Nat]
    BY DEF TypeOK
  <2> QED BY <2>1 DEF Quiet
<1> QED BY <1>1, <1>2, StaysPut DEF Quiet

LEMMA MovingSteps ==
  ASSUME TypeInv, NoRetry, reassigning = None, [Next]_vars
  PROVE  \/ Quiet
         \/ \E th \in Threads :
              \/ EnqueueSlice(th) \/ Requeue(th)
              \/ DequeueMatch(th) \/ DequeueSkip(th) \/ Reply(th)
              \/ \E w \in Workers, item \in Items : CompleteSlice(th, w, item)
              \/ \E t \in Tasks : Submit(th, t)
BY AdvanceStays, CallStays, BackgroundStays
   DEF Next, Advance, ClientCall, WorkerCall

(* What is with a handler is neither in the queue nor executed.            *)
LEMMA HandlerOnly ==
  ASSUME OnePlace, NEW x \in Items, NEW th \in Threads, Owes(thread[th], x)
  PROVE  /\ ~Queue!Contains(x)
         /\ \A w \in Workers : ~(held[<<w, x>>] > 0)
<1>1. IsAt(<<"handler", th>>, x) /\ <<"handler", th>> \in Places
  BY PlaceOf, ThePlaces
<1>2. /\ <<"handler", th>> # <<"queue", None>>
      /\ \A w : <<"handler", th>> # <<"worker", w>>
  OBVIOUS
<1>3. /\ ~IsAt(<<"queue", None>>, x)
      /\ \A w \in Workers : ~IsAt(<<"worker", w>>, x)
  BY <1>1, <1>2, ThePlaces DEF OnePlace
<1> QED BY <1>3, PlaceOf

LEMMA PlacesNext ==
  ASSUME TypeInv, MergeInv, NoRetry, reassigning = None, OneEach, [Next]_vars,
         NoResubmit'
  PROVE  \/ Stays
         \/ \E x \in Items, q, p \in Places : Moves(x, q, p)
         \/ \E th \in Threads, t \in Tasks :
              Submit(th, t) /\ Starts(t, <<"handler", th>>)
<1> DEFINE Moved == \E x \in Items, q, p \in Places : Moves(x, q, p)
<1>0. OnceInLanes /\ OnceSkipped /\ OnceHeld
  BY DEF OneEach
<1>1. CASE Quiet
  BY <1>1, StayingStays
<1>2. ASSUME NEW th \in Threads, EnqueueSlice(th) \/ Requeue(th) PROVE Moved
  BY <1>0, <1>2, EnqueueSliceMoves, RequeueMoves, ThePlaces
<1>3. ASSUME NEW th \in Threads, DequeueMatch(th) \/ DequeueSkip(th) PROVE Moved
  BY <1>0, <1>3, DequeueMoves, ThePlaces
<1>4. ASSUME NEW th \in Threads, Reply(th) PROVE Stays \/ Moved
  BY <1>4, ReplyMoves, ThePlaces
<1>5. ASSUME NEW th \in Threads, NEW w \in Workers, NEW item \in Items,
             CompleteSlice(th, w, item)
      PROVE  Moved
  BY <1>0, <1>5, CompleteMoves, ThePlaces
<1>6. ASSUME NEW th \in Threads, NEW t \in Tasks, Submit(th, t)
      PROVE  Starts(t, <<"handler", th>>)
  BY <1>6, SubmitStarts
<1> QED BY <1>1, <1>2, <1>3, <1>4, <1>5, <1>6, MovingSteps

LEMMA OnePlaceNext ==
  ASSUME TypeInv, MergeInv, NoRetry, reassigning = None, OneEach, [Next]_vars,
         NoResubmit'
  PROVE  OnePlace' /\ OnlySlices'
BY PlacesNext, ThePlaces, OnePlaceKept DEF OneEach

LEMMA OnceInLanesNext ==
  ASSUME TypeInv, NoRetry, reassigning = None, OneEach, [Next]_vars
  PROVE  OnceInLanes'
<1>0. OnePlace /\ OnceInLanes /\ OnceSkipped
  BY DEF OneEach
<1>1. CASE queue' = queue
  BY <1>0, <1>1 DEF OnceInLanes, NoRepeats
<1>2. ASSUME NEW th \in Threads, EnqueueSlice(th) \/ Requeue(th)
      PROVE  OnceInLanes'
  <2>1. PICK x \in Items : /\ Queue!Enqueue(x)
                           /\ Moves(x, <<"handler", th>>, <<"queue", None>>)
    BY <1>0, <1>2, EnqueueSliceMoves, RequeueMoves
  <2>2. Owes(thread[th], x)
    BY <2>1, PlaceOf DEF Moves
  <2> QED BY <1>0, <2>1, <2>2, HandlerOnly, EnqueueOnce
<1>3. ASSUME NEW th \in Threads, DequeueMatch(th) \/ DequeueSkip(th)
      PROVE  OnceInLanes'
  BY <1>0, <1>3, DequeueMoves, DequeueOnce
<1>4. \/ queue' = queue
      \/ \E th \in Threads : \/ EnqueueSlice(th) \/ Requeue(th)
                             \/ DequeueMatch(th) \/ DequeueSkip(th)
  BY MovingSteps DEF Quiet, Reply, CompleteSlice, Submit
<1> QED BY <1>1, <1>2, <1>3, <1>4

LEMMA TailOnce ==
  ASSUME NEW S, NEW s \in Seq(S), s # <<>>, NoRepeats(s)
  PROVE  NoRepeats(Tail(s))
<1> SUFFICES ASSUME NEW k \in DOMAIN Tail(s), NEW l \in DOMAIN Tail(s),
                    Tail(s)[k] = Tail(s)[l]
             PROVE  k = l
  BY DEF NoRepeats
<1>1. k + 1 = l + 1
  BY TailElements DEF NoRepeats
<1>2. k \in Int /\ l \in Int
  OBVIOUS
<1> QED BY <1>1, <1>2

LEMMA OnceSkippedNext ==
  ASSUME TypeInv, OneEach, [Next]_vars
  PROVE  OnceSkipped'
<1> SUFFICES ASSUME NEW th \in Threads, thread'[th].op \in {"dequeue", "requeue"}
             PROVE  NoRepeats(thread'[th].skipped)
  BY DEF OnceSkipped, NoRepeats
<1> DEFINE c == thread[th]
<1>0. /\ OnePlace /\ OnceInLanes /\ OnceSkipped
      /\ thread \in [Threads -> Call] /\ c \in Call /\ Queue!TypeOK
  BY DEF OneEach, TypeOK
<1>1. CASE thread'[th] = thread[th]
  BY <1>0, <1>1 DEF OnceSkipped
<1>2. CASE DequeueSkip(th)
  <2>1. PICK x \in Items :
          /\ Queue!Dequeue(x)
          /\ Goto(th, [op |-> "dequeue", worker |-> c.worker,
                       skipped |-> Append(c.skipped, x)])
    BY <1>2 DEF DequeueSkip
  <2>2. c.op = "dequeue" /\ c.skipped \in Seq(Items) /\ NoRepeats(c.skipped)
    BY <1>0, <1>2, CallFields DEF DequeueSkip, At, OnceSkipped
  <2>3. Queue!Contains(x)
    BY <1>0, <2>1, ContainsAfterDequeue
  <2>4. \A k \in DOMAIN c.skipped : c.skipped[k] # x
    BY <1>0, <2>2, <2>3, HandlerOnly DEF Owes, Carries
  <2>5. thread'[th].skipped = Append(c.skipped, x)
    BY <1>0, <2>1 DEF Goto
  <2> QED BY <2>2, <2>4, <2>5, AppendOnce
<1>3. CASE DequeueEmpty(th)
  BY <1>0, <1>3 DEF DequeueEmpty, At, Goto, Idle, OnceSkipped
<1>4. CASE Requeue(th)
  <2>1. c.skipped \in Seq(Items) /\ c.skipped # <<>> /\ NoRepeats(c.skipped)
    BY <1>0, <1>4, CallFields DEF Requeue, At, LoopsInRange, LoopInRange,
                                  OnceSkipped
  <2>2. thread'[th].skipped = Tail(c.skipped)
    BY <1>0, <1>4 DEF Requeue, Goto, Idle
  <2> QED BY <2>1, <2>2, TailOnce
<1>5. ASSUME NEW w \in Workers, Poll(th, w)
      PROVE  NoRepeats(thread'[th].skipped)
  <2>1. thread'[th] = [op |-> "dequeue", worker |-> w, skipped |-> <<>>]
    BY <1>0, <1>5 DEF Poll, Goto
  <2>2. DOMAIN <<>> = {}
    OBVIOUS
  <2> QED BY <2>1, <2>2 DEF NoRepeats
<1>6. \/ thread'[th] = thread[th]
      \/ DequeueSkip(th) \/ DequeueEmpty(th) \/ Requeue(th)
      \/ \E w \in Workers : Poll(th, w)
  <2> USE <1>0 DEF Goto, Idle
  <2>1. ~PublishSlices(th) /\ ~EnqueueSlice(th) /\ ~CancelWrite(th)
        /\ ~CancelRecord(th) /\ ~DequeueMatch(th)
    BY DEF PublishSlices, EnqueueSlice, CancelWrite, CancelRecord, DequeueMatch
  <2>2. ~Prefetch(th) /\ ~CommitAssignment(th) /\ ~ActivateWorker(th)
        /\ ~Reply(th)
    BY DEF Prefetch, CommitAssignment, ActivateWorker, Reply
  <2>3. ~ReleaseSlot(th) /\ ~MergeIfComplete(th) /\ ~RetryOrRecord(th)
    BY DEF ReleaseSlot, MergeIfComplete, RetryOrRecord
  <2>4. ASSUME NEW t \in Tasks PROVE ~Submit(th, t) /\ ~Cancel(th, t)
    BY DEF Submit, Cancel
  <2>5. ASSUME NEW w \in Workers, NEW item \in Items
        PROVE  /\ ~CompleteSlice(th, w, item) /\ ~FailSlice(th, w, item)
               /\ ~FailAfterComplete(th, w, item)
    BY DEF CompleteSlice, FailSlice, FailAfterComplete, RecordFailure
  <2> QED BY <2>1, <2>2, <2>3, <2>4, <2>5, ThreadSteps
          DEF Advance, ClientCall, WorkerCall
<1> QED BY <1>1, <1>2, <1>3, <1>4, <1>5, <1>6

LEMMA OnceHeldNext ==
  ASSUME TypeInv, NoRetry, reassigning = None, OneEach, [Next]_vars
  PROVE  OnceHeld'
<1>0. /\ OnePlace /\ OnceHeld /\ held \in [Workers \X Items -> Nat]
  BY DEF OneEach, TypeOK
<1>1. CASE Quiet
  BY <1>0, <1>1 DEF Quiet, OnceHeld
<1>2. CASE held' = held
  BY <1>0, <1>2 DEF OnceHeld
<1>3. ASSUME NEW th \in Threads, Reply(th) PROVE OnceHeld'
  <2>1. ASSUME NEW x \in Items, NEW w \in Workers, Owes(thread[th], x),
               held' = [held EXCEPT ![<<w, x>>] = @ + 1]
        PROVE  OnceHeld'
    <3>1. ~(held[<<w, x>>] > 0)
      BY <1>0, <2>1, HandlerOnly
    <3> QED BY <1>0, <2>1, <3>1 DEF OnceHeld
  <2> QED BY <1>2, <1>3, <2>1, ReplyMoves
<1>4. ASSUME NEW th \in Threads, NEW w \in Workers, NEW item \in Items,
             CompleteSlice(th, w, item)
      PROVE  OnceHeld'
  BY <1>0, <1>4 DEF CompleteSlice, OnceHeld
<1> QED BY <1>1, <1>2, <1>3, <1>4, MovingSteps
        DEF EnqueueSlice, Requeue, DequeueMatch, DequeueSkip, Submit, envVars

LEMMA CountedNext ==
  ASSUME TypeInv, MergeInv, OneEach, [Next]_vars, NoResubmit'
  PROVE  Counted'
<1>0. /\ OnePlace /\ OnlySlices /\ Counted
      /\ completed \in [Tasks -> Nat] /\ partials \in [Tasks -> SUBSET Items]
  BY DEF OneEach, TypeOK
<1>1. CASE UNCHANGED <<completed, partials>>
  BY <1>0, <1>1 DEF Counted
<1>2. ASSUME NEW th \in Threads, NEW t \in Tasks, Submit(th, t)
      PROVE  Counted'
  <2>1. partials' = partials /\ partials[t] = {}
    BY <1>2, FirstSubmit DEF MergeInv
  <2>2. completed' = [completed EXCEPT ![t] = 0]
    BY <1>2 DEF Submit, FreshTaskState, FreshInfo
  <2> QED BY <1>0, <2>1, <2>2, FS_EmptySet DEF Counted
<1>3. ASSUME NEW th \in Threads, NEW w \in Workers, NEW item \in Items,
             CompleteSlice(th, w, item)
      PROVE  Counted'
  <2>1. PICK t \in Tasks : t = TaskOf(item)
    BY TaskOfItem
  <2>2. IsAt(<<"worker", w>>, item) /\ <<"worker", w>> # <<"done", None>>
    BY <1>3, PlaceOf DEF CompleteSlice
  <2>3. item \in SlicesOf(t) /\ item \notin partials[t]
    BY <1>0, <2>1, <2>2, ThePlaces, PlaceOf DEF OnePlace, OnlySlices
  <2>4. /\ partials' = [partials EXCEPT ![t] = @ \cup {item}]
        /\ completed' = [completed EXCEPT ![t] = @ + 1]
    BY <1>3, <2>1 DEF CompleteSlice, Count
  <2>5. Cardinality(partials[t] \cup {item}) = Cardinality(partials[t]) + 1
    <3>1. IsFiniteSet(partials[t])
      BY <1>0, ItemsFinite, FS_Subset
    <3> QED BY <2>3, <3>1, FS_AddElement
  <2> QED BY <1>0, <2>3, <2>4, <2>5 DEF Counted
<1> QED BY <1>1, <1>2, <1>3, ResultSteps
        DEF PublishSlices, MergeIfComplete, partVars

LEMMA OnceNext ==
  TypeInv /\ ResultInv /\ OnceInv /\ [Next]_vars => OnceInv'
<1> SUFFICES ASSUME TypeInv, ResultInv, OnceInv, [Next]_vars, Never(Repeating)'
             PROVE  NoRetry' /\ Undisturbed' /\ OneEach'
  BY DEF OnceInv
<1>1. Never(Repeating) /\ NoResubmit /\ NoResubmit' /\ Never({"retryableFail"})'
  BY HappenedGrows DEF Never, Repeating, NoResubmit
<1>2. MergeInv /\ NoRetry /\ Undisturbed /\ OneEach /\ reassigning = None
  BY <1>1 DEF ResultInv, OnceInv, Undisturbed
<1>3. NoRetry' /\ Undisturbed'
  BY <1>1, <1>2, NoRetryNext, UndisturbedNext
<1>4. OneEach'
  BY <1>1, <1>2, OnePlaceNext, OnceInLanesNext, OnceSkippedNext, OnceHeldNext,
     CountedNext DEF OneEach
<1> QED BY <1>3, <1>4

LEMMA OnceInit == Init => OnceInv
<1> SUFFICES ASSUME Init PROVE NoRetry /\ Undisturbed /\ OneEach
  BY DEF OnceInv
<1>1. NoRetry /\ Undisturbed
  BY DEF Init, NoRetry, Undisturbed, Registry!Init, ReportOps, Idle
<1>2. ASSUME NEW item \in Items, NEW p \in Places PROVE ~IsAt(p, item)
  <2>1. DOMAIN <<>> = {}
    OBVIOUS
  <2>2. ~Queue!Contains(item)
    BY <2>1 DEF Init, Queue!Init, Queue!Contains
  <2>3. \A th \in Threads : ~Owes(thread[th], item)
    BY IdleOwesNothing DEF Init
  <2>4. /\ TaskOf(item) \in Tasks /\ partials[TaskOf(item)] = {}
        /\ \A w \in Workers : ~(held[<<w, item>>] > 0)
    BY TaskOfItem DEF Init
  <2> QED BY <2>2, <2>3, <2>4, PlaceOf, PlaceCases
<1>3. OnceInLanes
  BY DEF Init, Queue!Init, OnceInLanes, NoRepeats
<1>4. OnceSkipped /\ OnceHeld /\ Counted
  BY FS_EmptySet DEF Init, OnceSkipped, OnceHeld, Counted, Idle
<1> QED BY <1>1, <1>2, <1>3, <1>4 DEF OneEach, OnePlace, OnlySlices

LEMMA OnceInvariant == Spec => [](TypeInv /\ ResultInv /\ OnceInv)
BY TypeInit, TypeNext, ResultInit, ResultNext, OnceInit, OnceNext, PTL DEF Spec

(* A task cannot count to n_slices before it has every slice.              *)
LEMMA AllCounted ==
  ASSUME TypeInv, Counted, NEW t \in Tasks, completed[t] >= Len(SliceList[t])
  PROVE  completed[t] = Len(SliceList[t]) /\ partials[t] = SlicesOf(t)
<1> DEFINE slice == [k \in 1 .. Len(SliceList[t]) |-> <<t, SliceList[t][k]>>]
<1>1. /\ Len(SliceList[t]) \in Nat
      /\ DOMAIN SliceList[t] = 1 .. Len(SliceList[t])
      /\ IsFiniteSet(1 .. Len(SliceList[t]))
      /\ Cardinality(1 .. Len(SliceList[t])) = Len(SliceList[t])
  BY SliceLists, FS_Interval
<1>2. slice \in Surjection(1 .. Len(SliceList[t]), SlicesOf(t))
  BY <1>1 DEF Surjection, SlicesOf
<1>3. /\ IsFiniteSet(SlicesOf(t))
      /\ Cardinality(SlicesOf(t)) <= Len(SliceList[t])
  BY <1>1, <1>2, FS_Surjection
<1>4. /\ partials[t] \subseteq SlicesOf(t)
      /\ completed[t] = Cardinality(partials[t])
  BY DEF Counted
<1>5. /\ Cardinality(partials[t]) <= Cardinality(SlicesOf(t))
      /\ Cardinality(partials[t]) = Cardinality(SlicesOf(t)) =>
           partials[t] = SlicesOf(t)
  BY <1>3, <1>4, FS_Subset
<1>6. Cardinality(SlicesOf(t)) \in Nat /\ Cardinality(partials[t]) \in Nat
  BY <1>3, <1>4, FS_Subset, FS_CardinalityType
<1> HIDE DEF slice
<1> QED BY <1>1, <1>3, <1>4, <1>5, <1>6

(* COMPLETED means that the merged result has the partial result of every  *)
(* slice, exactly once, until something has happened that may repeat an    *)
(* execution: for any number of slices, workers and handler threads.       *)
THEOREM ExactlyOnce == Spec => []CompletedMeansWhole
<1>1. TypeInv /\ ResultInv /\ OnceInv => CompletedMeansWhole
  <2> SUFFICES ASSUME TypeInv, ResultInv, OnceInv, Never(Repeating),
                      NEW t \in Mergeable, state[t] = "completed"
               PROVE  result[t] = SlicesOf(t)
    BY DEF CompletedMeansWhole
  <2>1. t \in Tasks /\ MergeInv /\ Counted
    BY SetsAssumption
       DEF ResultInv, NoResubmit, Never, Repeating, OnceInv, OneEach
  <2>2. /\ completed[t] >= Len(SliceList[t])
        /\ completed[t] = Len(SliceList[t]) => result[t] = partials[t]
    BY <2>1 DEF MergeInv, CompletedMerged, ResultsFinal, MergeOf
  <2> QED BY <2>1, <2>2, AllCounted
<1> QED BY <1>1, OnceInvariant, PTL

-----------------------------------------------------------------------------
(* Chapter 5.  Tasks.                                                      *)

(* The life of a task, while no handler may overwrite its end.             *)

Peaceful == Never({"cancel", "resubmit", "retryableFail", "lostAck"})

NobodyCancels == \A th \in Threads : thread[th].op \notin {"cancel", "record"}

Started(t) == state[t] \notin {"unknown", "pending"}

(* The handlers that run after the task has been marked as running.        *)
Working(c) == c.op \in {"activate", "reply"} \cup ReportOps

StartedFirst ==
  /\ \A th \in Threads :
       Working(thread[th]) => Started(TaskOf(thread[th].item))
  /\ \A w \in Workers, item \in Items :
       held[<<w, item>>] > 0 => Started(TaskOf(item))

(* A slice that failed is nowhere any more, so its task never has all.     *)
FailedShort ==
  \A t \in Tasks : state[t] = "failed" =>
    \E item \in SlicesOf(t) : \A p \in Places : ~IsAt(p, item)

Ends ==
  /\ \A t \in Tasks : state[t] # "cancelled"
  /\ Never({"fail"}) => \A t \in Tasks : state[t] # "failed"
  /\ Never(Repeating) => FailedShort

Calm == failing = {} /\ NobodyCancels /\ NoRetry

PeaceInv == Peaceful => Calm /\ StartedFirst /\ Ends

LEMMA CalmNext ==
  ASSUME TypeInv, Calm, [Next]_vars, Peaceful'
  PROVE  Calm'
<1> USE DEF Never, Peaceful, Occurs
<1>0. failing = {} /\ NobodyCancels /\ NoRetry /\ thread \in [Threads -> Call]
  BY DEF Calm, TypeOK
<1>1. NoRetry'
  BY <1>0, NoRetryNext
<1>2. failing' = {}
  <2>1. ASSUME NEW th \in Threads,
               Advance(th) \/ ClientCall(th) \/ WorkerCall(th)
        PROVE  failing' = {}
    BY <1>0, <2>1
       DEF Advance, PublishSlices, EnqueueSlice, CancelWrite, CancelRecord,
           DequeueMatch, DequeueSkip, DequeueEmpty, Requeue, Prefetch,
           CommitAssignment, ActivateWorker, Reply, ReleaseSlot,
           MergeIfComplete, RetryOrRecord, ClientCall, WorkerCall, Submit,
           Cancel, Poll, CompleteSlice, FailSlice, FailAfterComplete, envVars
  <2>2. ASSUME (\E w \in Workers : WorkerStep(w)) \/ CheckLoop \/ UNCHANGED vars
        PROVE  failing' = {}
    BY <1>0, <2>2
       DEF WorkerStep, RegisterWorker, Heartbeat, Drain, LeaveLoop, CloseHttp,
           Crash, FallSilent, DropExecutions, CheckLoop, CheckTimeouts,
           BeginReassign, ReassignItem, EndReassign, vars, envVars
  <2> QED BY <2>1, <2>2 DEF Next
<1>3. ASSUME NEW th \in Threads PROVE thread'[th].op \notin {"cancel", "record"}
  <2> USE <1>0 DEF Goto, Idle
  <2>1. CASE thread'[th] = thread[th]
    BY <2>1 DEF NobodyCancels
  <2>2. CASE Advance(th)
    <3>1. ~CancelWrite(th) /\ ~CancelRecord(th)
      BY DEF NobodyCancels, CancelWrite, CancelRecord, At
    <3>2. CASE PublishSlices(th) \/ EnqueueSlice(th)
      BY <3>2 DEF PublishSlices, EnqueueSlice
    <3>3. CASE DequeueMatch(th) \/ DequeueSkip(th) \/ DequeueEmpty(th)
               \/ Requeue(th)
      BY <3>3 DEF DequeueMatch, DequeueSkip, DequeueEmpty, Requeue
    <3>4. CASE Prefetch(th) \/ CommitAssignment(th) \/ ActivateWorker(th)
               \/ Reply(th)
      BY <3>4 DEF Prefetch, CommitAssignment, ActivateWorker, Reply
    <3>5. CASE ReleaseSlot(th) \/ MergeIfComplete(th) \/ RetryOrRecord(th)
      BY <3>5 DEF ReleaseSlot, MergeIfComplete, RetryOrRecord
    <3> QED BY <2>2, <3>1, <3>2, <3>3, <3>4, <3>5 DEF Advance
  <2>3. CASE ClientCall(th)
    BY <2>3 DEF ClientCall, Submit, Cancel
  <2>4. CASE WorkerCall(th)
    <3>1. ASSUME NEW w \in Workers, Poll(th, w)
          PROVE  thread'[th].op = "dequeue"
      BY <3>1 DEF Poll
    <3>2. ASSUME NEW w \in Workers, NEW item \in Items,
                 CompleteSlice(th, w, item) \/ FailSlice(th, w, item)
                 \/ FailAfterComplete(th, w, item)
          PROVE  thread'[th].op \in {"releaseCompleted", "releaseFailed"}
      BY <3>2 DEF CompleteSlice, FailSlice, FailAfterComplete, RecordFailure
    <3> QED BY <2>4, <3>1, <3>2 DEF WorkerCall
  <2> QED BY <2>1, <2>2, <2>3, <2>4, ThreadSteps
<1> QED BY <1>1, <1>2, <1>3 DEF Calm, NobodyCancels

(* What is left that changes the state of a task.                          *)
LEMMA StateMoves ==
  ASSUME TypeInv, Calm, [Next]_vars
  PROVE  \/ state' = state
         \/ \E th \in Threads :
              \/ \E t \in Tasks : Submit(th, t)
              \/ CommitAssignment(th) \/ MergeIfComplete(th)
              \/ \E w \in Workers, item \in Items : FailSlice(th, w, item)
<1>0. failing = {} /\ NobodyCancels /\ NoRetry
  BY DEF Calm
<1>1. ASSUME NEW th \in Threads, Advance(th)
      PROVE  state' = state \/ CommitAssignment(th) \/ MergeIfComplete(th)
  <2>1. ~CancelWrite(th)
    BY <1>0 DEF NobodyCancels, CancelWrite, At
  <2>2. CASE RetryOrRecord(th)
    BY <1>0, <2>2 DEF RetryOrRecord, NoRetry, ReportOps, At, MayRetry
  <2> QED BY <1>1, <2>1, <2>2
      DEF Advance, PublishSlices, EnqueueSlice, CancelRecord, DequeueMatch,
          DequeueSkip, DequeueEmpty, Requeue, Prefetch, ActivateWorker, Reply,
          ReleaseSlot, tables, taskVars
<1>2. ASSUME NEW th \in Threads, ClientCall(th)
      PROVE  state' = state \/ \E t \in Tasks : Submit(th, t)
  BY <1>2 DEF ClientCall, Cancel, tables, taskVars
<1>3. ASSUME NEW th \in Threads, WorkerCall(th)
      PROVE  \/ state' = state
             \/ \E w \in Workers, item \in Items : FailSlice(th, w, item)
  BY <1>0, <1>3 DEF WorkerCall, Poll, CompleteSlice, FailAfterComplete, tables,
                    taskVars
<1>4. ASSUME (\E w \in Workers : WorkerStep(w)) \/ CheckLoop \/ UNCHANGED vars
      PROVE  state' = state
  BY <1>4 DEF WorkerStep, RegisterWorker, Heartbeat, Drain, LeaveLoop,
              CloseHttp, Crash, FallSilent, CheckLoop, CheckTimeouts,
              BeginReassign, ReassignItem, EndReassign, vars, tables, taskVars
<1> QED BY <1>1, <1>2, <1>3, <1>4 DEF Next

(* How far each of these steps takes the state.                            *)
LEMMA StateChange ==
  ASSUME TypeInv, MergeInv, NoResubmit', NEW th \in Threads
  PROVE  /\ \A t \in Tasks : Submit(th, t) =>
              state[t] = "unknown" /\ state' = [state EXCEPT ![t] = "pending"]
         /\ CommitAssignment(th) =>
              LET t == TaskOf(thread[th].item)
              IN  /\ t \in Tasks /\ state[t] # "unknown"
                  /\ state' = IF state[t] = "pending"
                              THEN [state EXCEPT ![t] = "running"] ELSE state
         /\ MergeIfComplete(th) =>
              LET t == TaskOf(thread[th].item)
              IN  /\ t \in Tasks
                  /\ state' = IF AllIn(t) THEN [state EXCEPT ![t] = "completed"]
                                          ELSE state
         /\ \A w \in Workers, item \in Items : FailSlice(th, w, item) =>
              /\ TaskOf(item) \in Tasks
              /\ state' = [state EXCEPT ![TaskOf(item)] = "failed"]
<1>0. state \in [Tasks -> States]
  BY DEF TypeOK
<1>1. ASSUME NEW t \in Tasks, Submit(th, t)
      PROVE  state[t] = "unknown" /\ state' = [state EXCEPT ![t] = "pending"]
  BY <1>1, FirstSubmit DEF MergeInv, Submit, Occurs, NoResubmit, Never
<1>2. ASSUME CommitAssignment(th)
      PROVE  LET t == TaskOf(thread[th].item)
             IN  /\ t \in Tasks /\ state[t] # "unknown"
                 /\ state' = IF state[t] = "pending"
                             THEN [state EXCEPT ![t] = "running"] ELSE state
  <2> DEFINE t == TaskOf(thread[th].item)
  <2>1. t \in Tasks /\ published[t]
    BY <1>2, CallFields, TaskOfItem
       DEF CommitAssignment, At, MergeInv, CallsKnown, KnownCall, TypeOK
  <2>2. state' = [state EXCEPT ![t] = IF @ = "pending" THEN "running" ELSE @]
    BY <1>2 DEF CommitAssignment
  <2>3. state[t] # "unknown"
    BY <2>1 DEF MergeInv, TasksKnown
  <2> HIDE DEF t
  <2>4. state' = IF state[t] = "pending"
                 THEN [state EXCEPT ![t] = "running"] ELSE state
    BY <1>0, <2>1, <2>2
  <2> QED BY <2>1, <2>3, <2>4 DEF t
<1>3. ASSUME MergeIfComplete(th)
      PROVE  LET t == TaskOf(thread[th].item)
             IN  /\ t \in Tasks
                 /\ state' = IF AllIn(t) THEN [state EXCEPT ![t] = "completed"]
                                         ELSE state
  BY <1>3, MergeKnows DEF MergeInv, MergeIfComplete
<1>4. ASSUME NEW w \in Workers, NEW item \in Items, FailSlice(th, w, item)
      PROVE  /\ TaskOf(item) \in Tasks
             /\ state' = [state EXCEPT ![TaskOf(item)] = "failed"]
  BY <1>4, TaskOfItem DEF FailSlice, RecordFailure
<1> QED BY <1>1, <1>2, <1>3, <1>4

LEMMA StartedStays ==
  ASSUME TypeInv, MergeInv, Calm, [Next]_vars, NoResubmit', NEW t \in Tasks,
         Started(t)
  PROVE  Started(t)'
<1>0. state \in [Tasks -> States]
  BY DEF TypeOK
<1>1. ASSUME NEW th \in Threads,
             \/ \E u \in Tasks : Submit(th, u)
             \/ CommitAssignment(th) \/ MergeIfComplete(th)
             \/ \E w \in Workers, item \in Items : FailSlice(th, w, item)
      PROVE  Started(t)'
  <2>1. ASSUME NEW u \in Tasks, Submit(th, u) PROVE Started(t)'
    BY <1>0, <2>1, StateChange DEF Started
  <2>2. ASSUME CommitAssignment(th) PROVE Started(t)'
    <3> DEFINE u == TaskOf(thread[th].item)
    <3>1. u \in Tasks /\ state' = IF state[u] = "pending"
                                  THEN [state EXCEPT ![u] = "running"] ELSE state
      BY <2>2, StateChange
    <3> HIDE DEF u
    <3> QED BY <1>0, <3>1 DEF Started
  <2>3. ASSUME MergeIfComplete(th) PROVE Started(t)'
    <3> DEFINE u == TaskOf(thread[th].item)
    <3>1. /\ u \in Tasks
          /\ state' = IF AllIn(u) THEN [state EXCEPT ![u] = "completed"] ELSE state
      BY <2>3, StateChange
    <3> HIDE DEF u
    <3> QED BY <1>0, <3>1 DEF Started
  <2>4. ASSUME NEW w \in Workers, NEW item \in Items, FailSlice(th, w, item)
        PROVE  Started(t)'
    <3>1. /\ TaskOf(item) \in Tasks
          /\ state' = [state EXCEPT ![TaskOf(item)] = "failed"]
      BY <2>4, StateChange
    <3> QED BY <1>0, <3>1 DEF Started
  <2> QED BY <1>1, <2>1, <2>2, <2>3, <2>4
<1> QED BY <1>1, StateMoves DEF Started

(* A handler that works for a task has got it from one that was handing it *)
(* out, or from a worker that executes it.                                 *)
LEMMA WorkingSteps ==
  ASSUME TypeInv, Calm, [Next]_vars, NEW th \in Threads, Working(thread'[th])
  PROVE  \/ /\ Working(thread[th]) /\ thread'[th].item = thread[th].item
         \/ CommitAssignment(th) /\ thread'[th].item = thread[th].item
         \/ \E w \in Workers, item \in Items :
              held[<<w, item>>] > 0 /\ thread'[th].item = item
<1> USE DEF Working, ReportOps
<1>0. thread \in [Threads -> Call] /\ failing = {}
  BY DEF TypeOK, Calm
<1> USE <1>0 DEF Goto, Idle, At
<1>1. CASE thread'[th] = thread[th]
  BY <1>1
<1>2. CASE Advance(th)
  <2>1. CASE PublishSlices(th) \/ EnqueueSlice(th) \/ CancelWrite(th)
             \/ CancelRecord(th)
    BY <2>1 DEF PublishSlices, EnqueueSlice, CancelWrite, CancelRecord
  <2>2. CASE DequeueMatch(th) \/ DequeueSkip(th) \/ DequeueEmpty(th)
             \/ Requeue(th)
    BY <2>2 DEF DequeueMatch, DequeueSkip, DequeueEmpty, Requeue
  <2>3. CASE Prefetch(th) \/ Reply(th) \/ MergeIfComplete(th)
             \/ RetryOrRecord(th)
    BY <2>3 DEF Prefetch, Reply, MergeIfComplete, RetryOrRecord
  <2>4. CASE CommitAssignment(th)
    BY <2>4 DEF CommitAssignment
  <2>5. CASE ActivateWorker(th)
    BY <2>5 DEF ActivateWorker
  <2>6. CASE ReleaseSlot(th)
    BY <2>6 DEF ReleaseSlot
  <2> QED BY <1>2, <2>1, <2>2, <2>3, <2>4, <2>5, <2>6 DEF Advance
<1>3. CASE ClientCall(th)
  BY <1>3 DEF ClientCall, Submit, Cancel
<1>4. CASE WorkerCall(th)
  <2>1. ASSUME NEW w \in Workers PROVE ~Poll(th, w)
    BY DEF Poll
  <2>2. ASSUME NEW w \in Workers, NEW item \in Items,
               CompleteSlice(th, w, item) \/ FailSlice(th, w, item)
        PROVE  held[<<w, item>>] > 0 /\ thread'[th].item = item
    BY <2>2 DEF CompleteSlice, FailSlice, RecordFailure
  <2>3. ASSUME NEW w \in Workers, NEW item \in Items
        PROVE  ~FailAfterComplete(th, w, item)
    BY DEF FailAfterComplete
  <2> QED BY <1>4, <2>1, <2>2, <2>3 DEF WorkerCall
<1> QED BY <1>1, <1>2, <1>3, <1>4, ThreadSteps

LEMMA HeldComesFrom ==
  ASSUME TypeInv, [Next]_vars, NEW w \in Workers, NEW item \in Items,
         held'[<<w, item>>] > 0
  PROVE  \/ held[<<w, item>>] > 0
         \/ \E th \in Threads : Reply(th) /\ thread[th].item = item
<1>0. held \in [Workers \X Items -> Nat]
  BY DEF TypeOK
<1>1. ASSUME NEW th \in Threads, Reply(th), thread[th].item # item
      PROVE  held[<<w, item>>] > 0
  <2>1. \/ held' = held
        \/ LET e == <<thread[th].worker, thread[th].item>>
           IN  held' = [held EXCEPT ![e] = @ + 1]
    BY <1>1 DEF Reply
  <2> QED BY <1>0, <1>1, <2>1
<1>2. ASSUME NEW th \in Threads, Advance(th), ~Reply(th)
      PROVE  held' = held
  BY <1>2 DEF Advance, PublishSlices, EnqueueSlice, CancelWrite, CancelRecord,
              DequeueMatch, DequeueSkip, DequeueEmpty, Requeue, Prefetch,
              CommitAssignment, ActivateWorker, ReleaseSlot, MergeIfComplete,
              RetryOrRecord, envVars
<1>3. ASSUME NEW th \in Threads, ClientCall(th) \/ WorkerCall(th)
      PROVE  held[<<w, item>>] > 0
  <2>1. ASSUME NEW v \in Workers, NEW other \in Items,
               CompleteSlice(th, v, other) \/ FailSlice(th, v, other)
        PROVE  held[<<w, item>>] > 0
    BY <1>0, <2>1 DEF CompleteSlice, FailSlice
  <2> QED BY <1>3, <2>1 DEF ClientCall, WorkerCall, Submit, Cancel, Poll,
                            FailAfterComplete, envVars
<1>4. ASSUME (\E v \in Workers : WorkerStep(v)) \/ CheckLoop \/ UNCHANGED vars
      PROVE  held' = held \/ \E v \in Workers : DropExecutions(v)
  BY <1>4 DEF WorkerStep, RegisterWorker, Heartbeat, Drain, LeaveLoop,
              CloseHttp, Crash, FallSilent, CheckLoop, CheckTimeouts,
              BeginReassign, ReassignItem, EndReassign, vars, envVars
<1>5. ASSUME NEW v \in Workers, DropExecutions(v) PROVE held[<<w, item>>] > 0
  BY <1>0, <1>5 DEF DropExecutions
<1> QED BY <1>1, <1>2, <1>3, <1>4, <1>5 DEF Next

LEMMA StartedFirstNext ==
  ASSUME TypeInv, MergeInv, Calm, StartedFirst, [Next]_vars, NoResubmit'
  PROVE  StartedFirst'
<1>0. thread \in [Threads -> Call] /\ thread' \in [Threads -> Call]
  BY TypeNext DEF TypeOK
<1>1. ASSUME NEW item \in Items, Started(TaskOf(item))
      PROVE  Started(TaskOf(item))'
  BY <1>1, TaskOfItem, StartedStays
<1>2. ASSUME NEW th \in Threads, Working(thread'[th])
      PROVE  \E item \in Items : /\ thread'[th].item = item
                                 /\ Started(TaskOf(item))'
  <2>1. PICK item \in Items : item = thread'[th].item
    BY <1>0, <1>2, CallFields DEF Working, ReportOps
  <2>2. CASE CommitAssignment(th) /\ thread'[th].item = thread[th].item
    <3>1. /\ TaskOf(item) \in Tasks /\ state[TaskOf(item)] # "unknown"
          /\ state' = IF state[TaskOf(item)] = "pending"
                      THEN [state EXCEPT ![TaskOf(item)] = "running"] ELSE state
      BY <2>1, <2>2, StateChange
    <3> QED BY <2>1, <3>1 DEF Started, TypeOK
  <2>3. CASE Working(thread[th]) /\ thread'[th].item = thread[th].item
    <3>1. Started(TaskOf(item))
      BY <2>1, <2>3 DEF StartedFirst
    <3> QED BY <1>1, <2>1, <3>1
  <2>4. CASE \E w \in Workers : held[<<w, item>>] > 0
    <3>1. Started(TaskOf(item))
      BY <2>4 DEF StartedFirst
    <3> QED BY <1>1, <2>1, <3>1
  <2> QED BY <1>2, <2>1, <2>2, <2>3, <2>4, WorkingSteps
<1>3. ASSUME NEW w \in Workers, NEW item \in Items, held'[<<w, item>>] > 0
      PROVE  Started(TaskOf(item))'
  <2>1. Started(TaskOf(item))
    BY <1>3, HeldComesFrom DEF StartedFirst, Reply, At, Working
  <2> QED BY <1>1, <2>1
<1>4. ASSUME NEW th \in Threads, Working(thread'[th])
      PROVE  state'[TaskOf(thread'[th].item)] \notin {"unknown", "pending"}
  BY <1>2, <1>4 DEF Started
<1> QED BY <1>3, <1>4 DEF StartedFirst, Started, Working

-----------------------------------------------------------------------------
(* A failed task is short of a slice.                                      *)

(* What is nowhere stays nowhere: only a submission creates slices.        *)
LEMMA NowhereStays ==
  ASSUME TypeInv, MergeInv, NoRetry, reassigning = None, OneEach, [Next]_vars,
         NoResubmit', NEW t \in Tasks, state[t] # "unknown",
         NEW item \in SlicesOf(t), \A p \in Places : ~IsAt(p, item)
  PROVE  \A p \in Places : ~IsAt(p, item)'
<1>1. item \in Items /\ TaskOf(item) = t
  BY SlicesAreItems
<1>2. CASE Stays
  BY <1>1, <1>2 DEF Stays
<1>3. ASSUME NEW x \in Items, NEW q \in Places, NEW p \in Places, Moves(x, q, p)
      PROVE  \A r \in Places : ~IsAt(r, item)'
  BY <1>1, <1>3 DEF Moves
<1>4. ASSUME NEW th \in Threads, NEW u \in Tasks, Submit(th, u),
             Starts(u, <<"handler", th>>)
      PROVE  \A r \in Places : ~IsAt(r, item)'
  <2>1. u # t
    BY <1>4, StateChange
  <2>2. item \notin SlicesOf(u)
    BY <1>1, <2>1, SlicesAreItems
  <2> QED BY <1>1, <1>4, <2>2 DEF Starts
<1> QED BY <1>2, <1>3, <1>4, PlacesNext

LEMMA FailedSteps ==
  ASSUME TypeInv, MergeInv, Calm, [Next]_vars, NoResubmit',
         NEW t \in Tasks, state'[t] = "failed"
  PROVE  \/ state[t] = "failed"
         \/ \E th \in Threads, w \in Workers, item \in Items :
              FailSlice(th, w, item) /\ TaskOf(item) = t
<1>0. state \in [Tasks -> States]
  BY DEF TypeOK
<1>1. ASSUME NEW th \in Threads, NEW u \in Tasks, Submit(th, u)
      PROVE  state[t] = "failed"
  BY <1>0, <1>1, StateChange
<1>2. ASSUME NEW th \in Threads, CommitAssignment(th) PROVE state[t] = "failed"
  BY <1>0, <1>2, StateChange
<1>3. ASSUME NEW th \in Threads, MergeIfComplete(th) PROVE state[t] = "failed"
  BY <1>0, <1>3, StateChange
<1>4. ASSUME NEW th \in Threads, NEW w \in Workers, NEW item \in Items,
             FailSlice(th, w, item), TaskOf(item) # t
      PROVE  state[t] = "failed"
  BY <1>0, <1>4, StateChange
<1> QED BY <1>1, <1>2, <1>3, <1>4, StateMoves

LEMMA FailedShortNext ==
  ASSUME TypeInv, MergeInv, Calm, reassigning = None, OneEach, FailedShort,
         [Next]_vars, NoResubmit'
  PROVE  FailedShort'
<1> SUFFICES ASSUME NEW t \in Tasks, state'[t] = "failed"
             PROVE  \E item \in SlicesOf(t) : \A p \in Places : ~IsAt(p, item)'
  <2>1. Places' = Places
    OBVIOUS
  <2> QED BY <2>1 DEF FailedShort, SlicesOf
<1>0. NoRetry
  BY DEF Calm
<1>1. CASE state[t] = "failed"
  <2>1. PICK item \in SlicesOf(t) : \A p \in Places : ~IsAt(p, item)
    BY <1>1 DEF FailedShort
  <2> QED BY <1>0, <1>1, <2>1, NowhereStays
<1>2. ASSUME NEW th \in Threads, NEW w \in Workers, NEW item \in Items,
             FailSlice(th, w, item), TaskOf(item) = t
      PROVE  \E x \in SlicesOf(t) : \A p \in Places : ~IsAt(p, x)'
  <2>0. /\ OnePlace /\ OnlySlices /\ OnceHeld
        /\ held \in [Workers \X Items -> Nat]
    BY DEF OneEach, TypeOK
  <2>1. held[<<w, item>>] > 0 /\ held' = [held EXCEPT ![<<w, item>>] = @ - 1]
    BY <1>2 DEF FailSlice
  <2>2. IsAt(<<"worker", w>>, item) /\ ~IsAt(<<"worker", w>>, item)'
    <3>1. held[<<w, item>>] = 1 /\ held'[<<w, item>>] = 0
      BY <2>0, <2>1 DEF OnceHeld
    <3> QED BY <3>1, PlaceOf
  <2>3. item \in SlicesOf(t)
    BY <1>2, <2>0, <2>2, ThePlaces DEF OnlySlices
  <2>4. Stays
    BY <1>2, CallStays, StayingStays
  <2>5. ASSUME NEW p \in Places PROVE ~IsAt(p, item)'
    BY <2>0, <2>2, <2>4, ThePlaces DEF Stays, OnePlace
  <2> QED BY <2>3, <2>5
<1> QED BY <1>1, <1>2, FailedSteps

LEMMA EndsNext ==
  ASSUME TypeInv, ResultInv, OnceInv, Calm, Ends, [Next]_vars, Peaceful'
  PROVE  Ends'
<1>0. MergeInv /\ NoResubmit'
  BY HappenedGrows DEF ResultInv, NoResubmit, Never, Peaceful
<1>1. ASSUME NEW t \in Tasks PROVE state'[t] # "cancelled"
  <2>0. state \in [Tasks -> States] /\ state[t] # "cancelled"
    BY DEF TypeOK, Ends
  <2>1. ASSUME NEW th \in Threads, NEW u \in Tasks, Submit(th, u)
        PROVE  state'[t] # "cancelled"
    BY <1>0, <2>0, <2>1, StateChange
  <2>2. ASSUME NEW th \in Threads, CommitAssignment(th)
        PROVE  state'[t] # "cancelled"
    BY <1>0, <2>0, <2>2, StateChange
  <2>3. ASSUME NEW th \in Threads, MergeIfComplete(th)
        PROVE  state'[t] # "cancelled"
    BY <1>0, <2>0, <2>3, StateChange
  <2>4. ASSUME NEW th \in Threads, NEW w \in Workers, NEW item \in Items,
               FailSlice(th, w, item)
        PROVE  state'[t] # "cancelled"
    BY <1>0, <2>0, <2>4, StateChange
  <2> QED BY <2>0, <2>1, <2>2, <2>3, <2>4, StateMoves
<1>2. ASSUME Never({"fail"})', NEW t \in Tasks PROVE state'[t] # "failed"
  <2>1. state[t] # "failed"
    BY <1>2, HappenedGrows DEF Ends, Never
  <2>2. ASSUME NEW th \in Threads, NEW w \in Workers, NEW item \in Items
        PROVE  ~FailSlice(th, w, item)
    BY <1>2 DEF FailSlice, Occurs, Never, Peaceful
  <2> QED BY <1>0, <2>1, <2>2, FailedSteps
<1>3. ASSUME Never(Repeating)' PROVE FailedShort'
  <2>1. Never(Repeating)
    BY <1>3, HappenedGrows DEF Never
  <2>2. FailedShort /\ OneEach /\ reassigning = None
    BY <2>1 DEF Ends, OnceInv, Undisturbed
  <2> QED BY <1>0, <2>2, FailedShortNext
<1> QED BY <1>1, <1>2, <1>3 DEF Ends

LEMMA PeaceNext ==
  TypeInv /\ ResultInv /\ OnceInv /\ PeaceInv /\ [Next]_vars => PeaceInv'
<1> SUFFICES ASSUME TypeInv, ResultInv, OnceInv, PeaceInv, [Next]_vars, Peaceful'
             PROVE  Calm' /\ StartedFirst' /\ Ends'
  BY DEF PeaceInv
<1>1. Peaceful /\ NoResubmit /\ NoResubmit'
  BY HappenedGrows DEF Peaceful, NoResubmit, Never
<1>2. Calm /\ StartedFirst /\ Ends /\ MergeInv
  BY <1>1 DEF PeaceInv, ResultInv
<1> QED BY <1>1, <1>2, CalmNext, StartedFirstNext, EndsNext

LEMMA PeaceInit == Init => PeaceInv
<1> SUFFICES ASSUME Init PROVE Calm /\ StartedFirst /\ Ends
  BY DEF PeaceInv
<1>1. Calm
  BY DEF Init, Calm, NobodyCancels, NoRetry, Idle, ReportOps
<1>2. StartedFirst
  BY DEF Init, StartedFirst, Working, Idle, ReportOps
<1>3. Ends
  BY DEF Init, Ends, FailedShort
<1> QED BY <1>1, <1>2, <1>3

-----------------------------------------------------------------------------
(* Every step is a step of the life cycle, or leaves the task alone.       *)

LifeStep(t) == Lifecycle!Step(t) \/ UNCHANGED <<state[t], Readable[t]>>

LEMMA ReadableSame ==
  ASSUME NEW t \in Tasks, state'[t] = state[t], result'[t] = result[t]
  PROVE  UNCHANGED <<state[t], Readable[t]>>
BY DEF Readable

LEMMA SubmitLife ==
  ASSUME TypeInv, MergeInv, NoResubmit', NEW th \in Threads, NEW u \in Tasks,
         Submit(th, u), NEW t \in Tasks
  PROVE  LifeStep(t)
<1>0. state \in [Tasks -> States]
  BY DEF TypeOK
<1>1. /\ state[u] = "unknown" /\ state' = [state EXCEPT ![u] = "pending"]
      /\ result' = result
  BY StateChange, FirstSubmit DEF MergeInv
<1>2. Readable' = Readable
  BY <1>0, <1>1 DEF Readable
<1>3. CASE t = u
  BY <1>1, <1>2, <1>3
     DEF LifeStep, Lifecycle!Step, Lifecycle!Submit, Lifecycle!Moves
<1>4. CASE t # u
  BY <1>0, <1>1, <1>4, ReadableSame DEF LifeStep
<1> QED BY <1>3, <1>4

LEMMA CommitLife ==
  ASSUME TypeInv, MergeInv, NoResubmit', NEW th \in Threads,
         CommitAssignment(th), NEW t \in Tasks
  PROVE  LifeStep(t)
<1>0. state \in [Tasks -> States]
  BY DEF TypeOK
<1>1. PICK u \in Tasks :
        state' = IF state[u] = "pending" THEN [state EXCEPT ![u] = "running"]
                                         ELSE state
  BY StateChange
<1>2. result' = result
  BY DEF CommitAssignment
<1>3. CASE state[u] = "pending"
  <2>1. Readable' = Readable
    BY <1>0, <1>1, <1>2, <1>3 DEF Readable
  <2>2. CASE t = u
    BY <1>1, <1>3, <2>1, <2>2
       DEF LifeStep, Lifecycle!Step, Lifecycle!Run, Lifecycle!Moves
  <2>3. CASE t # u
    BY <1>0, <1>1, <1>2, <1>3, <2>3, ReadableSame DEF LifeStep
  <2> QED BY <2>2, <2>3
<1>4. CASE state[u] # "pending"
  BY <1>1, <1>2, <1>4, ReadableSame DEF LifeStep
<1> QED BY <1>3, <1>4

(* A held slice is not among the partial results, so its task is not       *)
(* completed when it fails.                                                *)
LEMMA FailLife ==
  ASSUME TypeInv, ResultInv, OnceInv, PeaceInv, Peaceful, Peaceful',
         Never({"fail"})' \/ Never(Repeating)', [Next]_vars,
         NEW th \in Threads, NEW w \in Workers, NEW item \in Items,
         FailSlice(th, w, item), NEW t \in Tasks
  PROVE  LifeStep(t)
<1> DEFINE u == TaskOf(item)
<1>0. /\ state \in [Tasks -> States] /\ u \in Tasks
      /\ MergeInv /\ Calm /\ StartedFirst /\ Ends /\ NoResubmit'
  BY TaskOfItem DEF TypeOK, ResultInv, NoResubmit, Never, Peaceful, PeaceInv
<1>1. Never(Repeating)
  BY HappenedGrows DEF FailSlice, Occurs, Never, Peaceful
<1>2. /\ state' = [state EXCEPT ![u] = "failed"] /\ result' = result
      /\ held[<<w, item>>] > 0
  BY <1>0, StateChange DEF FailSlice, RecordFailure
<1>3. state[u] \notin {"unknown", "pending", "cancelled"}
  BY <1>0, <1>2 DEF StartedFirst, Started, Ends
<1>4. state[u] # "completed"
  <2> SUFFICES ASSUME state[u] = "completed" PROVE FALSE
    OBVIOUS
  <2>1. OneEach
    BY <1>1 DEF OnceInv
  <2>2. result[u] # {} /\ completed[u] >= Len(SliceList[u])
    BY <1>0 DEF MergeInv, CompletedMerged, ResultsFinal
  <2>3. partials[u] = SlicesOf(u)
    BY <1>0, <2>1, <2>2, AllCounted DEF OneEach
  <2>4. IsAt(<<"worker", w>>, item)
    BY <1>2, PlaceOf
  <2>5. item \in partials[u]
    BY <2>1, <2>3, <2>4, ThePlaces DEF OneEach, OnlySlices
  <2>6. IsAt(<<"done", None>>, item)
    BY <2>5, PlaceOf
  <2> QED BY <2>1, <2>4, <2>6, ThePlaces DEF OneEach, OnePlace
<1> HIDE DEF u
<1>5. state[u] \in {"running", "failed"}
  BY <1>0, <1>3, <1>4 DEF States
<1>6. Readable' = Readable
  BY <1>0, <1>2, <1>4 DEF Readable
<1>7. CASE t = u /\ state[u] = "running"
  BY <1>2, <1>6, <1>7
     DEF LifeStep, Lifecycle!Step, Lifecycle!Fail, Lifecycle!Moves
<1>8. CASE t # u \/ state[u] = "failed"
  BY <1>0, <1>2, <1>8, ReadableSame DEF LifeStep
<1> QED BY <1>5, <1>7, <1>8

(* A task that has all its slices has not failed, and when it is merged    *)
(* once more nothing changes that a client can read.                       *)
LEMMA MergeLife ==
  ASSUME TypeInv, ResultInv, OnceInv, PeaceInv, Peaceful, Peaceful',
         Never({"fail"})' \/ Never(Repeating)', [Next]_vars,
         NEW th \in Threads, MergeIfComplete(th), NEW t \in Tasks
  PROVE  LifeStep(t)
<1> DEFINE c == thread[th]
<1>0. /\ state \in [Tasks -> States] /\ result \in [Tasks -> SUBSET Items]
      /\ MergeInv /\ Calm /\ StartedFirst /\ Ends /\ NoResubmit'
  BY DEF TypeOK, ResultInv, NoResubmit, Never, Peaceful, PeaceInv
<1>1. PICK u \in Tasks : u = TaskOf(c.item)
  BY <1>0, MergeKnows DEF MergeInv
<1>2. /\ AllIn(u) <=> completed[u] = Len(SliceList[u])
      /\ MergeOf(u) # {}
  BY <1>0, <1>1, MergeKnows DEF MergeInv
<1>3. CASE ~AllIn(u)
  <2>1. state' = state /\ result' = result
    BY <1>1, <1>3 DEF MergeIfComplete
  <2> QED BY <2>1, ReadableSame DEF LifeStep
<1>4. CASE AllIn(u)
  <2>1. /\ state' = [state EXCEPT ![u] = "completed"]
        /\ result' = [result EXCEPT ![u] = MergeOf(u)]
    BY <1>1, <1>4 DEF MergeIfComplete
  <2>2. state[u] \notin {"unknown", "pending", "cancelled"}
    <3>1. Working(c)
      BY DEF MergeIfComplete, At, Working, ReportOps
    <3> QED BY <1>0, <1>1, <3>1 DEF StartedFirst, Started, Ends
  <2>3. state[u] # "failed"
    <3>1. CASE Never({"fail"})'
      BY <1>0, <3>1, HappenedGrows DEF Ends, Never
    <3>2. CASE Never(Repeating)'
      <4>1. Never(Repeating)
        BY <3>2, HappenedGrows DEF Never
      <4>2. FailedShort /\ OneEach
        BY <1>0, <4>1 DEF Ends, OnceInv
      <4>3. completed[u] >= Len(SliceList[u])
        BY <1>2, <1>4, SliceLists
      <4>4. partials[u] = SlicesOf(u)
        BY <4>2, <4>3, AllCounted DEF OneEach
      <4>5. ASSUME NEW item \in SlicesOf(u) PROVE IsAt(<<"done", None>>, item)
        BY <4>4, <4>5, SlicesAreItems, PlaceOf
      <4> QED BY <4>2, <4>5, ThePlaces DEF FailedShort
    <3> QED BY <3>1, <3>2
  <2>4. CASE t # u
    BY <1>0, <2>1, <2>4, ReadableSame DEF LifeStep
  <2>5. CASE t = u /\ state[u] = "completed"
    <3>1. result'[u] = result[u]
      BY <1>0, <2>5, WriteOnceStep DEF MergeInv, CompletedMerged
    <3>2. state'[u] = state[u]
      BY <1>0, <2>1, <2>5
    <3> QED BY <2>5, <3>1, <3>2, ReadableSame DEF LifeStep
  <2>6. CASE t = u /\ state[u] = "running"
    <3>1. \A v \in Tasks \ {u} : Readable'[v] = Readable[v]
      BY <1>0, <2>1 DEF Readable
    <3>2. Readable'[u] # {}
      BY <1>0, <1>2, <2>1 DEF Readable
    <3> QED BY <2>1, <2>6, <3>1, <3>2
        DEF LifeStep, Lifecycle!Step, Lifecycle!Complete, Lifecycle!Moves
  <2> QED BY <1>0, <2>2, <2>3, <2>4, <2>5, <2>6 DEF States
<1> QED BY <1>3, <1>4

LEMMA OrderlySteps ==
  ASSUME TypeInv, ResultInv, OnceInv, PeaceInv, [Next]_vars, Orderly',
         NEW t \in Tasks
  PROVE  LifeStep(t)
<1>0. /\ Peaceful /\ Peaceful' /\ NoResubmit'
      /\ Never({"fail"})' \/ Never(Repeating)'
  BY HappenedGrows DEF Orderly, Peaceful, Never, NoResubmit
<1>1. Calm /\ MergeInv
  BY <1>0, HappenedGrows DEF PeaceInv, ResultInv, NoResubmit, Never
<1>2. ASSUME NEW th \in Threads, NEW u \in Tasks, Submit(th, u)
      PROVE  LifeStep(t)
  BY <1>0, <1>1, <1>2, SubmitLife
<1>3. ASSUME NEW th \in Threads, CommitAssignment(th) PROVE LifeStep(t)
  BY <1>0, <1>1, <1>3, CommitLife
<1>4. ASSUME NEW th \in Threads, MergeIfComplete(th) PROVE LifeStep(t)
  BY <1>0, <1>4, MergeLife
<1>5. ASSUME NEW th \in Threads, NEW w \in Workers, NEW item \in Items,
             FailSlice(th, w, item)
      PROVE  LifeStep(t)
  BY <1>0, <1>5, FailLife
<1>6. CASE state' = state /\ result' = result
  BY <1>6, ReadableSame DEF LifeStep
<1>7. \/ result' = result
      \/ \E th \in Threads : \/ MergeIfComplete(th)
                             \/ \E u \in Tasks : Submit(th, u)
  BY ResultSteps DEF PublishSlices, CompleteSlice
<1> QED BY <1>1, <1>2, <1>3, <1>4, <1>5, <1>6, <1>7, StateMoves

LEMMA PeaceInvariant == Spec => [](TypeInv /\ ResultInv /\ OnceInv /\ PeaceInv)
BY TypeInit, TypeNext, ResultInit, ResultNext, OnceInit, OnceNext, PeaceInit,
   PeaceNext, PTL DEF Spec

(* While nothing happens that lets a handler overwrite the end of a task,  *)
(* the dispatcher implements the life cycle of the protocol, step by step, *)
(* through crashes, timeouts, lost replies and reassignments.              *)
THEOREM LifecycleImplemented == Spec => LifecycleKept
<1>1. Init => Lifecycle!Init
  BY DEF Init, Lifecycle!Init, Readable
<1>2. TypeInv /\ ResultInv /\ OnceInv /\ PeaceInv /\ [Next]_vars =>
        [Orderly' => \A t \in Tasks :
           \/ Lifecycle!Step(t)
           \/ UNCHANGED <<state[t], Readable[t]>>]_vars
  BY OrderlySteps DEF LifeStep
<1> QED BY <1>1, <1>2, PeaceInvariant, PTL DEF Spec, LifecycleKept

=============================================================================

---------------------------- MODULE RemoteProofs ----------------------------
(***************************************************************************)
(* Proofs about the two programs that call a dispatcher: WorkerProcess,    *)
(* for any number of slices, futures and pool threads and whatever calls   *)
(* fail, and RemoteBackend, for any number of ids and events and every     *)
(* call of the client.  They share no variable.                            *)
(*                                                                         *)
(* WorkerInv is inductive.  EntriesAreTasks is not on its own: two         *)
(* executions of one slice share its entry, so one has to know that this   *)
(* happens to slices assigned again only (SharedMeansAgain), also to the   *)
(* future that is not stored yet, which may have ended already.            *)
(*                                                                         *)
(* RemoteInv is inductive.  ReadsCompleted is what makes ErrorIsNoResult   *)
(* so: a call asks for a result only after it was told COMPLETED, and      *)
(* whatever moves the task on between its two requests is noted.           *)
(***************************************************************************)
EXTENDS WorkerProcess, RemoteBackend, TLAPS

(* Two futures of one slice, one of which runs while the other runs or is  *)
(* about to be stored.                                                     *)
SharedMeansAgain ==
  \A f, g \in Futures :
    /\ f # g /\ of[f] = of[g]
    /\ at[g] # "free"
    /\ at[f] # "free" \/ f = pending
    => of[g] \in again

(* Nothing is polled once the loop has been left.                          *)
LeftIsOut == left # "no" => main \in {"unregister", "closed"}

WorkerFacts ==
  SharedMeansAgain /\ LeftIsOut /\ EntriesAreTasks /\ DrainKeepsResults

WorkerInv == TypeOK /\ WorkerFacts

-----------------------------------------------------------------------------
(* Init establishes the invariant.                                         *)
LEMMA WorkerInit == Init => WorkerInv
BY WorkerAssumption
   DEF Init, WorkerInv, WorkerFacts, TypeOK, Places, SharedMeansAgain,
       LeftIsOut, EntriesAreTasks, DrainKeepsResults, Entries

(* The future a poll takes is free and has no entry.                       *)
LEMMA IdleChoice ==
  ASSUME \E g \in Futures : Idle(g)
  PROVE  LET f == CHOOSE g \in Futures : Idle(g) IN f \in Futures /\ Idle(f)
OBVIOUS

(* Every action keeps the types (_active_futures holds futures, each of    *)
(* which executes a slice).                                                *)
LEMMA WorkerTypeNext == TypeOK /\ [Next]_vars => TypeOK'
<1> SUFFICES ASSUME TypeOK, [Next]_vars PROVE TypeOK'
  OBVIOUS
<1> USE WorkerAssumption DEF TypeOK, Places, futVars, flagVars, histVars
<1>1. CASE Register  BY <1>1 DEF Register
<1>2. CASE LoopTest  BY <1>2 DEF LoopTest
<1>3. CASE PollNothing  BY <1>3 DEF PollNothing
<1>4. CASE StoreFuture
  <2>1. pending \in Futures /\ of[pending] \in Slices
    BY <1>4 DEF StoreFuture
  <2> QED
    BY <2>1, <1>4 DEF StoreFuture
<1>5. CASE Unregister  BY <1>5 DEF Unregister
<1>6. ASSUME NEW s \in Slices, Poll(s) PROVE TypeOK'
  <2> DEFINE f == CHOOSE g \in Futures : Idle(g)
  <2>1. f \in Futures /\ Idle(f)
    BY <1>6, IdleChoice DEF Poll
  <2>2. /\ main = "poll" /\ main' = "store" /\ pending' = f
        /\ of' = [of EXCEPT ![f] = s] /\ at' = [at EXCEPT ![f] = "queued"]
        /\ again' \in {again, again \cup {s}}
        /\ UNCHANGED <<known, active, stopping, draining, left, overtaken>>
    BY <1>6 DEF Poll
  <2> HIDE DEF f
  <2> QED
    BY <2>1, <2>2
<1>7. ASSUME NEW f \in Futures, StartExecution(f) PROVE TypeOK'
  BY <1>7 DEF StartExecution
<1>8. ASSUME NEW f \in Futures, Run(f) PROVE TypeOK'
  BY <1>8 DEF Run
<1>9. ASSUME NEW f \in Futures, SendComplete(f) PROVE TypeOK'
  BY <1>9 DEF SendComplete
<1>10. ASSUME NEW f \in Futures, SendFail(f) PROVE TypeOK'
  BY <1>10 DEF SendFail
<1>11. ASSUME NEW f \in Futures, PopFuture(f) PROVE TypeOK'
  BY <1>11 DEF PopFuture
<1>12. CASE Stop  BY <1>12 DEF Stop
<1>13. CASE Drain  BY <1>13 DEF Drain
<1>14. CASE UNCHANGED vars  BY <1>14 DEF vars
<1> QED
  BY <1>1, <1>2, <1>3, <1>4, <1>5, <1>6, <1>7, <1>8, <1>9, <1>10, <1>11,
     <1>12, <1>13, <1>14 DEF Next, MainThread, Execution

-----------------------------------------------------------------------------
(* A step that moves an execution on, and neither begins nor ends it, or   *)
(* only sets flags, disturbs none of the facts.                            *)
LEMMA WorkerQuiet ==
  ASSUME WorkerInv, TypeOK',
         UNCHANGED <<pending, active, of, left, again, overtaken>>,
         \A f \in Futures : at'[f] = "free" <=> at[f] = "free",
         main' = main \/ main' = "unregister" \/ main' = "closed"
           \/ (left = "no" /\ main # "store")
  PROVE  WorkerFacts'
BY DEF WorkerInv, WorkerFacts, TypeOK, SharedMeansAgain, LeftIsOut,
       EntriesAreTasks, DrainKeepsResults, Entries

(* Every action keeps the facts.                                           *)
LEMMA WorkerFactsNext == WorkerInv /\ TypeOK' /\ [Next]_vars => WorkerFacts'
<1> SUFFICES ASSUME WorkerInv, TypeOK', [Next]_vars PROVE WorkerFacts'
  OBVIOUS
<1> USE DEF futVars, flagVars, histVars
<1>1. CASE Register
  BY <1>1, WorkerQuiet DEF Register, WorkerInv, WorkerFacts, LeftIsOut
<1>2. CASE LoopTest
  <2>1. pending = None
    BY <1>2 DEF LoopTest, WorkerInv, TypeOK
  <2>2. left' = "drain" => left = "drain" \/ Entries = {}
    BY <1>2 DEF LoopTest, MayLeave
  <2>3. ASSUME Entries = {}, NEW f \in Futures, at[f] # "free"
        PROVE  of[f] \in again
    <3>1. of[f] \in Slices /\ active[of[f]] = None
      BY <2>3 DEF Entries, WorkerInv, TypeOK
    <3> QED
      BY <2>1, <2>3, <3>1, WorkerAssumption
         DEF WorkerInv, WorkerFacts, EntriesAreTasks
  <2>4. DrainKeepsResults'
    BY <1>2, <2>2, <2>3
       DEF LoopTest, DrainKeepsResults, WorkerInv, WorkerFacts
  <2>5. LeftIsOut'
    BY <1>2 DEF LoopTest, LeftIsOut, WorkerInv, WorkerFacts
  <2> QED
    BY <1>2, <2>4, <2>5
       DEF LoopTest, WorkerInv, WorkerFacts, SharedMeansAgain,
           EntriesAreTasks, Entries
<1>3. CASE PollNothing
  BY <1>3, WorkerQuiet DEF PollNothing, WorkerInv, WorkerFacts, LeftIsOut
<1>4. CASE StoreFuture
  <2> DEFINE p == pending
  <2>1. /\ p \in Futures /\ of[p] \in Slices /\ pending' = None
        /\ active' = [active EXCEPT ![of[p]] = p]
        /\ main' = "loop" /\ left = "no"
        /\ UNCHANGED <<of, at, left, again>>
        /\ overtaken \subseteq overtaken'
        /\ at[p] = "free" => of[p] \in overtaken'
    BY <1>4 DEF StoreFuture, WorkerInv, TypeOK, WorkerFacts, LeftIsOut
  <2>2. SharedMeansAgain'
    BY <2>1, WorkerAssumption DEF WorkerInv, WorkerFacts, SharedMeansAgain
  <2>3. ASSUME NEW s \in Entries', s \notin overtaken'
        PROVE  at'[active'[s]] # "free" /\ of'[active'[s]] = s
    <3>1. CASE s = of[p]
      BY <2>1, <2>3, <3>1 DEF WorkerInv, TypeOK
    <3>2. CASE s # of[p]
      BY <2>1, <2>3, <3>2
         DEF WorkerInv, TypeOK, WorkerFacts, EntriesAreTasks, Entries
    <3> QED
      BY <3>1, <3>2
  <2>4. ASSUME NEW f \in Futures, at[f] # "free", of[f] \notin again
        PROVE  active'[of[f]] = f
    <3>1. CASE f = p
      BY <2>1, <3>1 DEF WorkerInv, TypeOK
    <3>2. CASE f # p
      <4>1. of[f] \in Slices /\ active[of[f]] = f
        BY <2>4, <3>2
           DEF WorkerInv, TypeOK, WorkerFacts, EntriesAreTasks
      <4>2. of[f] # of[p]
        BY <2>1, <2>4, <3>2
           DEF WorkerInv, WorkerFacts, SharedMeansAgain
      <4> QED
        BY <2>1, <4>1, <4>2 DEF WorkerInv, TypeOK
    <3> QED
      BY <3>1, <3>2
  <2>5. EntriesAreTasks'
    BY <2>1, <2>3, <2>4 DEF EntriesAreTasks
  <2> QED
    BY <2>1, <2>2, <2>5 DEF WorkerFacts, LeftIsOut, DrainKeepsResults
<1>5. CASE Unregister
  BY <1>5, WorkerQuiet DEF Unregister
<1>6. ASSUME NEW s \in Slices, Poll(s) PROVE WorkerFacts'
  <2> DEFINE f == CHOOSE g \in Futures : Idle(g)
  <2>1. f \in Futures /\ Idle(f)
    BY <1>6, IdleChoice DEF Poll
  <2>2. /\ main = "poll" /\ main' = "store" /\ pending' = f
        /\ of' = [of EXCEPT ![f] = s] /\ at' = [at EXCEPT ![f] = "queued"]
        /\ again \subseteq again'
        /\ (\E g \in Futures : at[g] # "free" /\ of[g] = s) => s \in again'
        /\ UNCHANGED <<active, left, overtaken>>
    BY <1>6 DEF Poll
  <2> HIDE DEF f
  <2>3. left = "no" /\ pending = None
    BY <2>2 DEF WorkerInv, TypeOK, WorkerFacts, LeftIsOut
  <2>4. \A g \in Futures \ {f} : of'[g] = of[g] /\ at'[g] = at[g]
    BY <2>2 DEF WorkerInv, TypeOK
  <2>5. of'[f] = s
    BY <2>1, <2>2 DEF WorkerInv, TypeOK
  <2>6. SharedMeansAgain'
    BY <2>1, <2>2, <2>3, <2>4, <2>5
       DEF WorkerInv, WorkerFacts, SharedMeansAgain
  <2>7. \A e \in Entries : active[e] \in Futures \ {f}
    BY <2>1 DEF Entries, Idle, WorkerInv, TypeOK
  <2>8. EntriesAreTasks'
    BY <2>2, <2>3, <2>4, <2>7, WorkerAssumption
       DEF WorkerInv, WorkerFacts, EntriesAreTasks, Entries
  <2> QED
    BY <2>2, <2>3, <2>6, <2>8 DEF WorkerFacts, LeftIsOut, DrainKeepsResults
<1>7. ASSUME NEW f \in Futures, StartExecution(f) PROVE WorkerFacts'
  BY <1>7, WorkerQuiet DEF StartExecution, WorkerInv, TypeOK
<1>8. ASSUME NEW f \in Futures, Run(f) PROVE WorkerFacts'
  BY <1>8, WorkerQuiet DEF Run, WorkerInv, TypeOK
<1>9. ASSUME NEW f \in Futures, SendComplete(f) PROVE WorkerFacts'
  BY <1>9, WorkerQuiet DEF SendComplete, WorkerInv, TypeOK
<1>10. ASSUME NEW f \in Futures, SendFail(f) PROVE WorkerFacts'
  BY <1>10, WorkerQuiet DEF SendFail, WorkerInv, TypeOK
<1>11. ASSUME NEW f \in Futures, PopFuture(f) PROVE WorkerFacts'
  <2>1. /\ at[f] # "free" /\ of[f] \in Slices
        /\ at' = [at EXCEPT ![f] = "free"]
        /\ active' = [active EXCEPT ![of[f]] = None]
        /\ UNCHANGED <<main, pending, of, left, again, overtaken>>
    BY <1>11 DEF PopFuture, WorkerInv, TypeOK
  <2>2. SharedMeansAgain'
    BY <2>1 DEF WorkerInv, TypeOK, WorkerFacts, SharedMeansAgain
  <2>3. ASSUME NEW s \in Entries', s \notin overtaken
        PROVE  at'[active'[s]] # "free" /\ of'[active'[s]] = s
    <3>1. s \in Entries /\ s # of[f] /\ active'[s] = active[s]
      BY <2>1, <2>3 DEF Entries, WorkerInv, TypeOK
    <3>2. at[active[s]] # "free" /\ of[active[s]] = s
      BY <2>3, <3>1 DEF WorkerInv, WorkerFacts, EntriesAreTasks
    <3>3. active[s] # f /\ active[s] \in Futures
      BY <3>1, <3>2 DEF Entries, WorkerInv, TypeOK
    <3> QED
      BY <2>1, <3>1, <3>2, <3>3 DEF WorkerInv, TypeOK
  <2>4. ASSUME NEW g \in Futures, at'[g] # "free", g # pending,
               of[g] \notin again
        PROVE  active'[of[g]] = g
    <3>1. g # f /\ at[g] # "free"
      BY <2>1, <2>4 DEF WorkerInv, TypeOK
    <3>2. of[g] # of[f]
      BY <2>1, <2>4, <3>1 DEF WorkerInv, WorkerFacts, SharedMeansAgain
    <3>3. of[g] \in Slices /\ active[of[g]] = g
      BY <2>4, <3>1 DEF WorkerInv, TypeOK, WorkerFacts, EntriesAreTasks
    <3> QED
      BY <2>1, <3>2, <3>3 DEF WorkerInv, TypeOK
  <2>5. EntriesAreTasks'
    BY <2>1, <2>3, <2>4 DEF EntriesAreTasks
  <2>6. LeftIsOut' /\ DrainKeepsResults'
    BY <2>1
       DEF WorkerInv, TypeOK, WorkerFacts, LeftIsOut, DrainKeepsResults
  <2> QED
    BY <2>2, <2>5, <2>6 DEF WorkerFacts
<1>12. CASE Stop
  BY <1>12, WorkerQuiet DEF Stop
<1>13. CASE Drain
  BY <1>13, WorkerQuiet DEF Drain
<1>14. CASE UNCHANGED vars
  BY <1>14, WorkerQuiet DEF vars
<1> QED
  BY <1>1, <1>2, <1>3, <1>4, <1>5, <1>6, <1>7, <1>8, <1>9, <1>10, <1>11,
     <1>12, <1>13, <1>14 DEF Next, MainThread, Execution

-----------------------------------------------------------------------------
(* WorkerInv is an invariant of the worker.                                *)
LEMMA WorkerInvariant == Spec => []WorkerInv
<1>1. WorkerInv /\ [Next]_vars => WorkerInv'
  BY WorkerTypeNext, WorkerFactsNext DEF WorkerInv
<1> QED
  BY WorkerInit, <1>1, PTL DEF Spec

(* Every variable of the worker keeps its type, and a future waits to be   *)
(* stored exactly between the two statements of _poll_and_execute.         *)
THEOREM WorkerTypeCorrect == Spec => []TypeOK
<1>1. WorkerInv => TypeOK
  BY DEF WorkerInv
<1> QED
  BY WorkerInvariant, <1>1, PTL

(* len(_active_futures) counts the tasks in execution (worker.py), however *)
(* the polling thread and the pool threads interleave: an entry that is    *)
(* not a running task, or a running task without an entry, is one of a     *)
(* slice that ended before it was stored, or was assigned twice.           *)
THEOREM ActiveFuturesAreTasks == Spec => []EntriesAreTasks
<1>1. WorkerInv => EntriesAreTasks
  BY DEF WorkerInv, WorkerFacts
<1> QED
  BY WorkerInvariant, <1>1, PTL

(* A worker that drains has reported every slice when it leaves its loop   *)
(* (start, drain), unless one was assigned to it twice.                    *)
THEOREM DrainReportsAll == Spec => []DrainKeepsResults
<1>1. WorkerInv => DrainKeepsResults
  BY DEF WorkerInv, WorkerFacts
<1> QED
  BY WorkerInvariant, <1>1, PTL

-----------------------------------------------------------------------------
(* The remote and the auto backend.                                        *)

(* A call that is about to read a result has been told that it is there.   *)
ReadsCompleted ==
  polling.op \in {"readWaited", "readStreamed"} =>
    task[polling.id] = "completed" \/ withdrawn

RemoteFacts == ReadsCompleted /\ ErrorIsNoResult /\ RouteFindsTask

RemoteInv == RemoteTypeOK /\ RemoteFacts

-----------------------------------------------------------------------------
(* RemoteInit establishes the invariant.                                   *)
LEMMA RemoteStarts == RemoteInit => RemoteInv
<1> SUFFICES ASSUME RemoteInit PROVE RemoteInv
  OBVIOUS
<1>1. via \in Vias
  BY DEF RemoteInit, Vias, Backends, DefaultBackend
<1>2. RemoteTypeOK
  <2>1. /\ task \in [TaskIds -> TaskStates] /\ route \in [TaskIds -> Backends]
        /\ retries \in [TaskIds -> Nat] /\ events \in Nat
    BY DEF RemoteInit, TaskStates, Backends
  <2>2. /\ local \subseteq TaskIds /\ broken \subseteq TaskIds
        /\ sent \subseteq TaskIds /\ failed \subseteq TaskIds
    BY DEF RemoteInit
  <2>3. /\ polling \in {NoCall} \cup [op : RemoteOps, id : TaskIds]
        /\ reply \in {NoAnswer} \cup
                       [op : RemoteOps, id : TaskIds, is : RemoteAnswers]
        /\ late \in BOOLEAN /\ withdrawn \in BOOLEAN
    BY Zenon DEF RemoteInit
  <2> QED
    BY <1>1, <2>1, <2>2, <2>3 DEF RemoteTypeOK
<1>3. polling.op = "idle" /\ reply = NoAnswer /\ sent = {}
  BY DEF RemoteInit, NoCall
<1>4. RemoteFacts
  BY <1>3 DEF RemoteFacts, ReadsCompleted, ErrorIsNoResult, RouteFindsTask
<1> QED
  BY <1>2, <1>4 DEF RemoteInv

(* A client that was built with one backend submits to that one.           *)
LEMMA TargetIsVia ==
  ASSUME NEW call PROVE call.via # "auto" => Target(call) = call.via
BY DEF Target

-----------------------------------------------------------------------------
(* A submission, to either backend, accepted or not.                       *)
LEMMA SubmitKeepsInv ==
  ASSUME RemoteInv, NEW id \in TaskIds, NEW call \in Calls,
         SubmitTask(call, id)
  PROVE  RemoteInv'
<1>1. /\ polling = NoCall /\ call.via = via
      /\ UNCHANGED <<via, polling, late, reply, events, withdrawn>>
  BY DEF SubmitTask, callVars
<1>2. via # "auto" => Target(call) = via
  BY <1>1, TargetIsVia
<1> USE <1>1, <1>2
        DEF RemoteInv, RemoteFacts, RemoteTypeOK, TaskStates, NoCall, NoAnswer,
            Vias, Backends, ReadsCompleted, ErrorIsNoResult, RouteFindsTask,
            Where, Routed, dispatcherVars
<1>3. CASE SubmitLocal(call, id)
  BY <1>3 DEF SubmitLocal
<1>4. CASE SubmitRemote(call, id)
  BY <1>4 DEF SubmitRemote
<1>5. CASE SubmitFails(call, id)
  BY <1>5 DEF SubmitFails
<1> QED
  BY <1>3, <1>4, <1>5 DEF SubmitTask

(* A step of the dispatcher that moves no call keeps what is known of it.  *)
LEMMA WithdrawalIsNoted ==
  ASSUME RemoteInv, NoteWithdrawal, UNCHANGED <<polling, reply>>
  PROVE  withdrawn' \in BOOLEAN /\ ReadsCompleted' /\ ErrorIsNoResult'
<1> USE DEF RemoteInv, RemoteFacts
<1>1. withdrawn \in BOOLEAN
  BY DEF RemoteTypeOK
<1>2. withdrawn' \in BOOLEAN
  BY DEF NoteWithdrawal
<1>3. withdrawn => withdrawn'
  BY <1>1, <1>2 DEF NoteWithdrawal
<1>4. ErrorIsNoResult'
  BY <1>3 DEF ErrorIsNoResult
<1>5. ASSUME polling.op \in {"readWaited", "readStreamed"},
             task[polling.id] = "completed", task'[polling.id] # "completed"
      PROVE  withdrawn'
  <2>1. polling # NoCall
    BY <1>5 DEF NoCall
  <2> QED
    BY <1>5, <2>1 DEF NoteWithdrawal
<1>6. ReadsCompleted'
  BY <1>3, <1>5 DEF ReadsCompleted
<1> QED
  BY <1>2, <1>4, <1>6

(* Every action keeps the invariant.                                       *)
LEMMA RemoteStep == RemoteInv /\ [RemoteNext]_remoteVars => RemoteInv'
<1> SUFFICES ASSUME RemoteInv, [RemoteNext]_remoteVars PROVE RemoteInv'
  OBVIOUS
<1> USE DEF RemoteInv, RemoteFacts, RemoteTypeOK, TaskStates, NoCall, NoAnswer,
            Vias, Backends, RemoteOps, RemoteAnswers, ReadsCompleted,
            ErrorIsNoResult, RouteFindsTask, Where, dispatcherVars, callVars,
            remoteHistory, NextStep, EndCall
<1>1. ASSUME NEW id \in TaskIds, NEW call \in Calls, SubmitTask(call, id)
      PROVE  RemoteInv'
  BY <1>1, SubmitKeepsInv
<1>2. ASSUME NEW id \in TaskIds, NEW op \in {"wait", "stream"}, Ask(op, id)
      PROVE  RemoteInv'
  <2>1. UNCHANGED <<via, task, local, broken, retries, route, events, sent,
                    failed>>
    BY <1>2 DEF Ask
  <2>2. CASE Where(id) = "remote"
    <3>1. /\ polling' = [op |-> op, id |-> id]
          /\ reply' = NoAnswer /\ late' = FALSE
      BY <1>2, <2>2 DEF Ask
    <3>2. polling'.op = op /\ op \in RemoteOps
      BY <3>1
    <3> QED
      BY <1>2, <2>1, <3>1, <3>2 DEF Ask
  <2>3. CASE Where(id) # "remote"
    <3>1. PICK is \in {"local", "notFound"} :
            reply' = [op |-> op, id |-> id, is |-> is]
      BY <1>2, <2>3 DEF Ask
    <3>2. polling' = polling /\ polling = NoCall /\ reply'.is # "errorPayload"
      BY <1>2, <2>3, <3>1 DEF Ask
    <3>3. /\ reply' \in [op : RemoteOps, id : TaskIds, is : RemoteAnswers]
          /\ late' = FALSE
      BY <1>2, <3>1 DEF Ask
    <3>4. polling'.op = "idle"
      BY <3>2
    <3>5. RemoteTypeOK'
      BY <2>1, <3>2, <3>3, <1>2 DEF Ask
    <3>6. RemoteFacts'
      BY <2>1, <3>2, <3>4
    <3> QED
      BY <3>5, <3>6
  <2> QED
    BY <2>2, <2>3
<1>3. ASSUME NEW id \in TaskIds, CancelTask(id) PROVE RemoteInv'
  BY <1>3 DEF CancelTask
<1>4. ASSUME NEW id \in TaskIds, RunTask(id) \/ LateReport(id) \/ Retry(id)
      PROVE  RemoteInv'
  <2>1. /\ task' \in [TaskIds -> TaskStates] /\ task[id] # "unknown"
        /\ retries' \in [TaskIds -> Nat]
        /\ \A j \in TaskIds : task[j] # "unknown" => task'[j] # "unknown"
    BY <1>4 DEF RunTask, LateReport, Retry, Start, EndTask, Becomes
  <2>2. Moved
    BY <1>4 DEF RunTask, LateReport, Retry
  <2> QED
    BY <2>1, <2>2, WithdrawalIsNoted DEF Moved
<1>5. CASE WaitPoll
  BY <1>5 DEF WaitPoll, Reported
<1>6. CASE WaitTimeout
  BY <1>6 DEF WaitTimeout
<1>7. CASE StreamPoll
  BY <1>7 DEF StreamPoll, Reported
<1>8. CASE FetchResult
  BY <1>8 DEF FetchResult
<1>9. CASE ConnectionFails
  BY <1>9 DEF ConnectionFails
<1>10. CASE Deadline
  BY <1>10 DEF Deadline
<1>11. CASE Event
  <2>1. /\ task' \in [TaskIds -> TaskStates] /\ retries' \in [TaskIds -> Nat]
        /\ events' \in Nat /\ events' > 0
    BY <1>11 DEF Event, Becomes
  <2>2. /\ NoteWithdrawal
        /\ UNCHANGED <<via, local, broken, route, callVars, sent, failed>>
    BY <1>11 DEF Event
  <2> QED
    BY <2>1, <2>2, WithdrawalIsNoted
<1>12. CASE UNCHANGED remoteVars
  BY <1>12 DEF remoteVars
<1> QED
  BY <1>1, <1>2, <1>3, <1>4, <1>5, <1>6, <1>7, <1>8, <1>9, <1>10, <1>11,
     <1>12 DEF RemoteNext

-----------------------------------------------------------------------------
(* RemoteInv is an invariant of the backends.                              *)
LEMMA RemoteInvariant == RemoteSpec => []RemoteInv
BY RemoteStarts, RemoteStep, PTL DEF RemoteSpec

(* Every variable of the backends keeps its type.                          *)
THEOREM RemoteTypeCorrect == RemoteSpec => []RemoteTypeOK
<1>1. RemoteInv => RemoteTypeOK
  BY DEF RemoteInv
<1> QED
  BY RemoteInvariant, <1>1, PTL

(* wait and stream_results hand out an error payload as a result only if   *)
(* the task was completed and left that state during the call, by a late   *)
(* report of a failure, a retry, a cancellation, a submission by others or *)
(* a restart of the dispatcher (remote.py, core.py).                       *)
THEOREM ErrorsAreNoResults == RemoteSpec => []ErrorIsNoResult
<1>1. RemoteInv => ErrorIsNoResult
  BY DEF RemoteInv, RemoteFacts
<1> QED
  BY RemoteInvariant, <1>1, PTL

(* The routing table of AutoComputeBackend leads to the backend that has   *)
(* the task, unless a submission of its id raised (auto.py).               *)
THEOREM RoutesFindTasks == RemoteSpec => []RouteFindsTask
<1>1. RemoteInv => RouteFindsTask
  BY DEF RemoteInv, RemoteFacts
<1> QED
  BY RemoteInvariant, <1>1, PTL
=============================================================================

------------------------ MODULE DispatcherProperties ------------------------
(***************************************************************************)
(* What the dispatcher promises, stated over the state of Dispatcher.      *)
(* A property that some failures excuse says which ones: Never(kinds)      *)
(* holds until an event of one of these kinds has happened.                *)
(***************************************************************************)
EXTENDS Dispatcher

Never(kinds) == happened \cap kinds = {}

(* Events after which an item may be executed more than once: the items of *)
(* a worker that lives or has completed them are taken away, or a whole    *)
(* task is queued next to its slices.                                      *)
Repeating == {"crash", "silence", "stop", "lateFlag", "retryableFail",
              "resubmit"}

(* Events that lose an item on its way to a worker, or the worker itself,  *)
(* and the scan of assign_task that forgets the items it has skipped.      *)
Losing ==
  Repeating \cup {"fail", "prefetchError", "lostReply", "drain", "forget"}

(* The places an item that is still to be executed can be in.              *)

ToBeEnqueued(item) ==
  \E th \in Threads :
    /\ thread[th].op = "enqueue"
    /\ \E k \in DOMAIN SliceList[thread[th].task] :
         /\ k >= thread[th].next
         /\ item = <<thread[th].task, SliceList[thread[th].task][k]>>

Skipped(item) ==
  \E th \in Threads :
    /\ thread[th].op \in {"dequeue", "requeue"}
    /\ \E k \in DOMAIN thread[th].skipped : thread[th].skipped[k] = item

BeingAssigned(item) ==
  \E th \in Threads :
    /\ thread[th].op \in {"prefetch", "commit", "activate", "reply"}
    /\ thread[th].item = item

Held(item) == \E w \in Workers : held[<<w, item>>] > 0

(* _check_loop will still put the items of w back in the queue.            *)
WillBeReassigned(w) == wstatus[w] \in {"online", "busy"} \/ w \in timedOut

-----------------------------------------------------------------------------
(* Invariants that hold whatever fails.                                    *)

(* on_complete counts every distinct slice it stores, so a task that has   *)
(* all its partial results can never be short of its completed_slices.     *)
CountsCoverPartials ==
  \A t \in Tasks : Cardinality(partials[t]) <= completed[t]

(* A task reported as completed has a merged result: get_result never      *)
(* hands out the empty merged_result_bytes.  Submitting an id again breaks *)
(* this: a handler may then find 0 completions of 0 slices.                *)
CompletedHasResult ==
  Never({"resubmit"}) =>
    \A t \in Tasks : state[t] = "completed" => result[t] # {}

(* Whatever else fails and however handlers interleave, two clients that   *)
(* read the result of a task read the same one, although late, repeated    *)
(* and retried completions keep arriving after it has been merged.         *)
ResultWriteOnce ==
  [][Never({"resubmit"})' =>
       \A t \in Tasks : result[t] # {} => result'[t] = result[t]]_vars

(* The registry tells a worker whose slots are all taken ("busy") from one *)
(* with a free slot ("online"), whichever assignments, completions and     *)
(* heartbeats with an older count arrived in between.                      *)
BusyMeansFull == Registry!BusyMeansFull

-----------------------------------------------------------------------------
(* Exactly-once execution.                                                 *)

(* COMPLETED means that the partial result of every slice is in the merged *)
(* result, as long as nothing has happened that may repeat an execution.   *)
CompletedMeansWhole ==
  Never(Repeating) =>
    \A t \in Mergeable : state[t] = "completed" => result[t] = SlicesOf(t)

(* What get_result hands out: nothing unless the task is completed.        *)
Readable ==
  [t \in Tasks |-> IF state[t] = "completed" THEN result[t] ELSE {}]

Lifecycle == INSTANCE TaskLifecycle WITH None <- {}, result <- Readable

(* Nothing has happened that lets a handler overwrite the end of a task: a *)
(* cancel writes any state, a retry or a new submission starts it again,   *)
(* and a failure may reach a completed task when an execution is repeated. *)
Orderly ==
  /\ Never({"cancel", "resubmit", "retryableFail", "lostAck"})
  /\ Never({"fail"}) \/ Never(Repeating)

(* Until then the dispatcher implements the life cycle of the protocol: a  *)
(* task runs before it ends, it ends once, a failed task stays failed      *)
(* whatever its other slices do, and a result that can be read never       *)
(* changes, through crashes, timeouts and reassignments too.               *)
LifecycleKept ==
  /\ Lifecycle!Init
  /\ [][Orderly' => \A t \in Tasks :
          \/ Lifecycle!Step(t)
          \/ UNCHANGED <<state[t], Readable[t]>>]_vars

(* With reliable calls each slice that has not completed is queued, being  *)
(* handed out or running somewhere, until a scan that skipped it finds an  *)
(* item its worker can run: core.py returns without the skipped list.      *)
NoSliceLost ==
  Never(Losing) =>
    \A t \in Tasks : published[t] =>
      \A item \in SlicesOf(t) :
        \/ item \in partials[t]
        \/ ToBeEnqueued(item) \/ Queue!Contains(item) \/ Skipped(item)
        \/ BeingAssigned(item) \/ Held(item)

(* Workers that crash, and nothing worse: a slice that has not completed   *)
(* is on its way, or assigned to a worker whose silence the check loop is  *)
(* going to notice.  A prefetch that outlives offline_timeout breaks this: *)
(* it assigns its item to a worker the check loop has already given up.    *)
CrashRecoverable ==
  Never((Losing \ {"crash"}) \cup {"slowPrefetch"}) =>
    \A t \in Tasks : published[t] => \A item \in SlicesOf(t) :
      \/ item \in partials[t]
      \/ ToBeEnqueued(item) \/ Queue!Contains(item) \/ Skipped(item)
      \/ BeingAssigned(item)
      \/ assigned[item] # None /\ WillBeReassigned(assigned[item])

-----------------------------------------------------------------------------
(* Liveness.                                                               *)

(* Handlers that have started go on, the check loop runs, a registered     *)
(* worker polls, and an execution ends.  Nothing optional has to happen.   *)
Fairness ==
  /\ \A th \in Threads : WF_vars(Advance(th))
  /\ \A w \in Workers :
       /\ WF_vars(RegisterWorker(w))
       /\ SF_vars(\E th \in Threads : Poll(th, w))
       /\ SF_vars(\E th \in Threads, item \in Items :
                    CompleteSlice(th, w, item) \/ FailSlice(th, w, item))
       /\ WF_vars(FallSilent(w) /\ ~Running(w))
  /\ WF_vars(CheckLoop)

FairSpec == Spec /\ Fairness

(* Every submitted task ends.                                              *)
EveryTaskEnds ==
  \A t \in Tasks :
    state[t] = "pending" ~> state[t] \in {"completed", "failed", "cancelled"}
=============================================================================

------------------------------ MODULE Collector ------------------------------
(***************************************************************************)
(* ScheduledCollector (storage/scheduler/collector.py): start, stop,       *)
(* subscribe and unsubscribe while its loops run.  stop joins the last     *)
(* loop for five seconds at most, which a loop that sleeps for its         *)
(* interval outlives; a start then makes another one beside it.  Fetching  *)
(* or writing what was subscribed to may fail at any time.                 *)
(***************************************************************************)
EXTENDS Naturals, Sequences, SequencesExt

CONSTANTS
  Subs,      \* what can be subscribed to
  MaxCalls,  \* bound: start, stop, subscribe and unsubscribe together
  MaxSubs    \* bound: length of the list, which may hold one twice

ASSUME CollectorAssumption == MaxCalls \in Nat /\ MaxSubs \in Nat

VARIABLES
  running,  \* _running
  subs,     \* _subscriptions
  loops,    \* the threads that were started: [at, todo]
  calls     \* calls so far

collectorVars == <<running, subs, loops, calls>>

CollectorInit == running = FALSE /\ subs = <<>> /\ loops = <<>> /\ calls = 0

Called == calls < MaxCalls /\ calls' = calls + 1

Start ==
  /\ Called /\ ~running
  /\ running' = TRUE
  /\ loops' = Append(loops, [at |-> "test", todo |-> <<>>])
  /\ UNCHANGED subs

Stop ==
  /\ Called /\ running
  /\ running' = FALSE
  /\ UNCHANGED <<subs, loops>>

Subscribe(s) ==
  /\ Called /\ Len(subs) < MaxSubs
  /\ subs' = Append(subs, s)
  /\ UNCHANGED <<running, loops>>

Unsubscribe(s) ==
  /\ Called
  /\ subs' = SelectSeq(subs, LAMBDA x : x # s)
  /\ UNCHANGED <<running, loops>>

-----------------------------------------------------------------------------
(* _loop and run_once.                                                     *)

Goes(i, from, to, todo) ==
  /\ loops[i].at = from
  /\ loops' = [loops EXCEPT ![i] = [at |-> to, todo |-> todo]]

Test_Once(i) ==  \* mutant: a loop that has begun does not look at _running
  /\ Goes(i, "test", "collect", subs)
  /\ UNCHANGED <<running, subs, calls>>

(* The subscriptions are copied under the lock; later changes wait for the *)
(* next round.                                                             *)
Test(i) ==
  /\ IF running THEN Goes(i, "test", "collect", subs)
                ELSE Goes(i, "test", "end", <<>>)
  /\ UNCHANGED <<running, subs, calls>>

Collect_Aborts(i) ==  \* mutant: a failure ends the round
  /\ loops[i].todo # <<>>
  /\ \/ Goes(i, "collect", "collect", Tail(loops[i].todo))
     \/ Goes(i, "collect", "collect", <<>>)
  /\ UNCHANGED <<running, subs, calls>>

(* One subscription, with success or without.                              *)
Collect(i) ==
  /\ loops[i].todo # <<>>
  /\ Goes(i, "collect", "collect", Tail(loops[i].todo))
  /\ UNCHANGED <<running, subs, calls>>

Sleep(i) ==
  /\ loops[i].todo = <<>>
  /\ Goes(i, "collect", "sleep", <<>>)
  /\ UNCHANGED <<running, subs, calls>>

Awake(i) ==
  /\ Goes(i, "sleep", "test", <<>>)
  /\ UNCHANGED <<running, subs, calls>>

LoopStep(i) ==
  i \in DOMAIN loops /\ (Test(i) \/ Collect(i) \/ Sleep(i) \/ Awake(i))

CollectorNext ==
  \/ Start \/ Stop
  \/ \E s \in Subs : Subscribe(s) \/ Unsubscribe(s)
  \/ \E i \in 1 .. MaxCalls : LoopStep(i)

-----------------------------------------------------------------------------
(* Properties.                                                             *)

(* Once the collector stays stopped every loop that was ever started ends, *)
(* those too that outlived a stop and found it started again (_loop).      *)
LoopsEnd ==
  <>[](~running) => <>[](\A i \in DOMAIN loops : loops[i].at = "end")

(* While the collector stays started, what stays subscribed is tried again *)
(* and again, whatever fails before it in the list (run_once).             *)
SubscribedIsTried ==
  \A s \in Subs :
    <>[](running /\ s \in ToSet(subs)) =>
      []<>(\E i \in DOMAIN loops :
             loops[i].at = "collect" /\ s = Head(loops[i].todo \o <<"none">>))
=============================================================================

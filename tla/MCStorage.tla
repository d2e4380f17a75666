------------------------------ MODULE MCStorage ------------------------------
(***************************************************************************)
(* The storage backend with three writers, and its collector, side by side *)
(* in one run: of a behaviour either the backend moves or the collector,   *)
(* whose writes are among those of the backend.                            *)
(***************************************************************************)
EXTENDS Storage, Collector

VARIABLE subject

allVars == <<subject, vars, collectorVars>>

(* Two records that differ from the first in one column each.              *)
Bar1 == [open |-> 1, close |-> 1]
Bar2 == [open |-> 1, close |-> 2]
Bar3 == [open |-> 2, close |-> 1]

Record(t, bar) == [u \in {t} |-> bar]

MCJobList == <<
  [route |-> "ingest", symbol |-> "s1", bars |-> <<Bar1, Bar1>>],
  [route |-> "ohlcv", symbol |-> "s1", bars |-> Record(2, Bar2)],
  [route |-> "ohlcv", symbol |-> "s1", bars |-> Record(2, Bar3)],
  [route |-> "ohlcv", symbol |-> "s2", bars |-> Record(1, Bar2)],
  [route |-> "ingest", symbol |-> "s2", bars |-> <<>>] >>

MCJobs == Range(MCJobList)

MCEdits == { [open |-> 2, close |-> 2] }

MCRequests == { {"s1"}, {"s1", "s2"} }

(* Of the assignments of jobs that differ only in the writers, one.        *)
Sorted ==
  \E i \in [Writers -> DOMAIN MCJobList] :
    /\ \A v, w \in Writers : v < w => i[v] <= i[w]
    /\ job = [w \in Writers |-> MCJobList[i[w]]]

MCInit ==
  /\ Init /\ CollectorInit
  /\ \/ subject = "backend" /\ Sorted
     \/ /\ subject = "collector"
        /\ job = [w \in Writers |-> CHOOSE j \in Jobs : TRUE]

MCNext ==
  \/ subject = "backend" /\ Next /\ UNCHANGED <<subject, collectorVars>>
  \/ subject = "collector" /\ CollectorNext /\ UNCHANGED <<subject, vars>>

(* Threads run and sleeps end; nobody has to call the collector.           *)
MCFairness ==
  \A i \in 1 .. MaxCalls :
    WF_allVars(subject = "collector" /\ LoopStep(i) /\ UNCHANGED <<subject, vars>>)

MCSpec == MCInit /\ [][MCNext]_allVars /\ MCFairness
=============================================================================

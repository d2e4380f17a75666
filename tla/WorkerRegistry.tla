--------------------------- MODULE WorkerRegistry ---------------------------
(***************************************************************************)
(* The dispatcher's registry of workers (dispatcher/workers.py).  Every    *)
(* operator is one method, executed under the registry's own lock, hence   *)
(* one atomic effect on the three variables.                               *)
(*                                                                         *)
(* Time is abstracted to one bit: stale[w] holds when the last heartbeat   *)
(* of w is older than offline_timeout.  Descriptive fields (alias, labels, *)
(* hardware) and the completed/failed statistics are left out.             *)
(***************************************************************************)
LOCAL INSTANCE Naturals

CONSTANTS
  Workers,      \* worker ids
  Concurrency   \* [Workers -> Nat \ {0}], slots a worker registers with

VARIABLES
  wstatus,  \* WorkerRecord.status, "absent" before registration
  active,   \* WorkerRecord.active_tasks
  stale     \* now - last_heartbeat > offline_timeout

regVars == <<wstatus, active, stale>>

Status == {"absent", "online", "busy", "draining", "offline"}

TypeOK ==
  /\ wstatus \in [Workers -> Status]
  /\ active \in [Workers -> Nat]
  /\ stale \in [Workers -> BOOLEAN]

Init ==
  /\ wstatus = [w \in Workers |-> "absent"]
  /\ active = [w \in Workers |-> 0]
  /\ stale = [w \in Workers |-> FALSE]

Known(w) == wstatus[w] # "absent"

Register(w) ==
  /\ wstatus' = [wstatus EXCEPT ![w] = "online"]
  /\ active' = [active EXCEPT ![w] = 0]
  /\ stale' = [stale EXCEPT ![w] = FALSE]

StatusAfterHeartbeat_AsReported(w, n, reported) == reported  \* mutant

(* The status a heartbeat leaves behind: the reported one, corrected by    *)
(* comparing the reported load with the registered concurrency.            *)
StatusAfterHeartbeat(w, n, reported) ==
  IF reported = "online" /\ n >= Concurrency[w] THEN "busy"
  ELSE IF reported = "busy" /\ n < Concurrency[w] THEN "online"
  ELSE reported

UpdateHeartbeat(w, n, reported) ==
  /\ Known(w)
  /\ stale' = [stale EXCEPT ![w] = FALSE]
  /\ active' = [active EXCEPT ![w] = n]
  /\ wstatus' = [wstatus EXCEPT ![w] = StatusAfterHeartbeat(w, n, reported)]

Unregister(w) ==
  /\ wstatus' = [wstatus EXCEPT ![w] = IF Known(w) THEN "offline" ELSE @]
  /\ UNCHANGED <<active, stale>>

IncrementActive(w) ==
  /\ active' = [active EXCEPT ![w] = IF Known(w) THEN @ + 1 ELSE @]
  /\ wstatus' = [wstatus EXCEPT ![w] =
        IF Known(w) /\ active[w] + 1 >= Concurrency[w] THEN "busy" ELSE @]
  /\ UNCHANGED stale

DecrementActive(w) ==
  LET n == IF active[w] = 0 THEN 0 ELSE active[w] - 1
  IN  /\ active' = [active EXCEPT ![w] = n]
      /\ wstatus' = [wstatus EXCEPT ![w] =
            IF @ = "busy" /\ n < Concurrency[w] THEN "online" ELSE @]
      /\ UNCHANGED stale

TimedOut_OnlineOnly ==  \* mutant
  {w \in Workers : wstatus[w] = "online" /\ stale[w]}

(* The workers a pass of check_timeouts takes offline and returns.         *)
TimedOut == {w \in Workers : wstatus[w] \in {"online", "busy"} /\ stale[w]}

CheckTimeouts ==
  /\ wstatus' = [w \in Workers |-> IF w \in TimedOut THEN "offline"
                                                     ELSE wstatus[w]]
  /\ UNCHANGED <<active, stale>>

(* offline_timeout seconds go by without a heartbeat of w being handled.   *)
FallSilent(w) ==
  /\ Known(w)
  /\ stale' = [stale EXCEPT ![w] = TRUE]
  /\ UNCHANGED <<wstatus, active>>

(* "busy" and "online" tell a worker whose slots are all taken from one    *)
(* with a free slot, whichever calls and heartbeats arrived in between.    *)
BusyMeansFull ==
  \A w \in Workers :
    /\ wstatus[w] = "busy" => active[w] >= Concurrency[w]
    /\ wstatus[w] = "online" => active[w] < Concurrency[w]
=============================================================================

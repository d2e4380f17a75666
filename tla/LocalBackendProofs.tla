------------------------- MODULE LocalBackendProofs -------------------------
(***************************************************************************)
(* Proofs about LocalBackend for any number of ids, submissions, clients   *)
(* and calls.                                                              *)
(*                                                                         *)
(* LocalInv is inductive.  Its parts say what the position of an execution *)
(* thread or of a client tells about the fields it has not locked:         *)
(*   FieldsWritten  the thread stores result or error before the state;    *)
(*   StateKept      until a cancel, the state is the one the thread wrote, *)
(*                  and RUNNING for good if the handler raised what it     *)
(*                  does not catch;                                        *)
(*   StarterUnique  a thread is started once, by the call that submitted;  *)
(*   WaitersKnow    what a waiting client may conclude from what it read.  *)
(***************************************************************************)
EXTENDS LocalBackendProperties, TLAPS

FieldsWritten ==
  \A s \in Submissions :
    /\ exec[s] = "complete" => stored[s]
    /\ exec[s] = "fail" => error[s]
    /\ state[s] = "completed" => stored[s]
    /\ state[s] = "failed" => error[s]
    /\ state[s] = "cancelled" => s \in cancelled
    /\ done[s] => s \in cancelled \/ exec[s] = "ended"

StateOf(place) ==
  CASE place = "absent" -> {"unknown", "pending"}
    [] place = "start" -> {"pending"}
    [] place \in {"run", "complete", "fail"} -> {"running"}
    [] OTHER -> {"completed", "failed"}

StateKept ==
  \A s \in Submissions :
    /\ s \notin cancelled =>
         \/ state[s] \in StateOf(exec[s])
         \/ /\ s \in escaped /\ state[s] = "running"
            /\ exec[s] \in {"finish", "ended"}
    /\ state[s] = "unknown" => exec[s] = "absent"

StarterUnique ==
  \A c \in Clients : client[c].op = "start" =>
    /\ exec[client[c].sub] = "absent"
    /\ state[client[c].sub] # "unknown"
    /\ \A d \in Clients \ {c} :
         client[d].op = "start" => client[d].sub # client[c].sub

WaitersKnow ==
  \A c \in Clients :
    LET s == client[c].sub
    IN  /\ client[c].op = "setDone" => s \in cancelled
        /\ client[c].op = "checkFailed" => done[s]
        /\ client[c].op \in {"checkCancelled", "readWaited"} =>
             \/ s \in cancelled \cup escaped
             \/ state[s] = "completed" /\ exec[s] = "ended"
        /\ client[c].op = "readResult" => stored[s]

LocalFacts ==
  /\ FieldsWritten
  /\ StateKept
  /\ StarterUnique
  /\ WaitersKnow
  /\ ResultIsStored
  /\ WaitTellsTheOutcome

LocalInv == TypeOK /\ LocalFacts

-----------------------------------------------------------------------------
(* Types.                                                                  *)

LEMMA TypeInit == Init => TypeOK
BY LocalAssumption DEF Init, TypeOK, Idle, States, Places

LEMMA TypeNext == TypeOK /\ [Next]_vars => TypeOK'
<1> SUFFICES ASSUME TypeOK, [Next]_vars PROVE TypeOK'
  OBVIOUS
<1> USE LocalAssumption
    DEF taskVars, history, TypeOK, States, Places, Ops, Answers, Idle
<1>1. ASSUME NEW s \in Submissions, MarkRunning(s) PROVE TypeOK'
  BY <1>1 DEF MarkRunning
<1>2. ASSUME NEW s \in Submissions, Return(s) PROVE TypeOK'
  BY <1>2 DEF Return
<1>3. ASSUME NEW s \in Submissions, WriteCompleted(s) PROVE TypeOK'
  BY <1>3 DEF WriteCompleted
<1>4. ASSUME NEW s \in Submissions, Raise(s) PROVE TypeOK'
  BY <1>4 DEF Raise
<1>5. ASSUME NEW s \in Submissions, WriteFailed(s) PROVE TypeOK'
  BY <1>5 DEF WriteFailed
<1>22. ASSUME NEW s \in Submissions, Escape(s) PROVE TypeOK'
  BY <1>22 DEF Escape
<1>6. ASSUME NEW s \in Submissions, Finish(s) PROVE TypeOK'
  BY <1>6 DEF Finish
<1>7. ASSUME NEW c \in Clients, StartThread(c) PROVE TypeOK'
  BY <1>7 DEF StartThread, At
<1>8. ASSUME NEW c \in Clients, WaitEnds(c) PROVE TypeOK'
  BY <1>8 DEF WaitEnds, At, Goto
<1>9. ASSUME NEW c \in Clients, WaitTimesOut(c) PROVE TypeOK'
  BY <1>9 DEF WaitTimesOut, At, Answer
<1>10. ASSUME NEW c \in Clients, CheckFailed(c) PROVE TypeOK'
  BY <1>10 DEF CheckFailed, At, Answer, Goto
<1>11. ASSUME NEW c \in Clients, CheckCancelled(c) PROVE TypeOK'
  BY <1>11 DEF CheckCancelled, At, Answer, Goto
<1>12. ASSUME NEW c \in Clients, CheckCompleted(c) PROVE TypeOK'
  BY <1>12 DEF CheckCompleted, At, Answer, Goto
<1>13. ASSUME NEW c \in Clients, StreamWaited(c) PROVE TypeOK'
  BY <1>13 DEF StreamWaited, At, Goto
<1>14. ASSUME NEW c \in Clients, CheckStreamed(c) PROVE TypeOK'
  BY <1>14 DEF CheckStreamed, At, Answer, Goto
<1>15. ASSUME NEW c \in Clients, ReadResult(c) PROVE TypeOK'
  BY <1>15 DEF ReadResult, Answer
<1>16. ASSUME NEW c \in Clients, CheckOpen(c) PROVE TypeOK'
  BY <1>16 DEF CheckOpen, At, Answer, Goto
<1>17. ASSUME NEW c \in Clients, WriteCancelled(c) PROVE TypeOK'
  BY <1>17 DEF WriteCancelled, At, Goto
<1>18. ASSUME NEW c \in Clients, SetDone(c) PROVE TypeOK'
  BY <1>18 DEF SetDone, At, Answer
<1>19. ASSUME NEW c \in Clients, NEW id \in Ids, NEW s \in Submissions,
              Submit(c, id, s)
       PROVE  TypeOK'
  BY <1>19 DEF Submit
<1>20. ASSUME NEW c \in Clients, NEW id \in Ids,
              NEW op \in {"wait", "checkCompleted", "stream", "checkOpen"},
              Call(c, id, op)
       PROVE  TypeOK'
  BY <1>20 DEF Call
<1>21. CASE UNCHANGED vars
  BY <1>21 DEF vars
<1> QED
  BY <1>1, <1>2, <1>3, <1>4, <1>5, <1>6, <1>7, <1>8, <1>9, <1>10, <1>11,
     <1>12, <1>13, <1>14, <1>15, <1>16, <1>17, <1>18, <1>19, <1>20, <1>21,
     <1>22
  DEF Next, Execution, Advance, CallOn, Wait, Result, StreamResults, Cancel

(* Every variable keeps its type, through any interleaving of execution    *)
(* threads and clients.                                                    *)
THEOREM TypeCorrect == Spec => []TypeOK
BY TypeInit, TypeNext, PTL DEF Spec

-----------------------------------------------------------------------------
(* The inductive invariant.                                                *)

LEMMA LocalInit == Init => LocalInv
BY TypeInit
DEF Init, LocalInv, LocalFacts, FieldsWritten, StateKept, StateOf,
    StarterUnique, WaitersKnow, ResultIsStored, WaitTellsTheOutcome, Idle

LEMMA FactsNext == LocalInv /\ [Next]_vars => LocalFacts'
<1> SUFFICES ASSUME LocalInv, [Next]_vars PROVE LocalFacts'
  OBVIOUS
<1> USE LocalAssumption
    DEF taskVars, history, LocalInv, LocalFacts, TypeOK, FieldsWritten,
        StateKept, StateOf, StarterUnique, WaitersKnow, ResultIsStored,
        WaitTellsTheOutcome, Ops, Answers, Idle
<1>1. ASSUME NEW s \in Submissions, MarkRunning(s) PROVE LocalFacts'
  BY <1>1 DEF MarkRunning
<1>2. ASSUME NEW s \in Submissions, Return(s) PROVE LocalFacts'
  BY <1>2 DEF Return
<1>3. ASSUME NEW s \in Submissions, WriteCompleted(s) PROVE LocalFacts'
  BY <1>3 DEF WriteCompleted
<1>4. ASSUME NEW s \in Submissions, Raise(s) PROVE LocalFacts'
  BY <1>4 DEF Raise
<1>5. ASSUME NEW s \in Submissions, WriteFailed(s) PROVE LocalFacts'
  BY <1>5 DEF WriteFailed
<1>22. ASSUME NEW s \in Submissions, Escape(s) PROVE LocalFacts'
  BY <1>22 DEF Escape
<1>6. ASSUME NEW s \in Submissions, Finish(s) PROVE LocalFacts'
  BY <1>6 DEF Finish
<1>7. ASSUME NEW c \in Clients, StartThread(c) PROVE LocalFacts'
  BY <1>7 DEF StartThread, At
<1>8. ASSUME NEW c \in Clients, WaitEnds(c) PROVE LocalFacts'
  BY <1>8 DEF WaitEnds, At, Goto
<1>9. ASSUME NEW c \in Clients, WaitTimesOut(c) PROVE LocalFacts'
  BY <1>9 DEF WaitTimesOut, At, Answer
<1>10. ASSUME NEW c \in Clients, CheckFailed(c) PROVE LocalFacts'
  <2>1. FieldsWritten' /\ StateKept'
    BY <1>10 DEF CheckFailed, At, Answer, Goto
  <2>2. StarterUnique'
    BY <1>10 DEF CheckFailed, At, Answer, Goto
  <2>3. WaitersKnow'
    BY <1>10 DEF CheckFailed, At, Answer, Goto
  <2>4. ResultIsStored'
    BY <1>10 DEF CheckFailed, At, Answer, Goto
  <2>5. WaitTellsTheOutcome'
    BY <1>10 DEF CheckFailed, At, Answer, Goto
  <2> QED BY <2>1, <2>2, <2>3, <2>4, <2>5
<1>11. ASSUME NEW c \in Clients, CheckCancelled(c) PROVE LocalFacts'
  <2>1. FieldsWritten' /\ StateKept'
    BY <1>11 DEF CheckCancelled, At, Answer, Goto
  <2>2. StarterUnique'
    BY <1>11 DEF CheckCancelled, At, Answer, Goto
  <2>3. WaitersKnow'
    BY <1>11 DEF CheckCancelled, At, Answer, Goto
  <2>4. ResultIsStored'
    BY <1>11 DEF CheckCancelled, At, Answer, Goto
  <2>5. WaitTellsTheOutcome'
    BY <1>11 DEF CheckCancelled, At, Answer, Goto
  <2> QED BY <2>1, <2>2, <2>3, <2>4, <2>5
<1>12. ASSUME NEW c \in Clients, CheckCompleted(c) PROVE LocalFacts'
  <2>1. FieldsWritten' /\ StateKept'
    BY <1>12 DEF CheckCompleted, At, Answer, Goto
  <2>2. StarterUnique'
    BY <1>12 DEF CheckCompleted, At, Answer, Goto
  <2>3. WaitersKnow'
    BY <1>12 DEF CheckCompleted, At, Answer, Goto
  <2>4. ResultIsStored'
    BY <1>12 DEF CheckCompleted, At, Answer, Goto
  <2>5. WaitTellsTheOutcome'
    BY <1>12 DEF CheckCompleted, At, Answer, Goto
  <2> QED BY <2>1, <2>2, <2>3, <2>4, <2>5
<1>13. ASSUME NEW c \in Clients, StreamWaited(c) PROVE LocalFacts'
  BY <1>13 DEF StreamWaited, At, Goto
<1>14. ASSUME NEW c \in Clients, CheckStreamed(c) PROVE LocalFacts'
  <2>1. FieldsWritten' /\ StateKept'
    BY <1>14 DEF CheckStreamed, At, Answer, Goto
  <2>2. StarterUnique'
    BY <1>14 DEF CheckStreamed, At, Answer, Goto
  <2>3. WaitersKnow'
    BY <1>14 DEF CheckStreamed, At, Answer, Goto
  <2>4. ResultIsStored'
    BY <1>14 DEF CheckStreamed, At, Answer, Goto
  <2>5. WaitTellsTheOutcome'
    BY <1>14 DEF CheckStreamed, At, Answer, Goto
  <2> QED BY <2>1, <2>2, <2>3, <2>4, <2>5
<1>15. ASSUME NEW c \in Clients, ReadResult(c) PROVE LocalFacts'
  BY <1>15 DEF ReadResult, Answer
<1>16. ASSUME NEW c \in Clients, CheckOpen(c) PROVE LocalFacts'
  <2>1. FieldsWritten' /\ StateKept'
    BY <1>16 DEF CheckOpen, At, Answer, Goto
  <2>2. StarterUnique'
    BY <1>16 DEF CheckOpen, At, Answer, Goto
  <2>3. WaitersKnow'
    BY <1>16 DEF CheckOpen, At, Answer, Goto
  <2>4. ResultIsStored'
    BY <1>16 DEF CheckOpen, At, Answer, Goto
  <2>5. WaitTellsTheOutcome'
    BY <1>16 DEF CheckOpen, At, Answer, Goto
  <2> QED BY <2>1, <2>2, <2>3, <2>4, <2>5
<1>17. ASSUME NEW c \in Clients, WriteCancelled(c) PROVE LocalFacts'
  BY <1>17 DEF WriteCancelled, At, Goto
<1>18. ASSUME NEW c \in Clients, SetDone(c) PROVE LocalFacts'
  BY <1>18 DEF SetDone, At, Answer
<1>19. ASSUME NEW c \in Clients, NEW id \in Ids, NEW s \in Submissions,
              Submit(c, id, s)
       PROVE  LocalFacts'
  BY <1>19 DEF Submit
<1>20. ASSUME NEW c \in Clients, NEW id \in Ids,
              NEW op \in {"wait", "checkCompleted", "stream", "checkOpen"},
              Call(c, id, op)
       PROVE  LocalFacts'
  BY <1>20 DEF Call
<1>21. CASE UNCHANGED vars
  BY <1>21 DEF vars
<1> QED
  BY <1>1, <1>2, <1>3, <1>4, <1>5, <1>6, <1>7, <1>8, <1>9, <1>10, <1>11,
     <1>12, <1>13, <1>14, <1>15, <1>16, <1>17, <1>18, <1>19, <1>20, <1>21,
     <1>22
  DEF Next, Execution, Advance, CallOn, Wait, Result, StreamResults, Cancel

LEMMA LocalInvariant == Spec => []LocalInv
BY LocalInit, TypeNext, FactsNext, PTL DEF Spec, LocalInv

(* result() and stream_results() never hand out anything but what the      *)
(* handler returned.                                                       *)
THEOREM ResultsAreStored == Spec => []ResultIsStored
BY LocalInvariant, PTL DEF LocalInv, LocalFacts

(* wait() blames the handler only for its own exceptions, and returns None *)
(* or raises TaskCancelledError only after a cancel.                       *)
THEOREM WaitIsTruthful == Spec => []WaitTellsTheOutcome
BY LocalInvariant, PTL DEF LocalInv, LocalFacts

-----------------------------------------------------------------------------
(* Refinement of the life cycle.                                           *)

KeepsLifecycle(s) ==
  \/ Lifecycle!Step(s)
  \/ UNCHANGED <<state[s], Visible[s]>>

LEMMA LifecycleStep ==
  ASSUME LocalInv, [Next]_vars, NEW s \in Submissions \ cancelled'
  PROVE  KeepsLifecycle(s)
<1> USE DEF taskVars, history, LocalInv, LocalFacts, TypeOK, FieldsWritten,
            StateKept, StateOf, KeepsLifecycle, Visible
<1>0. s \in Submissions
  OBVIOUS
<1>1. ASSUME NEW u \in Submissions, u # s, Execution(u) PROVE KeepsLifecycle(s)
  BY <1>1 DEF Execution, MarkRunning, Return, WriteCompleted, Raise,
              WriteFailed, Escape, Finish
<1>2. CASE MarkRunning(s)
  <2>1. s \notin cancelled /\ state[s] = "pending"
    BY <1>2 DEF MarkRunning
  <2> QED BY <1>2, <2>1
          DEF MarkRunning, Lifecycle!Step, Lifecycle!Run, Lifecycle!Moves
<1>3. CASE Return(s) \/ Raise(s) \/ Escape(s) \/ Finish(s)
  BY <1>3 DEF Return, Raise, Escape, Finish
<1>4. CASE WriteCompleted(s)
  <2>1. s \notin cancelled /\ state[s] = "running" /\ stored[s]
    BY <1>4 DEF WriteCompleted
  <2>2. /\ state' = [state EXCEPT ![s] = "completed"]
        /\ UNCHANGED stored
    BY <1>4 DEF WriteCompleted
  <2>3. Visible'[s] = s /\ s # None
    BY <2>1, <2>2, LocalAssumption
  <2>4. \A u \in Submissions \ {s} : Visible'[u] = Visible[u]
    BY <2>2
  <2> QED BY <2>1, <2>2, <2>3, <2>4
          DEF Lifecycle!Step, Lifecycle!Complete, Lifecycle!Moves
<1>5. CASE WriteFailed(s)
  <2>1. s \notin cancelled /\ state[s] = "running"
    BY <1>5 DEF WriteFailed
  <2>2. state' = [state EXCEPT ![s] = "failed"] /\ UNCHANGED stored
    BY <1>5 DEF WriteFailed
  <2>3. Visible' = Visible
    BY <2>1, <2>2
  <2> QED BY <2>1, <2>2, <2>3
          DEF Lifecycle!Step, Lifecycle!Fail, Lifecycle!Moves
<1>6. ASSUME NEW c \in Clients, Advance(c) \/ WaitTimesOut(c)
      PROVE  KeepsLifecycle(s)
  <2>1. CASE WriteCancelled(c)
    <3>1. s # client[c].sub
      BY <2>1 DEF WriteCancelled
    <3> QED BY <2>1, <3>1 DEF WriteCancelled
  <2>2. CASE ~WriteCancelled(c)
    <3>1. UNCHANGED <<state, stored>>
      BY <1>6, <2>2 DEF Advance, StartThread, WaitEnds, WaitTimesOut,
         CheckFailed, CheckCancelled, CheckCompleted, StreamWaited,
         CheckStreamed, ReadResult, CheckOpen, SetDone
    <3> QED BY <3>1
  <2> QED BY <2>1, <2>2
<1>7. ASSUME NEW c \in Clients, NEW id \in Ids, NEW u \in Submissions,
             Submit(c, id, u)
      PROVE  KeepsLifecycle(s)
  <2>1. /\ state[u] = "unknown"
        /\ state' = [state EXCEPT ![u] = "pending"]
        /\ UNCHANGED stored
    BY <1>7 DEF Submit
  <2>2. Visible' = Visible
    BY <2>1
  <2> QED BY <2>1, <2>2
          DEF Lifecycle!Step, Lifecycle!Submit, Lifecycle!Moves
<1>8. ASSUME NEW c \in Clients, NEW id \in Ids, NEW op, Call(c, id, op)
      PROVE  KeepsLifecycle(s)
  BY <1>8 DEF Call
<1>9. CASE UNCHANGED vars
  BY <1>9 DEF vars
<1> QED
  BY <1>1, <1>2, <1>3, <1>4, <1>5, <1>6, <1>7, <1>8, <1>9
  DEF Next, Execution, CallOn, Wait, Result, StreamResults, Cancel

(* Every submission that no cancel has written to goes through the life    *)
(* cycle of the protocol, and its result is readable, for good, from the   *)
(* step that completes it, whatever happens to other submissions.          *)
THEOREM ImplementsLifecycle == Spec => LifecycleUntilCancel
<1>1. Init => Lifecycle!Init
  BY DEF Init, Lifecycle!Init, Visible
<1>2. LocalInv /\ [Next]_vars =>
        [\A s \in Submissions \ cancelled' :
           \/ Lifecycle!Step(s)
           \/ UNCHANGED <<state[s], Visible[s]>>]_vars
  BY LifecycleStep DEF KeepsLifecycle
<1> QED BY <1>1, <1>2, LocalInvariant, PTL DEF Spec, LifecycleUntilCancel
=============================================================================

----------------------- MODULE ApprovalBroker_proofs -----------------------
(***************************************************************************)
(* Proofs about ApprovalBroker, for any number of clients, leases and      *)
(* faults: a body runs only for a durable yes, and at most once.           *)
(*                                                                         *)
(* The argument follows the answer through its copies: what the client     *)
(* carries behind its append, the broker's map, the channel's buffer and   *)
(* the pipeline.  None of them is yes before the log has decided; a copy   *)
(* lost in a crash is only made again from the log.                        *)
(***************************************************************************)
EXTENDS ApprovalBroker, TLAPS

Answers == {"none", "yes", "no"}

Logs == [requested : BOOLEAN, resolved : Answers, dispatched : BOOLEAN, result : BOOLEAN,
         closed : BOOLEAN]
Brokers == [up : BOOLEAN, pending : BOOLEAN, requested : BOOLEAN, known : BOOLEAN,
            decision : Answers, lease : Nat]
Pcs == {"none", "bind", "ask", "request", "wait", "leave", "answered", "armed", "settle", "end"}
Decides == [pc : {"idle", "append", "set", "send", "resume", "resuming"},
            answer : Answers, chan : BOOLEAN, count : Nat]

TypeOK ==
    /\ log \in Logs
    /\ lease \in [held : Nat, claims : Nat]
    /\ broker \in Brokers
    /\ chan \in {"empty", "yes", "no"}
    /\ active \in {"none", "run", "other"} \cup Clients
    /\ mine \in Nat
    /\ call \in [pc : Pcs, answer : Answers \cup {"error"}]
    /\ cl \in [Clients -> Decides]
    /\ \A c \in Clients : cl[c].pc # "idle" => cl[c].answer # "none"
    /\ faults \in Nat
    /\ hist \in [ran : Nat, dup : {"no", "same", "different"}]

\* The durable yes, or the two different answers of which the store kept one.
Decided == log.resolved = "yes" \/ hist.dup = "different"

\* No copy of the answer is ahead of the log.
YesIsDecided ==
    /\ call.answer = "yes" => Decided
    /\ chan = "yes" => Decided
    /\ broker.decision = "yes" => Decided
    /\ \A c \in Clients : cl[c].pc \in {"set", "send"} /\ cl[c].answer = "yes" => Decided
    /\ hist.ran > 0 => Decided

\* The dispatch barrier is passed before the body, by the only run that has the call.
BarrierInv ==
    /\ call.pc # "none" => active \notin {"none", "other"}
    /\ call.pc \in {"bind", "ask", "request", "wait", "leave", "answered"} => ~log.dispatched
    /\ call.pc = "armed" => log.dispatched /\ hist.ran = 0 /\ call.answer = "yes"
    /\ hist.ran > 0 => log.dispatched
    /\ hist.ran <= 1

BrokerInv == TypeOK /\ YesIsDecided /\ BarrierInv

\* Every step keeps the types.
LEMMA TypeStep == BrokerInv /\ [Next]_vars => TypeOK'
  <1> SUFFICES ASSUME BrokerInv, [Next]_vars PROVE TypeOK'
    OBVIOUS
  <1> USE ApprovalBrokerAssumption DEF BrokerInv, TypeOK, Answers, Logs, Brokers, Pcs, Decides
  <1>1. CASE BindApprovalLease
    BY <1>1 DEF BindApprovalLease, At
  <1>2. CASE Approve
    <2>1. CASE broker.decision # "none"
      <3>1. call' = At("answered", broker.decision) /\ UNCHANGED <<broker, chan>>
        BY <1>2, <2>1 DEF Approve
      <3>2. call' \in [pc : Pcs, answer : Answers \cup {"error"}]
        BY <3>1 DEF At
      <3> QED BY <1>2, <3>1, <3>2 DEF Approve
    <2>2. CASE broker.decision = "none"
      <3>1. call' = At("request", "none") /\ broker' = Asked(TRUE) /\ chan' = "empty"
        BY <1>2, <2>2 DEF Approve
      <3>2. broker' \in Brokers
        BY <3>1 DEF Asked
      <3> QED BY <1>2, <3>1, <3>2 DEF Approve, At
    <2> QED BY <2>1, <2>2
  <1>3. CASE AppendRequested
    BY <1>3, ZenonT(30) DEF AppendRequested, At
  <1>4. CASE RequestFails
    BY <1>4 DEF RequestFails, At, Asked, Fault
  <1>5. CASE Receive
    BY <1>5 DEF Receive, At
  <1>6. CASE WaitCancelled
    BY <1>6 DEF WaitCancelled, At, Fault
  <1>7. CASE Leave
    <2>1. call' \in [pc : Pcs, answer : Answers \cup {"error"}]
      BY <1>7 DEF Leave, At
    <2>2. broker' \in Brokers
      BY <1>7 DEF Leave
    <2> QED BY <1>7, <2>1, <2>2 DEF Leave
  <1>8. CASE Dispatch
    <2>1. call' \in [pc : Pcs, answer : Answers \cup {"error"}]
      BY <1>8 DEF Dispatch, At
    <2>2. log' \in Logs
      BY <1>8, ZenonT(30) DEF Dispatch
    <2> QED BY <1>8, <2>1, <2>2 DEF Dispatch
  <1>9. CASE Body
    BY <1>9 DEF Body, At
  <1>10. CASE Settle
    BY <1>10, ZenonT(30) DEF Settle, At
  <1>11. CASE EndRun
    <2>1. cl' \in [Clients -> Decides] /\ \A c \in Clients : cl'[c].pc # "idle" => cl'[c].answer # "none"
      BY <1>11 DEF EndRun, Idle
    <2>2. log' \in Logs
      BY <1>11 DEF EndRun
    <2>3. lease' \in [held : Nat, claims : Nat]
      BY <1>11 DEF EndRun
    <2> QED BY <1>11, <2>1, <2>2, <2>3 DEF EndRun, NoCall
  <1>12. ASSUME NEW c \in Clients, AppendResolved(c) PROVE TypeOK'
    BY <1>12 DEF AppendResolved, Goto
  <1>13. ASSUME NEW c \in Clients, AppendRefused(c) PROVE TypeOK'
    BY <1>13 DEF AppendRefused, Goto, Fault
  <1>14. ASSUME NEW c \in Clients, SetDecision(c) PROVE TypeOK'
    BY <1>14 DEF SetDecision, Goto
  <1>15. ASSUME NEW c \in Clients, Send(c) PROVE TypeOK'
    BY <1>15 DEF Send, Goto
  <1>16. ASSUME NEW c \in Clients, ResumeRefused(c) PROVE TypeOK'
    BY <1>16 DEF ResumeRefused, Goto
  <1>17. ASSUME NEW c \in Clients, ResumeApprovedTool(c) PROVE TypeOK'
    BY <1>17 DEF ResumeApprovedTool, Goto, Claim, At
  <1>18. ASSUME NEW c \in Clients, NEW answer \in {"yes", "no"}, Decide(c, answer) PROVE TypeOK'
    BY <1>18 DEF Decide
  <1>19. CASE StartOther
    BY <1>19 DEF StartOther, Claim
  <1>20. CASE OtherAsks
    BY <1>20 DEF OtherAsks
  <1>21. CASE EndOther
    BY <1>21 DEF EndOther
  <1>22. CASE Expire
    BY <1>22 DEF Expire, Fault
  <1>23. CASE Crash
    BY <1>23, SMTT(30) DEF Crash, Fault, NoBroker, NoCall, Idle
  <1>24. CASE Restore
    BY <1>24 DEF Restore
  <1>25. CASE UNCHANGED vars
    BY <1>25 DEF vars
  <1> QED BY <1>1, <1>2, <1>3, <1>4, <1>5, <1>6, <1>7, <1>8, <1>9, <1>10, <1>11, <1>12, <1>13, <1>14,
             <1>15, <1>16, <1>17, <1>18, <1>19, <1>20, <1>21, <1>22, <1>23, <1>24, <1>25
    DEF Next, CallStep, ClientStep

\* Every step that copies a yes copies one the log has decided, and no step
\* takes the decision back.
LEMMA YesStep == BrokerInv /\ [Next]_vars => YesIsDecided'
  <1> SUFFICES ASSUME BrokerInv, [Next]_vars PROVE YesIsDecided'
    OBVIOUS
  <1> USE ApprovalBrokerAssumption DEF BrokerInv, TypeOK, Answers, Logs, Brokers, Pcs, Decides, YesIsDecided,
            Decided, BarrierInv
  <1>1. CASE BindApprovalLease
    BY <1>1 DEF BindApprovalLease, At
  <1>2. CASE Approve
    BY <1>2 DEF Approve, At, Asked
  <1>3. CASE AppendRequested
    BY <1>3 DEF AppendRequested, At
  <1>4. CASE RequestFails
    BY <1>4 DEF RequestFails, At, Asked, Fault
  <1>5. CASE Receive
    BY <1>5 DEF Receive, At
  <1>6. CASE WaitCancelled
    BY <1>6 DEF WaitCancelled, At, Fault
  <1>7. CASE Leave
    BY <1>7 DEF Leave, At
  <1>8. CASE Dispatch
    BY <1>8 DEF Dispatch, At
  <1>9. CASE Body
    BY <1>9 DEF Body, At
  <1>10. CASE Settle
    BY <1>10 DEF Settle, At
  <1>11. CASE EndRun
    BY <1>11 DEF EndRun, NoCall, Idle
  <1>12. ASSUME NEW c \in Clients, AppendResolved(c) PROVE YesIsDecided'
    BY <1>12 DEF AppendResolved, Goto
  <1>13. ASSUME NEW c \in Clients, AppendRefused(c) PROVE YesIsDecided'
    BY <1>13 DEF AppendRefused, Goto, Fault
  <1>14. ASSUME NEW c \in Clients, SetDecision(c) PROVE YesIsDecided'
    BY <1>14 DEF SetDecision, Goto
  <1>15. ASSUME NEW c \in Clients, Send(c) PROVE YesIsDecided'
    BY <1>15 DEF Send, Goto
  <1>16. ASSUME NEW c \in Clients, ResumeRefused(c) PROVE YesIsDecided'
    BY <1>16 DEF ResumeRefused, Goto
  <1>17. ASSUME NEW c \in Clients, ResumeApprovedTool(c) PROVE YesIsDecided'
    BY <1>17 DEF ResumeApprovedTool, Goto, Claim, At
  <1>18. ASSUME NEW c \in Clients, NEW answer \in {"yes", "no"}, Decide(c, answer) PROVE YesIsDecided'
    BY <1>18 DEF Decide
  <1>19. CASE StartOther
    BY <1>19 DEF StartOther, Claim
  <1>20. CASE OtherAsks
    BY <1>20 DEF OtherAsks
  <1>21. CASE EndOther
    BY <1>21 DEF EndOther
  <1>22. CASE Expire
    BY <1>22 DEF Expire, Fault
  <1>23. CASE Crash
    BY <1>23 DEF Crash, Fault, NoBroker, NoCall, Idle
  <1>24. CASE Restore
    BY <1>24 DEF Restore
  <1>25. CASE UNCHANGED vars
    BY <1>25 DEF vars
  <1> QED BY <1>1, <1>2, <1>3, <1>4, <1>5, <1>6, <1>7, <1>8, <1>9, <1>10, <1>11, <1>12, <1>13, <1>14,
             <1>15, <1>16, <1>17, <1>18, <1>19, <1>20, <1>21, <1>22, <1>23, <1>24, <1>25
    DEF Next, CallStep, ClientStep

\* The body starts behind the barrier, and a late answer finds the barrier.
LEMMA BarrierStep == BrokerInv /\ [Next]_vars => BarrierInv'
  <1> SUFFICES ASSUME BrokerInv, [Next]_vars PROVE BarrierInv'
    OBVIOUS
  <1> USE ApprovalBrokerAssumption DEF BrokerInv, TypeOK, Answers, Logs, Brokers, Pcs, Decides, BarrierInv
  <1>1. CASE BindApprovalLease
    BY <1>1 DEF BindApprovalLease, At
  <1>2. CASE Approve
    BY <1>2 DEF Approve, At, Asked
  <1>3. CASE AppendRequested
    BY <1>3 DEF AppendRequested, At
  <1>4. CASE RequestFails
    BY <1>4 DEF RequestFails, At, Asked, Fault
  <1>5. CASE Receive
    BY <1>5 DEF Receive, At
  <1>6. CASE WaitCancelled
    BY <1>6 DEF WaitCancelled, At, Fault
  <1>7. CASE Leave
    BY <1>7 DEF Leave, At
  <1>8. CASE Dispatch
    BY <1>8 DEF Dispatch, At
  <1>9. CASE Body
    BY <1>9 DEF Body, At
  <1>10. CASE Settle
    BY <1>10 DEF Settle, At
  <1>11. CASE EndRun
    BY <1>11 DEF EndRun, NoCall, Idle
  <1>12. ASSUME NEW c \in Clients, AppendResolved(c) PROVE BarrierInv'
    BY <1>12 DEF AppendResolved, Goto
  <1>13. ASSUME NEW c \in Clients, AppendRefused(c) PROVE BarrierInv'
    BY <1>13 DEF AppendRefused, Goto, Fault
  <1>14. ASSUME NEW c \in Clients, SetDecision(c) PROVE BarrierInv'
    BY <1>14 DEF SetDecision, Goto
  <1>15. ASSUME NEW c \in Clients, Send(c) PROVE BarrierInv'
    BY <1>15 DEF Send, Goto
  <1>16. ASSUME NEW c \in Clients, ResumeRefused(c) PROVE BarrierInv'
    BY <1>16 DEF ResumeRefused, Goto
  <1>17. ASSUME NEW c \in Clients, ResumeApprovedTool(c) PROVE BarrierInv'
    BY <1>17 DEF ResumeApprovedTool, Goto, Claim, At
  <1>18. ASSUME NEW c \in Clients, NEW answer \in {"yes", "no"}, Decide(c, answer) PROVE BarrierInv'
    BY <1>18 DEF Decide
  <1>19. CASE StartOther
    BY <1>19 DEF StartOther, Claim
  <1>20. CASE OtherAsks
    BY <1>20 DEF OtherAsks
  <1>21. CASE EndOther
    BY <1>21 DEF EndOther
  <1>22. CASE Expire
    BY <1>22 DEF Expire, Fault
  <1>23. CASE Crash
    BY <1>23 DEF Crash, Fault, NoBroker, NoCall, Idle
  <1>24. CASE Restore
    BY <1>24 DEF Restore
  <1>25. CASE UNCHANGED vars
    BY <1>25 DEF vars
  <1> QED BY <1>1, <1>2, <1>3, <1>4, <1>5, <1>6, <1>7, <1>8, <1>9, <1>10, <1>11, <1>12, <1>13, <1>14,
             <1>15, <1>16, <1>17, <1>18, <1>19, <1>20, <1>21, <1>22, <1>23, <1>24, <1>25
    DEF Next, CallStep, ClientStep

\* approvalBroker and resumeApprovedTool keep BrokerInv in every behaviour.
THEOREM BrokerSafe == Spec => []BrokerInv
  <1>1. Init => BrokerInv
    <2> SUFFICES ASSUME Init PROVE BrokerInv
      OBVIOUS
    <2>1. log \in Logs /\ log.resolved = "none" /\ ~log.dispatched
      BY DEF Init, Logs, Answers
    <2>2. broker \in Brokers /\ broker.decision = "none"
      BY DEF Init, Brokers, Answers, NoBroker
    <2>3. cl \in [Clients -> Decides] /\ \A c \in Clients : cl[c].pc = "idle"
      BY DEF Init, Decides, Answers
    <2>4. TypeOK
      BY <2>1, <2>2, <2>3 DEF Init, TypeOK, Answers, Pcs, At
    <2> QED BY <2>1, <2>2, <2>3, <2>4, ApprovalBrokerAssumption
            DEF Init, BrokerInv, YesIsDecided, Decided, BarrierInv, At
  <1>2. BrokerInv /\ [Next]_vars => BrokerInv'
    BY TypeStep, YesStep, BarrierStep DEF BrokerInv
  <1> QED BY <1>1, <1>2, PTL DEF Spec

\* A body runs only for a yes that is in the log, whatever fails, restarts or
\* answers late; two clients that contradict each other at once are the exception.
THEOREM DurableYesOnly == Spec => []OnlyDurableYesRuns
  <1>1. BrokerInv => OnlyDurableYesRuns
    BY DEF BrokerInv, YesIsDecided, Decided, OnlyDurableYesRuns
  <1> QED BY <1>1, BrokerSafe, PTL

\* The waiter and any number of late answers start the body once.
THEOREM RunsOnce == Spec => []ApprovedRunsOnce
  <1>1. BrokerInv => ApprovedRunsOnce
    BY DEF BrokerInv, BarrierInv, ApprovedRunsOnce
  <1> QED BY <1>1, BrokerSafe, PTL
=============================================================================

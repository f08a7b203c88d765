--------------------------- MODULE ApprovalBroker ---------------------------
(***************************************************************************)
(* agent.approvalBroker with everyone around one call that needs an        *)
(* approval: the tool pipeline that asks (Approve), clients that answer at *)
(* the same time (Decide), the late resume of an answered call             *)
(* (resumeApprovedTool), other runs of the agent, lost leases, crashes and *)
(* restarts (restore).                                                     *)
(*                                                                         *)
(* Everything between a Lock and an Unlock of b.mu is one step.  The log is *)
(* what the broker and the resume read of it.  The events of an approval   *)
(* have fixed IDs, so the store drops a second one.  A call asks once in   *)
(* the life of a process: a second question is answered from decisions,    *)
(* so there is one channel.                                                *)
(***************************************************************************)
EXTENDS Integers

CONSTANTS Clients,    \* goroutines that call DecideApproval
          MaxDecides, \* bound: calls of one client that have an effect
          MaxRuns,    \* bound: leases claimed
          MaxFaults   \* bound: crashes, lost leases, failed appends, cancelled waits

ASSUME ApprovalBrokerAssumption ==
    /\ {MaxDecides, MaxRuns, MaxFaults} \subseteq Nat
    /\ Clients \cap {"none", "run", "other"} = {}

VARIABLES log,     \* durable: requested, resolved (the answer), dispatched, result, closed (turn/end)
          lease,   \* the store: held is the fence of the unexpired lease, or 0; claims counts them
          broker,  \* the broker's maps at this call, and the lease it keeps; up: the process lives
          chan,    \* the buffer of the decision channel
          active,  \* who has the handle's status running: "none", "run", "other" or a client
          mine,    \* the fence of that run
          call,    \* where the pipeline has the call, and the answer it got
          cl,      \* client -> where its Decide is, and what it saw
          faults,
          hist     \* history: ran counts body starts, dup whether a second resolution was dropped

vars == <<log, lease, broker, chan, active, mine, call, cl, faults, hist>>

NoBroker == [up |-> FALSE, pending |-> FALSE, requested |-> FALSE, known |-> FALSE,
             decision |-> "none", lease |-> 0]
NoCall == [pc |-> "none", answer |-> "none"]
At(pc, answer) == [pc |-> pc, answer |-> answer]
Idle(c) == [cl[c] EXCEPT !.pc = "idle"]
\* The broker with the entries of the question made, or taken back.
Asked(b) == [up |-> broker.up, pending |-> b, requested |-> b, known |-> b,
             decision |-> broker.decision, lease |-> broker.lease]

\* The run has stored tool/call and its policy said PolicyAsk.
Init ==
    /\ log = [requested |-> FALSE, resolved |-> "none", dispatched |-> FALSE, result |-> FALSE,
              closed |-> FALSE]
    /\ lease = [held |-> 1, claims |-> 1]
    /\ broker = [NoBroker EXCEPT !.up = TRUE]
    /\ chan = "empty"
    /\ active = "run" /\ mine = 1
    /\ call = At("bind", "none")
    /\ cl = [c \in Clients |-> [pc |-> "idle", answer |-> "none", chan |-> FALSE, count |-> 0]]
    /\ faults = 0
    /\ hist = [ran |-> 0, dup |-> "no"]

Fault == faults < MaxFaults /\ faults' = faults + 1
Holds(fence) == fence # 0 /\ fence = lease.held

-----------------------------------------------------------------------------
(* The pipeline: bindApprovalLease, Approve, and what follows it. *)

BindApprovalLease ==
    /\ call.pc = "bind"
    /\ broker' = [broker EXCEPT !.lease = mine]
    /\ call' = At("ask", "none")
    /\ UNCHANGED <<log, lease, chan, active, mine, cl, faults, hist>>

\* A known decision is returned at once; otherwise the channel is there before
\* the request is durable.
Approve ==
    /\ call.pc = "ask"
    /\ IF broker.decision # "none"
         THEN call' = At("answered", broker.decision) /\ UNCHANGED <<broker, chan>>
         ELSE /\ call' = At("request", "none")
              /\ broker' = Asked(TRUE)
              /\ chan' = "empty"
    /\ UNCHANGED <<log, lease, active, mine, cl, faults, hist>>

AppendRequested ==
    /\ call.pc = "request" /\ Holds(broker.lease)
    /\ log' = [log EXCEPT !.requested = TRUE]
    /\ call' = At("wait", "none")
    /\ UNCHANGED <<lease, broker, chan, active, mine, cl, faults, hist>>

\* The append fails and Approve forgets the request.
RequestFails ==
    /\ call.pc = "request"
    /\ \/ ~Holds(broker.lease) /\ UNCHANGED faults
       \/ Fault
    /\ broker' = Asked(FALSE)
    /\ call' = At("answered", "error")
    /\ UNCHANGED <<log, lease, chan, active, mine, cl, hist>>

Receive ==
    /\ call.pc = "wait" /\ chan # "empty"
    /\ call' = At("leave", chan)
    /\ chan' = "empty"
    /\ UNCHANGED <<log, lease, broker, active, mine, cl, faults, hist>>

\* The tool's timeout, or the run is cancelled.
WaitCancelled ==
    /\ call.pc = "wait" /\ Fault
    /\ call' = At("leave", "error")
    /\ UNCHANGED <<log, lease, broker, chan, active, mine, cl, hist>>

\* The deferred delete of the pending entry.
Leave ==
    /\ call.pc = "leave"
    /\ broker' = [broker EXCEPT !.pending = FALSE]
    /\ call' = At("answered", call.answer)
    /\ UNCHANGED <<log, lease, chan, active, mine, cl, faults, hist>>

\* An approved call passes its dispatch barrier; anything else is settled.
Dispatch ==
    /\ call.pc = "answered"
    /\ IF call.answer = "yes" /\ Holds(mine)
         THEN log' = [log EXCEPT !.dispatched = TRUE] /\ call' = At("armed", "yes")
         ELSE call' = At("settle", call.answer) /\ UNCHANGED log
    /\ UNCHANGED <<lease, broker, chan, active, mine, cl, faults, hist>>

Body ==
    /\ call.pc = "armed"
    /\ hist' = [hist EXCEPT !.ran = @ + 1]
    /\ call' = At("settle", "yes")
    /\ UNCHANGED <<log, lease, broker, chan, active, mine, cl, faults>>

\* tool/result, as long as the lease is held.
Settle ==
    /\ call.pc = "settle"
    /\ log' = IF Holds(mine) THEN [log EXCEPT !.result = TRUE] ELSE log
    /\ call' = At("end", "none")
    /\ UNCHANGED <<lease, broker, chan, active, mine, cl, faults, hist>>

\* turn/end, unless the lease is lost or a sibling of the call was deferred; the
\* lease is given back.
EndRun ==
    /\ call.pc = "end"
    /\ \/ Holds(mine) /\ log' = [log EXCEPT !.closed = TRUE]
       \/ UNCHANGED log
    /\ lease' = IF Holds(mine) THEN [lease EXCEPT !.held = 0] ELSE lease
    /\ active' = "none" /\ mine' = 0 /\ call' = NoCall
    /\ cl' = [c \in Clients |-> IF c = active THEN Idle(c) ELSE cl[c]]
    /\ UNCHANGED <<broker, chan, faults, hist>>

CallStep ==
    \/ BindApprovalLease \/ Approve \/ AppendRequested \/ RequestFails \/ Receive
    \/ Leave \/ Dispatch \/ Body \/ Settle \/ EndRun

-----------------------------------------------------------------------------
(* Decide.  A call that returns without an effect is no step. *)

Goto(c, pc) == cl' = [cl EXCEPT ![c].pc = pc]

\* The first critical section: an answer that was given before is repeated, a
\* new one goes on with the channel it finds.
Decide(c, answer) ==
    /\ broker.up /\ cl[c].pc = "idle" /\ cl[c].count < MaxDecides
    /\ \/ broker.decision = answer /\ ~broker.pending /\ broker.requested /\ broker.known
       \/ broker.decision = "none" /\ broker.requested
    /\ cl' = [cl EXCEPT ![c] = [pc |-> IF broker.decision = "none" THEN "append" ELSE "resume",
                                answer |-> answer, chan |-> broker.pending, count |-> @.count + 1]]
    /\ UNCHANGED <<log, lease, broker, chan, active, mine, call, faults, hist>>

\* approvalBroker.append: fenced by the lease the broker keeps, if it has one.
AppendResolved(c) ==
    /\ cl[c].pc = "append"
    /\ broker.lease = 0 \/ Holds(broker.lease)
    /\ log' = [log EXCEPT !.resolved = IF @ = "none" THEN cl[c].answer ELSE @]
    /\ hist' = [hist EXCEPT !.dup = IF log.resolved = "none" THEN @
                                    ELSE IF log.resolved # cl[c].answer THEN "different"
                                    ELSE IF @ = "no" THEN "same" ELSE @]
    /\ Goto(c, "set")
    /\ UNCHANGED <<lease, broker, chan, active, mine, call, faults>>

\* Mutant: an append that fails is ignored.
AppendRefused_Ignored(c) ==
    /\ cl[c].pc = "append"
    /\ \/ broker.lease # 0 /\ ~Holds(broker.lease) /\ UNCHANGED faults
       \/ Fault
    /\ Goto(c, "set")
    /\ UNCHANGED <<log, lease, broker, chan, active, mine, call, hist>>

\* The kept lease is stale, or the store or the context fails: an error.
AppendRefused(c) ==
    /\ cl[c].pc = "append"
    /\ \/ broker.lease # 0 /\ ~Holds(broker.lease) /\ UNCHANGED faults
       \/ Fault
    /\ Goto(c, "idle")
    /\ UNCHANGED <<log, lease, broker, chan, active, mine, call, hist>>

SetDecision(c) ==
    /\ cl[c].pc = "set"
    /\ broker' = [broker EXCEPT !.decision = cl[c].answer]
    /\ Goto(c, IF cl[c].chan THEN "send" ELSE "resume")
    /\ UNCHANGED <<log, lease, chan, active, mine, call, faults, hist>>

\* Mutant: who does not wait yet is not told.
Send_Drops(c) ==
    /\ cl[c].pc = "send"
    /\ chan' = IF call.pc = "wait" THEN cl[c].answer ELSE chan
    /\ Goto(c, "idle")
    /\ UNCHANGED <<log, lease, broker, active, mine, call, faults, hist>>

\* Mutant: the channel has no buffer.
Send_Unbuffered(c) ==
    /\ cl[c].pc = "send" /\ call.pc = "wait" /\ chan = "empty"
    /\ chan' = cl[c].answer
    /\ Goto(c, "idle")
    /\ UNCHANGED <<log, lease, broker, active, mine, call, faults, hist>>

\* The channel has a buffer of one; the waiter may be gone by now.
Send(c) ==
    /\ cl[c].pc = "send" /\ chan = "empty"
    /\ chan' = cl[c].answer
    /\ Goto(c, "idle")
    /\ UNCHANGED <<log, lease, broker, active, mine, call, faults, hist>>

-----------------------------------------------------------------------------
(* The late answer: Handle.resumeApprovedTool and Loop.ResumeApprovedTool. *)

Claim(who) ==
    /\ active = "none" /\ lease.held = 0 /\ lease.claims < MaxRuns
    /\ lease' = [held |-> lease.claims + 1, claims |-> lease.claims + 1]
    /\ active' = who /\ mine' = lease.claims + 1

\* ErrAgentBusy, a lease that has not expired, or nothing left to do.
ResumeRefused(c) ==
    /\ cl[c].pc = "resume"
    /\ active # "none" \/ lease.held # 0 \/ lease.claims = MaxRuns \/ log.dispatched \/ log.closed
    /\ Goto(c, "idle")
    /\ UNCHANGED <<log, lease, broker, chan, active, mine, call, faults, hist>>

\* Mutant: the dispatch barrier is not looked for.
ResumeApprovedTool_NoBarrier(c) ==
    /\ cl[c].pc = "resume" /\ ~log.closed
    /\ Claim(c)
    /\ call' = IF log.result THEN At("end", "none")
               ELSE IF cl[c].answer = "yes" THEN At("bind", "none") ELSE At("settle", "no")
    /\ Goto(c, "resuming")
    /\ UNCHANGED <<log, broker, chan, faults, hist>>

\* A denied call gets its result, an approved one goes through the pipeline,
\* which asks again; a call that has its result only has its turn continued.
ResumeApprovedTool(c) ==
    /\ cl[c].pc = "resume" /\ ~log.closed /\ ~log.dispatched
    /\ Claim(c)
    /\ call' = IF log.result THEN At("end", "none")
               ELSE IF cl[c].answer = "yes" THEN At("bind", "none") ELSE At("settle", "no")
    /\ Goto(c, "resuming")
    /\ UNCHANGED <<log, broker, chan, faults, hist>>

ClientStep(c) ==
    \/ AppendResolved(c) \/ AppendRefused(c) \/ SetDecision(c) \/ Send(c)
    \/ ResumeRefused(c) \/ ResumeApprovedTool(c)

-----------------------------------------------------------------------------
(* Other runs of the agent, leases, crashes. *)

\* A later run recovers first: a dispatched call is settled, the open turn ends.
StartOther ==
    /\ broker.up /\ Claim("other")
    /\ log' = [requested |-> log.requested, resolved |-> log.resolved, dispatched |-> log.dispatched,
               result |-> log.result \/ log.dispatched, closed |-> TRUE]
    /\ UNCHANGED <<broker, chan, call, cl, faults, hist>>

\* A call of that run asks: the broker keeps its lease from now on.
OtherAsks ==
    /\ active = "other"
    /\ broker' = [broker EXCEPT !.lease = mine]
    /\ UNCHANGED <<log, lease, chan, active, mine, call, cl, faults, hist>>

EndOther ==
    /\ active = "other"
    /\ lease' = IF Holds(mine) THEN [lease EXCEPT !.held = 0] ELSE lease
    /\ active' = "none" /\ mine' = 0
    /\ UNCHANGED <<log, broker, chan, call, cl, faults, hist>>

\* The lease of a dead process runs out, or that of a run that stalls.
Expire ==
    /\ lease.held # 0
    /\ \/ active = "none" /\ UNCHANGED faults
       \/ active # "none" /\ Fault
    /\ lease' = [lease EXCEPT !.held = 0]
    /\ UNCHANGED <<log, broker, chan, active, mine, call, cl, hist>>

Crash ==
    /\ broker.up /\ Fault
    /\ broker' = NoBroker /\ chan' = "empty"
    /\ active' = "none" /\ mine' = 0 /\ call' = NoCall
    /\ cl' = [c \in Clients |-> Idle(c)]
    /\ UNCHANGED <<log, lease, hist>>

\* A new process: restore folds the log; it has no lease.
Restore ==
    /\ ~broker.up
    /\ broker' = [up |-> TRUE, pending |-> FALSE, requested |-> log.requested \/ log.resolved # "none",
                  known |-> log.requested, decision |-> log.resolved, lease |-> 0]
    /\ UNCHANGED <<log, lease, chan, active, mine, call, cl, faults, hist>>

Next ==
    \/ CallStep \/ WaitCancelled
    \/ \E c \in Clients : ClientStep(c) \/ \E answer \in {"yes", "no"} : Decide(c, answer)
    \/ StartOther \/ OtherAsks \/ EndOther
    \/ Expire \/ Crash \/ Restore

Spec == Init /\ [][Next]_vars

\* The goroutines of the pipeline and of the clients are scheduled.  Nobody is
\* assumed to answer, to cancel or to start another run.
FairSpec == Spec /\ WF_vars(CallStep) /\ \A c \in Clients : WF_vars(ClientStep(c))

-----------------------------------------------------------------------------
(* Properties. *)

\* No body runs unless a yes is durable, across failed appends, stale leases,
\* restarts and late resumes.  The exception is two clients that answer
\* differently at once: Decide's test (agent.go:1025) and its append are two
\* sections, the second resolution is dropped by the store and yet used.
OnlyDurableYesRuns == hist.ran > 0 => log.resolved = "yes" \/ hist.dup = "different"

\* The body runs at most once, although the waiter and a repeated or a late
\* answer may each start it.
ApprovedRunsOnce == hist.ran <= 1

\* A call that waits is told an answer that is durable: the channel exists before
\* the request can be answered, and keeps an answer that comes before the wait.
AnswerArrives == (log.resolved # "none" /\ call.pc = "wait") ~> call.pc # "wait"

\* Decide returns, also when the waiter has gone.  Two at once share the one
\* place in the channel's buffer (agent.go:1044): the second may block for good.
DecideReturns == \A c \in Clients : cl[c].pc # "idle" ~> (cl[c].pc = "idle" \/ hist.dup # "no")
=============================================================================

------------------------------ MODULE ToolTurn ------------------------------
(***************************************************************************)
(* agent.Loop over one session: turns, model steps and tool calls as the   *)
(* durable lifecycle events they leave, with crashes and lease takeovers   *)
(* between any two appends, Recover, and the three ways to take up a call  *)
(* again: the batch resume of deferred calls, the single resume with a     *)
(* host-made result, and the resume of a durable approval.                 *)
(*                                                                         *)
(* One worker at a time can write (FencedLog!SingleWriter).  A worker that *)
(* lost its lease cannot append, but a body that is already past its last  *)
(* fenced write may still start: those are the "zombies".                  *)
(*                                                                         *)
(* Calls are numbered in the order the model makes them, so model order is *)
(* numeric order.  Steps of a turn are numbered in the order they start    *)
(* (an overflow retry is the next step).  RunBatch appears here by its     *)
(* outcomes in any order; its scheduler is not restricted.                 *)
(***************************************************************************)
EXTENDS Integers, Sequences, FiniteSets, FiniteSetsExt, Ordered

CONSTANTS NumCalls,    \* bound: tool calls in one behaviour
          MaxTurns,    \* bound: turns started
          MaxSteps,    \* Config.MaxStepsPerTurn
          MaxBatch,    \* bound: calls in one assistant message
          MaxLeases,   \* bound: leases claimed
          MaxLog,      \* bound: durable events
          Asks,        \* calls whose policy decision is PolicyAsk
          PostAsks,    \* calls whose post-policy decision is PolicyAsk
          Defers       \* calls that a hook or their body may defer

Calls == 1..NumCalls

ASSUME ToolTurnAssumption ==
    /\ {NumCalls, MaxTurns, MaxSteps, MaxBatch, MaxLeases, MaxLog} \subseteq Nat
    /\ Asks \subseteq Calls /\ PostAsks \subseteq Calls /\ Defers \subseteq Calls

VARIABLES log,      \* the session's lifecycle events
          worker,   \* the lease holder's control state, volatile
          task,     \* call -> where the holder's RunBatch has it, volatile
          zombies,  \* calls whose body a replaced worker may still start
          runs,     \* call -> body starts since the call was last deferred (history)
          used,     \* how many calls the model has made
          leases    \* how many leases were claimed

vars == <<log, worker, task, zombies, runs, used, leases>>

NoWorker == [pc |-> "none", op |-> "none", turn |-> 0, step |-> 0, batch |-> {}, todo |-> {},
             requests |-> {}, cont |-> "continue", materialized |-> FALSE, cancelled |-> FALSE]
NoTasks == [c \in Calls |-> "none"]

Outcome == {"ok", "conclude", "error", "aborted", "denied", "deferred"}
Undispatched == {"queued", "asking", "cleared"}

\* A durable event.  "info" is what later readers take from the payload: the
\* code of a result, whether a resume is materialized, an approval's answer.
Ev(type, turn, step, call, info) ==
    [type |-> type, turn |-> turn, step |-> step, call |-> call, info |-> info]

Init ==
    /\ log = <<>>
    /\ worker = NoWorker
    /\ task = NoTasks
    /\ zombies = {}
    /\ runs = [c \in Calls |-> 0]
    /\ used = 0
    /\ leases = 0

-----------------------------------------------------------------------------
(* What the readers of the log look for. *)

Positions(types, c) == {i \in DOMAIN log : log[i].type \in types /\ log[i].call = c}
Has(type, c) == Positions({type}, c) # {}
HasInfo(type, c, info) == \E i \in Positions({type}, c) : log[i].info = info

\* The last event of c among types; an event of type "none" when there is none.
LastOf(types, c) ==
    IF Positions(types, c) = {} THEN Ev("none", 0, 0, c, "")
    ELSE log[Max(Positions(types, c))]

StepsOf(type) == {<<log[i].turn, log[i].step>> : i \in {j \in DOMAIN log : log[j].type = type}}
TurnEnded(t) == \E i \in DOMAIN log : log[i].type = "turn_end" /\ log[i].turn = t
Turns == Cardinality({i \in DOMAIN log : log[i].type = "turn_start"})

\* The step a call belongs to.
StepOf(c) == LET e == log[Max(Positions({"tool_call"}, c))] IN <<e.turn, e.step>>

\* c comes first, in model order, among the calls of S.
IsFirst(c, S) == c \in S /\ \A d \in S : c <= d

Decided(c) == Has("approval_resolved", c)
Approved(c) == HasInfo("approval_resolved", c, "yes")

-----------------------------------------------------------------------------
(* Recovery. *)

\* Mutant: a stored result does not settle the call.
Dangling_IgnoresResult ==
    {c \in Calls :
        LET e == LastOf({"dispatched", "deferred", "resume_started", "approval_requested"}, c)
        IN  e.type = "dispatched" \/ (e.type = "resume_started" /\ e.info = "executed")}

\* danglingCallIDs: the side-effect barrier is the last thing known of the call.
Dangling ==
    {c \in Calls :
        LET e == LastOf({"dispatched", "deferred", "resume_started", "result",
                         "approval_requested"}, c)
        IN  e.type = "dispatched" \/ (e.type = "resume_started" /\ e.info = "executed")}

\* Mutant: tool/resume_started is not taken for a dispatch.
DispatchedCalls_NoResume == {c \in Calls : Has("dispatched", c)}

\* dispatchedCallIDs.
DispatchedCalls == {c \in Calls : Has("dispatched", c) \/ Has("resume_started", c)}

\* The code of the result Recover makes up for a dangling call.
RecoveredCode(c) == IF c \in DispatchedCalls THEN "unknown" ELSE "aborted"

\* pendingDeferredScopes: the call waits for its resume, or its result is
\* stored and its step is still open.
Pending(c) ==
    LET e == LastOf({"deferred", "resume_started", "result"}, c)
    IN  \/ e.type = "deferred"
        \/ e.type = "resume_started" /\ e.info = "materialized"
        \/ Has("result", c) /\ Has("deferred", c) /\ StepOf(c) \notin StepsOf("step_end")

DeferredSteps == {StepOf(c) : c \in {d \in Calls : Pending(d)}}

\* InterruptedDraftEvents, InterruptedStepEndEvents: positions of the first
\* chunk or the start of the steps they repair.
InterruptedDrafts ==
    {i \in DOMAIN log :
        log[i].type = "chunk" /\ <<log[i].turn, log[i].step>> \notin StepsOf("assistant")}

\* Mutant: a step that waits for a deferred call is closed with the others.
InterruptedSteps_WithDeferred ==
    {i \in DOMAIN log :
        log[i].type = "step_start" /\ <<log[i].turn, log[i].step>> \notin StepsOf("step_end")}

\* A deferred call is an intentional wait, its step stays open.
InterruptedSteps ==
    {i \in DOMAIN log :
        /\ log[i].type = "step_start"
        /\ <<log[i].turn, log[i].step>> \notin StepsOf("step_end") \cup DeferredSteps}

\* The open turn is guessed from a count and the last turn/start.
OpenTurn ==
    LET starts == {i \in DOMAIN log : log[i].type = "turn_start"}
        ends == {i \in DOMAIN log : log[i].type = "turn_end"}
    IN  IF Cardinality(starts) > Cardinality(ends) THEN {log[Max(starts)].turn} ELSE {}

\* One event per member of S, in log order; those already stored under their
\* deterministic ID are not stored again.
InOrder(S, event(_)) ==
    LET fresh == {x \in S : \A j \in DOMAIN log : log[j] # event(x)}
    IN  [i \in 1..Cardinality(fresh) |-> event(Sorted(fresh)[i])]

\* Mutant: calls past their barrier are left as they are.
RecoveryEvents_ForgetDangling ==
    InOrder(InterruptedDrafts, LAMBDA i : Ev("assistant", log[i].turn, log[i].step, 0, "draft"))
    \o InOrder(InterruptedSteps, LAMBDA i : Ev("step_end", log[i].turn, log[i].step, 0, "interrupted"))
    \o InOrder({t \in OpenTurn : \A s \in DeferredSteps : s[1] # t},
               LAMBDA t : Ev("turn_end", t, 0, 0, "interrupted"))

\* Drafts, then outcomes, then steps, then the turn.
RecoveryEvents ==
    InOrder(InterruptedDrafts, LAMBDA i : Ev("assistant", log[i].turn, log[i].step, 0, "draft"))
    \o InOrder(Dangling, LAMBDA c : Ev("result", StepOf(c)[1], StepOf(c)[2], c, RecoveredCode(c)))
    \o InOrder(InterruptedSteps, LAMBDA i : Ev("step_end", log[i].turn, log[i].step, 0, "interrupted"))
    \o InOrder({t \in OpenTurn : \A s \in DeferredSteps : s[1] # t},
               LAMBDA t : Ev("turn_end", t, 0, 0, "interrupted"))

-----------------------------------------------------------------------------
(* The worker: claiming, recovering, releasing. *)

\* l.append: one fenced append of the lease holder.
Commit(events) == Len(log) + Len(events) <= MaxLog /\ log' = log \o events
Emit(type, call, info) == Commit(<<Ev(type, worker.turn, worker.step, call, info)>>)

Goto(pc) == worker' = [worker EXCEPT !.pc = pc]
Release == worker' = NoWorker /\ task' = NoTasks

\* RunInputWithID and the deferred resumes recover first; ResumeApprovedTool
\* does not.
Claim(op) ==
    /\ worker = NoWorker
    /\ leases < MaxLeases
    /\ op = "approval" => \E c \in Calls : Decided(c)
    /\ leases' = leases + 1
    /\ worker' = [NoWorker EXCEPT !.op = op, !.pc = IF op = "approval" THEN "approve" ELSE "recover"]
    /\ UNCHANGED <<log, task, zombies, runs, used>>

\* recoverSession and refresh.
Recover ==
    /\ worker.pc = "recover"
    /\ Commit(RecoveryEvents)
    /\ Goto(IF worker.op = "run" THEN "begin" ELSE "resume")
    /\ UNCHANGED <<task, zombies, runs, used, leases>>

BeginTurn ==
    /\ worker.pc = "begin"
    /\ Turns < MaxTurns
    /\ Commit(<<Ev("turn_start", Turns + 1, 0, 0, "")>>)
    /\ worker' = [worker EXCEPT !.pc = "steps", !.turn = Turns + 1]
    /\ UNCHANGED <<task, zombies, runs, used, leases>>

\* Cancel, Dispose, the wall-time limit or a failed heartbeat.
Cancel ==
    /\ worker # NoWorker
    /\ ~worker.cancelled
    /\ worker' = [worker EXCEPT !.cancelled = TRUE]
    /\ UNCHANGED <<log, task, zombies, runs, used, leases>>

\* The process dies: whatever is volatile is gone.
Crash ==
    /\ worker # NoWorker
    /\ Release
    /\ UNCHANGED <<log, zombies, runs, used, leases>>

\* The lease expires under a live worker.  Every later append of it fails; a
\* body past its dispatch append may still start, and in a deferred resume,
\* where OnDispatch appends nothing, so may one that only needs an answer
\* already given.
LoseLease ==
    /\ worker # NoWorker
    /\ zombies' = zombies \cup
         {c \in Calls :
            \/ task[c] = "armed"
            \/ /\ worker.op = "batch" /\ task[c] \in Undispatched
               /\ c \in Asks => Approved(c)}
    /\ Release
    /\ UNCHANGED <<log, runs, used, leases>>

ZombieStart(c) ==
    /\ c \in zombies
    /\ zombies' = zombies \ {c}
    /\ runs' = [runs EXCEPT ![c] = @ + 1]
    /\ UNCHANGED <<log, worker, task, used, leases>>

-----------------------------------------------------------------------------
(* Model steps. *)

StartStep ==
    /\ worker.pc = "steps"
    /\ ~worker.cancelled
    /\ worker.step < MaxSteps
    /\ Commit(<<Ev("step_start", worker.turn, worker.step + 1, 0, "")>>)
    /\ worker' = [worker EXCEPT !.pc = "model", !.step = @ + 1, !.cont = "continue"]
    /\ UNCHANGED <<task, zombies, runs, used, leases>>

\* appendTurnEnd, then the lease is released: the turn is done, cancelled, at
\* its step limit or stopped by the run policy.
EndTurn ==
    /\ worker.pc \in {"steps", "endTurn"}
    /\ Commit(<<Ev("turn_end", worker.turn, 0, 0, "")>>)
    /\ Release
    /\ UNCHANGED <<zombies, runs, used, leases>>

\* StepWait returns with the turn open.
PolicyWait ==
    /\ worker.pc = "steps"
    /\ ~worker.cancelled
    /\ Release
    /\ UNCHANGED <<log, zombies, runs, used, leases>>

\* streamCallback; one chunk stands for the stream.
Chunk ==
    /\ worker.pc = "model"
    /\ <<worker.turn, worker.step>> \notin StepsOf("chunk")
    /\ Emit("chunk", 0, "")
    /\ UNCHANGED <<worker, task, zombies, runs, used, leases>>

\* A provider error stores what was streamed as a draft; an error after the
\* stream (a limit) does not.
ModelFails(draft) ==
    /\ worker.pc = "model"
    /\ draft => <<worker.turn, worker.step>> \in StepsOf("chunk")
    /\ IF draft THEN Emit("assistant", 0, "draft") ELSE UNCHANGED log
    /\ Goto("failStep")
    /\ UNCHANGED <<task, zombies, runs, used, leases>>

\* The deferred step/end of a failed step, then turn/end or an overflow retry.
FailStep(retry) ==
    /\ worker.pc = "failStep"
    /\ Emit("step_end", 0, "")
    /\ Goto(IF retry THEN "steps" ELSE "endTurn")
    /\ UNCHANGED <<task, zombies, runs, used, leases>>

\* A final reply: message and step/end in one batch.
ModelReplies ==
    /\ worker.pc = "model"
    /\ Commit(<<Ev("assistant", worker.turn, worker.step, 0, "final"),
                Ev("step_end", worker.turn, worker.step, 0, "")>>)
    /\ Goto("endTurn")
    /\ UNCHANGED <<task, zombies, runs, used, leases>>

ModelCalls(n) ==
    /\ worker.pc = "model"
    /\ used + n <= NumCalls
    /\ Emit("assistant", 0, "calls")
    /\ worker' = [worker EXCEPT !.pc = "admit", !.batch = (used + 1)..(used + n)]
    /\ used' = used + n
    /\ UNCHANGED <<task, zombies, runs, leases>>

\* tool/call and tool/admitted of the next call of the batch.
Admit(c) ==
    /\ worker.pc = "admit"
    /\ IsFirst(c, {d \in worker.batch : ~Has("tool_call", d)})
    /\ Emit("tool_call", c, "")
    /\ UNCHANGED <<worker, task, zombies, runs, used, leases>>

\* Every call of the batch has its tool/call; a run cancelled by now settles
\* them all as aborted.
StartBatch ==
    /\ worker.pc = "admit"
    /\ \A c \in worker.batch : Has("tool_call", c)
    /\ task' = [c \in Calls |->
         IF c \notin worker.batch THEN "none" ELSE IF worker.cancelled THEN "aborted" ELSE "queued"]
    /\ Goto("tools")
    /\ UNCHANGED <<log, zombies, runs, used, leases>>

-----------------------------------------------------------------------------
(* Registry.run, one call of a batch. *)

Become(c, s) == task' = [task EXCEPT ![c] = s]

\* Policies and guards let the call through.
Admitted(c) == task[c] = "cleared" \/ (task[c] = "queued" /\ c \notin Asks)

\* Errors, denials, cancellation, an earlier call that concluded or deferred.
Refuse(c, outcome) ==
    /\ task[c] \in Undispatched
    /\ Become(c, outcome)
    /\ UNCHANGED <<log, worker, zombies, runs, used, leases>>

\* approvalBroker.Approve: a known decision is used, a request is stored once.
Ask(c) ==
    /\ \/ task[c] = "queued" /\ c \in Asks /\ Become(c, "asking")
       \/ task[c] = "running" /\ c \in PostAsks /\ Become(c, "postAsking")
    /\ IF Has("approval_requested", c) \/ Decided(c)
         THEN UNCHANGED log
         ELSE Commit(<<Ev("approval_requested", worker.turn, worker.step, c, "")>>)
    /\ UNCHANGED <<worker, zombies, runs, used, leases>>

\* Mutant: an approval that is not answered counts as given.
Answer_Unasked(c) ==
    /\ task[c] \in {"asking", "postAsking"}
    /\ Become(c, IF Decided(c) /\ ~Approved(c) THEN "denied"
                 ELSE IF task[c] = "asking" THEN "cleared" ELSE "ok")
    /\ UNCHANGED <<log, worker, zombies, runs, used, leases>>

Answer(c) ==
    /\ task[c] \in {"asking", "postAsking"}
    /\ Decided(c)
    /\ Become(c, IF ~Approved(c) THEN "denied"
                 ELSE IF task[c] = "asking" THEN "cleared" ELSE "ok")
    /\ UNCHANGED <<log, worker, zombies, runs, used, leases>>

\* A before-execute hook answers with a deferred result.
ShortCircuit(c) ==
    /\ Admitted(c)
    /\ c \in Defers
    /\ Become(c, "deferred")
    /\ UNCHANGED <<log, worker, zombies, runs, used, leases>>

\* Mutant: the body is let go without the dispatch append.
Dispatch_NoBarrier(c) ==
    /\ Admitted(c)
    /\ Become(c, "armed")
    /\ UNCHANGED <<log, worker, zombies, runs, used, leases>>

\* OnDispatch: tool/dispatched and tool/running; nothing in a deferred resume,
\* whose barrier is tool/resume_started.
Dispatch(c) ==
    /\ Admitted(c)
    /\ Become(c, "armed")
    /\ IF worker.op = "batch" THEN UNCHANGED log ELSE Emit("dispatched", c, "")
    /\ UNCHANGED <<worker, zombies, runs, used, leases>>

StartBody(c) ==
    /\ task[c] = "armed"
    /\ Become(c, "running")
    /\ runs' = [runs EXCEPT ![c] = @ + 1]
    /\ UNCHANGED <<log, worker, zombies, used, leases>>

\* A body's error, or the cancellation of its post-policy approval, is an
\* error outcome.  A post-approved body neither concludes nor defers here.
BodyReturns(c, outcome) ==
    /\ task[c] = "running" \/ (task[c] = "postAsking" /\ outcome = "error")
    /\ outcome = "deferred" => c \in Defers
    /\ outcome # "error" => c \notin PostAsks
    /\ Become(c, outcome)
    /\ UNCHANGED <<log, worker, zombies, runs, used, leases>>

\* The client answers an approval, also while no worker is there.
Decide(c, answer) ==
    /\ Has("approval_requested", c)
    /\ ~Decided(c)
    /\ Commit(<<Ev("approval_resolved", 0, 0, c, answer)>>)
    /\ UNCHANGED <<worker, task, zombies, runs, used, leases>>

-----------------------------------------------------------------------------
(* Outcomes. *)

\* appendToolOutcome, in model order, once every call of the batch has returned.
\* Outcomes carry their call's identity and deferrals a resume key: what
\* appendToolOutcome does with others is left out.
Settle(c) ==
    /\ worker.pc = "tools"
    /\ \A d \in worker.batch : task[d] \in Outcome \cup {"settled"}
    /\ IsFirst(c, {d \in worker.batch : task[d] # "settled"})
    /\ IF task[c] = "deferred"
         THEN Emit("deferred", c, "") /\ runs' = [runs EXCEPT ![c] = 0]
         ELSE Emit("result", c, task[c]) /\ UNCHANGED runs
    /\ worker' = [worker EXCEPT !.cont =
         IF task[c] = "deferred" THEN "deferred"
         ELSE IF task[c] = "conclude" /\ @ = "continue" THEN "conclude" ELSE @]
    /\ Become(c, "settled")
    /\ UNCHANGED <<zombies, used, leases>>

\* ErrToolDeferred leaves the step and the turn open.
FinishBatch ==
    /\ worker.pc = "tools"
    /\ \A c \in worker.batch : task[c] = "settled"
    /\ IF worker.op = "run" /\ worker.cont = "deferred" THEN Release
       ELSE Goto(IF worker.op \in {"batch", "single"} THEN "resuming" ELSE "closeStep") /\ UNCHANGED task
    /\ UNCHANGED <<log, zombies, runs, used, leases>>

\* step/end; the single resume of a call that had no result appends it
\* without looking for an earlier one.
CloseStep ==
    /\ worker.pc = "closeStep"
    /\ IF /\ <<worker.turn, worker.step>> \in StepsOf("step_end")
          /\ ~(worker.op = "single" /\ worker.batch # {})
         THEN UNCHANGED log
         ELSE Emit("step_end", 0, "")
    /\ IF worker.cont = "deferred"
         THEN Release
         ELSE /\ worker' = [worker EXCEPT
                   !.op = "run", !.batch = {}, !.requests = {},
                   !.pc = IF worker.cont = "conclude" \/ (worker.op = "run" /\ worker.cancelled)
                            THEN "endTurn" ELSE "steps"]
              /\ task' = NoTasks
    /\ UNCHANGED <<zombies, runs, used, leases>>

-----------------------------------------------------------------------------
(* Taking up deferred and approved calls. *)

\* deferredToolRecord forgets the resume of an earlier deferral, resumeTool's
\* own scan does not.
ResumeStarted(c) ==
    IF worker.op = "single" THEN Has("resume_started", c)
    ELSE LastOf({"deferred", "resume_started"}, c).type = "resume_started"
ResumeMaterialized(c) == LastOf({"resume_started"}, c).info = "materialized"

\* ErrDeferredExecutionStarted otherwise.
Resumable(c, materialized) ==
    Has("result", c) \/ ~ResumeStarted(c) \/ (materialized /\ ResumeMaterialized(c))

\* The calls of one step are requested together, materialized or not.
PickRequests(S, materialized) ==
    /\ worker.pc = "resume"
    /\ S # {}
    /\ \A c \in S : Has("deferred", c)
    /\ \A c, d \in S : StepOf(c) = StepOf(d)
    /\ worker.op = "single" => Cardinality(S) = 1
    /\ \A c \in S : Resumable(c, materialized)
    /\ LET step == StepOf(Min(S)) IN
       worker' = [worker EXCEPT !.pc = "resuming", !.turn = step[1], !.step = step[2],
                                !.todo = S, !.requests = S, !.materialized = materialized]
    /\ UNCHANGED <<log, task, zombies, runs, used, leases>>

\* Nothing to resume, or every request is refused.
ResumeNothing ==
    /\ worker.pc = "resume"
    /\ Release
    /\ UNCHANGED <<log, zombies, runs, used, leases>>

\* Mutant: a call that already has its result is run again.
ResumeNext_IgnoresResult(c, hostResult) ==
    /\ worker.pc = "resuming"
    /\ IsFirst(c, worker.todo)
    /\ IF ResumeStarted(c) THEN UNCHANGED log
       ELSE Emit("resume_started", c, IF worker.materialized THEN "materialized" ELSE "executed")
    /\ worker' = [worker EXCEPT !.pc = "tools", !.todo = @ \ {c}, !.batch = {c}]
    /\ task' = [NoTasks EXCEPT ![c] =
         IF worker.op = "batch" /\ ~worker.materialized THEN "queued" ELSE hostResult]
    /\ UNCHANGED <<zombies, runs, used, leases>>

\* tool/resume_started, then the body (batch) or the host's result.
ResumeNext(c, hostResult) ==
    /\ worker.pc = "resuming"
    /\ IsFirst(c, worker.todo)
    /\ IF Has("result", c)
         THEN /\ worker' = [worker EXCEPT !.todo = @ \ {c}]
              /\ UNCHANGED <<log, task>>
         ELSE /\ IF ResumeStarted(c) THEN UNCHANGED log
                 ELSE Emit("resume_started", c,
                           IF worker.materialized THEN "materialized" ELSE "executed")
              /\ worker' = [worker EXCEPT !.pc = "tools", !.todo = @ \ {c}, !.batch = {c}]
              /\ task' = [NoTasks EXCEPT ![c] =
                   IF worker.op = "batch" /\ ~worker.materialized THEN "queued" ELSE hostResult]
    /\ UNCHANGED <<zombies, runs, used, leases>>

\* hasUnresolvedDeferredToolInStep.
Unresolved ==
    \E c \in Calls : Has("deferred", c) /\ StepOf(c) = <<worker.turn, worker.step>> /\ ~Has("result", c)

FinishResume ==
    /\ worker.pc = "resuming"
    /\ worker.todo = {}
    /\ IF \/ Unresolved
          \/ TurnEnded(worker.turn) /\ ~(worker.op = "single" /\ worker.batch # {})
         THEN Release
         ELSE /\ worker' = [worker EXCEPT !.pc = "closeStep", !.cont =
                   IF \E c \in worker.requests : HasInfo("result", c, "conclude")
                     THEN "conclude" ELSE "continue"]
              /\ UNCHANGED task
    /\ UNCHANGED <<log, zombies, runs, used, leases>>

\* A decided approval whose turn is open: refused once the call was dispatched,
\* denied without running, or run through the registry.
ResumeApprovedTool(c) ==
    /\ worker.pc = "approve"
    /\ Decided(c)
    /\ IF Has("dispatched", c) \/ TurnEnded(StepOf(c)[1])
         THEN Release
         ELSE /\ worker' = [worker EXCEPT !.pc = IF Has("result", c) THEN "closeStep" ELSE "tools",
                              !.turn = StepOf(c)[1], !.step = StepOf(c)[2], !.batch = {c}]
              /\ task' = [NoTasks EXCEPT ![c] = IF Has("result", c) THEN "none"
                                                ELSE IF Approved(c) THEN "queued" ELSE "denied"]
    /\ UNCHANGED <<log, zombies, runs, used, leases>>

-----------------------------------------------------------------------------
Next ==
    \/ \E op \in {"run", "batch", "single", "approval"} : Claim(op)
    \/ Recover \/ BeginTurn \/ Cancel \/ Crash \/ LoseLease
    \/ StartStep \/ EndTurn \/ PolicyWait
    \/ Chunk \/ ModelReplies \/ StartBatch
    \/ \E b \in BOOLEAN : ModelFails(b) \/ FailStep(b)
    \/ \E n \in 1..MaxBatch : ModelCalls(n)
    \/ \E c \in Calls :
        \/ Admit(c) \/ Ask(c) \/ Answer(c) \/ ShortCircuit(c) \/ Dispatch(c)
        \/ StartBody(c) \/ ZombieStart(c) \/ Settle(c) \/ ResumeApprovedTool(c)
        \/ \E outcome \in {"error", "aborted"} : Refuse(c, outcome)
        \/ \E outcome \in {"ok", "conclude", "error", "deferred"} :
             BodyReturns(c, outcome) \/ ResumeNext(c, outcome)
        \/ \E answer \in {"yes", "no"} : Decide(c, answer)
    \/ FinishBatch \/ CloseStep
    \/ \E S \in SUBSET Calls, m \in BOOLEAN : PickRequests(S, m)
    \/ ResumeNothing \/ FinishResume

Spec == Init /\ [][Next]_vars

-----------------------------------------------------------------------------
(* Properties. *)

EventTypes == {"turn_start", "turn_end", "step_start", "step_end", "chunk", "assistant",
               "tool_call", "dispatched", "deferred", "resume_started", "result",
               "approval_requested", "approval_resolved"}

Infos == Outcome \cup {"", "draft", "final", "calls", "executed", "materialized", "unknown",
                       "interrupted", "yes", "no"}
Events == [type : EventTypes, turn : 0..MaxTurns, step : 0..MaxSteps, call : 0..NumCalls, info : Infos]
Pcs == {"none", "recover", "approve", "begin", "steps", "model", "failStep", "admit", "tools",
        "closeStep", "endTurn", "resume", "resuming"}
Workers == [pc : Pcs, op : {"none", "run", "batch", "single", "approval"},
            turn : 0..MaxTurns, step : 0..MaxSteps,
            batch : SUBSET Calls, todo : SUBSET Calls, requests : SUBSET Calls,
            cont : {"continue", "conclude", "deferred"}, materialized : BOOLEAN, cancelled : BOOLEAN]
Tasks == Outcome \cup Undispatched \cup {"none", "armed", "running", "postAsking", "settled"}

TypeOK ==
    /\ log \in Seq(Events)
    /\ worker \in Workers
    /\ task \in [Calls -> Tasks]
    /\ zombies \in SUBSET Calls
    /\ runs \in [Calls -> Nat]
    /\ used \in 0..NumCalls /\ leases \in 0..MaxLeases

\* A body never starts a second time unless the call was deferred in between,
\* whatever crashed or was replaced ("never blind retry of side-effecting
\* work", fenced.go:46-47).
NeverReexecuted == \A c \in Calls : runs[c] <= 1

\* A call that needs an approval runs only with a durable "yes".
ApprovedBeforeBody == \A c \in Asks : runs[c] > 0 => Approved(c)

\* A result that says the call was aborted before dispatch, or denied, is
\* never contradicted by a body, not even by a late one.
AbortedNeverRan ==
    \A c \in Calls :
        HasInfo("result", c, "aborted") \/ (HasInfo("result", c, "denied") /\ c \notin PostAsks)
            => runs[c] = 0

\* A result is the last word on a call: no second result, dispatch, resume
\* or deferral follows it.
ResultIsFinal ==
    \A c \in Calls : \A i \in Positions({"result"}, c) :
        \A j \in Positions({"result", "dispatched", "resume_started", "deferred"}, c) : j <= i

\* The loop implements the call lifecycle: the phase of a call is what the log
\* says of it.
Phase(c) ==
    LET e == LastOf({"dispatched", "deferred", "resume_started"}, c)
    IN  IF Has("result", c) THEN IF HasInfo("result", c, "unknown") THEN "unknown" ELSE "settled"
        ELSE IF e.type = "none" THEN "open"
        ELSE IF e.type = "deferred" \/ e.info = "materialized" THEN "deferred"
        ELSE "inflight"
Lifecycle == INSTANCE CallLifecycle WITH phase <- [c \in Calls |-> Phase(c)], started <- runs
ImplementsCallLifecycle == Lifecycle!LifecycleSpec

\* When a turn starts, every call behind its barrier has its outcome: recovery
\* ran "BEFORE any new work" (loop.go:1079).
SettledBeforeNextTurn ==
    \A i, k \in DOMAIN log :
        /\ log[k].type = "turn_start" /\ i < k
        /\ log[i].type = "dispatched" \/ (log[i].type = "resume_started" /\ log[i].info = "executed")
        => \E j \in (i + 1)..(k - 1) :
              log[j].call = log[i].call /\ log[j].type \in {"result", "deferred"}

\* Steps whose number was used twice: resuming a call that has its result goes
\* on behind its step, also when the step there waits for a call of its own.
Reentered ==
    {<<log[i].turn, log[i].step>> : i \in {j \in DOMAIN log :
        /\ log[j].type = "step_start"
        /\ \E k \in 1..(j - 1) : /\ log[k].type = "step_start"
                                 /\ <<log[k].turn, log[k].step>> = <<log[j].turn, log[j].step>>}}

\* "Keep terminal events ordered: tool outcomes settle dispatch first, then the
\* step" (fenced.go:324): nothing of a call follows the end of its step, unless
\* the step was entered twice or had a call that asked for an approval, around
\* whose siblings ResumeApprovedTool closes it.
OutcomesBeforeStepEnd ==
    \A i, j \in DOMAIN log :
        /\ log[i].type = "step_end" /\ i < j
        /\ log[j].type \in {"tool_call", "dispatched", "deferred", "resume_started", "result"}
        /\ <<log[i].turn, log[i].step>> = <<log[j].turn, log[j].step>>
        => <<log[i].turn, log[i].step>> \in Reentered \cup StepsOf("approval_requested")

=============================================================================

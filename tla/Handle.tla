------------------------------- MODULE Handle -------------------------------
(***************************************************************************)
(* agent.Handle: the inbox of one agent, its worker goroutine, the host's  *)
(* own runs (Submit, the resumes, Run), Cancel, WhenIdle and Dispose, with *)
(* crashes of the process and the restoration of the inbox from the log.   *)
(*                                                                         *)
(* Everything between a Lock and an Unlock of h.mu is one step.  A turn of *)
(* the loop appears by what the handle and restoreInbox can see of it: it  *)
(* closes orphaned turns, writes its input event (once per item: the event *)
(* ID is the item's), takes the step inputs, and ends with a reason.       *)
(*                                                                         *)
(* The log is kept as what restoreInbox folds it to: the last inbox event  *)
(* of every item, the order of the last queued or requeued events, and how *)
(* the turn ended whose run the item's input event names.  inbox/claimed   *)
(* is not read by anyone; only the failure of its append matters.          *)
(***************************************************************************)
EXTENDS Integers, Sequences, FiniteSets, SequencesExt, Ordered

CONSTANTS NumFollowUps,  \* bound: FollowUp items, numbered in the order they are sent
          NumSteers,     \* bound: Steer and Inject items, numbered behind them
          Ops,           \* the host's own runs: "submit" (and the resumes of
                         \* deferred calls), "approved", "run"
          Failures,      \* how a turn may fail: "error", "policy", "deferred"
          MaxHostRuns,   \* bound: runs the host starts itself
          MaxFaults      \* bound: process crashes and failed appends together

FollowUps == 1..NumFollowUps
Steers == (NumFollowUps + 1)..(NumFollowUps + NumSteers)
Items == FollowUps \cup Steers

ASSUME HandleAssumption ==
    /\ {NumFollowUps, NumSteers, MaxHostRuns, MaxFaults} \subseteq Nat
    /\ Ops \subseteq {"submit", "approved", "run"}
    /\ Failures \subseteq {"error", "policy", "deferred"}

VARIABLES ledger,   \* durable: item -> its last inbox event, the fate of its input's turn
          order,    \* durable: items in the order of their last (re)queued event
          h,        \* the Handle's fields; up: it exists; stop: the channel is closed;
                    \* stuck: a goroutine that holds h.mu waits for h.mu;
                    \* cancelled: the context of the current run is
          worker,   \* the worker: [pc, item]; pc "exited" closes Handle.done
          host,     \* the host's own run: "none" or one of Ops
          turn,     \* runner -> phase of its turn; first: it wrote the input event
          taken,    \* step inputs a turn has claimed and not yet appended
          discards, \* items taken out by Cancel or Dispose, not yet recorded
          refused,  \* items whose discard could not be recorded
          waiter,   \* a caller of WhenIdle waits
          bounds,   \* counters of faults and host runs
          hist      \* history: items whose turn succeeded; those consumed by the turn
                    \* that wrote their input and not put back by the worker since;
                    \* those of them run again; and whether the worker parked on
                    \* waiting follow-ups

vars == <<ledger, order, h, worker, host, turn, taken, discards, refused, waiter, bounds, hist>>

Runners == {"worker", "host"}
NoTurn == [phase |-> "none", first |-> FALSE]
NoHandle == [up |-> FALSE, status |-> "idle", inbox |-> <<>>, wake |-> FALSE, changed |-> FALSE,
             stop |-> FALSE, stuck |-> FALSE, cancelled |-> FALSE]

-----------------------------------------------------------------------------
(* restoreInbox. *)

Queued(i) == ledger[i].queue # "none"
Terminal(i) == ledger[i].queue \in {"completed", "discarded"}
Requeued(i) == ledger[i].queue = "requeued"

\* Mutant: an input event is enough, whatever became of its turn.
Sealed_NoTurnEnd(i) == ledger[i].input # "none" /\ ~Requeued(i)

\* Mutant: the test for the failed reasons is the wrong way round.
Sealed_OnlyFailed(i) == ledger[i].input \in {"failed", "interrupted"} /\ ~Requeued(i)

\* A completed turn already consumed the input: it ended, and not with one of
\* the reasons error, cancelled or context_overflow.
Sealed(i) == ledger[i].input \in {"ended", "interrupted"} /\ ~Requeued(i)

Pending == {i \in Items : Queued(i) /\ ~Terminal(i)}
Restored == Keep(order, {i \in Pending : ~Sealed(i)})

\* Inbox events of items.
Record(items, type) == [i \in Items |-> IF i \in items THEN [ledger[i] EXCEPT !.queue = type] ELSE ledger[i]]
Requeue(i) == Append(Keep(order, Items \ {i}), i)

-----------------------------------------------------------------------------
Wakeable(box) == \E n \in DOMAIN box : box[n] \in FollowUps
Fails == bounds.faults < MaxFaults
Failed == bounds' = [bounds EXCEPT !.faults = @ + 1]

\* Every locked method starts here: the handle exists and h.mu can be taken.
Lock == h.up /\ ~h.stuck

\* runCancel is set.
Running == host # "none" \/ worker.pc \in {"claim", "run"}

Init ==
    /\ ledger = [i \in Items |-> [queue |-> "none", input |-> "none"]]
    /\ order = <<>> /\ h = NoHandle
    /\ worker = [pc |-> "select", item |-> 0] /\ host = "none"
    /\ turn = [r \in Runners |-> NoTurn] /\ taken = <<>>
    /\ discards = <<>> /\ refused = {} /\ waiter = FALSE
    /\ bounds = [faults |-> 0, hostRuns |-> 0]
    /\ hist = [succeeded |-> {}, consumed |-> {}, replayed |-> {}, parked |-> FALSE]

\* The process dies: only the log and what the model counts stay.
Crash ==
    /\ h.up /\ Fails /\ Failed
    /\ h' = NoHandle
    /\ worker' = [pc |-> "select", item |-> 0] /\ host' = "none"
    /\ turn' = [r \in Runners |-> NoTurn] /\ taken' = <<>>
    /\ discards' = <<>> /\ refused' = {} /\ waiter' = FALSE
    /\ hist' = [hist EXCEPT !.parked = FALSE]
    /\ UNCHANGED <<ledger, order>>

\* NewAgent: restore the inbox, start the worker, wake it for a follow-up.
NewAgent ==
    /\ ~h.up
    /\ ledger' = Record({i \in Pending : Sealed(i)}, "completed")
    /\ h' = [NoHandle EXCEPT !.up = TRUE, !.inbox = Restored, !.wake = Wakeable(Restored)]
    /\ UNCHANGED <<order, worker, host, turn, taken, discards, refused, waiter, bounds, hist>>

\* restoreInbox or the broker's restore fails after some of the seals: no handle.
NewAgentFails ==
    /\ ~h.up /\ Fails /\ Failed
    /\ \E S \in SUBSET {i \in Pending : Sealed(i)} : ledger' = Record(S, "completed")
    /\ UNCHANGED <<order, h, worker, host, turn, taken, discards, refused, waiter, hist>>

-----------------------------------------------------------------------------
(* Commands. *)

\* Items are sent in the order of their numbers, follow-ups and steers apart.
Sendable(i) ==
    /\ ~Queued(i)
    /\ \A j \in Items : j < i /\ (j \in FollowUps <=> i \in FollowUps) => Queued(j)

\* FollowUp, Steer, Inject: the durable record first, then memory; only a
\* follow-up wakes the worker.  A failed append leaves nothing behind.
Enqueue(i) ==
    /\ Lock /\ h.status # "disposed" /\ Sendable(i)
    /\ ledger' = Record({i}, "queued") /\ order' = Append(order, i)
    /\ h' = [h EXCEPT !.inbox = Append(@, i), !.changed = TRUE,
                       !.wake = @ \/ i \in FollowUps]
    /\ hist' = [hist EXCEPT !.parked = @ /\ ~h'.wake]
    /\ UNCHANGED <<worker, host, turn, taken, discards, refused, waiter, bounds>>

\* Cancel: the current run's context; the inbox too unless it is to be kept.
\* One sweep at a time (a bound).
Cancel(keepInbox) ==
    /\ Lock /\ h.status # "disposed" /\ discards = <<>>
    /\ h' = [h EXCEPT !.cancelled = @ \/ Running, !.changed = TRUE,
                       !.inbox = IF keepInbox THEN @ ELSE <<>>]
    /\ discards' = IF keepInbox THEN <<>> ELSE h.inbox
    /\ UNCHANGED <<ledger, order, worker, host, turn, taken, refused, waiter, bounds, hist>>

\* After the unlock the sweep of Cancel or Dispose records the items it took;
\* those that cannot be recorded are reported to the caller.
Discard ==
    /\ discards # <<>>
    /\ discards' = <<>>
    /\ \E lost \in SUBSET ToSet(discards) :
          /\ lost # {} => Fails
          /\ ledger' = Record(ToSet(discards) \ lost, "discarded")
          /\ refused' = refused \cup lost
          /\ bounds' = [bounds EXCEPT !.faults = @ + IF lost = {} THEN 0 ELSE 1]
    /\ UNCHANGED <<order, h, worker, host, turn, taken, waiter, hist>>

\* Mutant: the stop channel is closed by the worker's last run only.
Dispose_NoStop ==
    /\ Lock /\ ~h.stop /\ discards = <<>>
    /\ h' = [h EXCEPT !.status = "disposed", !.inbox = <<>>, !.stop = Running,
                       !.cancelled = @ \/ Running, !.changed = TRUE]
    /\ discards' = h.inbox
    /\ UNCHANGED <<ledger, order, worker, host, turn, taken, refused, waiter, bounds, hist>>

\* Dispose, under disposeOnce; its caller then waits for the worker to exit.
Dispose ==
    /\ Lock /\ ~h.stop /\ discards = <<>>
    /\ h' = [h EXCEPT !.status = "disposed", !.inbox = <<>>, !.stop = TRUE,
                       !.cancelled = @ \/ Running, !.changed = TRUE]
    /\ discards' = h.inbox
    /\ UNCHANGED <<ledger, order, worker, host, turn, taken, refused, waiter, bounds, hist>>

Quiet == h.up /\ h.status = "idle" /\ h.inbox = <<>>

\* WhenIdle of an agent that is not idle waits; of one that is, it returns.
WhenIdle ==
    /\ Lock /\ ~waiter /\ ~Quiet
    /\ waiter' = TRUE
    /\ UNCHANGED <<ledger, order, h, worker, host, turn, taken, discards, refused, bounds, hist>>

\* It wakes for one token of changed and looks again (a change between the two
\* leaves another token), or the worker has exited.
WhenIdleWakes ==
    /\ waiter
    /\ \/ Lock /\ h.changed /\ h' = [h EXCEPT !.changed = FALSE] /\ waiter' = ~Quiet
       \/ worker.pc = "exited" /\ waiter' = FALSE /\ UNCHANGED h
    /\ UNCHANGED <<ledger, order, worker, host, turn, taken, discards, refused, bounds, hist>>

-----------------------------------------------------------------------------
(* A turn of the loop, on behalf of the worker or of the host. *)

\* The turn ends: the input event that names its run shares its fate.
Fate(r, fate) == IF r = "worker" /\ turn[r].first THEN [ledger EXCEPT ![worker.item].input = fate]
                 ELSE ledger

\* inbox/claimed is recorded, or the host's run has its turn.
Starting(r) == IF r = "worker" THEN worker.pc = "claim" ELSE turn[r].phase = "start"

\* RunInputWithID refuses: the context is cancelled, or the lease is not to be had.
TurnRefused(r) ==
    /\ Starting(r)
    /\ \/ h.cancelled /\ UNCHANGED bounds
       \/ Fails /\ Failed
    /\ turn' = [turn EXCEPT ![r].phase = "failed"]
    /\ worker' = IF r = "worker" THEN [worker EXCEPT !.pc = "run"] ELSE worker
    /\ UNCHANGED <<ledger, order, h, host, taken, discards, refused, waiter, hist>>

\* Recovery closes the turns a crash left open (one that waits for a deferred
\* call stays open), the turn starts and writes its input event.  Its ID is the
\* item's: a retry finds it stored, under the run that wrote it.
TurnStart(r) ==
    /\ Starting(r)
    /\ worker' = IF r = "worker" THEN [worker EXCEPT !.pc = "run"] ELSE worker
    /\ LET i == worker.item
           first == r = "worker" /\ ledger[i].input = "none"
       IN  /\ ledger' = [j \in Items |->
                  IF first /\ j = i THEN [ledger[j] EXCEPT !.input = "open"]
                  ELSE IF ledger[j].input = "open" THEN [ledger[j] EXCEPT !.input = "interrupted"]
                  ELSE ledger[j]]
           /\ turn' = [turn EXCEPT ![r] = [phase |-> "body", first |-> first]]
           /\ hist' = IF r = "worker" /\ i \in hist.consumed /\ ~Requeued(i)
                      THEN [hist EXCEPT !.replayed = @ \cup {i}] ELSE hist
    /\ UNCHANGED <<order, h, host, taken, discards, refused, waiter, bounds>>

\* claimNextStepInputs: every steer and injection leaves the inbox.
ClaimNextStepInputs(r) ==
    /\ Lock /\ turn[r].phase = "body" /\ h.status # "disposed"
    /\ LET steers == Keep(h.inbox, Steers)
       IN  /\ steers # <<>>
           /\ taken' = steers
           /\ h' = [h EXCEPT !.inbox = Keep(@, FollowUps), !.changed = TRUE]
    /\ turn' = [turn EXCEPT ![r].phase = "claimed"]
    /\ UNCHANGED <<ledger, order, worker, host, discards, refused, waiter, bounds, hist>>

AppendStepInputs(r) ==
    /\ turn[r].phase = "claimed"
    /\ ledger' = Record(ToSet(taken), "completed")
    /\ taken' = <<>>
    /\ turn' = [turn EXCEPT ![r].phase = "body"]
    /\ UNCHANGED <<order, h, worker, host, discards, refused, waiter, bounds, hist>>

\* It fails in the middle: RequeueStep puts all of them back, the turn ends.
AppendStepInputsFails(r) ==
    /\ Lock /\ turn[r].phase = "claimed" /\ Fails /\ Failed
    /\ \E n \in 0..(Len(taken) - 1) :
          LET done == ToSet(SubSeq(taken, 1, n))
          IN  ledger' = [i \in Items |-> IF i \in done THEN Record(done, "completed")[i]
                                         ELSE Fate(r, "failed")[i]]
    /\ h' = IF h.status = "disposed" THEN h
            ELSE [h EXCEPT !.inbox = taken \o @, !.changed = TRUE]
    /\ taken' = <<>>
    /\ turn' = [turn EXCEPT ![r].phase = "failed"]
    /\ UNCHANGED <<order, worker, host, discards, refused, waiter, hist>>

\* The policy, or a failure before the step's inputs are appended, ends the
\* turn: what it had claimed is not put back.
StepFails(r) ==
    /\ turn[r].phase = "claimed"
    /\ ledger' = Fate(r, "failed")
    /\ taken' = <<>>
    /\ turn' = [turn EXCEPT ![r].phase = "failed"]
    /\ UNCHANGED <<order, h, worker, host, discards, refused, waiter, bounds, hist>>

TurnSucceeds(r) ==
    /\ turn[r].phase = "body"
    /\ ledger' = Fate(r, "ended")
    /\ turn' = [turn EXCEPT ![r].phase = "ok"]
    /\ hist' = IF r = "worker"
               THEN [hist EXCEPT !.succeeded = @ \cup {worker.item},
                                 !.consumed = IF turn[r].first THEN @ \cup {worker.item} ELSE @]
               ELSE hist
    /\ UNCHANGED <<order, h, worker, host, taken, discards, refused, waiter, bounds>>

\* An error, a cancellation, a policy's stop, or a deferred call, which leaves
\* the turn open.
TurnFails(r) ==
    /\ turn[r].phase = "body"
    /\ \/ ("error" \in Failures \/ h.cancelled) /\ ledger' = Fate(r, "failed")
       \/ "policy" \in Failures /\ ledger' = Fate(r, "ended")
       \/ "deferred" \in Failures /\ ledger' = Fate(r, "deferred")
    /\ turn' = [turn EXCEPT ![r].phase = "failed"]
    /\ UNCHANGED <<order, h, worker, host, taken, discards, refused, waiter, bounds, hist>>

-----------------------------------------------------------------------------
(* The worker. *)

WorkerWakes ==
    /\ h.up /\ worker.pc = "select" /\ h.wake
    /\ h' = [h EXCEPT !.wake = FALSE]
    /\ worker' = [worker EXCEPT !.pc = "scan"]
    /\ UNCHANGED <<ledger, order, host, turn, taken, discards, refused, waiter, bounds, hist>>

WorkerStops ==
    /\ worker.pc = "select" /\ h.stop
    /\ worker' = [worker EXCEPT !.pc = "exited"]
    /\ UNCHANGED <<ledger, order, h, host, turn, taken, discards, refused, waiter, bounds, hist>>

\* nextWakeableIndexLocked.
NextWakeable(box) == CHOOSE n \in DOMAIN box : box[n] \in FollowUps
                                   /\ \A k \in 1..(n - 1) : box[k] \notin FollowUps

\* Mutant: the worker does not look whether a host's run is under way.
WorkerTakes_NotIdle ==
    /\ Lock /\ worker.pc = "scan"
    /\ h.status # "disposed" /\ Wakeable(h.inbox)
    /\ LET n == NextWakeable(h.inbox)
       IN  /\ worker' = [pc |-> "claim", item |-> h.inbox[n]]
           /\ h' = [h EXCEPT !.inbox = RemoveAt(@, n), !.status = "running",
                             !.cancelled = FALSE, !.changed = TRUE]
    /\ UNCHANGED <<ledger, order, host, turn, taken, discards, refused, waiter, bounds, hist>>

\* The worker takes the first follow-up when the agent is idle.
WorkerTakes ==
    /\ Lock /\ worker.pc = "scan"
    /\ h.status = "idle" /\ Wakeable(h.inbox)
    /\ LET n == NextWakeable(h.inbox)
       IN  /\ worker' = [pc |-> "claim", item |-> h.inbox[n]]
           /\ h' = [h EXCEPT !.inbox = RemoveAt(@, n), !.status = "running",
                             !.cancelled = FALSE, !.changed = TRUE]
    /\ UNCHANGED <<ledger, order, host, turn, taken, discards, refused, waiter, bounds, hist>>

\* Nothing to take, or not idle.  The history notes a host's run that will not
\* wake the worker when it ends.
WorkerParks ==
    /\ Lock /\ worker.pc = "scan"
    /\ ~(h.status = "idle" /\ Wakeable(h.inbox))
    /\ worker' = [worker EXCEPT !.pc = "select"]
    /\ hist' = [hist EXCEPT !.parked = host # "approved" /\ Wakeable(h.inbox) /\ ~h.wake]
    /\ UNCHANGED <<ledger, order, h, host, turn, taken, discards, refused, waiter, bounds>>

\* The append of inbox/claimed fails: the item goes back to the front, the
\* status to idle whatever it was, and the worker scans again.
WorkerClaimFails ==
    /\ Lock /\ worker.pc = "claim" /\ Fails /\ Failed
    /\ h' = [h EXCEPT !.status = "idle", !.inbox = <<worker.item>> \o @, !.changed = TRUE]
    /\ worker' = [pc |-> "scan", item |-> 0]
    /\ UNCHANGED <<ledger, order, host, turn, taken, discards, refused, waiter, hist>>

\* Back to idle when a run returns, unless the handle was disposed meanwhile.
Back(box) == [h EXCEPT !.status = IF @ = "disposed" THEN @ ELSE "idle", !.cancelled = FALSE,
                       !.changed = TRUE, !.inbox = box]

\* Mutant: nobody is told.
WorkerCompletes_Silent ==
    /\ Lock /\ worker.pc = "run" /\ turn["worker"].phase = "ok"
    /\ ledger' = Record({worker.item}, "completed")
    /\ h' = [Back(h.inbox) EXCEPT !.changed = h.changed]
    /\ worker' = [pc |-> "scan", item |-> 0]
    /\ turn' = [turn EXCEPT !["worker"] = NoTurn]
    /\ UNCHANGED <<order, host, taken, discards, refused, waiter, bounds, hist>>

\* The turn succeeded, inbox/completed is recorded, and the worker looks for more.
WorkerCompletes ==
    /\ Lock /\ worker.pc = "run" /\ turn["worker"].phase = "ok"
    /\ ledger' = Record({worker.item}, "completed")
    /\ h' = Back(h.inbox)
    /\ worker' = [pc |-> "scan", item |-> 0]
    /\ turn' = [turn EXCEPT !["worker"] = NoTurn]
    /\ UNCHANGED <<order, host, taken, discards, refused, waiter, bounds, hist>>

\* The turn failed, or its completion cannot be recorded; nor perhaps can that
\* the item is queued again, which is not reported.
Requeues ==
    /\ Lock /\ worker.pc = "run"
    /\ \E lost \in SUBSET {"completed", "requeued"} :
          /\ turn["worker"].phase = IF "completed" \in lost THEN "ok" ELSE "failed"
          /\ lost # {} => Fails
          /\ bounds' = [bounds EXCEPT !.faults = @ + IF lost = {} THEN 0 ELSE 1]
          /\ IF "requeued" \in lost THEN UNCHANGED <<ledger, order>>
             ELSE ledger' = Record({worker.item}, "requeued") /\ order' = Requeue(worker.item)
    /\ worker' = [pc |-> "select", item |-> 0]
    /\ turn' = [turn EXCEPT !["worker"] = NoTurn]
    /\ hist' = [hist EXCEPT !.consumed = @ \ {worker.item},
                            !.parked = Wakeable(h'.inbox) /\ ~h.wake]
    /\ UNCHANGED <<host, taken, discards, refused, waiter>>

\* Mutant: a failed turn leaves its item to the next restart.
WorkerRequeues_DurableOnly == h' = Back(h.inbox) /\ Requeues

\* requeueAfterRun: the item goes back to the log's queue, and to the front of a
\* live inbox; the failed command stays pending without another wake.
WorkerRequeues ==
    /\ h' = Back(IF h.status = "disposed" THEN h.inbox ELSE <<worker.item>> \o h.inbox)
    /\ Requeues

-----------------------------------------------------------------------------
(* The host's own runs. *)

\* Submit, the resumes and Run: one run at a time.
HostStarts(op) ==
    /\ Lock /\ host = "none" /\ h.status = "idle" /\ bounds.hostRuns < MaxHostRuns
    /\ host' = op
    /\ h' = [h EXCEPT !.status = "running", !.cancelled = FALSE, !.changed = TRUE]
    /\ turn' = [turn EXCEPT !["host"] = [phase |-> "start", first |-> FALSE]]
    /\ bounds' = [bounds EXCEPT !.hostRuns = @ + 1]
    /\ UNCHANGED <<ledger, order, worker, taken, discards, refused, waiter, hist>>

\* Submit and the resumes of deferred calls return.
HostReturns ==
    /\ Lock /\ host = "submit" /\ turn["host"].phase \in {"ok", "failed"}
    /\ h' = Back(h.inbox)
    /\ host' = "none"
    /\ turn' = [turn EXCEPT !["host"] = NoTurn]
    /\ UNCHANGED <<ledger, order, worker, taken, discards, refused, waiter, bounds, hist>>

\* Mutant: the resume of an approved call returns like Submit.
ApprovedReturns_NoWake ==
    /\ Lock /\ host = "approved" /\ turn["host"].phase \in {"ok", "failed"}
    /\ h' = Back(h.inbox)
    /\ host' = "none"
    /\ turn' = [turn EXCEPT !["host"] = NoTurn]
    /\ UNCHANGED <<ledger, order, worker, taken, discards, refused, waiter, bounds, hist>>

\* The resume of an approved call wakes the worker for waiting follow-ups.
ApprovedReturns ==
    /\ Lock /\ host = "approved" /\ turn["host"].phase \in {"ok", "failed"}
    /\ h' = [Back(h.inbox) EXCEPT !.wake = @ \/ (h.status # "disposed" /\ Wakeable(h.inbox))]
    /\ host' = "none"
    /\ turn' = [turn EXCEPT !["host"] = NoTurn]
    /\ hist' = [hist EXCEPT !.parked = @ /\ ~h'.wake]
    /\ UNCHANGED <<ledger, order, worker, taken, discards, refused, waiter, bounds>>

\* Run's deferred function locks h.mu and calls hasWakeableInbox, which locks it again.
RunReturns ==
    /\ Lock /\ host = "run" /\ turn["host"].phase \in {"ok", "failed"}
    /\ h' = [Back(h.inbox) EXCEPT !.stuck = TRUE]
    /\ UNCHANGED <<ledger, order, worker, host, turn, taken, discards, refused, waiter, bounds, hist>>

-----------------------------------------------------------------------------
TurnSteps(r) ==
    \/ TurnRefused(r) \/ TurnStart(r)
    \/ ClaimNextStepInputs(r) \/ AppendStepInputs(r) \/ AppendStepInputsFails(r) \/ StepFails(r)
    \/ TurnSucceeds(r) \/ TurnFails(r)

WorkerSteps ==
    \/ WorkerWakes \/ WorkerStops \/ WorkerTakes \/ WorkerParks
    \/ WorkerClaimFails \/ WorkerCompletes \/ WorkerRequeues
    \/ TurnSteps("worker")

HostSteps == HostReturns \/ ApprovedReturns \/ RunReturns \/ TurnSteps("host")

Next ==
    \/ NewAgent \/ NewAgentFails \/ Crash
    \/ \E i \in Items : Enqueue(i)
    \/ \E keepInbox \in BOOLEAN : Cancel(keepInbox)
    \/ Discard \/ Dispose \/ WhenIdle \/ WhenIdleWakes
    \/ WorkerSteps
    \/ \E op \in Ops : HostStarts(op)
    \/ HostSteps

Spec == Init /\ [][Next]_vars

\* The goroutines are scheduled and turns end: the model call and the tools
\* return, at the latest when MaxWallTime has passed.
FairSpec ==
    /\ Spec
    /\ WF_vars(WorkerSteps) /\ WF_vars(HostSteps)
    /\ WF_vars(Discard) /\ WF_vars(WhenIdleWakes)

-----------------------------------------------------------------------------
(* Properties. *)

Waits(i) == \E n \in DOMAIN h.inbox : h.inbox[n] = i

Phases == {"none", "start", "body", "claimed", "ok", "failed"}
QueueEvents == {"none", "queued", "requeued", "completed", "discarded"}
Fates == {"none", "open", "failed", "ended", "deferred", "interrupted"}

Ledgers == [Items -> [queue : QueueEvents, input : Fates]]
Handles == [up : BOOLEAN, status : {"idle", "running", "disposed"}, inbox : Seq(Items),
            wake : BOOLEAN, changed : BOOLEAN, stop : BOOLEAN, stuck : BOOLEAN,
            cancelled : BOOLEAN]
Workers == [pc : {"select", "scan", "claim", "run", "exited"}, item : FollowUps \cup {0}]
Turns == [Runners -> [phase : Phases, first : BOOLEAN]]
Counters == [faults : 0..MaxFaults, hostRuns : 0..MaxHostRuns]
Histories == [succeeded : SUBSET Items, consumed : SUBSET Items, replayed : SUBSET Items,
              parked : BOOLEAN]

TypeOK ==
    /\ ledger \in Ledgers
    /\ order \in Seq(Items) /\ taken \in Seq(Steers) /\ discards \in Seq(Items)
    /\ h \in Handles
    /\ worker \in Workers
    /\ host \in Ops \cup {"none"}
    /\ turn \in Turns
    /\ refused \in SUBSET Items /\ waiter \in BOOLEAN
    /\ bounds \in Counters
    /\ hist \in Histories

\* The handle never runs two turns at once: the worker's and a host's run
\* exclude each other through the status alone.
OneRunAtATime == turn["worker"] = NoTurn \/ turn["host"] = NoTurn

\* A follow-up the caller was told is queued, and that the log does not call
\* settled, is in the live handle's hands: waiting, being run, or being swept.
FollowUpsKept ==
    h.up /\ ~h.stop =>
        \A i \in FollowUps \cap Pending :
            \/ Waits(i)
            \/ \E n \in DOMAIN discards : discards[n] = i
            \/ worker.item = i \/ i \in refused

\* An item recorded as completed was consumed by a turn that succeeded
\* (agent.go:730: a failed or cancelled run has not consumed the command), with
\* the two exceptions restoreInbox makes: the turn that wrote its input was
\* interrupted, or a policy stopped it.
CompletedWasConsumed ==
    \A i \in FollowUps :
        ledger[i].queue = "completed" =>
            \/ i \in hist.succeeded
            \/ ledger[i].input = "interrupted"
            \/ ledger[i].input = "ended" /\ "policy" \in Failures

\* A turn that wrote a follow-up's input and succeeded is not repeated, not even
\* after crashes before inbox/completed (agent.go:891); unless the item was queued
\* again, by the worker or earlier in the log.
NoReplay == hist.replayed = {}

\* Until Dispose, every waiting follow-up is taken, with two exceptions: behind
\* a failed turn (agent.go:751), and when a Submit or a resume of deferred calls
\* was under way at the worker's wake-up, for they return without another wake.
EventuallyTaken == \A i \in FollowUps : Waits(i) ~> (~Waits(i) \/ hist.parked \/ h.stop)

\* A waiting WhenIdle notices a quiet agent.
IdleNoticed == (waiter /\ Quiet) ~> (~waiter \/ ~Quiet)

\* Dispose returns: the worker exits.
DisposeReturns == h.status = "disposed" ~> (worker.pc = "exited" \/ ~h.up)
=============================================================================

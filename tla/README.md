# A TLA+ model of awesome-go-agents

The repository is a Go library for durable agents. An agent is a *session*: an
append-only event log in a store. A *loop* (`agent/loop.go`) claims the
session's lease, asks a model for the next step, runs the tools the model calls
and appends what happened. Everything else (a UI, an inbox, a restarted process)
reads the log or appends to it. The hard promise is that tools have side
effects and processes die: after any crash, timeout or takeover a tool body
must not run twice, and the log must still tell a consistent story.

This directory models that core and the parts around it (the inbox, the
scheduler of tool calls, compaction, the file system the tools edit, the skill
registry), checks them with TLC, and proves with TLAPS the safety of the store, the
hub, the loop, the approval broker, the handle, the scheduler and the file system for
every size of the instance.

## 1. Inventory

| Component (source) | State | Operations | Interacts with |
|---|---|---|---|
| Store and leases (`session/store.go`, `session/fenced.go`) | events, next sequence, lease, fence counter, checkpoints per session | ClaimLease, RenewLease, ReleaseLease, AppendFenced, AppendFencedCommitted, AppendCommitted, SaveCompactionCheckpoint, Recover, Load | every writer |
| Event hub (`agent/events.go`) | subscriptions: live channel, reorder buffer, cursors | Publish, SubscribeCursor, Next, Acknowledge, Close; notifications | loop and handle publish, clients read, replay from the store |
| Loop (`agent/loop.go`) | cached events, per-run emitter | RunInputWithID, ResumeTool, ResumeMaterializedTools, ResumeDeferredTools, ResumeApprovedTool, compact | store, tools, model, hub |
| Recovery (`session/fenced.go`, `session/recovery.go`) | none: a function of the log | Recover and its readers | runs first in every claim except ResumeApprovedTool |
| Approval broker (`agent/agent.go` 946-1127) | pending, requested, decisions, the last lease | Approve, Decide, restore | tool pipeline, client, ResumeApprovedTool |
| Tool registry (`tools/registry.go`) | definitions, policies, hooks, a semaphore | run, RunBatch | loop; policies may ask the broker |
| Tool scopes (`tools/scope.go`) | local definitions, allow and deny masks, handles | RegisterTool, UnregisterName, RestrictHandle, DenyHandle, Run, RunBatch | a view of the registry for one agent; the host changes it at any time |
| Handle (`agent/agent.go` 120-946) | inbox, status, wake/changed channels | FollowUp, Steer, Inject, Submit, Run, Cancel, WhenIdle, Dispose, restoreInbox, the worker goroutine | loop, store, hub |
| Heartbeat (`agent/loop.go` 1929-1973) | the current lease | renew every third of the TTL, cancel the run on failure | store, loop |
| Compaction and projection (`agent/loop.go` 2059-2240, `session/surface.go`) | transactions in the log | start, summary, replacement, end, checkpoint; Project | store, model context |
| Filesystem, jobs, processes (`integration/local`) | observed versions, the job table | conditional edits, start/stop/read | tool bodies |
| Skills (`skill`, `skilltool`) | registry of providers, loaded set | refresh, load, invoke | loop, tools |
| Session cache, event codecs, context builder, llm types | derived data | encode, decode, estimate | all |

What makes each correct, in a sentence:

- *Store*: an ID is stored once, sequences have no gaps, and a replaced worker
  writes nothing.
- *Hub*: a subscriber sees every event of its session once, in order, or is
  told that it lags.
- *Loop and recovery*: a body runs at most once per durable barrier; every call
  behind a barrier has an outcome before new work starts; outcomes come before
  the end of their step, steps before the end of their turn.
- *Approvals*: a body that needs an approval runs only after a durable yes.
- *Handle*: one run at a time; an input is consumed once, and is not lost or
  stuck; WhenIdle and Dispose return.
- *Scheduler and scopes*: a call that is not parallel-safe runs alone, nothing
  starts behind a cancellation or a concluding result, a masked tool does not
  run, the batch returns.
- *Compaction*: a session that was compacted, several times or with a crash
  inside, still projects, and the model is told of everything once, in order.
- *File system*: no agent's or user's change is lost to another's write.
- *Skills*: the cached catalog is the one the providers offer; a pinned run sees
  one content per skill.

Hard behaviours: two locks with a gap between them, leases that expire under
live workers, crashes between any two appends, publications out of order,
late goroutines of replaced workers, approvals answered after a restart,
deferred calls that several resume paths may take up. `PROJECT.json` lists the
hazards with the lines where they bite and the properties that cover them.

## 2. Modules

| Module | What it is | Models |
|---|---|---|
| `EpochLog` | abstract specification | what a fenced store promises |
| `FencedLog` | component | `MemoryStore` on one session with its workers and the clock |
| `Stores_proofs` | theorems | safety of `FencedLog`, refinement of `EpochLog`; no lost update in `LocalFS` |
| `EventHub` | component | `agent.EventHub` with its writers and clients |
| `CallLifecycle` | abstract specification | what the loop promises for tool calls |
| `ToolTurn` | composition | loop, recovery, tool pipeline and approvals over one session's log |
| `ApprovalBroker` | component | `agent.approvalBroker` at one call, with its clients and the late resume |
| `Handle` | component | `agent.Handle`: inbox, worker, host runs, restoration |
| `ToolScope` | component | `tools.Scope`: definitions, masks and their handles |
| `ToolBatch` | composition, extends `ToolScope` | `runRollingBatch`, the calls' goroutines and the semaphore, over a scope that changes |
| `Surface` | operators | `Surface.Project` as functions of a log |
| `Compaction` | composition, extends `Surface` | turns, compaction transactions, crashes and recovery on one log |
| `LocalFS` | component | `local.LocalFileSystem` on one file |
| `ToolTurn_proofs` | theorems | safety of `ToolTurn`, refinement of `CallLifecycle` |
| `EventHub_proofs`, `ApprovalBroker_proofs`, `Handle_proofs`, `ToolBatch_proofs`, `Skills_proofs` | theorems | safety of these components |
| `Ordered` | operators and lemmas | a set of numbers in increasing order, the members of a sequence that are in a set |
| `Skills` | component | `skill.Registry` and `skill.Runtime` |
| `MC...` | TLC instances | |

### FencedLog

One session. `events`, `next`, `lease`, `fence`, `checkpoints` are the
maps of `MemoryStore` at that session; `held` is what `ClaimLease` returned to a
worker and `call` a fenced write between its two critical sections: `checkFence`
under the read lock (`CheckFence`), then the write under the write lock
(`AppendFenced`, `AppendFencedCommitted`, `SaveCompactionCheckpoint`, or
`LoseLease` when the second check fails). Every other method holds the mutex
throughout and is one action. Time is the number of ticks the lease has left,
because the code only compares `time.Now()` with `ExpiresAt`. A heartbeat
(`RenewLease`) may run at any time, also inside a call and after the lease was
replaced. `Selects`/`Store` say which events of a batch are new without
recursion, so that the module can be proved about. Writes without a lease
(inbox, approvals after a restart) carry fence 0.

### EventHub

A writer commits, then publishes: a handle as the store answers (`Commit`,
`Recommit`, `Publish`), a loop after folding into its cache (`FoldIntoCache`). A
client subscribes (`Subscribe`, `Load`, `FoldReplay`, the three sections of
`SubscribeCursor`), reads (`NextEvent`, `NextClosed`), acknowledges, closes and
comes back from its cursor. `Offer` is what `Publish` does to one subscription
under the hub's lock, `FlushPending` is `flushPendingLocked`; what it hands over, and
what the loader returns, is the list of the wanted events by sequence (`InSequence`). An event is its
sequence and whether the client's filter shows it. `seen` and `got` are history.

### ToolTurn

`log` holds the lifecycle events; `worker` and `task` are the volatile state of
the one worker that can write (`FencedLog!SingleWriter` is what allows one
worker here); `zombies` are bodies that a replaced worker may still start.
`Crash` and `LoseLease` may come between any two steps. `worker.op` says which
entry point runs: `run` (RunInputWithID), `batch` (ResumeDeferredTools and
ResumeMaterializedTools), `single` (ResumeTool) or `approval`
(ResumeApprovedTool, which does not recover first).

- Recovery is a function of the log, translated from its readers: `Dangling`,
  `DispatchedCalls`, `Pending`, `InterruptedDrafts`, `InterruptedSteps`,
  `OpenTurn`, combined by `RecoveryEvents` in the order of `Recover`.
- `BeginTurn` to `StartBatch` are `runTurnSteps` and `step` up to RunBatch. The
  body of a call goes through `Refuse`, `Ask`, `Answer`, `ShortCircuit`,
  `Dispatch`, `StartBody`, `BodyReturns` (`Registry.run`); `Settle` appends the
  outcomes in model order once all calls of a batch returned; `CloseStep` is
  step/end in its four places.
- `PickRequests` to `FinishResume` are the deferred resumes,
  `ResumeApprovedTool` the late approval, `Decide` the client's answer.
- tool/dispatched and tool/running are one event: every reader in the code
  treats them alike. tool/admitted and events that no reader of the lifecycle
  looks at (request headers, usage, user input) are left out, one chunk stands
  for a stream, an overflow retry is the next step. Calls are numbered in model
  order. RunBatch's calls may be in any order here, which allows more than
  `runRollingBatch` does.
- `runs` counts the starts of a call's body since it was last deferred
  (history).

The approval of a call is asked once: `approvalBroker.Approve` answers a second
question about the same call from memory, so a call in both `Asks` and `PostAsks`
asks before its body only.

`Phase` maps the log to the phases of `CallLifecycle`: *open* until a barrier,
*inflight* behind one, *deferred*, *settled*, *unknown*.

### ApprovalBroker

The memory behind `ToolTurn`'s approvals, for one call: `broker` is the broker's
maps at that call and the lease it keeps, `chan` the decision channel, `call` where
the pipeline is (bind the lease, register, append the request, wait, leave,
dispatch, body, settle), `cl` where a client's `Decide` is (test, append, set, send or
resume): each critical section and each append is a step. `active`, `mine` and
`lease` are the handle's single run and the store's lease, so that a late resume
meets a run that is still there, a lease that has not expired and a call that passed
its barrier. A second resolution has the ID of the first and is dropped by the store;
`hist.dup` records that.

### Handle

Everything between a `Lock` and an `Unlock` of `h.mu` is one step. The durable
side is what `restoreInbox` folds the log to: `ledger` (the last inbox event of
an item and how the turn ended that its input event names) and `order` (the last
queued or requeued events). `h` is the struct, with the channels `wake` and
`changed` as tokens and `stop` as a flag; `worker` is the goroutine
(claim, run, complete or requeue, park), `host` the host's own run (`submit` also
stands for the resumes of deferred calls, which leave the handle the same way),
`turn` what the handle can see of a run: the input event, the step inputs it takes
(`ClaimNextStepInputs`), and how it ends. Appends fail and the process crashes
within `MaxFaults`; `NewAgent` restores. `h.stuck` is the goroutine that locks
`h.mu` while holding it (`agent.go:662`): from then on every step that needs the
lock is disabled.

### ToolScope and ToolBatch

A tool is its name; `root` and `local` say which handle registered it. Handles
take back what they gave (`Unregister`), removals by name and masks taken back in
another order are recorded in `strays`, because the code promises nothing then.
`ToolBatch` has the scheduler's loop (`pc`, `next`, `terminal`) and one goroutine
per call (`phase`): `Resolve` is the look whether the name is local, `ResolveLocal`
the snapshot that an execution registry takes later, then the semaphore, the
body and, for `run_code`, a nested call through the root's semaphore. Slots of other
agents (`foreign`) come and go. A call run by a snapshot has a semaphore of its own
(`hist.private`).

### Surface and Compaction

`Surface` has no state: `Projects` and `Messages` are `Project` with its passes
(transactions in order, shadowed sources, pairs of calls and results, the latest
catalog). An event's sequence is its place in the log and a message is the
sequence it comes from. `Compaction` appends: turns and steps (`Input`, `Assistant`,
results, deferred calls and their late answers, skills and catalogs), `compact` and
`compactFallback` (start marker; then the commit of summary, replacement and end,
or nothing; the owner and the generation make the event's ID, and the store drops a
known ID), crashes and recovery's results. `Cut`, `Whole` and `ProtectedSkills` are
`shadowedSeqsRetainingTail` and its helpers.

### LocalFS

A content is the set of changes it contains, a version identifies a content. A
mutation takes the lock, compares, (for an edit) reads again, stages, publishes by
link, rename or remove, syncs and returns: one step each, each may fail. `Outside`
is anyone who does not take the lock: an editor, or a second instance on the same
root. `hist.raced` marks an outside change in the window between comparison and
publication.

### Skills

The registry's lock is not held while a provider is asked. A collection
(`col[a]`) looks into the cache, snapshots each scope, asks its providers one by
one and compares the revision before it caches; it starts again once, then returns
what it found uncached. Providers register, change (`dirty` until they call
`Invalidate`) and close in two steps. `snap` is `Runtime.snapshot`, `got` what an
agent was given.

## 3. Runs

| Run | Instance | Shows |
|---|---|---|
| `fenced_log` | 2 workers, 2 IDs, batches of 2, 3 leases, claims of 1 tick, renewals of 2, weak fairness of the clock | events stored once, one writer, that the store implements `EpochLog`, and that the lease of a dead worker runs out whatever stale heartbeats do |
| `event_hub` | a loop and a handle, 3 events, buffer of 1, 2 subscriptions, fairness of writers and reader | no gap, acknowledged events were seen, buffers bounded; committed events arrive or the subscription ends |
| `tool_turn` | 2 calls, both deferrable, 2 turns of 2 steps, 3 leases, 14 events | no second execution, true and final results, outcomes before the end of their step (outside steps that were entered twice or had a call that asked) |
| `tool_turn_approval` | 2 calls, one that asks before its body and has a post-policy too, one deferrable, 12 events | only approved bodies run; recovery settles before new work; every step is a step of `CallLifecycle` |
| `handle` | 2 follow-ups, 1 steering input, one host run by Submit or Run, 2 faults | one run at a time; a follow-up that was accepted is in memory or restorable; completed means consumed; a consumed one is not run again |
| `handle_live` | 2 follow-ups, Submit and the approved resume, turns that end with an error, a policy refusal or a deferral, 1 fault | a waiting follow-up is taken, WhenIdle notices, Dispose ends the worker |
| `tool_batch` | 2 tools (one parallel-safe) and `run_code`, 2 calls, 2 slots, 1 foreign slot, 2 changes of the scope | barriers, cancellation, masks; the batch returns |
| `compaction` | tail of 1, 2 calls a message, 4 turn events, 3 compactions, 1 crash | the log projects (outside three named histories), nothing is lost to the model, order, skills verbatim |
| `approval_broker` | 2 clients with 2 answers each, yes or no, 3 leases, 2 faults (crash, lost lease, failed append, timeout) | only a durable yes runs the body, and once; a waiting call is told; Decide returns (outside two answers at once) |
| `local_fs` | 2 agents with 2 mutations each, 1 outside change | no lost update, every call returns |
| `skills` | 2 providers in 2 scopes with a name in common and one the host registers, a pinned and a live agent, cache of 1, 3 changes, 1 fault | the cache is current, a pin is stable, a live agent catches up |

One run shows a disagreement, the finding of `PROJECT.json`: in `tool_turn_reexec` a
deferred, resumed call runs again through its approval, although `loop.go:876` says
that a call behind its barrier is not run again.

**Bounds.** Two workers are enough for a replacement; three leases let a third
claim follow a replacement and its late actions; two IDs in batches of two reach
every duplicate (in the log, in the batch). Three events and a buffer of one
reach overflow of channel and reorder buffer. Two calls make a parallel batch
and a sibling; two turns make "before the next turn" meaningful; 14 events reach
a deferral, its resume, a crash and a new turn, 12 an approval, a dispatch, a
crash and the turn after its recovery. In the approval run the call that asks
and the call that defers are different ones: together they meet the finding of
`tool_turn_reexec`. Two follow-ups make an order and let one arrive
while the other runs; a fault is a crash at any step or a failed append, and two of
them are a crash of the process that was restored after one. Two calls with two slots reach a full pool, an exclusive call
behind a parallel one, and a nested call that waits for a slot a foreign agent
holds. Four turn events with a tail of one reach a split pair, a deferred call and a
skill; three compactions reach one that covers the replacement of an earlier one.
Two clients are what a race of answers takes, two answers each a repetition after a
crash; three leases are the run, a late resume and a later run.
Two agents with two mutations overwrite each other in every order around an
outside change. Three changes reach registration, change and closing during one
collection, which is what its two attempts are for.

`CHECK_DEADLOCK FALSE` is said where an instance really stops: a session left
alone, a batch that returned, a bound that is used up, a disposed handle. The store
and the hub never stop (retries and unfenced appends stay possible) and are checked
for deadlock.

**Fairness.** `FencedLog`: only the clock, which needs nobody's consent.
`EventHub`: a goroutine that committed goes on to fold and publish, a
subscription that started is finished, and the client keeps calling Next. Nobody
is assumed to commit, acknowledge, subscribe again or close. `ToolTurn` and
`Compaction` state no liveness: whether a model, a tool or a client ever answers is
not the library's promise. `Handle`: the worker, a host run, a discard and a woken
waiter are scheduled, and turns end (`MaxWallTime`); nobody is assumed to enqueue,
cancel or dispose. `ToolBatch`: scheduler and goroutines are scheduled; bodies and
nested waits end by their timeouts, which is strong fairness for a body that
keeps entering and leaving nested calls; nothing is assumed of other agents, who may
hold their slots for ever. `LocalFS`: whoever holds the lock goes on, and Go's mutex
does not starve a waiter. `ApprovalBroker`: the pipeline and a client inside Decide are scheduled; nobody is
assumed to answer, and a wait need not time out. `Skills`: an agent goes on taking steps, a collection and
a closing go on, and the owner of a provider reports its changes.

## 4. Proofs

`Stores_proofs` proves, for any set of workers and IDs, any TTLs and bounds
that satisfy `FencedLogAssumption`:

- `StoreSafe`: `TypeOK`, `ExactlyOnce`, `FencesNeverRegress` and `LeaseInv`
  always hold;
- `OneWriter`: `SingleWriter`;
- `StoreImplementsEpochLog`: the store implements `EpochLog` with the fence as
  epoch.

The inductive invariant is the conjunction of the four parts of `StoreSafe`.
`ExactlyOnce` is preserved because a write only adds IDs that are fresh and
distinct (`StoreAppends`, from the selection in `Store`). `FencesNeverRegress`
needs `LeaseInv`: a worker that passes the *second* check holds the token of the
stored lease, tokens are fresh, so its fence is the newest one and no stored
fence exceeds it; that is why the second check matters and the first does not.
`FreshKeepsLog` carries the log facts through an append, `FencedAppendStep` and
`StoreInvNext` have one step per action, and `StoreIsWrite` maps a write to the
abstract `Write`. `TypeOK`, `FencesNeverRegress` and `LeaseInv` are proved and not
part of a run.

It proves of the other store, `LocalFS`, for any set of agents (whose names are none of
the four words the model uses for itself) and any bounds:

- `FilesSafe`: `FSInv` always holds;
- `UpdatesKept`: `NoLostUpdate`.

`NoLostUpdate` is not inductive: at the publication one has to know that what is
replaced is what was compared. `FSInv` adds `FSTypeOK`, whose last conjunct is the
mutual exclusion of the lock, and `MutationKnows`: until an outside change races it,
a mutation behind its comparison expects the file as it is, or has staged the file
with its change. Another agent cannot disturb that, because only the holder of the
lock is past the comparison (`OthersWait`); an outside change either sets `raced`
or meets a create, which needs no such knowledge because `os.Link` refuses an
existing file. One lemma per group of actions; `FailStep` is shared by all error
paths.

`ToolTurn_proofs` proves, for any number of calls, turns, steps, leases and events:

- `TurnTyped`: `TypeOK`; `ApprovedFirst`: `ApprovedBeforeBody`;
- with `Apart`, `TurnSafe`: `TurnInv` always holds, and from it `NeverTwice`
  (`NeverReexecuted`), `AbortedTrue` (`AbortedNeverRan`) and `ResultFinal`
  (`ResultIsFinal`);
- with `Apart`, `LoopImplementsLifecycle`: the loop implements `CallLifecycle` with
  `Phase` as its phase;
- with `Apart`, `OutcomesFirst`: `OutcomesBeforeStepEnd`;
- with `Apart` and `PostAsks \subseteq Asks`, `SettledFirst`: `SettledBeforeNextTurn`.

`Apart` says that no call both asks for an approval and defers. It is a condition on
the constants that the runs `tool_turn` and `tool_turn_approval` satisfy; the finding
of `tool_turn_reexec` is a counterexample to `NeverTwice` without it, and the step of
the proof that needs it is the one that finding takes: `ResumeApprovedTool` looks for
a tool/dispatched only, and a call that has none and was never deferred has no
barrier at all. The first two theorems need no such condition. `PostAsks \subseteq Asks`
says that a call that asks behind its body asked before it too, as the run
`tool_turn_approval` has it; without it a crash while the second question is open leaves
the call unsettled (section 6, `fenced.go:484`).

The argument is about one call at a time. `Same(c)` and `Wrote(c, t, x)` say what a
step does to everything that the readers of the log see of `c`: nothing, or one
event. The first part of the module proves one of the two for every action
(`QuietSteps`, `DispatchLog`, `SettleLog`, ...), with recovery as the hard case:
`RecoverProps` shows that the batch it makes up has at most one event of a call, and
then for a call behind its barrier whose code is "unknown". `CallInv(c)` is the
inductive invariant of a call. Its core is `StartInv`: a body that started, or that a
replaced worker may still start, is behind the *last* barrier of its call and starts
once; `StageInv` ties what the registry does with the call to that barrier, `LiveInv`
says that a call has one worker and no result while it is live, `TodoInv` that a
resume takes up what waits for it, and `ResultInv` that a late body meets no result
but that of recovery. `SteadyCall` handles the calls that an action is not about,
`CallStep` has one step per action and one per conjunct for the call that it is about.
`LifeStep` maps every action to a step of `CallLifecycle`: a dispatch or a resume is
`Barrier`, a start by the holder or by a replaced worker is `Start`, recovery is
`GiveUp` of all calls behind their barrier at once, a second deferral without a
barrier in between and a resume with a host's result are stuttering steps.

The two order properties relate positions of the log. `SettleInv` reduces
`SettledBeforeNextTurn` to one moment: a run recovers first and begins its turn next, and
`BeginInv` says that no call is open (behind its barrier without an outcome) in between.
Recovery gives every open call a result if its readers find it, which is `FoundInv`; a
call whose last event is a question is the one they would miss, and `PassedInv` says
that a call that asks passes its barrier with a durable yes only, so that the question
cannot come behind it.

`StepInv` does the same for the end of a step, which takes no events of its calls any
more. `ClosedInv` says that a call of an ended step has its result, or was never taken
up and is not now; `PlaceInv` that what the worker has in hand is of the step it is in,
so that what it writes is too; `HereInv` and `OwnInv` that this step has not ended
before its calls are made, and which calls are its own. The rest says what whoever
writes a step/end has seen: `DoneInv` and `CloseInv` what `FinishBatch` and
`FinishResume` did, `LeftInv` that a resume follows recovery, which settles what is open.
Each part names the exceptions of the property (`Exempt`) where they bite.

`EventHub_proofs` proves, for any number of writers, clients, events and
subscriptions and any limit, with `OneSessionPerHub` (section 6 has what happens
without it):

- `HubSafe`: `HubInv` always holds;
- `HubTyped`: `TypeOK`, which bounds the channel and the reorder buffer; `NoGaps`:
  `NoGap`; `AckSeen`: `AcknowledgedWasSeen`.

`NoGap` speaks of what was delivered only. `StreamInv` adds what will be: the backlog
has every shown event from the last delivery to the end of the replay, the channel
has every one from there to any of its events that was not delivered, and, while the
subscription is alive, to `nextSeq`. That is what survives a subscription that ends
in the middle of a flush: the channel then holds a beginning of what was due.
`BufferInv` says that the buffers are in order and as the log has them, `WaitingInv`
that nothing held back is due, which is what lets `nextSeq` move by one. All of these
are about one log and one subscription, so the lemmas about the operations
(`FlushProps`, `OfferProps`, `LoadProps`, `FoldReplayProps`, `DeliverProps`) mention no
variable, and the steps of the actions only connect them. `RunProps` shows that the
run of `flushPendingLocked` is an interval that ends at the first gap. The theorems
ask nothing of the writers: a publication may be late, repeated, out of order or
never come.

`ApprovalBroker_proofs` proves, for any set of clients and any bounds:

- `BrokerSafe`: `BrokerInv`; `DurableYesOnly`: `OnlyDurableYesRuns`; `RunsOnce`:
  `ApprovedRunsOnce`.

`YesIsDecided` says that none of the copies of an answer (the call's, the channel's,
the broker's, those inside `Decide`) is ahead of the log; `BarrierInv` that the body
starts behind the dispatch event, which the late resume looks for, in the only run
that has the call.

`Handle_proofs` proves, for any numbers of items and any bounds:

- `HandleSafe`: `HandleInv`; `OneRun`: `OneRunAtATime`; `FollowUpsStay`:
  `FollowUpsKept`; `CompletedConsumed`: `CompletedWasConsumed`; `NeverReplayed`:
  `NoReplay`.

`RunInv` ties the status under `h.mu` to who runs. `OrderInv`, `KnownInv` and
`PlaceInv` say that a follow-up is in one place (once in the inbox, with the worker
or with a sweep) and queued in the log wherever it is, so that nothing taken
from memory can be lost to a restart and nothing restored is there twice. `FateInv` and
`ConsumedInv` connect the end of the turn that wrote an item's input to what
`restoreInbox` makes of it. `LedgerMoves`, `OrderMoves`, `InboxMoves` and `HandsMove` say
once how log, queue, inbox and hands can change; the invariants follow from them
without another look at the actions.

`ToolBatch_proofs` proves, for any calls, tools, slots and changes of the scope:

- `BatchSafe`: `BatchInv`; `ExclusiveRunsAlone`: `ExclusiveAlone`; `LateCallsNeverRun`:
  `LateNeverDispatched`; `HiddenToolsNeverRun`: `HiddenNeverRuns`; `MasksRestored`:
  `MasksMatchHandles`.

`MasksInv` describes what every handle remembers (`previous`) as what the handles
before it say, which is what taking back the last one restores. `BarrierInv` says that
calls start in order and that only the exclusive one is under way behind the barrier;
`LateInv` and `HiddenInv` follow a call from the moment it is late or hidden.

`Skills_proofs` proves, for finitely many providers in any scopes, any agents and
bounds:

- `SkillsSafe`: `SkillsInv`; `CacheCurrent`: `CacheIsCurrent`; `PinStable`:
  `PinIsStable`.

`CacheIsCurrent` needs to know what a collection has when it ends. `Fits` says it for
every moment of one: unless the revision moved, a provider failed or a change is still to
be reported, what it has found together with what the rest of its layer would list
(`Due`) is what the scopes up to there offer (`Before`). A change that is not reported
makes `dirty` non-empty, and only a new revision empties it again; that is why nothing
need be known of a collection that was overtaken, and why the revision is compared when
the result is stored. `BoundInv` says that registrations have numbers of their own, so
that `InOrder` misses none (`DueInOrder`). `PinnedInv` holds the pin: a pinned agent with
a snapshot collects no more, it loads entries of that snapshot, `verifyPinned` compares
the version, and a catalog has one entry for a name because of two entries at most one
beats the other (`WinnersProps`).

`Ordered` holds what these proofs need of sorted sets and filtered sequences without
induction: an element's place is the number of members up to it (`Rank`), and
`RankOnto` is a counting argument.

Left to TLC: all liveness (fairness and ENABLED are out of the prover's reach), that is
`OrphanExpires`, `EventuallyDelivered`, `EventuallyTaken`, `IdleNoticed`, `DisposeReturns`,
`BatchReturns`, `OpsReturn`, `CatchesUp`, `AnswerArrives` and `DecideReturns`; and
`Surface` with `Compaction`, whose projection is a fold over the log: what a fold computes
for every log takes induction over data. Every other property of a passing run is stated
by a theorem.

## 5. Not modelled

Prompt assembly, rendering, encodings, the context meter and pruner, and the llm
types are data without control. Notifications are lossy by design. Also left out:

- the emitter's counter, from which event IDs are made (`loop.go:2817`);
- schema validation and result rendering of tools: functions of one value;
- jobs and processes: a table under one lock around operating-system processes;
- path resolution, Glob and Grep of the file system; the parsing of skill files and
  the providers that read them;
- sessions of the old surface format 1, which nothing writes any more.

In `ToolTurn`, outcomes always carry their call's identity and a deferral its resume
key.

## 6. Known disagreements

Where the code does not do what a comment or a document says, or what a caller would
expect, besides the run `tool_turn_reexec`. They were met while modelling; the passing
properties name them as exceptions or are stated beside them.

Store and hub:

- `SaveCompactionCheckpoint` does not repeat the fence test (`fenced.go:388`), so a
  replaced worker can store a checkpoint; `fenced.go:31` says stale writes are
  rejected. Nothing reads the fence of a checkpoint.
- A hub shared by two sessions drops events: `nextSeq` is compared before the
  session filter (`events.go:383`). `EventHub` has one session per hub in its run.
- Two goroutines of one loop that commit n and n+1 and fold in the other order leave n
  unpublished (`loop.go:2290`). The run has one goroutine per loop.

Loop and recovery:

- A body that waits for a post-policy approval when the process dies is overlooked
  by recovery (`fenced.go:484`), if the call was not approved before its body.
- `ResumeApprovedTool` closes a step around a sibling's open call (`loop.go:995`),
  against `fenced.go:324`.
- A step can be entered twice. A resume of a deferred call that has its result already
  (a retry after a crash) goes on at the step after the call's (`loop.go:729`), also when
  that step exists and waits for a deferred call of its own. Its step ID is used again,
  and the end of the second entry precedes the result of the first entry's call, although
  `loop.go:530` says that all calls of a batch are completed before another step starts.
  It takes two calls in one turn of two steps, four leases and 16 to 18 events, beyond
  the bounds of `tool_turn`, which found nothing; the attempt to prove
  `OutcomesBeforeStepEnd` without the exception did.
- Recovery ends a turn twice while an earlier one is deferred (`fenced.go:271`).
- A call that died before its dispatch gets no result (`fenced.go:499`), against
  `acceptance-gates.md:39`.

Approvals:

- Two `Decide` calls with different answers that both pass the test of
  `agent.go:1025` both return nil: the store keeps the first, the call may use the
  second, and with the durable answer no a body can run. If the waiter has gone, the
  second one of any two blocks for good on the channel (`agent.go:1044`).
- An answer given after the run that asked has ended is appended with that run's
  released lease and refused (`agent.go:1084`), until a later run asks.

Handle:

- `Run` waits for itself: its deferred function holds `h.mu` and calls
  `hasWakeableInbox`, which takes it (`agent.go:662`).
- A follow-up that arrives during `Submit` or a resume of a deferred call can stay
  parked until the next wake (`agent.go:689`).
- A failed append after Dispose sets the status back to idle (`agent.go:712`); the
  worker ends all the same.
- A restored handle takes an input whose turn was interrupted for consumed
  (`agent.go:890`).
- The input event of an item names the run of its first attempt. A retry after a crash
  runs under another one, so that a retried turn that succeeded is repeated if the
  process dies again before inbox/completed (`agent.go:891`). The proof of `NoReplay`
  needs this exception: `FateInv` follows first attempts only.
- The same repetition follows when the item was requeued before the attempt that
  succeeded: restoreInbox does not look at the turn of a requeued item. A failed append
  of inbox/requeued is ignored (`agent.go:783`).

Scheduler:

- `MaxParallel` does not bound calls of local tools: every execution registry has a
  semaphore of its own.

Compaction:

- A result that recovery writes carries no source (`fenced.go:307`), so the tail kept
  by `shadowedSeqsRetainingTail` can begin with it while its message is shadowed
  (`loop.go:2686`), although the comment at `loop.go:2673` says "Never split a visible
  assistant/tool-result pair at the compaction boundary". `validatePairing` refuses the
  log from then on (`hist.unlinked` in `Compaction`).
- A compaction that died behind its start marker is repeated under the same
  generation, and the second start marker makes `Project` fail (`surface.go:190`).
- A deferred call that is answered after its message was compacted away is a
  result without a call, and the projection fails.
- A second compaction can cover the newest user input or an earlier replacement,
  where `CONTRACT.md:17` keeps them.

File system and skills:

- A change from outside between comparison and rename is overwritten (`fs.go:270`).
- A failed sync of the directory is an error although the file has changed
  (`fs.go:650`).
- Two concurrent runs on one pinned `Runtime` can both pass the test of
  `skill/runtime.go:69` and the second replaces the pin.

## 7. Plan

Done: `FencedLog` with `EpochLog`; `EventHub`; `ToolTurn` with `CallLifecycle`;
`ApprovalBroker`; `Handle`; `ToolScope` and `ToolBatch`; `Surface` and `Compaction`;
`LocalFS`; `Skills`; proofs of all but `Compaction`.

Theorems left: none that the prover can reach for the properties of the runs. The next
ones would be about the store, `Append` without a lease among them, and a refinement of
`CallLifecycle` by `ApprovalBroker` at its call.

Models left: `EmitterIDs`, the IDs of resumed runs against the store's deduplication;
`Schema`, the validated subset against a reference definition; `Jobs`, the job table.

## 8. Running

    tlc -workers 2 -config MCFencedLog.cfg MCFencedLog
    tlapm Stores_proofs.tla

with each module and cfg of `PROJECT.json` in place of the first, and each `_proofs`
module and `Ordered` in place of the second.

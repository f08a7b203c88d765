----------------------------- MODULE ToolBatch -----------------------------
(***************************************************************************)
(* Scope.RunBatch: the rolling scheduler of one batch of tool calls        *)
(* (runRollingBatch), the goroutine of every call up to and behind its     *)
(* body (Scope.Run, Registry.run), the registry's semaphore, which other   *)
(* agents of the process share, and cancellation, while the host changes   *)
(* the scope.                                                              *)
(*                                                                         *)
(* Of the pipeline between the semaphore and the body only the outcome     *)
(* matters here: it refuses, short-circuits or dispatches.  run_code's     *)
(* body runs a tool of its own through the same registry.                  *)
(***************************************************************************)
EXTENDS ToolScope

CONSTANTS NumCalls,    \* calls in the batch
          MaxParallel, \* Options.MaxParallel, 0: no limit
          MaxForeign,  \* bound: slots of the semaphore other agents hold at once
          SafeTools    \* names whose definition opts in to parallel dispatch

ASSUME ToolBatchAssumption == NumCalls \in Nat \ {0} /\ MaxParallel \in Nat /\ MaxForeign \in Nat /\ SafeTools \subseteq Names

Calls == 1..NumCalls

VARIABLES tool,      \* call -> name; the batch the model asked for
          pc,        \* where runRollingBatch is
          next,      \* first call not yet started or marked
          terminal,  \* a drained result concluded or deferred the turn
          phase,     \* call -> where its goroutine is
          outcome,   \* call -> how it was answered: by its tool or an error of it, by a result that
                     \* concludes or defers the turn, aborted before dispatch; "none" before
          cancelled, \* ctx is cancelled
          foreign,   \* slots of the semaphore that other agents hold
          hist       \* history: bodies started, calls not started at the cancellation,
                     \* calls that reached a hidden tool of the root, calls run by a snapshot

batchVars == <<tool, pc, next, terminal, phase, outcome, cancelled, foreign, hist>>
vars == <<scopeVars, batchVars>>

Limit == IF MaxParallel = 0 \/ MaxParallel > NumCalls THEN NumCalls ELSE MaxParallel

\* Goroutines that were started and not drained.
Active == {c \in Calls : phase[c] \in {"launched", "via_local", "sem", "body", "nested", "nested_body", "done"}}
\* Calls that hold a slot of the root's semaphore, and the slots in use: a
\* nested call needs a second one.
Holders == {c \in Calls : phase[c] \in {"body", "nested", "nested_body"} /\ c \notin hist.private}
Used == Cardinality(Holders) + Cardinality({c \in Calls : phase[c] = "nested_body"}) + foreign
Free == MaxParallel = 0 \/ Used < MaxParallel

Init ==
    /\ ScopeInit
    /\ tool \in [Calls -> Callable]
    /\ pc = "top" /\ next = 1 /\ terminal = FALSE
    /\ phase = [c \in Calls |-> "unstarted"]
    /\ outcome = [c \in Calls |-> "none"]
    /\ cancelled = FALSE /\ foreign = 0
    /\ hist = [ran |-> {}, late |-> {}, private |-> {}, hidden |-> {}]

-----------------------------------------------------------------------------
(* The scheduler. *)

\* markUnstarted, markTerminal.
MarkRest ==
    /\ outcome' = [c \in Calls |-> IF c >= next THEN "aborted" ELSE outcome[c]]
    /\ next' = NumCalls + 1

\* The head of the loop.
Top ==
    /\ pc = "top"
    /\ \/ /\ next > NumCalls /\ Active = {}
          /\ pc' = "returned" /\ UNCHANGED <<next, outcome>>
       \/ /\ next <= NumCalls \/ Active # {}
          /\ cancelled \/ terminal
          /\ MarkRest /\ pc' = "drain"
       \/ /\ next <= NumCalls \/ Active # {}
          /\ ~cancelled /\ ~terminal
          /\ pc' = "launch" /\ UNCHANGED <<next, outcome>>
    /\ UNCHANGED <<scopeVars, tool, terminal, phase, cancelled, foreign, hist>>

Safe(c) == Mode(tool[c], SafeTools)

\* Parallel calls are launched up to the limit; the context is not looked at.
Launch ==
    /\ pc = "launch"
    /\ IF next <= NumCalls /\ Cardinality(Active) < Limit /\ Safe(next)
       THEN /\ phase' = [phase EXCEPT ![next] = "launched"]
            /\ next' = next + 1 /\ UNCHANGED pc
       ELSE pc' = "check" /\ UNCHANGED <<phase, next>>
    /\ UNCHANGED <<scopeVars, tool, terminal, outcome, cancelled, foreign, hist>>

\* The mode of the next call is asked for again: an exclusive call is a barrier.
Check ==
    /\ pc = "check"
    /\ pc' = IF next <= NumCalls /\ ~Safe(next) THEN "barrier"
             ELSE IF Active # {} THEN "drain_one" ELSE "top"
    /\ UNCHANGED <<scopeVars, tool, next, terminal, phase, outcome, cancelled, foreign, hist>>

\* drainOne: a finished goroutine, in the order of their finishing.
Drain(c, seen) ==
    /\ phase[c] = "done"
    /\ phase' = [phase EXCEPT ![c] = "drained"]
    /\ terminal' = IF seen THEN terminal \/ outcome[c] = "terminal" ELSE terminal
    /\ UNCHANGED <<scopeVars, tool, next, outcome, cancelled, foreign, hist>>

DrainOne == pc = "drain_one" /\ pc' = "top" /\ \E c \in Calls : Drain(c, TRUE)
DrainBarrier == pc = "barrier" /\ UNCHANGED pc /\ \E c \in Calls : Drain(c, TRUE)
DrainRest == pc = "drain" /\ UNCHANGED pc /\ \E c \in Calls : Drain(c, FALSE)

Drained ==
    /\ pc = "drain" /\ Active = {}
    /\ pc' = "returned"
    /\ UNCHANGED <<scopeVars, tool, next, terminal, phase, outcome, cancelled, foreign, hist>>

\* Mutant: the exclusive call does not wait for the parallel ones.
Exclusive_NoBarrier ==
    /\ pc = "barrier"
    /\ \/ cancelled /\ MarkRest /\ pc' = "returned" /\ UNCHANGED phase
       \/ ~cancelled /\ terminal /\ pc' = "top" /\ UNCHANGED <<next, outcome, phase>>
       \/ /\ ~cancelled /\ ~terminal
          /\ phase' = [phase EXCEPT ![next] = "launched"]
          /\ pc' = "inline" /\ UNCHANGED <<next, outcome>>
    /\ UNCHANGED <<scopeVars, tool, terminal, cancelled, foreign, hist>>

\* Behind the barrier: stop, start over, or run the exclusive call in line.
Exclusive ==
    /\ pc = "barrier" /\ Active = {}
    /\ \/ cancelled /\ MarkRest /\ pc' = "returned" /\ UNCHANGED phase
       \/ ~cancelled /\ terminal /\ pc' = "top" /\ UNCHANGED <<next, outcome, phase>>
       \/ /\ ~cancelled /\ ~terminal
          /\ phase' = [phase EXCEPT ![next] = "launched"]
          /\ pc' = "inline" /\ UNCHANGED <<next, outcome>>
    /\ UNCHANGED <<scopeVars, tool, terminal, cancelled, foreign, hist>>

Inline ==
    /\ pc = "inline" /\ phase[next] = "done"
    /\ phase' = [phase EXCEPT ![next] = "drained"]
    /\ terminal' = (outcome[next] = "terminal")
    /\ next' = next + 1
    /\ pc' = "top"
    /\ UNCHANGED <<scopeVars, tool, outcome, cancelled, foreign, hist>>

-----------------------------------------------------------------------------
(* A call's goroutine. *)

Finish(c, result) ==
    /\ phase' = [phase EXCEPT ![c] = "done"]
    /\ outcome' = [outcome EXCEPT ![c] = result]
    /\ UNCHANGED <<scopeVars, tool, pc, next, terminal, cancelled, foreign, hist>>

\* Registry.run up to the semaphore, with the definitions defs: an ended context
\* is noticed first.
Reached(c, defs) ==
    IF cancelled THEN "aborted" ELSE IF Defined(defs, tool[c]) THEN "none" ELSE "not_found"

Visible(c) == tool[c] = "run_code" \/ VisibleInherited(tool[c])

\* The call goes on to where, or is answered by result.
Go(c, result, where) ==
    /\ phase' = [phase EXCEPT ![c] = IF result = "none" THEN where ELSE "done"]
    /\ outcome' = [outcome EXCEPT ![c] = result]
    /\ UNCHANGED <<scopeVars, tool, pc, next, terminal, cancelled, foreign>>

\* Mutant: what is not local goes to the root, masks or not.
Resolve_NoMask(c) ==
    /\ phase[c] = "launched"
    /\ hist' = IF Known(local, tool[c]) \/ Visible(c) THEN hist ELSE [hist EXCEPT !.hidden = @ \cup {c}]
    /\ IF Known(local, tool[c]) THEN Go(c, "none", "via_local") ELSE Go(c, Reached(c, root), "sem")

\* Mutant: the context is left to the body.
Resolve_NoContext(c) ==
    /\ phase[c] = "launched"
    /\ hist' = IF Known(local, tool[c]) \/ Visible(c) THEN hist ELSE [hist EXCEPT !.hidden = @ \cup {c}]
    /\ IF Known(local, tool[c]) THEN Go(c, "none", "via_local")
       ELSE Go(c, IF Visible(c) /\ Defined(root, tool[c]) THEN "none" ELSE "not_found", "sem")

\* Scope.Run: a local name goes on to a registry made for it; any other must
\* pass the masks and is run by the live root.
Resolve(c) ==
    /\ phase[c] = "launched"
    /\ hist' = IF Known(local, tool[c]) \/ Visible(c) THEN hist ELSE [hist EXCEPT !.hidden = @ \cup {c}]
    /\ IF Known(local, tool[c]) THEN Go(c, "none", "via_local")
       ELSE Go(c, IF Visible(c) THEN Reached(c, root) ELSE "not_found", "sem")

\* executionRegistry: a snapshot of the root with the local definitions on top,
\* and a semaphore of its own.  A local name withdrawn since Resolve leaves the
\* root's definition, hidden or not.
ResolveLocal(c) ==
    /\ phase[c] = "via_local"
    /\ Go(c, Reached(c, [n \in Names |-> IF local[n] # 0 THEN local[n] ELSE root[n]]), "sem")
    /\ hist' = [ran |-> hist.ran, late |-> hist.late, private |-> hist.private \cup {c},
                hidden |-> IF Known(local, tool[c]) \/ Visible(c) THEN hist.hidden
                           ELSE hist.hidden \cup {c}]

\* The semaphore of the registry that runs c has a slot for it.
CanAcquire(c) == phase[c] = "sem" /\ (c \in hist.private \/ Free)

\* A slot is taken and the pipeline lets the call through to its body.
Dispatch(c) ==
    /\ CanAcquire(c)
    /\ phase' = [phase EXCEPT ![c] = "body"]
    /\ hist' = [hist EXCEPT !.ran = @ \cup {c}]
    /\ UNCHANGED <<scopeVars, tool, pc, next, terminal, outcome, cancelled, foreign>>

\* With a slot, but validation, policy, guard, sandbox or hook refuses, or a hook
\* defers in the body's place.
Refused(c) == CanAcquire(c) /\ \E result \in {"answered", "terminal"} : Finish(c, result)

\* The context ends while the call waits for a slot: cancelled, or the tool's
\* timeout, which runs while it waits.
WaitAborted(c) == phase[c] = "sem" /\ Finish(c, "aborted")

\* run_code's program calls a tool: the nested run wants a slot, too.
NestedCall(c) ==
    /\ phase[c] = "body" /\ tool[c] = "run_code"
    /\ phase' = [phase EXCEPT ![c] = "nested"]
    /\ UNCHANGED <<scopeVars, tool, pc, next, terminal, outcome, cancelled, foreign, hist>>

NestedAcquire(c) ==
    /\ phase[c] = "nested" /\ Free
    /\ phase' = [phase EXCEPT ![c] = "nested_body"]
    /\ UNCHANGED <<scopeVars, tool, pc, next, terminal, outcome, cancelled, foreign, hist>>

\* Mutant: the timeout starts behind the semaphore.
NestedReturns_NoTimeout(c) ==
    /\ phase[c] = "nested_body"
    /\ phase' = [phase EXCEPT ![c] = "body"]
    /\ UNCHANGED <<scopeVars, tool, pc, next, terminal, outcome, cancelled, foreign, hist>>

\* The nested call's body returns, or its own timeout ends its wait for a slot.
NestedReturns(c) ==
    /\ phase[c] \in {"nested", "nested_body"}
    /\ phase' = [phase EXCEPT ![c] = "body"]
    /\ UNCHANGED <<scopeVars, tool, pc, next, terminal, outcome, cancelled, foreign, hist>>

BodyReturns(c) == phase[c] = "body" /\ \E result \in {"answered", "terminal"} : Finish(c, result)

-----------------------------------------------------------------------------
(* The surroundings. *)

Cancel ==
    /\ ~cancelled /\ pc # "returned"
    /\ cancelled' = TRUE
    /\ hist' = [hist EXCEPT !.late = {c \in Calls : phase[c] = "unstarted"}]
    /\ UNCHANGED <<scopeVars, tool, pc, next, terminal, phase, outcome, foreign>>

ForeignAcquire ==
    /\ MaxParallel > 0 /\ Free /\ foreign < MaxForeign /\ foreign' = foreign + 1
    /\ UNCHANGED <<scopeVars, tool, pc, next, terminal, phase, outcome, cancelled, hist>>

ForeignRelease ==
    /\ foreign > 0 /\ foreign' = foreign - 1
    /\ UNCHANGED <<scopeVars, tool, pc, next, terminal, phase, outcome, cancelled, hist>>

ChangeScope == pc # "returned" /\ ScopeNext /\ UNCHANGED batchVars

Scheduler == Top \/ Launch \/ Check \/ DrainOne \/ DrainBarrier \/ DrainRest \/ Drained
             \/ Exclusive \/ Inline
CallStep(c) ==
    \/ Resolve(c) \/ ResolveLocal(c) \/ Dispatch(c) \/ Refused(c) \/ WaitAborted(c)
    \/ NestedCall(c) \/ NestedAcquire(c) \/ NestedReturns(c) \/ BodyReturns(c)

Next ==
    \/ Scheduler \/ \E c \in Calls : CallStep(c)
    \/ Cancel \/ ForeignAcquire \/ ForeignRelease \/ ChangeScope

Spec == Init /\ [][Next]_vars

\* Goroutines are scheduled, bodies and nested calls end at the latest with
\* their timeouts.  Nothing is assumed of the other agents.
FairSpec ==
    /\ Spec
    /\ WF_vars(Scheduler)
    /\ \A c \in Calls : /\ WF_vars(Resolve(c) \/ ResolveLocal(c) \/ Dispatch(c) \/ Refused(c)
                                  \/ WaitAborted(c) \/ NestedReturns(c))
                        /\ SF_vars(BodyReturns(c))

-----------------------------------------------------------------------------
(* Properties. *)

\* Exclusive calls are barriers (the comment of RunBatch): while a call that was
\* not let into the parallel pool runs in line, no other call of the batch is
\* under way, whatever the host does to the scope meanwhile.
ExclusiveAlone == pc = "inline" => Active = {next}

\* A call that was not started when the context ended is never dispatched
\* (the comment of RunBatch), although the launching loop does not look at
\* the context.
LateNeverDispatched == hist.late \cap hist.ran = {}

\* The root's definition of a name the masks hide is not run for this scope,
\* except where a local definition that shadowed it was withdrawn between
\* Scope.Run's look and executionRegistry's.
Withdrawn == strays.names \cup UNION {handles[k].names : k \in {j \in DOMAIN handles : ~handles[j].live}}
HiddenNeverRuns == \A c \in hist.hidden \cap hist.ran : tool[c] \in Withdrawn

\* The batch returns, also while run_code holds the only slot and its nested
\* call wants it, and while other agents keep the semaphore full.
BatchReturns == <>(pc = "returned")
=============================================================================

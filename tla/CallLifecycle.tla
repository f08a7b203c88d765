--------------------------- MODULE CallLifecycle ---------------------------
(***************************************************************************)
(* What the loop promises for one session's tool calls, whoever executes   *)
(* them and however often workers are replaced:                            *)
(*   - a body starts only behind a durable barrier, once per barrier;      *)
(*   - a call settles once; nothing runs after it settled, except that a   *)
(*     call settled as "outcome unknown" may have, or get, its one start;  *)
(*   - only a deferral makes a call startable again.                       *)
(* ToolTurn implements this module.                                        *)
(***************************************************************************)
EXTENDS Naturals

CONSTANT Calls

VARIABLES phase,   \* call -> its durable phase
          started  \* call -> body starts since its last deferral

lifecycleVars == <<phase, started>>

Phases == {"open", "inflight", "deferred", "settled", "unknown"}

LifecycleInit ==
    /\ phase = [c \in Calls |-> "open"]
    /\ started = [c \in Calls |-> 0]

\* tool/dispatched or tool/resume_started.
Barrier(c) ==
    /\ phase[c] \in {"open", "deferred"}
    /\ phase' = [phase EXCEPT ![c] = "inflight"]
    /\ UNCHANGED started

Start(c) ==
    /\ phase[c] \in {"inflight", "unknown"}
    /\ started[c] = 0
    /\ started' = [started EXCEPT ![c] = 1]
    /\ UNCHANGED phase

Defer(c) ==
    /\ phase[c] \in {"open", "inflight"}
    /\ phase' = [phase EXCEPT ![c] = "deferred"]
    /\ started' = [started EXCEPT ![c] = 0]

\* A result: of the body, of a refusal before any barrier, or of the host.
Conclude(c) ==
    /\ phase[c] \in {"open", "inflight", "deferred"}
    /\ phase' = [phase EXCEPT ![c] = "settled"]
    /\ UNCHANGED started

\* Recovery gives up on calls that are behind their barrier, all at once.
GiveUp(S) ==
    /\ \A c \in S : phase[c] = "inflight"
    /\ phase' = [c \in Calls |-> IF c \in S THEN "unknown" ELSE phase[c]]
    /\ UNCHANGED started

LifecycleNext ==
    \/ \E c \in Calls : Barrier(c) \/ Start(c) \/ Defer(c) \/ Conclude(c)
    \/ \E S \in SUBSET Calls : GiveUp(S)

LifecycleSpec == LifecycleInit /\ [][LifecycleNext]_lifecycleVars
=============================================================================

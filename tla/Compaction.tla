---------------------------- MODULE Compaction -----------------------------
(***************************************************************************)
(* The agent loop's context compaction over the log of one session: the    *)
(* events of steps and turns, compact and compactFallback with their       *)
(* failures and crashes, and recovery, which answers the calls a crash     *)
(* left open.                                                              *)
(*                                                                         *)
(* One loop holds the session's lease at a time (module FencedLog), and    *)
(* appends are atomic.  The store drops an event whose ID is in the log:   *)
(* the ID of a compaction event is made of the loop's owner name, the      *)
(* event's kind and the generation.  A summary is what it stands for: its  *)
(* sources.                                                                *)
(***************************************************************************)
EXTENDS Surface, FiniteSets

CONSTANTS Retain,        \* Config.RetainTailEvents
          MaxCalls,      \* bound: tool calls in one assistant message
          MaxSurface,    \* bound: events the turns append
          MaxAttempts,   \* bound: compactions started
          MaxCrashes     \* bound: crashes

ASSUME CompactionAssumption ==
    /\ Retain \in Nat \ {0} /\ MaxCalls \in Nat /\ MaxSurface \in Nat
    /\ MaxAttempts \in Nat /\ MaxCrashes \in Nat

VARIABLES log,      \* the session's events, in order
          ids,      \* IDs of the compaction events in log
          deferred, \* calls with a tool/deferred record
          owner,    \* Config.Owner of the loop that runs, as a number
          pc,       \* where compact or compactFallback is
          tx,       \* its generation and sources
          crashes,
          hist      \* history: attempts, and what the properties excuse

vars == <<log, ids, deferred, owner, pc, tx, crashes, hist>>

NoTx == [gen |-> 0, srcs |-> {}]

Init ==
    /\ log = <<>> /\ ids = {} /\ deferred = {}
    /\ owner = 0
    /\ pc = "idle" /\ tx = NoTx
    /\ crashes = 0
    /\ hist = [attempts |-> 0, abandoned |-> FALSE, late |-> FALSE, unlinked |-> FALSE]

Turns(events) == Cardinality({i \in DOMAIN events : events[i].kind \notin DOMAIN Rank})

-----------------------------------------------------------------------------
(* Turns and steps. *)

CallsMade == UNION {{<<i, k>> : k \in 1..log[i].calls} : i \in DOMAIN log}
Answered == {log[i].call : i \in {j \in DOMAIN log : log[j].kind = "result"}}
\* Calls of the step under way.
Running == CallsMade \ (Answered \cup deferred)

Appended(events) ==
    /\ Turns(log) + Len(events) <= MaxSurface
    /\ log' = log \o events
    /\ UNCHANGED <<ids, owner, pc, tx, crashes>>

\* The input of a turn or step, a skill the user invoked among them.  A model
\* message without calls is no different to what follows.
Input(kind) ==
    /\ pc = "idle" /\ Running = {}
    /\ Appended(<<Plain(kind)>>)
    /\ UNCHANGED <<deferred, hist>>

\* prepareSkills: the catalog is told when there is none the model sees, or when
\* it changed.
PrepareSkills(changed) ==
    /\ pc = "idle" /\ Running = {} /\ Projects(log)
    /\ changed \/ LatestCatalog(log) = 0
    /\ Appended(<<Plain("catalog")>>)
    /\ UNCHANGED <<deferred, hist>>

\* The model calls some tools.
Assistant(n) ==
    /\ pc = "idle" /\ Running = {} /\ log # <<>> /\ Projects(log)
    /\ Appended(<<[Plain("assistant") EXCEPT !.calls = n]>>)
    /\ UNCHANGED <<deferred, hist>>

\* A call's outcome; it names its assistant message as its source.  A deferred
\* call is answered by a resume, which may come turns later.
Answer(call, skill) ==
    /\ pc = "idle" /\ call \in CallsMade \ Answered
    /\ call \in deferred => Running = {}
    /\ Appended(<<[Plain("result") EXCEPT !.call = call, !.linked = TRUE, !.skill = skill]>>)
    /\ hist' = [hist EXCEPT !.late = @ \/ call[1] \in Shadowed(log)]
    /\ deferred' = deferred \ {call}

Defer(call) ==
    /\ pc = "idle" /\ call \in Running
    /\ deferred' = deferred \cup {call}
    /\ UNCHANGED <<log, ids, owner, pc, tx, crashes, hist>>

-----------------------------------------------------------------------------
(* What a compaction takes. *)

\* The model-visible events, by seq: a replacement counts where it was appended.
SurfaceSeqs ==
    LET hidden == Shadowed(log) IN SelectSeq(Seqs(log), LAMBDA i : log[i].kind \in SurfaceKinds /\ i \notin hidden)

\* Mutant: only what the model loaded.
ProtectedSkills_ModelOnly ==
    LET loads == {i \in DOMAIN log \ Shadowed(log) : log[i].kind = "result" /\ log[i].skill}
        heads == {log[i].call[1] : i \in {j \in loads : log[j].linked}}
    IN  loads \cup heads \cup {i \in DOMAIN log : log[i].kind = "result" /\ log[i].call[1] \in heads}

\* protectedSkillSurfaceSeqs: skill invocations, and every message and result
\* of a model message that loaded a skill.  Links are the sources results name.
ProtectedSkills ==
    LET shown == {i \in DOMAIN log : log[i].kind \in SurfaceKinds} \ Shadowed(log)
        loads == {i \in shown : log[i].kind = "result" /\ log[i].skill}
        heads == {log[i].call[1] : i \in {j \in loads : log[j].linked}}
    IN  {i \in shown : log[i].kind = "invocation"} \cup loads \cup heads
        \cup {i \in shown : log[i].kind = "result" /\ log[i].linked /\ log[i].call[1] \in heads}

\* The retained tail splits no pair: a result keeps the source it names, a message
\* keeps the results of its calls.
Whole(seqs, cut) ==
    LET tail == {seqs[k] : k \in cut..Len(seqs)}
        head == {seqs[k] : k \in 1..(cut - 1)}
    IN  \A i \in tail :
          /\ log[i].kind = "result" /\ log[i].linked => log[i].call[1] \notin head
          /\ log[i].kind = "assistant" => \A j \in head : log[j].kind = "result" => log[j].call[1] # i

\* Mutant: the tail is cut where it is counted.
Cut_Splits(seqs) == Len(seqs) - Min({Retain, Len(seqs) - 1}) + 1

\* Place of the first retained event: at most Retain events are kept, at least
\* one is, and more where a pair would be split.
Cut(seqs) ==
    LET counted == Len(seqs) - Min({Retain, Len(seqs) - 1}) + 1
    IN  Max({c \in 1..counted : Whole(seqs, c)})

\* shadowedSeqsRetainingTail.
ToShadow ==
    LET seqs == SurfaceSeqs
    IN  IF Len(seqs) < 2 THEN {} ELSE {seqs[k] : k \in 1..(Cut(seqs) - 1)} \ ProtectedSkills

-----------------------------------------------------------------------------
(* Compaction. *)

IdOf(kind, gen) == <<owner, kind, gen>>

\* Append, less the events whose ID the log has.
AppendNew(events) ==
    LET new == SelectSeq(events, LAMBDA e : IdOf(e.kind, e.gen) \notin ids)
    IN  /\ log' = log \o new
        /\ ids' = ids \cup {IdOf(events[i].kind, events[i].gen) : i \in DOMAIN events}

\* compact or compactFallback, up to the start record: the projection must
\* succeed and leave something to shadow.
Begin ==
    LET gen == Generation(log) + 1
        srcs == ToShadow
    IN  /\ pc = "idle" /\ Running = {} /\ hist.attempts < MaxAttempts
        /\ Projects(log) /\ srcs # {}
        /\ AppendNew(<<OfTransaction("start", gen, srcs)>>)
        /\ tx' = [gen |-> gen, srcs |-> srcs]
        /\ pc' = "open"
        /\ hist' = [hist EXCEPT !.attempts = @ + 1, !.abandoned = @ \/ OfGen(log, gen, "start") # {}]
        /\ UNCHANGED <<deferred, owner, crashes>>

\* The Compactor fails or is cancelled.  preflight goes on with compactFallback,
\* which is another Begin; behind a provider's overflow the turn ends.
Fails ==
    /\ pc = "open" /\ pc' = "idle" /\ tx' = NoTx
    /\ UNCHANGED <<log, ids, deferred, owner, crashes, hist>>

\* appendCompactionCommit: one batch.  The checkpoint saved behind it, or not,
\* is never read; a failure to save it ends the attempt like Fails, behind the
\* commit.
Commit ==
    /\ pc = "open"
    /\ AppendNew(<<OfTransaction("summary", tx.gen, tx.srcs), OfTransaction("replace", tx.gen, tx.srcs),
                   OfTransaction("end", tx.gen, {})>>)
    /\ pc' = "idle" /\ tx' = NoTx
    /\ UNCHANGED <<deferred, owner, crashes, hist>>

\* The process ends; the next run, perhaps under another owner name, first
\* recovers: open calls are answered, by results that name no source.  Between
\* steps a crash leaves nothing to recover.
Crash ==
    /\ pc = "open" \/ Running # {}
    /\ crashes < MaxCrashes /\ crashes' = crashes + 1
    /\ owner' \in {owner, crashes + 1}
    /\ LET open == SetToSeq(Running)
       IN  /\ log' = log \o [i \in DOMAIN open |-> [Plain("result") EXCEPT !.call = open[i]]]
           /\ hist' = [hist EXCEPT !.unlinked = @ \/ open # <<>>]
    /\ pc' = "idle" /\ tx' = NoTx
    /\ UNCHANGED <<ids, deferred>>

Next ==
    \/ \E kind \in {"user", "invocation"} : Input(kind)
    \/ \E changed \in BOOLEAN : PrepareSkills(changed)
    \/ \E n \in 1..MaxCalls : Assistant(n)
    \/ \E call \in CallsMade : Defer(call) \/ \E skill \in BOOLEAN : Answer(call, skill)
    \/ Begin \/ Fails \/ Commit \/ Crash

Spec == Init /\ [][Next]_vars

-----------------------------------------------------------------------------
(* Properties. *)

\* The seqs a message stands for, replacements of replacements included.
Covered(i) == IF log[i].kind = "replace" THEN {i} \cup log[i].srcs ELSE {i}
Expand(S) == UNION {Covered(i) : i \in S}
Stands(i) == Expand(Expand(Expand({i})))
Shown == ToSet(Messages(log))

\* A log the loop wrote projects: the session is not lost to a compaction.  Three
\* histories are excused, in which it can be: a
\* compaction after one of the same generation was abandoned, a crash's results,
\* which name no source, and a deferred call answered after its message was
\* compacted away.
ProjectionSucceeds == Projects(log) \/ hist.abandoned \/ hist.unlinked \/ hist.late

\* Nothing is lost to the model: every event that was ever on the surface is still
\* shown or stood for by a replacement that is, over repeated compactions; only
\* outdated skill catalogs go.
NothingLost ==
    Projects(log) =>
        LET known == UNION {Stands(i) : i \in Shown}
            latest == LatestCatalog(log)
        IN  \A i \in DOMAIN log :
              log[i].kind \in SurfaceKinds => i \in known \/ (log[i].kind = "catalog" /\ i # latest)

\* The messages are in the order of the conversation, a replacement standing at
\* the first event it covers, although it is appended last.
InConversationOrder ==
    Projects(log) =>
        LET messages == Messages(log)
            start == [k \in DOMAIN messages |-> Min(Stands(messages[k]))]
        IN  \A j, k \in DOMAIN messages : j < k => start[j] < start[k]

\* Skill instructions are not compacted: an invocation stays verbatim, and a
\* result that loaded a skill stays together with its message and the other
\* results of that message.
SkillsStayVerbatim ==
    Projects(log) =>
        LET shown == Shown IN \A i \in DOMAIN log :
            /\ log[i].kind = "invocation" => i \in shown
            /\ log[i].kind = "result" /\ log[i].skill =>
                 /\ {i, log[i].call[1]} \subseteq shown
                 /\ \A j \in DOMAIN log : log[j].kind = "result" /\ log[j].call[1] = log[i].call[1] => j \in shown
=============================================================================

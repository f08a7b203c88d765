------------------------------ MODULE Surface ------------------------------
(***************************************************************************)
(* session.Surface.Project: from the event log of a session to the         *)
(* messages the model sees.                                                *)
(*                                                                         *)
(* An event is told apart by what projection looks at: its kind, for an    *)
(* assistant message how many tools it calls, for a result the call and    *)
(* whether the event names the assistant message as its source, and for    *)
(* the four events of a compaction its transaction and its sources.  An    *)
(* event's sequence is its place in the log; a message is the sequence it  *)
(* comes from.  Logs are of format version 2 (the legacy summaries of      *)
(* version 1 and the in-memory CompactedRegion are not written any more),  *)
(* without the events that never reach the model and are no compaction's.  *)
(***************************************************************************)
EXTENDS Integers, Sequences, SequencesExt, FiniteSetsExt

Rank == [start |-> 1, summary |-> 2, replace |-> 3, end |-> 4]

\* EventType.Surface; the replacement is a user/message event.
SurfaceKinds == {"user", "assistant", "result", "invocation", "catalog", "replace"}

NoCall == <<0, 0>>
Plain(kind) ==
    [kind |-> kind, calls |-> 0, call |-> NoCall, linked |-> FALSE, skill |-> FALSE, gen |-> 0, srcs |-> {}]
OfTransaction(kind, gen, srcs) == [Plain(kind) EXCEPT !.gen = gen, !.srcs = srcs]

Seqs(log) == [i \in DOMAIN log |-> i]

IsTransaction(event) == event.kind \in DOMAIN Rank
OfGen(log, gen, kind) == {i \in DOMAIN log : log[i].gen = gen /\ log[i].kind = kind}

-----------------------------------------------------------------------------
(* First pass: the compaction transactions. *)

\* Every event of a transaction comes once, start, summary, replacement, end.
InOrder(log) ==
    \A i \in DOMAIN log : IsTransaction(log[i]) =>
        \A kind \in DOMAIN Rank :
            (\E j \in OfGen(log, log[i].gen, kind) : j < i) <=> Rank[kind] < Rank[log[i].kind]

\* Summary and replacement name the sources the start named.
Matching(log) ==
    \A i \in DOMAIN log : log[i].kind \in {"summary", "replace"} =>
        \A j \in OfGen(log, log[i].gen, "start") : log[j].srcs = log[i].srcs

\* The transactions that take part, and their order: that of their starts.
Sealed(log) == {log[i].gen : i \in {j \in DOMAIN log : log[j].kind = "end"}}

SealedOrder(log) ==
    LET sealed == Sealed(log)
        starts == SelectSeq(Seqs(log), LAMBDA i : log[i].kind = "start" /\ log[i].gen \in sealed)
    IN  [i \in DOMAIN starts |-> log[starts[i]].gen]

\* apply: a generation below one already applied is refused.
Advancing(log) ==
    LET order == SealedOrder(log) IN \A i, j \in DOMAIN order : i < j => order[i] <= order[j]

Sources(log, gen) == UNION {log[i].srcs : i \in OfGen(log, gen, "start")}

\* Mutant: everything up to the last source.
Shadowed_Prefix(log) == {i \in DOMAIN log : \E g \in Sealed(log) : \E s \in Sources(log, g) : i <= s}

Shadowed(log) == UNION {Sources(log, g) : g \in Sealed(log)}

Generation(log) == Max({0} \cup Sealed(log))

\* The assistant message of a result: the source it names, or the message that
\* made the call.
AssistantOf(log, i) == log[i].call[1]

\* validatePairing: call and result are shadowed together.
Paired(log, hidden) ==
    \A i \in DOMAIN log : log[i].kind = "result" => (i \in hidden <=> AssistantOf(log, i) \in hidden)

-----------------------------------------------------------------------------
(* Second pass: the surface. *)

LatestCatalog(log) ==
    Max({0} \cup ({i \in DOMAIN log : log[i].kind = "catalog"} \ Shadowed(log)))

\* Of the catalogs only the latest is shown, unless a replacement stands for it;
\* a replacement is shown when its transaction is sealed.
Nodes(log) ==
    LET sealed == Sealed(log)
        catalogs == Shadowed(log) \cup {LatestCatalog(log)}
    IN  SelectSeq(Seqs(log), LAMBDA i : /\ log[i].kind \in SurfaceKinds
                                        /\ log[i].kind = "catalog" => i \in catalogs
                                        /\ log[i].kind = "replace" => log[i].gen \in sealed)

ReplacementOf(log, gen) == Max(OfGen(log, gen, "replace"))

\* Mutant: the replacement stays where it was appended.
Fold_InPlace(log, nodes, gen) ==
    LET sources == Sources(log, gen) IN SelectSeq(nodes, LAMBDA i : i \notin sources)

\* One replacement takes the place of the first of its sources.
Fold(log, nodes, gen) ==
    LET new     == ReplacementOf(log, gen)
        sources == Sources(log, gen)
        first   == Min({k \in DOMAIN nodes : nodes[k] \in sources})
        Rest(s) == SelectSeq(s, LAMBDA i : i \notin sources /\ i # new)
    IN  Rest(SubSeq(nodes, 1, first - 1)) \o <<new>> \o Rest(SubSeq(nodes, first, Len(nodes)))

Folded(log) == FoldLeft(LAMBDA nodes, gen : Fold(log, nodes, gen), Nodes(log), SealedOrder(log))

\* The fold finds a place for each replacement: a source that is a node and that
\* no earlier replacement took.
Placed(log) ==
    LET nodes == ToSet(Nodes(log))
    IN  \A g \in Sealed(log) :
            Sources(log, g) \cap (nodes \ UNION {Sources(log, h) : h \in Sealed(log) \cap 1..(g - 1)}) # {}

\* Project returns no error.
Projects(log) ==
    /\ InOrder(log) /\ Matching(log) /\ Advancing(log)
    /\ LET hidden == Shadowed(log) IN Paired(log, hidden)
    /\ Placed(log)

\* What Project returns when it does.
Messages(log) == LET hidden == Shadowed(log) IN SelectSeq(Folded(log), LAMBDA i : i \notin hidden)
=============================================================================

------------------------------ MODULE EventHub ------------------------------
(***************************************************************************)
(* agent.EventHub: the process-local fan-out of committed session events   *)
(* to cursor subscriptions, with the writers that feed it.                 *)
(*                                                                         *)
(* A writer commits an event to the durable log and publishes it in a      *)
(* later step.  Handles and approval brokers publish whatever the store    *)
(* returns (appendDurable); a loop first folds the committed event into    *)
(* its cache and publishes only what the cache did not have (appendBatch). *)
(* A client registers with the hub, loads the log after its cursor, folds  *)
(* the two together, and then reads; it may acknowledge, fall behind,      *)
(* close, and subscribe again from its cursor.                             *)
(***************************************************************************)
EXTENDS Integers, Sequences, FiniteSets, Ordered

CONSTANTS Sessions,
          LoopThreads,    \* goroutines inside Loop.appendBatch
          HandleThreads,  \* goroutines inside agent.appendDurable
          Writes,         \* writer -> the session it writes to
          Clients,
          Watches,        \* client -> the session it subscribes to
          Limit,          \* EventHub.limit
          MaxSeq,         \* bound: events committed per session
          MaxSubscribes   \* bound: subscriptions per client

Writers == LoopThreads \cup HandleThreads

ASSUME EventHubAssumption ==
    /\ LoopThreads \cap HandleThreads = {}
    /\ Writes \in [Writers -> Sessions]
    /\ Watches \in [Clients -> Sessions]
    /\ Limit \in Nat \ {0}
    /\ MaxSeq \in Nat
    /\ MaxSubscribes \in Nat

VARIABLES log,      \* session -> for each committed seq, whether the client's filter shows it
          cached,   \* session -> seq of the last event of Loop.events
          writer,   \* writer -> the event it has committed and not yet published
          sub,      \* client -> its current Subscription
          cursor,   \* client -> Subscription.lastSeq, the acknowledged cursor
          seen,     \* client -> the seqs it was ever given (history)
          rounds    \* client -> how often it subscribed

vars == <<log, cached, writer, sub, cursor, seen, rounds>>

Event == [session : Sessions, seq : 1..MaxSeq, shown : BOOLEAN]
EventAt(s, q) == [session |-> s, seq |-> q, shown |-> log[s][q]]
NoEvent == [session |-> CHOOSE s \in Sessions : TRUE, seq |-> 0, shown |-> FALSE]
Idle == [at |-> "idle", event |-> NoEvent]

\* A client without a subscription.  "ch" is the live channel, "backlog" the
\* replay still to be read, "got" the seqs this subscription delivered.
NoSub == [state |-> "none", active |-> FALSE, lagged |-> FALSE, after |-> 0,
          nextSeq |-> 1, pending |-> {}, ch |-> <<>>, backlog |-> <<>>, maxReplay |-> 0,
          deliveredSeq |-> 0, got |-> {}]

Init ==
    /\ log = [s \in Sessions |-> <<>>]
    /\ cached = [s \in Sessions |-> 0]
    /\ writer = [w \in Writers |-> Idle]
    /\ sub = [c \in Clients |-> NoSub]
    /\ cursor = [c \in Clients |-> 0]
    /\ seen = [c \in Clients |-> {}]
    /\ rounds = [c \in Clients |-> 0]

-----------------------------------------------------------------------------
(* The hub, under h.mu. *)

\* Loop.Subscribe's session filter around the caller's.
Filter(c, e) == e.session = Watches[c] /\ e.shown

\* terminateLocked: the channel closes but what it holds can still be read.
Terminate(s, lagged) ==
    IF s.active THEN [s EXCEPT !.active = FALSE, !.lagged = lagged] ELSE s

\* The events f, a function of their sequences, in order.
InSequence(f) == [i \in 1..Cardinality(DOMAIN f) |-> f[Sorted(DOMAIN f)[i]]]

\* Mutant: pending events are left where they are.
FlushPending_Never(c, s) == s

\* flushPendingLocked: hand over the run of pending events that starts at
\* nextSeq; the first shown one that finds the channel full ends the
\* subscription as lagged, those before it stay readable.
FlushPending(c, s) ==
    LET seqs == {e.seq : e \in s.pending}
        run == {q \in seqs : s.nextSeq..q \subseteq seqs}
        wanted == {e.seq : e \in {p \in s.pending : p.seq \in run /\ Filter(c, p)}}
        due == InSequence([q \in wanted |-> CHOOSE e \in s.pending : e.seq = q])
        room == Limit - Len(s.ch)
    IN  IF Len(due) <= room
          THEN [s EXCEPT !.ch = @ \o due, !.nextSeq = @ + Cardinality(run),
                         !.pending = {e \in @ : e.seq \notin run}]
          ELSE Terminate([s EXCEPT !.ch = @ \o SubSeq(due, 1, room)], TRUE)

\* Mutant: an event that arrives early is handed over at once.
Offer_NoReorder(c, s, e) ==
    CASE ~s.active \/ e.seq < s.nextSeq -> s
      [] ~Filter(c, e) -> FlushPending(c, [s EXCEPT !.nextSeq = e.seq + 1])
      [] Len(s.ch) = Limit -> Terminate(s, TRUE)
      [] OTHER -> FlushPending(c, [s EXCEPT !.ch = Append(@, e), !.nextSeq = e.seq + 1])

\* Mutant: nothing bounds the events held back for a missing one.
Offer_Unbounded(c, s, e) ==
    CASE ~s.active \/ e.seq < s.nextSeq -> s
      [] e.seq > s.nextSeq -> [s EXCEPT !.pending = {p \in @ : p.seq # e.seq} \cup {e}]
      [] ~Filter(c, e) -> FlushPending(c, [s EXCEPT !.nextSeq = @ + 1])
      [] Len(s.ch) = Limit -> Terminate(s, TRUE)
      [] OTHER -> FlushPending(c, [s EXCEPT !.ch = Append(@, e), !.nextSeq = @ + 1])

\* What Publish does to one subscription.
Offer(c, s, e) ==
    IF ~s.active \/ e.seq < s.nextSeq THEN s
    ELSE IF e.seq > s.nextSeq THEN
         LET held == [s EXCEPT !.pending = {p \in @ : p.seq # e.seq} \cup {e}]
         IN  IF Cardinality(held.pending) > Limit THEN Terminate(held, TRUE) ELSE held
    ELSE IF ~Filter(c, e) THEN FlushPending(c, [s EXCEPT !.nextSeq = @ + 1])
    ELSE IF Len(s.ch) = Limit THEN Terminate(s, TRUE)
    ELSE FlushPending(c, [s EXCEPT !.ch = Append(@, e), !.nextSeq = @ + 1])

-----------------------------------------------------------------------------
(* Writers. *)

\* The store assigns the next sequence.
Commit(w) ==
    LET s == Writes[w] IN
    /\ writer[w] = Idle
    /\ Len(log[s]) < MaxSeq
    /\ \E shown \in BOOLEAN :
         /\ log' = [log EXCEPT ![s] = Append(@, shown)]
         /\ writer' = [writer EXCEPT ![w] =
              [at |-> "committed",
               event |-> [session |-> s, seq |-> Len(log[s]) + 1, shown |-> shown]]]
    /\ UNCHANGED <<cached, sub, cursor, seen, rounds>>

\* A retried append: the store returns the prior copy of an ID it already has.
Recommit(w) ==
    LET s == Writes[w] IN
    /\ writer[w] = Idle
    /\ \E q \in DOMAIN log[s] :
         writer' = [writer EXCEPT ![w] = [at |-> "committed", event |-> EventAt(s, q)]]
    /\ UNCHANGED <<log, cached, sub, cursor, seen, rounds>>

\* appendBatch folds the committed event into the loop's cache; an event the
\* cache has already passed is neither kept nor published.
FoldIntoCache(w) ==
    LET e == writer[w].event IN
    /\ w \in LoopThreads
    /\ writer[w].at = "committed"
    /\ IF e.seq > cached[e.session]
         THEN /\ cached' = [cached EXCEPT ![e.session] = e.seq]
              /\ writer' = [writer EXCEPT ![w].at = "folded"]
         ELSE /\ writer' = [writer EXCEPT ![w] = Idle]
              /\ UNCHANGED cached
    /\ UNCHANGED <<log, sub, cursor, seen, rounds>>

\* EventHub.Publish: every subscription sees the event under one lock.
Publish(w) ==
    /\ writer[w].at = IF w \in LoopThreads THEN "folded" ELSE "committed"
    /\ sub' = [c \in Clients |-> Offer(c, sub[c], writer[w].event)]
    /\ writer' = [writer EXCEPT ![w] = Idle]
    /\ UNCHANGED <<log, cached, cursor, seen, rounds>>

-----------------------------------------------------------------------------
(* Clients. *)

\* EventHub.subscribe, from the acknowledged cursor.  A client comes back once
\* its previous subscription has ended and it has read what that one held.
Subscribe(c) ==
    /\ rounds[c] < MaxSubscribes
    /\ sub[c].state = "none"
    /\ sub' = [sub EXCEPT ![c] =
         [NoSub EXCEPT !.state = "registered", !.active = TRUE, !.after = cursor[c],
                       !.nextSeq = cursor[c] + 1, !.maxReplay = cursor[c],
                       !.deliveredSeq = cursor[c]]]
    /\ rounds' = [rounds EXCEPT ![c] = @ + 1]
    /\ UNCHANGED <<log, cached, writer, cursor, seen>>

\* SubscribeCursor's loader: the log after the cursor, in sequence order.
Load(c) ==
    LET s == Watches[c]
        replay == {q \in (sub[c].after + 1)..Len(log[s]) : Filter(c, EventAt(s, q))}
    IN
    /\ sub[c].state = "registered"
    /\ sub' = [sub EXCEPT ![c] =
         [@ EXCEPT !.state = "loaded", !.maxReplay = Len(log[s]),
                   !.backlog = InSequence([q \in replay |-> EventAt(s, q)])]]
    /\ UNCHANGED <<log, cached, writer, cursor, seen, rounds>>

\* SubscribeCursor's last section: move the live cursor past the replay and
\* flush what raced with the load.
FoldReplay(c) ==
    LET s == sub[c]
        top == IF s.maxReplay + 1 > s.nextSeq THEN s.maxReplay + 1 ELSE s.nextSeq
    IN
    /\ s.state = "loaded"
    /\ sub' = [sub EXCEPT ![c] =
         IF s.active
           THEN FlushPending(c, [s EXCEPT !.state = "open", !.nextSeq = top,
                                          !.pending = {e \in @ : e.seq >= top}])
           ELSE [s EXCEPT !.state = "open"]]
    /\ UNCHANGED <<log, cached, writer, cursor, seen, rounds>>

\* One event handed to Next: skipped when its seq was already delivered.
Deliver(c, s, e) ==
    IF e.seq <= s.deliveredSeq THEN s
    ELSE [s EXCEPT !.deliveredSeq = e.seq, !.got = @ \cup {e.seq}]

\* Subscription.Next: the replay first, then the live channel.
NextEvent(c) ==
    LET s == sub[c]
        fromBacklog == s.backlog # <<>>
        e == IF fromBacklog THEN Head(s.backlog) ELSE Head(s.ch)
        read == IF fromBacklog THEN [s EXCEPT !.backlog = Tail(@)]
                               ELSE [s EXCEPT !.ch = Tail(@)]
    IN
    /\ s.state = "open"
    /\ s.backlog # <<>> \/ s.ch # <<>>
    /\ sub' = [sub EXCEPT ![c] = Deliver(c, read, e)]
    /\ seen' = [seen EXCEPT ![c] = @ \cup (sub'[c].got \ s.got)]
    /\ UNCHANGED <<log, cached, writer, cursor, rounds>>

\* Next on a closed and drained channel: ErrSubscriberLagged or Canceled; the
\* client gives the subscription up.
NextClosed(c) ==
    /\ sub[c].state = "open"
    /\ ~sub[c].active
    /\ sub[c].backlog = <<>> /\ sub[c].ch = <<>>
    /\ sub' = [sub EXCEPT ![c] = NoSub]
    /\ UNCHANGED <<log, cached, writer, cursor, seen, rounds>>

\* Mutant: the acknowledged cursor runs ahead of what was delivered.
Acknowledge_Unclamped(c, seq) ==
    /\ sub[c].state = "open"
    /\ cursor' = [cursor EXCEPT ![c] = IF seq > @ THEN seq ELSE @]
    /\ UNCHANGED <<log, cached, writer, sub, seen, rounds>>

\* Subscription.Acknowledge: at most what was delivered, never backwards.
Acknowledge(c, seq) ==
    LET clamped == IF seq > sub[c].deliveredSeq THEN sub[c].deliveredSeq ELSE seq IN
    /\ sub[c].state = "open"
    /\ cursor' = [cursor EXCEPT ![c] = IF clamped > @ THEN clamped ELSE @]
    /\ UNCHANGED <<log, cached, writer, sub, seen, rounds>>

\* Subscription.Close, or the end of the subscriber's context.
Close(c) ==
    /\ sub[c].active
    /\ sub' = [sub EXCEPT ![c] = Terminate(@, FALSE)]
    /\ UNCHANGED <<log, cached, writer, cursor, seen, rounds>>

Next ==
    \/ \E w \in Writers : Commit(w) \/ Recommit(w) \/ FoldIntoCache(w) \/ Publish(w)
    \/ \E c \in Clients :
        \/ Subscribe(c) \/ Load(c) \/ FoldReplay(c) \/ NextEvent(c) \/ NextClosed(c) \/ Close(c)
        \/ \E seq \in 1..MaxSeq : Acknowledge(c, seq)

Spec == Init /\ [][Next]_vars

\* A writer that committed goes on to publish, Subscribe runs to its end and the
\* client keeps calling Next; nobody has to commit, acknowledge or close.
FairSpec ==
    /\ Spec
    /\ \A w \in Writers : WF_vars(FoldIntoCache(w)) /\ WF_vars(Publish(w))
    /\ \A c \in Clients : WF_vars(Load(c)) /\ WF_vars(FoldReplay(c)) /\ WF_vars(NextEvent(c))

-----------------------------------------------------------------------------
(* Properties. *)

Shown(c, S) == {q \in S : q <= Len(log[Watches[c]]) /\ log[Watches[c]][q]}

Subscriptions ==
    [state : {"none", "registered", "loaded", "open"}, active : BOOLEAN, lagged : BOOLEAN,
     after : 0..MaxSeq, nextSeq : 1..(MaxSeq + 1), pending : SUBSET Event, ch : Seq(Event),
     backlog : Seq(Event), maxReplay : 0..MaxSeq, deliveredSeq : 0..MaxSeq,
     got : SUBSET (1..MaxSeq)]

\* Types, with the channel and the reorder buffer inside the hub's limit while
\* the subscription is alive: a slow observer never makes the hub grow
\* (events.go:97-99).
TypeOK ==
    /\ log \in [Sessions -> Seq(BOOLEAN)]
    /\ cached \in [Sessions -> 0..MaxSeq]
    /\ \A s \in Sessions : Len(log[s]) <= MaxSeq
    /\ writer \in [Writers -> [at : {"idle", "committed", "folded"}, event : Event \cup {NoEvent}]]
    /\ sub \in [Clients -> Subscriptions]
    /\ \A c \in Clients :
         Len(sub[c].ch) <= Limit /\ (sub[c].active => Cardinality(sub[c].pending) <= Limit)
    /\ cursor \in [Clients -> 0..MaxSeq]
    /\ seen \in [Clients -> SUBSET (1..MaxSeq)]
    /\ rounds \in [Clients -> 0..MaxSubscribes]

\* "Subscription delivers committed durable events in sequence order"
\* (events.go:187) and "the replay/live handoff has no gap" (events.go:202): what
\* a subscription has delivered is exactly the shown events between its cursor
\* and the last one delivered.
NoGap ==
    \A c \in Clients :
        sub[c].got = Shown(c, (sub[c].after + 1)..sub[c].deliveredSeq)

\* Across lags, closes and reconnects a client was given every shown event its
\* cursor covers: acknowledging never skips one.
AcknowledgedWasSeen ==
    \A c \in Clients : Shown(c, 1..cursor[c]) \subseteq seen[c]

\* A committed event reaches every client that is subscribed, unless the
\* subscription ends and the client is told to replay.
EventuallyDelivered ==
    \A c \in Clients : \A q \in 1..MaxSeq :
        (sub[c].active /\ sub[c].after < q /\ q \in Shown(c, {q}))
            ~> (q \in seen[c] \/ ~sub[c].active)
=============================================================================

--------------------------- MODULE ToolTurn_proofs ---------------------------
(***************************************************************************)
(* Safety of the loop for any number of calls, turns, steps and leases,    *)
(* and that it implements CallLifecycle.                                   *)
(***************************************************************************)
EXTENDS ToolTurn, TLAPS

\* No call is both approved and deferred; the run tool_turn_reexec shows what
\* happens otherwise.
Apart == (Asks \cup PostAsks) \cap Defers = {}

\* The last side-effect barrier or deferral of a call, and whether its body may
\* have started since.
LastBarrier(c) == LastOf({"dispatched", "deferred", "resume_started"}, c)
Behind(c) ==
    \/ LastBarrier(c).type = "dispatched"
    \/ LastBarrier(c).type = "resume_started" /\ LastBarrier(c).info = "executed"

\* The registry works on the call.
Live(c) == task[c] \notin {"none", "settled"}

-----------------------------------------------------------------------------
(* The invariant, for one call and for the worker. *)

\* Whatever is known of a call or done for it comes after its tool/call.
TracedInv(c) ==
    /\ \A t \in EventTypes : Has(t, c) => Has("tool_call", c)
    /\ Live(c) \/ c \in worker.todo => Has("tool_call", c)

\* A call that needs an approval gets past the question only with a durable yes.
ApprovedInv(c) ==
    \/ runs[c] > 0
    \/ c \in zombies
    \/ task[c] \in {"cleared", "armed", "running", "postAsking"}
    => Approved(c)

\* What the log says of a call fits together.
EventInv(c) ==
    /\ Has("deferred", c) => c \in Defers /\ LastBarrier(c).type # "dispatched"
    /\ LastBarrier(c).type = "dispatched" => LastBarrier(c).info = ""
    /\ Has("resume_started", c) => Has("deferred", c)
    /\ Has("approval_requested", c) => c \in Asks \cup PostAsks
    /\ Decided(c) => Has("approval_requested", c)

\* Calls the model has not made, and calls of a batch not started yet.
FreshInv(c) ==
    /\ c > used => \A t \in EventTypes : ~Has(t, c)
    /\ worker.pc = "admit" /\ c \in worker.batch =>
          c <= used /\ LastBarrier(c).type = "none" /\ ~Has("result", c)

\* A live call is of the worker's batch and nobody else's, and has no result.
LiveInv(c) ==
    Live(c) => /\ worker.pc = "tools" /\ c \in worker.batch /\ c \notin worker.todo
               /\ c \notin zombies /\ ~Has("result", c)

\* A call to be resumed waits for it, unless it has its result.
TodoInv(c) ==
    c \in worker.todo =>
        /\ Has("deferred", c)
        /\ \/ Has("result", c)
           \/ LastBarrier(c).type = "deferred"
           \/ /\ worker.materialized /\ LastBarrier(c).type = "resume_started"
              /\ LastBarrier(c).info = "materialized"

\* A body starts behind a barrier, and once; a late one has not started.
StartInv(c) ==
    /\ runs[c] \in {0, 1}
    /\ runs[c] = 1 => Behind(c)
    /\ c \in zombies => Behind(c) /\ runs[c] = 0

\* How far the registry is with a call.
StageInv(c) ==
    /\ task[c] \in Undispatched =>
          /\ runs[c] = 0
          /\ \/ worker.op = "batch" /\ Behind(c)
             \/ worker.op \in {"run", "approval"} /\ LastBarrier(c).type = "none"
    /\ task[c] = "armed" => runs[c] = 0 /\ Behind(c)
    /\ task[c] \in {"running", "postAsking"} => Behind(c)
    /\ task[c] = "postAsking" => c \in PostAsks
    /\ task[c] = "aborted" \/ (task[c] = "denied" /\ c \notin PostAsks) => runs[c] = 0
    /\ task[c] = "deferred" => c \in Defers

\* A result that denies the body is true for good; a late body knows no result
\* but that of recovery.
ResultInv(c) ==
    /\ HasInfo("result", c, "aborted") \/ (HasInfo("result", c, "denied") /\ c \notin PostAsks)
          => runs[c] = 0 /\ c \notin zombies
    /\ c \in zombies /\ Has("result", c) => HasInfo("result", c, "unknown")

FinalInv(c) ==
    \A i \in Positions({"result"}, c) :
        \A j \in Positions({"result", "dispatched", "resume_started", "deferred"}, c) : j <= i

CallInv(c) ==
    /\ EventInv(c) /\ FreshInv(c) /\ LiveInv(c) /\ TodoInv(c)
    /\ StartInv(c) /\ StageInv(c) /\ ResultInv(c) /\ FinalInv(c)

\* Which entry point is where.
WorkerInv ==
    /\ worker.pc = "recover" => worker.op \in {"run", "batch", "single"}
    /\ worker.pc \in {"begin", "steps", "model", "failStep", "admit", "endTurn"} => worker.op = "run"
    /\ worker.pc \in {"resume", "resuming"} => worker.op \in {"batch", "single"}
    /\ worker.pc = "approve" => worker.op = "approval"
    /\ worker.op \notin {"batch", "single"} \/ worker.pc = "closeStep" => worker.todo = {}

TracesInv == TypeOK /\ \A c \in Calls : TracedInv(c)
ApprovalInv == \A c \in Asks : ApprovedInv(c)

BaseInv == TracesInv /\ ApprovalInv

TurnInv == BaseInv /\ WorkerInv /\ \A c \in Calls : CallInv(c)

-----------------------------------------------------------------------------
(* What a step does to the log, as far as one call is concerned. *)

Barriers == {"dispatched", "deferred", "resume_started"}

\* c is behind a barrier without an outcome; that is the last thing read of it.
Open(c) == Behind(c) /\ ~Has("result", c)
Found(c) ==
    LastOf({"dispatched", "deferred", "resume_started", "result", "approval_requested"}, c) = LastBarrier(c)

\* Only the last barrier of a call lacks an outcome or a deferral behind it.
IsBarrier(e) == e.type = "dispatched" \/ (e.type = "resume_started" /\ e.info = "executed")
SettledInv(c) ==
    \/ Open(c)
    \/ \A i \in Positions({"dispatched", "resume_started"}, c) :
          IsBarrier(log[i]) => \E j \in Positions({"result", "deferred"}, c) : i < j

\* The step says nothing of c.
Same(c) ==
    /\ LastBarrier(c)' = LastBarrier(c)
    /\ \A t : Has(t, c)' <=> Has(t, c)
    /\ \A t, x : HasInfo(t, c, x)' <=> HasInfo(t, c, x)
    /\ FinalInv(c) => FinalInv(c)'
    /\ SettledInv(c) => SettledInv(c)'
    /\ Found(c) => Found(c)'

\* It says one thing of c.
Wrote(c, t, x) ==
    /\ IF t \in Barriers THEN LastBarrier(c)'.type = t /\ LastBarrier(c)'.info = x
                         ELSE LastBarrier(c)' = LastBarrier(c)
    /\ \A s : Has(s, c)' <=> Has(s, c) \/ s = t
    /\ \A s, y : HasInfo(s, c, y)' <=> HasInfo(s, c, y) \/ (s = t /\ y = x)
    /\ FinalInv(c) /\ (~Has("result", c) \/ t \notin Barriers \cup {"result"}) => FinalInv(c)'
    /\ SettledInv(c) /\ (t \in {"dispatched", "resume_started"} => ~Has("result", c) /\ ~Behind(c)) => SettledInv(c)'
    /\ t \in Barriers \/ (Found(c) /\ t \notin {"result", "approval_requested"}) => Found(c)'

\* Some events are all of a kind, have none of c, or one, e.
AllIn(s, S) == \A k \in DOMAIN s : s[k] \in S
Silent(s, c) == \A k \in DOMAIN s : s[k].call # c
Lone(s, c, e) == \E k \in DOMAIN s : s[k] = e /\ \A j \in DOMAIN s : s[j].call = c => j = k

-----------------------------------------------------------------------------
(* Reading the log, and appending to it. *)

LEMMA MaxProps ==
  ASSUME NEW S \in SUBSET Int, IsFiniteSet(S), S # {}
  PROVE  Max(S) \in S /\ \A y \in S : Max(S) >= y
  <1> DEFINE n == Cardinality(S)
  <1>1. /\ n \in Nat /\ n # 0 /\ Sorted(S) \in [1..n -> S]
        /\ \A i, j \in 1..n : i < j => Sorted(S)[i] < Sorted(S)[j]
        /\ \A m \in S : \E k \in 1..n : Sorted(S)[k] = m
    BY SortedProps, FS_EmptySet
  <1> HIDE DEF n
  <1>2. n \in 1..n /\ Sorted(S)[n] \in S
    BY <1>1
  <1>3. ASSUME NEW y \in S PROVE Sorted(S)[n] >= y
    <2>1. PICK k \in 1..n : Sorted(S)[k] = y
      BY <1>1
    <2>2. k = n \/ k < n
      BY <1>1
    <2>3. y = Sorted(S)[n] \/ y < Sorted(S)[n]
      BY <1>1, <1>2, <2>1, <2>2
    <2>4. y \in Int /\ Sorted(S)[n] \in Int
      BY <1>2
    <2> QED BY <2>3, <2>4
  <1>4. \E x \in S : \A y \in S : x >= y
    BY <1>2, <1>3
  <1> QED BY <1>4 DEF Max

LEMMA MinProps ==
  ASSUME NEW S \in SUBSET Int, IsFiniteSet(S), S # {}
  PROVE  Min(S) \in S
  <1> DEFINE n == Cardinality(S)
  <1>1. /\ n \in Nat /\ n # 0 /\ Sorted(S) \in [1..n -> S]
        /\ \A i, j \in 1..n : i < j => Sorted(S)[i] < Sorted(S)[j]
        /\ \A m \in S : \E k \in 1..n : Sorted(S)[k] = m
    BY SortedProps, FS_EmptySet
  <1> HIDE DEF n
  <1>2. 1 \in 1..n /\ Sorted(S)[1] \in S
    BY <1>1
  <1>3. ASSUME NEW y \in S PROVE Sorted(S)[1] =< y
    <2>1. PICK k \in 1..n : Sorted(S)[k] = y
      BY <1>1
    <2>2. k = 1 \/ 1 < k
      BY <1>1
    <2>3. y = Sorted(S)[1] \/ Sorted(S)[1] < y
      BY <1>1, <1>2, <2>1, <2>2
    <2>4. y \in Int /\ Sorted(S)[1] \in Int
      BY <1>2
    <2> QED BY <2>3, <2>4
  <1>4. \E x \in S : \A y \in S : x =< y
    BY <1>2, <1>3
  <1> QED BY <1>4 DEF Min

\* A reader looks at finitely many places.
LEMMA PlacesFinite ==
  ASSUME TypeOK, NEW S \in SUBSET DOMAIN log
  PROVE  S \in SUBSET Int /\ IsFiniteSet(S) /\ Cardinality(S) \in Nat
  <1>1. Len(log) \in Nat /\ DOMAIN log = 1..Len(log)
    BY DEF TypeOK
  <1>2. IsFiniteSet(1..Len(log))
    BY <1>1, FS_Interval
  <1>3. IsFiniteSet(S)
    BY <1>1, <1>2, FS_Subset
  <1> QED BY <1>1, <1>3, FS_CardinalityType

\* The last event of some types is one of them, and none comes behind it.
LEMMA LastProps ==
  ASSUME TypeOK, NEW T, NEW c, "none" \notin T
  PROVE  /\ Positions(T, c) = {} => LastOf(T, c).type = "none"
         /\ Positions(T, c) # {} =>
              /\ Max(Positions(T, c)) \in Positions(T, c) /\ LastOf(T, c) = log[Max(Positions(T, c))]
              /\ \A i \in Positions(T, c) : i <= Max(Positions(T, c))
              /\ LastOf(T, c).type \in T /\ LastOf(T, c).call = c
              /\ LastOf(T, c) \in Events
  <1>1. Positions(T, c) \in SUBSET DOMAIN log
    BY DEF Positions
  <1>2. Positions(T, c) \in SUBSET Int /\ IsFiniteSet(Positions(T, c))
    BY <1>1, PlacesFinite
  <1>3. CASE Positions(T, c) = {}
    BY <1>3 DEF LastOf, Ev
  <1>4. CASE Positions(T, c) # {}
    <2> DEFINE m == Max(Positions(T, c))
    <2>1. m \in Positions(T, c) /\ \A i \in Positions(T, c) : m >= i
      BY <1>2, <1>4, MaxProps
    <2> HIDE DEF m
    <2>2. m \in DOMAIN log /\ log[m].type \in T /\ log[m].call = c
      BY <2>1 DEF Positions
    <2>3. log[m] \in Events
      BY <2>2 DEF TypeOK
    <2>4. LastOf(T, c) = log[m]
      BY <1>4 DEF LastOf, m
    <2>5. \A i \in Positions(T, c) : i <= m
      BY <1>2, <2>1
    <2> QED BY <2>1, <2>2, <2>3, <2>4 DEF m
  <1> QED BY <1>3, <1>4

\* The log grows at its end.
LEMMA AppendShape ==
  ASSUME TypeOK, NEW evs \in Seq(Events), log' = log \o evs
  PROVE  /\ log' \in Seq(Events) /\ Len(log) \in Nat /\ Len(evs) \in Nat
         /\ DOMAIN log = 1..Len(log) /\ DOMAIN evs = 1..Len(evs)
         /\ DOMAIN log' = 1..(Len(log) + Len(evs))
         /\ \A i \in DOMAIN log : i \in DOMAIN log' /\ log'[i] = log[i]
         /\ \A k \in DOMAIN evs : Len(log) + k \in DOMAIN log' /\ log'[Len(log) + k] = evs[k]
         /\ \A i \in DOMAIN log' : i \in DOMAIN log \/ \E k \in DOMAIN evs : i = Len(log) + k
  <1>1. log \in Seq(Events)
    BY DEF TypeOK
  <1>2. /\ Len(log) \in Nat /\ Len(evs) \in Nat /\ DOMAIN log = 1..Len(log) /\ DOMAIN evs = 1..Len(evs)
        /\ log' \in Seq(Events) /\ Len(log') = Len(log) + Len(evs)
    BY <1>1
  <1>3. DOMAIN log' = 1..(Len(log) + Len(evs))
    BY <1>2
  <1>4. ASSUME NEW i \in DOMAIN log PROVE i \in DOMAIN log' /\ log'[i] = log[i]
    BY <1>1, <1>2, <1>3
  <1>5. ASSUME NEW k \in DOMAIN evs PROVE Len(log) + k \in DOMAIN log' /\ log'[Len(log) + k] = evs[k]
    BY <1>1, <1>2, <1>3
  <1>6. ASSUME NEW i \in DOMAIN log', i \notin DOMAIN log PROVE \E k \in DOMAIN evs : i = Len(log) + k
    <2>1. i - Len(log) \in DOMAIN evs /\ i = Len(log) + (i - Len(log))
      BY <1>2, <1>3, <1>6
    <2> QED BY <2>1
  <1> QED BY <1>2, <1>3, <1>4, <1>5, <1>6

\* Readers that look for other events find what they found.
LEMMA Unread ==
  ASSUME TypeOK, NEW evs \in Seq(Events), log' = log \o evs, NEW T, NEW c,
         \A k \in DOMAIN evs : ~(evs[k].type \in T /\ evs[k].call = c)
  PROVE  /\ Positions(T, c)' = Positions(T, c)
         /\ LastOf(T, c)' = LastOf(T, c)
         /\ \A i \in Positions(T, c) : log'[i] = log[i]
  <1>1. /\ \A i \in DOMAIN log : i \in DOMAIN log' /\ log'[i] = log[i]
        /\ \A k \in DOMAIN evs : log'[Len(log) + k] = evs[k]
        /\ \A i \in DOMAIN log' : i \in DOMAIN log \/ \E k \in DOMAIN evs : i = Len(log) + k
    BY AppendShape
  <1>2. Positions(T, c)' = Positions(T, c)
    BY <1>1 DEF Positions
  <1>3. \A i \in Positions(T, c) : log'[i] = log[i]
    BY <1>1 DEF Positions
  <1>4. LastOf(T, c)' = LastOf(T, c)
    <2>1. CASE Positions(T, c) = {}
      BY <1>2, <2>1 DEF LastOf, Ev
    <2>2. CASE Positions(T, c) # {}
      <3>1. Positions(T, c) \in SUBSET DOMAIN log
        BY DEF Positions
      <3>2. Positions(T, c) \in SUBSET Int /\ IsFiniteSet(Positions(T, c))
        BY <3>1, PlacesFinite
      <3>3. Max(Positions(T, c)) \in Positions(T, c)
        BY <2>2, <3>2, MaxProps
      <3>4. LastOf(T, c) = log[Max(Positions(T, c))] /\ LastOf(T, c)' = log'[Max(Positions(T, c))]
        BY <1>2, <2>2 DEF LastOf
      <3> QED BY <1>3, <3>3, <3>4
    <2> QED BY <2>1, <2>2
  <1> QED BY <1>2, <1>3, <1>4

LEMMA StillSame ==
  ASSUME log' = log, NEW c
  PROVE  Same(c)
  <1>1. \A T : Positions(T, c)' = Positions(T, c)
    BY DEF Positions
  <1>2. LastBarrier(c)' = LastBarrier(c)
    <2>1. ASSUME NEW T PROVE LastOf(T, c)' = LastOf(T, c)
      <3>1. Positions(T, c)' = Positions(T, c)
        BY <1>1
      <3> QED BY <3>1 DEF LastOf
    <2> QED BY <2>1 DEF LastBarrier
  <1>3. \A t : Has(t, c)' <=> Has(t, c)
    BY <1>1 DEF Has
  <1>4. \A t, x : HasInfo(t, c, x)' <=> HasInfo(t, c, x)
    BY <1>1 DEF HasInfo
  <1>5. FinalInv(c) => FinalInv(c)'
    BY <1>1 DEF FinalInv
  <1>6. Open(c)' <=> Open(c)
    BY <1>2, <1>3 DEF Open, Behind
  <1>7. SettledInv(c) => SettledInv(c)'
    BY <1>1, <1>6 DEF SettledInv
  <1>8. Found(c) => Found(c)'
    <2>1. ASSUME NEW T PROVE LastOf(T, c)' = LastOf(T, c)
      <3>1. Positions(T, c)' = Positions(T, c)
        BY <1>1
      <3> QED BY <3>1 DEF LastOf
    <2> QED BY <1>2, <2>1 DEF Found
  <1> QED BY <1>2, <1>3, <1>4, <1>5, <1>7, <1>8 DEF Same

LEMMA SilentSame ==
  ASSUME TypeOK, NEW evs \in Seq(Events), log' = log \o evs, NEW c, Silent(evs, c)
  PROVE  Same(c)
  <1>1. ASSUME NEW T
        PROVE  /\ Positions(T, c)' = Positions(T, c) /\ LastOf(T, c)' = LastOf(T, c)
               /\ \A i \in Positions(T, c) : log'[i] = log[i]
    <2>1. \A k \in DOMAIN evs : ~(evs[k].type \in T /\ evs[k].call = c)
      BY DEF Silent
    <2> QED BY <2>1, Unread
  <1>3. \A t : Has(t, c)' <=> Has(t, c)
    BY <1>1 DEF Has
  <1>4. \A t, x : HasInfo(t, c, x)' <=> HasInfo(t, c, x)
    BY <1>1 DEF HasInfo
  <1>5. FinalInv(c) => FinalInv(c)'
    BY <1>1 DEF FinalInv
  <1>6. LastBarrier(c)' = LastBarrier(c)
    BY <1>1 DEF LastBarrier
  <1>7. Open(c)' <=> Open(c)
    BY <1>3, <1>6 DEF Open, Behind
  <1>8. SettledInv(c) => SettledInv(c)'
    <2> DEFINE B == {"dispatched", "resume_started"}
               S == {"result", "deferred"}
    <2>1. /\ Positions(B, c)' = Positions(B, c) /\ Positions(S, c)' = Positions(S, c)
          /\ \A i \in Positions(B, c) : log'[i] = log[i]
      <3> HIDE DEF B, S
      <3> QED BY <1>1
    <2>2. \A i \in Positions(B, c) : IsBarrier(log[i])' <=> IsBarrier(log[i])
      BY <2>1 DEF IsBarrier
    <2> QED BY <1>7, <2>1, <2>2 DEF SettledInv
  <1>9. Found(c) => Found(c)'
    <2> DEFINE U == {"dispatched", "deferred", "resume_started", "result", "approval_requested"}
    <2>1. LastOf(U, c)' = LastOf(U, c)
      <3> HIDE DEF U
      <3> QED BY <1>1
    <2> QED BY <1>6, <2>1 DEF Found
  <1> QED BY <1>3, <1>4, <1>5, <1>6, <1>8, <1>9 DEF Same

LEMMA LoneWrote ==
  ASSUME TypeOK, NEW evs \in Seq(Events), log' = log \o evs, NEW c, NEW e, e.call = c, Lone(evs, c, e)
  PROVE  Wrote(c, e.type, e.info)
  <1>0. PICK k \in DOMAIN evs : evs[k] = e /\ \A j \in DOMAIN evs : evs[j].call = c => j = k
    BY DEF Lone
  <1>1. /\ log' \in Seq(Events) /\ Len(log) \in Nat /\ k \in Nat /\ k >= 1
        /\ DOMAIN log = 1..Len(log) /\ DOMAIN log' = 1..(Len(log) + Len(evs)) /\ Len(evs) \in Nat
        /\ \A i \in DOMAIN log : i \in DOMAIN log' /\ log'[i] = log[i]
        /\ \A j \in DOMAIN evs : Len(log) + j \in DOMAIN log' /\ log'[Len(log) + j] = evs[j]
        /\ \A i \in DOMAIN log' : i \in DOMAIN log \/ \E j \in DOMAIN evs : i = Len(log) + j
    <2>1. k \in Nat /\ k >= 1
      OBVIOUS
    <2> QED BY <2>1, AppendShape
  <1> DEFINE n == Len(log) + k
  <1>2. n \in DOMAIN log' /\ log'[n] = e /\ n \in Int /\ \A i \in DOMAIN log : i < n
    BY <1>0, <1>1
  <1> HIDE DEF n
  <1>3. ASSUME NEW T, e.type \in T
        PROVE  Positions(T, c)' = Positions(T, c) \cup {n}
    <2>1. ASSUME NEW i \in DOMAIN log', log'[i].call = c PROVE i \in DOMAIN log \/ i = n
      BY <1>0, <1>1, <2>1 DEF n
    <2>2. Positions(T, c)' \subseteq Positions(T, c) \cup {n}
      BY <1>1, <1>3, <2>1 DEF Positions
    <2>3. Positions(T, c) \cup {n} \subseteq Positions(T, c)'
      BY <1>1, <1>2, <1>3 DEF Positions
    <2> QED BY <2>2, <2>3
  <1>4. ASSUME NEW T, e.type \notin T
        PROVE  Positions(T, c)' = Positions(T, c) /\ LastOf(T, c)' = LastOf(T, c)
    <2>1. \A j \in DOMAIN evs : ~(evs[j].type \in T /\ evs[j].call = c)
      BY <1>0, <1>4
    <2> QED BY <2>1, Unread
  <1>5. \A T : \A i \in Positions(T, c) : i \in DOMAIN log /\ log'[i] = log[i] /\ i < n
    BY <1>1, <1>2 DEF Positions
  <1>6. \A s : Has(s, c)' <=> Has(s, c) \/ s = e.type
    <2>1. ASSUME NEW s, s = e.type PROVE Has(s, c)'
      BY <1>3, <2>1 DEF Has
    <2>2. ASSUME NEW s, s # e.type PROVE Has(s, c)' <=> Has(s, c)
      BY <1>4, <2>2 DEF Has
    <2> QED BY <2>1, <2>2
  <1>7. \A s, y : HasInfo(s, c, y)' <=> HasInfo(s, c, y) \/ (s = e.type /\ y = e.info)
    <2>1. ASSUME NEW s, NEW y, s = e.type PROVE HasInfo(s, c, y)' <=> HasInfo(s, c, y) \/ y = e.info
      <3>1. Positions({s}, c)' = Positions({s}, c) \cup {n}
        BY <1>3, <2>1
      <3> QED BY <1>2, <1>5, <3>1 DEF HasInfo
    <2>2. ASSUME NEW s, NEW y, s # e.type PROVE HasInfo(s, c, y)' <=> HasInfo(s, c, y)
      <3>1. Positions({s}, c)' = Positions({s}, c)
        BY <1>4, <2>2
      <3> QED BY <1>5, <3>1 DEF HasInfo
    <2> QED BY <2>1, <2>2
  <1>t. ASSUME NEW T, e.type \in T PROVE LastOf(T, c)' = e
    <2> DEFINE P == Positions(T, c)
    <2>1. Positions(T, c)' = P \cup {n}
      BY <1>3, <1>t
    <2>2. P \in SUBSET DOMAIN log
      BY DEF Positions
    <2> HIDE DEF P
    <2>3. \A i \in P : i \in DOMAIN log /\ i < n
      BY <1>5 DEF P
    <2>4. P \in SUBSET Int /\ IsFiniteSet(P)
      BY <2>2, PlacesFinite
    <2>5. P \cup {n} \in SUBSET Int /\ IsFiniteSet(P \cup {n}) /\ P \cup {n} # {}
      BY <1>2, <2>4, FS_AddElement
    <2>6. Max(P \cup {n}) \in P \cup {n} /\ Max(P \cup {n}) >= n
      BY <2>5, MaxProps
    <2>7. Max(P \cup {n}) = n
      <3>1. PICK x : x = Max(P \cup {n})
        OBVIOUS
      <3>2. x \in P \cup {n} /\ x >= n
        BY <2>6, <3>1
      <3>3. x \notin P
        BY <1>2, <2>3, <2>4, <3>2
      <3> QED BY <3>1, <3>2, <3>3
    <2>8. LastOf(T, c)' = e
      BY <1>2, <2>1, <2>7 DEF LastOf
    <2> QED BY <2>8
  <1>8. ASSUME e.type \in Barriers PROVE LastBarrier(c)' = e
    BY <1>8, <1>t DEF LastBarrier, Barriers
  <1>9. ASSUME e.type \notin Barriers PROVE LastBarrier(c)' = LastBarrier(c)
    BY <1>4, <1>9 DEF LastBarrier, Barriers
  <1>10. ASSUME FinalInv(c), ~Has("result", c) \/ e.type \notin Barriers \cup {"result"}
         PROVE  FinalInv(c)'
    <2> DEFINE R == {"result", "dispatched", "resume_started", "deferred"}
    <2>1. R = Barriers \cup {"result"}
      BY DEF Barriers
    <2>2. CASE e.type \notin R
      <3>1. Positions({"result"}, c)' = Positions({"result"}, c) /\ Positions(R, c)' = Positions(R, c)
        BY <1>4, <2>2
      <3> QED BY <1>10, <3>1 DEF FinalInv
    <2>3. CASE e.type \in R
      <3>1. Positions({"result"}, c) = {}
        BY <1>10, <2>1, <2>3 DEF Has
      <3>2. Positions({"result"}, c)' \subseteq {n}
        <4>1. CASE e.type = "result"
          BY <1>3, <3>1, <4>1
        <4>2. CASE e.type # "result"
          BY <1>4, <3>1, <4>2
        <4> QED BY <4>1, <4>2
      <3>3. Positions(R, c)' = Positions(R, c) \cup {n}
        BY <1>3, <2>3
      <3>4. \A i \in Positions(R, c) : i \in Int /\ i < n
        BY <1>1, <1>5
      <3>5. \A j \in Positions(R, c) \cup {n} : j <= n
        BY <1>2, <3>4
      <3> QED BY <3>2, <3>3, <3>5 DEF FinalInv
    <2> QED BY <2>2, <2>3
  <1>11. ASSUME SettledInv(c), e.type \in {"dispatched", "resume_started"} => ~Has("result", c) /\ ~Behind(c)
         PROVE  SettledInv(c)'
    <2> DEFINE B == {"dispatched", "resume_started"}
               S == {"result", "deferred"}
               settled(i) == \E j \in Positions(S, c)' : i < j
    <2>0. /\ \A i \in Positions(B, c) : i \in DOMAIN log /\ log'[i] = log[i] /\ i < n
          /\ Positions(S, c) \subseteq Positions(S, c)'
      <3>1. Positions(S, c)' = Positions(S, c) \cup {n} \/ Positions(S, c)' = Positions(S, c)
        BY <1>3, <1>4
      <3> QED BY <1>5, <3>1
    <2>1. CASE e.type \in S
      <3>1. Positions(S, c)' = Positions(S, c) \cup {n}
        BY <1>3, <2>1
      <3>2. Positions(B, c)' = Positions(B, c)
        <4>1. e.type \notin B
          BY <2>1
        <4> HIDE DEF B
        <4> QED BY <1>4, <4>1
      <3>3. \A i \in Positions(B, c)' : settled(i)
        BY <2>0, <3>1, <3>2
      <3> QED BY <3>3 DEF SettledInv
    <2>2. CASE e.type \in B
      <3>1. ~Open(c) /\ ~Has("result", c)' /\ e.type \in Barriers
        BY <1>6, <1>11, <2>2 DEF Open, Barriers
      <3>2. LastBarrier(c)' = e
        BY <1>8, <3>1
      <3>3. Positions(B, c)' = Positions(B, c) \cup {n}
        BY <1>3, <2>2
      <3>4. CASE IsBarrier(e)
        BY <3>1, <3>2, <3>4 DEF SettledInv, Open, Behind, IsBarrier
      <3>5. CASE ~IsBarrier(e)
        <4>1. \A i \in Positions(B, c) : IsBarrier(log[i]) => \E j \in Positions(S, c) : i < j
          BY <1>11, <3>1 DEF SettledInv
        <4>2. \A i \in Positions(B, c)' : IsBarrier(log'[i]) => settled(i)
          BY <1>2, <2>0, <3>3, <3>5, <4>1
        <4>3. \A i \in Positions(B, c)' : IsBarrier(log[i])' => settled(i)
          BY <4>2 DEF IsBarrier
        <4> QED BY <4>3 DEF SettledInv
      <3> QED BY <3>4, <3>5
    <2>3. CASE e.type \notin S /\ e.type \notin B
      <3>1. Positions(B, c)' = Positions(B, c) /\ Positions(S, c)' = Positions(S, c)
        <4> HIDE DEF B, S
        <4> QED BY <1>4, <2>3
      <3>2. e.type \notin Barriers /\ e.type # "result"
        BY <2>3 DEF Barriers
      <3>3. Open(c)' <=> Open(c)
        BY <1>6, <1>9, <3>2 DEF Open, Behind
      <3>4. \A i \in Positions(B, c) : log'[i] = log[i]
        BY <2>0
      <3> QED BY <1>11, <3>1, <3>3, <3>4 DEF SettledInv
    <2> QED BY <2>1, <2>2, <2>3
  <1>12. ASSUME e.type \in Barriers \/ (Found(c) /\ e.type \notin {"result", "approval_requested"})
         PROVE  Found(c)'
    <2> DEFINE U == {"dispatched", "deferred", "resume_started", "result", "approval_requested"}
    <2>1. CASE e.type \in Barriers
      <3>1. LastOf(U, c)' = e
        <4>1. e.type \in U
          BY <2>1 DEF Barriers
        <4> HIDE DEF U
        <4> QED BY <1>t, <4>1
      <3> QED BY <1>8, <2>1, <3>1 DEF Found
    <2>2. CASE e.type \notin Barriers
      <3>1. e.type \notin U
        BY <1>12, <2>2 DEF Barriers
      <3>2. LastOf(U, c)' = LastOf(U, c)
        <4> HIDE DEF U
        <4> QED BY <1>4, <3>1
      <3> QED BY <1>9, <1>12, <2>2, <3>2 DEF Found
    <2> QED BY <2>1, <2>2
  <1> QED BY <1>6, <1>7, <1>8, <1>9, <1>10, <1>11, <1>12 DEF Wrote

\* One append of one event.
LEMMA CommitOne ==
  ASSUME TypeOK, NEW e \in Events, Commit(<<e>>)
  PROVE  /\ log' \in Seq(Events)
         /\ \A c \in Calls : IF c = e.call THEN Wrote(c, e.type, e.info) ELSE Same(c)
  <1> DEFINE evs == <<e>>
  <1>1. evs \in Seq(Events) /\ log' = log \o evs /\ DOMAIN evs = {1} /\ evs[1] = e
    BY DEF Commit
  <1> HIDE DEF evs
  <1>2. log' \in Seq(Events)
    BY <1>1, AppendShape
  <1>3. ASSUME NEW c \in Calls, c = e.call PROVE Wrote(c, e.type, e.info)
    <2>1. Lone(evs, c, e)
      BY <1>1 DEF Lone
    <2> QED BY <1>1, <1>3, <2>1, LoneWrote
  <1>4. ASSUME NEW c \in Calls, c # e.call PROVE Same(c)
    <2>1. Silent(evs, c)
      BY <1>1, <1>4 DEF Silent
    <2> QED BY <1>1, <2>1, SilentSame
  <1> QED BY <1>2, <1>3, <1>4

LEMMA EmitProps ==
  ASSUME TypeOK, NEW t \in EventTypes, NEW d \in 0..NumCalls, NEW x \in Infos, Emit(t, d, x)
  PROVE  /\ log' \in Seq(Events)
         /\ \A c \in Calls : IF c = d THEN Wrote(c, t, x) ELSE Same(c)
  <1> DEFINE e == Ev(t, worker.turn, worker.step, d, x)
  <1>1. e \in Events /\ e.type = t /\ e.call = d /\ e.info = x /\ Commit(<<e>>)
    BY DEF Emit, Ev, Events, TypeOK, Workers
  <1> HIDE DEF e
  <1> QED BY <1>1, CommitOne

\* Joining events.
LEMMA JoinCalls ==
  ASSUME NEW a \in Seq(Events), NEW b \in Seq(Events), NEW c
  PROVE  /\ a \o b \in Seq(Events)
         /\ Silent(a, c) /\ Silent(b, c) => Silent(a \o b, c)
         /\ \A e : Lone(a, c, e) /\ Silent(b, c) => Lone(a \o b, c, e)
         /\ \A e : Silent(a, c) /\ Lone(b, c, e) => Lone(a \o b, c, e)
  <1> DEFINE s == a \o b
  <1>1. /\ Len(a) \in Nat /\ Len(b) \in Nat /\ DOMAIN a = 1..Len(a) /\ DOMAIN b = 1..Len(b)
        /\ s \in Seq(Events) /\ DOMAIN s = 1..(Len(a) + Len(b))
    OBVIOUS
  <1>2. ASSUME NEW i \in DOMAIN a PROVE i \in DOMAIN s /\ s[i] = a[i]
    BY <1>1
  <1>3. ASSUME NEW k \in DOMAIN b PROVE Len(a) + k \in DOMAIN s /\ s[Len(a) + k] = b[k]
    BY <1>1
  <1> HIDE DEF s
  <1>4. ASSUME NEW i \in DOMAIN s, i \notin DOMAIN a PROVE \E k \in DOMAIN b : i = Len(a) + k
    <2>1. i - Len(a) \in DOMAIN b /\ i = Len(a) + (i - Len(a))
      BY <1>1, <1>4
    <2> QED BY <2>1
  <1>5. Silent(a, c) /\ Silent(b, c) => Silent(s, c)
    BY <1>2, <1>3, <1>4 DEF Silent
  <1>6. ASSUME NEW e, Lone(a, c, e), Silent(b, c) PROVE Lone(s, c, e)
    <2>1. PICK k \in DOMAIN a : a[k] = e /\ \A j \in DOMAIN a : a[j].call = c => j = k
      BY <1>6 DEF Lone
    <2>2. k \in DOMAIN s /\ s[k] = e
      BY <1>2, <2>1
    <2>3. ASSUME NEW j \in DOMAIN s, s[j].call = c PROVE j = k
      BY <1>2, <1>3, <1>4, <1>6, <2>1, <2>3 DEF Silent
    <2> QED BY <2>2, <2>3 DEF Lone
  <1>7. ASSUME NEW e, Silent(a, c), Lone(b, c, e) PROVE Lone(s, c, e)
    <2>1. PICK k \in DOMAIN b : b[k] = e /\ \A j \in DOMAIN b : b[j].call = c => j = k
      BY <1>7 DEF Lone
    <2>2. Len(a) + k \in DOMAIN s /\ s[Len(a) + k] = e
      BY <1>3, <2>1
    <2>3. ASSUME NEW j \in DOMAIN s, s[j].call = c PROVE j = Len(a) + k
      BY <1>2, <1>3, <1>4, <1>7, <2>1, <2>3 DEF Silent
    <2> QED BY <2>2, <2>3 DEF Lone
  <1> QED BY <1>1, <1>5, <1>6, <1>7 DEF s

\* One event per member of S, in its order.
LEMMA ListProps ==
  ASSUME NEW S \in SUBSET Int, IsFiniteSet(S), NEW f \in [S -> Events],
         NEW evs, evs = [i \in 1..Cardinality(S) |-> f[Sorted(S)[i]]]
  PROVE  /\ evs \in Seq(Events)
         /\ \A U : (\A x \in S : f[x] \in U) => AllIn(evs, U)
         /\ \A c : (\A x \in S : f[x].call # c) => Silent(evs, c)
         /\ \A c \in S : (\A x \in S : f[x].call = x) => Lone(evs, c, f[c])
  <1> DEFINE n == Cardinality(S)
  <1>1. /\ n \in Nat /\ Sorted(S) \in [1..n -> S]
        /\ \A i, j \in 1..n : i < j => Sorted(S)[i] < Sorted(S)[j]
        /\ \A m \in S : \E k \in 1..n : Sorted(S)[k] = m
    BY SortedProps
  <1>0. evs = [i \in 1..n |-> f[Sorted(S)[i]]]
    OBVIOUS
  <1> HIDE DEF n
  <1>2. DOMAIN evs = 1..n /\ \A i \in 1..n : Sorted(S)[i] \in S /\ evs[i] = f[Sorted(S)[i]] /\ evs[i] \in Events
    BY <1>0, <1>1
  <1>3. evs \in Seq(Events)
    <2>1. n \in Nat /\ evs \in [1..n -> Events]
      BY <1>0, <1>1, <1>2
    <2> QED BY ONLY <2>1
  <1>4. \A i \in DOMAIN evs : \E x \in S : evs[i] = f[x]
    BY <1>2
  <1>5. ASSUME NEW c, \A x \in S : f[x].call # c PROVE Silent(evs, c)
    BY <1>4, <1>5 DEF Silent
  <1>6. ASSUME NEW c \in S, \A x \in S : f[x].call = x PROVE Lone(evs, c, f[c])
    <2>1. PICK k \in 1..n : Sorted(S)[k] = c
      BY <1>1
    <2>2. ASSUME NEW j \in 1..n, evs[j].call = c PROVE j = k
      <3>1. Sorted(S)[j] = c
        BY <1>2, <1>6, <2>2
      <3>2. j = k \/ j < k \/ k < j
        BY <1>1
      <3>3. c \in Int /\ ~(c < c)
        OBVIOUS
      <3> QED BY <1>1, <2>1, <3>1, <3>2, <3>3
    <2>3. evs[k] = f[c]
      BY <1>2, <2>1
    <2> QED BY <1>2, <2>2, <2>3 DEF Lone
  <1>7. \A U : (\A x \in S : f[x] \in U) => AllIn(evs, U)
    BY <1>4 DEF AllIn
  <1> QED BY <1>3, <1>5, <1>6, <1>7

\* Looking for fewer events finds the same one if it is among them.
LEMMA LastOfFewer ==
  ASSUME TypeOK, NEW c, NEW T, NEW U, T \subseteq U, "none" \notin U, LastOf(U, c).type \in T
  PROVE  LastOf(T, c) = LastOf(U, c)
  <1>1. Positions(U, c) # {}
    BY LastProps
  <1> DEFINE m == Max(Positions(U, c))
  <1>2. m \in Positions(U, c) /\ LastOf(U, c) = log[m] /\ \A i \in Positions(U, c) : i <= m
    BY <1>1, LastProps
  <1> HIDE DEF m
  <1>3. m \in Positions(T, c) /\ Positions(T, c) \subseteq Positions(U, c)
    BY <1>2 DEF Positions
  <1>4. "none" \notin T /\ Positions(T, c) # {}
    BY <1>3
  <1> DEFINE l == Max(Positions(T, c))
  <1>5. l \in Positions(T, c) /\ LastOf(T, c) = log[l] /\ \A i \in Positions(T, c) : i <= l
    BY <1>4, LastProps
  <1> HIDE DEF l
  <1>6. l <= m /\ m <= l
    BY <1>2, <1>3, <1>5
  <1>7. l \in Int /\ m \in Int
    <2>1. l \in DOMAIN log /\ m \in DOMAIN log /\ DOMAIN log \in SUBSET DOMAIN log
      BY <1>2, <1>5 DEF Positions
    <2> QED BY <2>1, PlacesFinite
  <1> QED BY <1>2, <1>5, <1>6, <1>7

\* A barrier is one of the call's events, and there is one if it has any.
LEMMA BarrierProps ==
  ASSUME TypeOK, NEW c
  PROVE  /\ LastBarrier(c).type \in Barriers \cup {"none"}
         /\ LastBarrier(c).type # "none" => Has(LastBarrier(c).type, c)
         /\ \A t \in Barriers : Has(t, c) => LastBarrier(c).type # "none"
         /\ \A x : HasInfo("result", c, x) => Has("result", c)
  <1>0. "none" \notin Barriers /\ LastBarrier(c) = LastOf(Barriers, c)
    BY DEF Barriers, LastBarrier
  <1>1. CASE Positions(Barriers, c) = {}
    <2>1. LastBarrier(c).type = "none"
      BY <1>0, <1>1, LastProps
    <2>2. \A t \in Barriers : ~Has(t, c)
      BY <1>1 DEF Has, Positions
    <2> QED BY <2>1, <2>2 DEF HasInfo, Has
  <1>2. CASE Positions(Barriers, c) # {}
    <2> DEFINE m == Max(Positions(Barriers, c))
    <2>1. m \in Positions(Barriers, c) /\ LastBarrier(c) = log[m] /\ LastBarrier(c).type \in Barriers
      BY <1>0, <1>2, LastProps
    <2> HIDE DEF m
    <2>2. m \in Positions({LastBarrier(c).type}, c)
      BY <2>1 DEF Positions
    <2>3. LastBarrier(c).type # "none"
      BY <1>0, <2>1
    <2> QED BY <2>1, <2>2, <2>3 DEF HasInfo, Has
  <1> QED BY <1>1, <1>2

\* The step of a call.
LEMMA StepType ==
  ASSUME TypeOK, NEW c, Has("tool_call", c)
  PROVE  StepOf(c)[1] \in 0..MaxTurns /\ StepOf(c)[2] \in 0..MaxSteps
  <1> DEFINE m == Max(Positions({"tool_call"}, c))
  <1>1. Positions({"tool_call"}, c) # {} /\ "none" \notin {"tool_call"}
    BY DEF Has
  <1>2. m \in Positions({"tool_call"}, c)
    BY <1>1, LastProps
  <1>3. StepOf(c) = <<log[m].turn, log[m].step>>
    BY DEF StepOf
  <1> HIDE DEF m
  <1>4. log[m] \in Events
    BY <1>2 DEF Positions, TypeOK
  <1> QED BY <1>3, <1>4 DEF Events

-----------------------------------------------------------------------------
(* Recovery. *)

LEMMA StoredType ==
  ASSUME TypeOK, NEW i \in DOMAIN log
  PROVE  log[i].turn \in 0..MaxTurns /\ log[i].step \in 0..MaxSteps
  <1>1. log[i] \in Events
    BY DEF TypeOK
  <1> QED BY <1>1 DEF Events

\* The calls recovery settles are behind their barrier.
LEMMA DanglingProps ==
  ASSUME TypeOK, NEW c \in Dangling
  PROVE  /\ c \in Calls /\ Behind(c) /\ RecoveredCode(c) = "unknown"
         /\ Has("dispatched", c) \/ Has("resume_started", c)
         /\ FinalInv(c) => ~Has("result", c)
  <1> DEFINE U == {"dispatched", "deferred", "resume_started", "result", "approval_requested"}
             e == LastOf(U, c)
             m == Max(Positions(U, c))
  <1>1. c \in Calls /\ (e.type = "dispatched" \/ (e.type = "resume_started" /\ e.info = "executed"))
    BY DEF Dangling
  <1>2. "none" \notin U /\ Barriers \subseteq U /\ e.type \in Barriers /\ "none" \notin Barriers
    BY <1>1 DEF Barriers
  <1>3. LastOf(Barriers, c) = e
    <2> HIDE DEF U
    <2> QED BY <1>2, LastOfFewer
  <1>4. Behind(c)
    BY <1>1, <1>3 DEF Behind, LastBarrier, Barriers
  <1>5. Has(e.type, c) /\ e.type \in {"dispatched", "resume_started"}
    <2>1. LastBarrier(c) = e
      BY <1>3 DEF LastBarrier, Barriers
    <2>2. LastBarrier(c).type # "none"
      BY <1>2, <2>1
    <2>3. Has(LastBarrier(c).type, c)
      BY ONLY <2>2, BarrierProps, TypeOK
    <2> QED BY <1>1, <2>1, <2>3
  <1>6. Has("dispatched", c) \/ Has("resume_started", c)
    BY <1>5
  <1>7. ASSUME FinalInv(c), Has("result", c) PROVE FALSE
    <2>1. Positions(U, c) # {}
      <3> HIDE DEF U
      <3> QED BY <1>2, LastProps
    <2>2. m \in Positions(U, c) /\ e = log[m] /\ \A i \in Positions(U, c) : i <= m
      <3> HIDE DEF U
      <3> QED BY <1>2, <2>1, LastProps
    <2>3. PICK i : i \in Positions({"result"}, c)
      BY <1>7 DEF Has
    <2> HIDE DEF m, e
    <2>4. i \in Positions(U, c) /\ log[i].type = "result"
      BY <2>3 DEF Positions
    <2>5. m \in Positions({"result", "dispatched", "resume_started", "deferred"}, c)
      BY <1>5, <2>2 DEF Positions
    <2>6. m <= i /\ i <= m
      BY <1>7, <2>2, <2>3, <2>4, <2>5 DEF FinalInv
    <2>7. i \in Int /\ m \in Int
      <3>1. i \in DOMAIN log /\ m \in DOMAIN log /\ DOMAIN log \in SUBSET DOMAIN log
        BY <2>2, <2>3 DEF Positions
      <3> QED BY <3>1, PlacesFinite
    <2>8. i = m
      BY <2>6, <2>7
    <2> QED BY <1>5, <2>2, <2>4, <2>8
  <1> QED BY <1>1, <1>4, <1>6, <1>7 DEF RecoveredCode, DispatchedCalls

\* What recovery may store.
Repairs ==
    {e \in Events :
        /\ e.type \in {"assistant", "result", "step_end", "turn_end"}
        /\ e.type = "result" => e.call \in Dangling /\ <<e.turn, e.step>> = StepOf(e.call)
        /\ e.type = "step_end" =>
              \E i \in InterruptedSteps : <<e.turn, e.step>> = <<log[i].turn, log[i].step>>}

ResultsFirst(s) == \A j, k \in DOMAIN s : s[j].type = "step_end" /\ s[k].type = "result" => k < j

LEMMA JoinRepairs ==
  ASSUME NEW a \in Seq(Events), NEW b \in Seq(Events), NEW S, AllIn(a, S), AllIn(b, S)
  PROVE  /\ AllIn(a \o b, S)
         /\ ResultsFirst(a) /\ (\A k \in DOMAIN b : b[k].type # "result") => ResultsFirst(a \o b)
  <1> DEFINE s == a \o b
  <1>1. /\ Len(a) \in Nat /\ Len(b) \in Nat /\ DOMAIN a = 1..Len(a) /\ DOMAIN b = 1..Len(b)
        /\ DOMAIN s = 1..(Len(a) + Len(b))
    OBVIOUS
  <1>2. \A i \in DOMAIN a : s[i] = a[i]
    BY <1>1
  <1>3. \A k \in DOMAIN b : s[Len(a) + k] = b[k]
    BY <1>1
  <1> HIDE DEF s
  <1>4. ASSUME NEW i \in DOMAIN s
        PROVE  \/ i \in DOMAIN a /\ s[i] = a[i]
               \/ Len(a) < i /\ \E k \in DOMAIN b : s[i] = b[k]
    <2>1. CASE i \in DOMAIN a
      BY <1>2, <2>1
    <2>2. CASE i \notin DOMAIN a
      <3>1. i - Len(a) \in DOMAIN b /\ i = Len(a) + (i - Len(a)) /\ Len(a) < i
        BY <1>1, <2>2
      <3> QED BY <1>3, <3>1
    <2> QED BY <2>1, <2>2
  <1>5. AllIn(s, S)
    BY <1>4 DEF AllIn
  <1>6. ASSUME ResultsFirst(a), \A k \in DOMAIN b : b[k].type # "result" PROVE ResultsFirst(s)
    <2> SUFFICES ASSUME NEW j \in DOMAIN s, NEW k \in DOMAIN s, s[j].type = "step_end", s[k].type = "result"
                 PROVE  k < j
      BY DEF ResultsFirst
    <2>1. k \in DOMAIN a /\ s[k] = a[k]
      BY <1>4, <1>6
    <2>2. CASE j \in DOMAIN a /\ s[j] = a[j]
      BY <1>6, <2>1, <2>2 DEF ResultsFirst
    <2>3. CASE Len(a) < j
      BY <1>1, <2>1, <2>3
    <2> QED BY <1>4, <2>2, <2>3
  <1> QED BY <1>5, <1>6 DEF s

\* Recovery adds repairs of steps and turns, and results for some of those calls:
\* for all of them that have none, and before it closes a step.
LEMMA RecoverProps ==
  ASSUME ToolTurnAssumption, TracesInv
  PROVE  /\ RecoveryEvents \in Seq(Events)
         /\ \A c \in Calls :
              \/ Silent(RecoveryEvents, c)
              \/ c \in Dangling /\ \E e : /\ e.call = c /\ e.type = "result" /\ e.info = "unknown"
                                          /\ Lone(RecoveryEvents, c, e)
         /\ AllIn(RecoveryEvents, Repairs) /\ ResultsFirst(RecoveryEvents)
         /\ \A c \in Dangling : Has("result", c) \/ ~Silent(RecoveryEvents, c)
  <1> USE DEF TracesInv
  <1> DEFINE draft(i) == Ev("assistant", log[i].turn, log[i].step, 0, "draft")
             lost(c) == Ev("result", StepOf(c)[1], StepOf(c)[2], c, RecoveredCode(c))
             close(i) == Ev("step_end", log[i].turn, log[i].step, 0, "interrupted")
             end(t) == Ev("turn_end", t, 0, 0, "interrupted")
             A == {x \in InterruptedDrafts : \A j \in DOMAIN log : log[j] # draft(x)}
             B == {x \in Dangling : \A j \in DOMAIN log : log[j] # lost(x)}
             C == {x \in InterruptedSteps : \A j \in DOMAIN log : log[j] # close(x)}
             O == {t \in OpenTurn : \A s \in DeferredSteps : s[1] # t}
             D == {x \in O : \A j \in DOMAIN log : log[j] # end(x)}
             fA == [x \in A |-> draft(x)]
             fB == [x \in B |-> lost(x)]
             fC == [x \in C |-> close(x)]
             fD == [x \in D |-> end(x)]
             a == [i \in 1..Cardinality(A) |-> fA[Sorted(A)[i]]]
             b == [i \in 1..Cardinality(B) |-> fB[Sorted(B)[i]]]
             g == [i \in 1..Cardinality(C) |-> fC[Sorted(C)[i]]]
             d == [i \in 1..Cardinality(D) |-> fD[Sorted(D)[i]]]
  <1>0. {NumCalls, MaxTurns, MaxSteps} \subseteq Nat /\ \A c \in Calls : c # 0
    BY DEF ToolTurnAssumption, Calls
  <1>1. /\ A \in SUBSET Int /\ IsFiniteSet(A) /\ fA \in [A -> Events]
        /\ \A x \in A : fA[x].call = 0 /\ fA[x].type = "assistant"
    <2>1. A \in SUBSET DOMAIN log
      BY DEF InterruptedDrafts
    <2>2. A \in SUBSET Int /\ IsFiniteSet(A)
      BY <2>1, PlacesFinite
    <2> HIDE DEF A
    <2>3. ASSUME NEW x \in A PROVE draft(x) \in Events /\ draft(x).call = 0 /\ draft(x).type = "assistant"
      <3>1. log[x].turn \in 0..MaxTurns /\ log[x].step \in 0..MaxSteps
        BY <2>1, StoredType
      <3>2. "assistant" \in EventTypes /\ "draft" \in Infos /\ 0 \in 0..NumCalls
        BY <1>0 DEF EventTypes, Infos
      <3> QED BY <3>1, <3>2 DEF Ev, Events
    <2> HIDE DEF draft
    <2> QED BY <2>2, <2>3
  <1>2. /\ C \in SUBSET Int /\ IsFiniteSet(C) /\ fC \in [C -> Events]
        /\ \A x \in C : /\ fC[x].call = 0 /\ fC[x].type = "step_end" /\ x \in InterruptedSteps
                        /\ fC[x].turn = log[x].turn /\ fC[x].step = log[x].step
    <2>1. C \in SUBSET DOMAIN log
      BY DEF InterruptedSteps
    <2>2. C \in SUBSET Int /\ IsFiniteSet(C) /\ \A x \in C : x \in InterruptedSteps
      BY <2>1, PlacesFinite
    <2> HIDE DEF C
    <2>3. ASSUME NEW x \in C
          PROVE  /\ close(x) \in Events /\ close(x).call = 0 /\ close(x).type = "step_end"
                 /\ close(x).turn = log[x].turn /\ close(x).step = log[x].step
      <3>1. log[x].turn \in 0..MaxTurns /\ log[x].step \in 0..MaxSteps
        BY <2>1, StoredType
      <3>2. "step_end" \in EventTypes /\ "interrupted" \in Infos /\ 0 \in 0..NumCalls
        BY <1>0 DEF EventTypes, Infos
      <3> QED BY <3>1, <3>2 DEF Ev, Events
    <2> HIDE DEF close
    <2> QED BY <2>2, <2>3
  <1>3. /\ B \in SUBSET Int /\ IsFiniteSet(B) /\ fB \in [B -> Events]
        /\ \A x \in B : fB[x].call = x /\ fB[x].type = "result" /\ fB[x].info = "unknown"
        /\ \A x \in B : <<fB[x].turn, fB[x].step>> = StepOf(x)
        /\ B \in SUBSET Dangling
    <2>1. B \in SUBSET Dangling /\ Dangling \in SUBSET Calls
      BY DEF Dangling
    <2>2. IsFiniteSet(Calls) /\ Calls \in SUBSET Int
      BY <1>0, FS_Interval DEF Calls
    <2>3. B \in SUBSET Int /\ IsFiniteSet(B)
      BY <2>1, <2>2, FS_Subset
    <2> HIDE DEF B
    <2>4. ASSUME NEW x \in B
          PROVE  /\ lost(x) \in Events /\ lost(x).call = x /\ lost(x).type = "result" /\ lost(x).info = "unknown"
                 /\ <<lost(x).turn, lost(x).step>> = StepOf(x)
      <3>1. x \in Calls /\ RecoveredCode(x) = "unknown" /\ (Has("dispatched", x) \/ Has("resume_started", x))
        BY <2>1, DanglingProps
      <3>2. Has("tool_call", x)
        BY <3>1 DEF TracedInv, EventTypes
      <3>3. StepOf(x)[1] \in 0..MaxTurns /\ StepOf(x)[2] \in 0..MaxSteps
        BY <3>2, StepType
      <3>4. "result" \in EventTypes /\ "unknown" \in Infos /\ x \in 0..NumCalls
        BY <1>0, <3>1 DEF EventTypes, Calls, Infos
      <3>5. StepOf(x) = <<StepOf(x)[1], StepOf(x)[2]>>
        BY DEF StepOf
      <3>6. lost(x).turn = StepOf(x)[1] /\ lost(x).step = StepOf(x)[2]
        BY DEF Ev
      <3>7. <<lost(x).turn, lost(x).step>> = StepOf(x)
        BY ONLY <3>5, <3>6
      <3> QED BY <3>1, <3>3, <3>4, <3>7 DEF Ev, Events
    <2> HIDE DEF lost
    <2> QED BY <2>1, <2>3, <2>4
  <1>4. /\ D \in SUBSET Int /\ IsFiniteSet(D) /\ fD \in [D -> Events]
        /\ \A x \in D : fD[x].call = 0 /\ fD[x].type = "turn_end"
    <2>1. OpenTurn \in SUBSET (0..MaxTurns)
      <3> DEFINE starts == {i \in DOMAIN log : log[i].type = "turn_start"}
                 ends == {i \in DOMAIN log : log[i].type = "turn_end"}
      <3>1. starts \in SUBSET DOMAIN log /\ ends \in SUBSET DOMAIN log
        OBVIOUS
      <3>2. /\ starts \in SUBSET Int /\ IsFiniteSet(starts) /\ Cardinality(starts) \in Nat
            /\ Cardinality(ends) \in Nat /\ (Cardinality(starts) # 0 => starts # {})
        BY <3>1, PlacesFinite, FS_EmptySet
      <3>3. OpenTurn = IF Cardinality(starts) > Cardinality(ends) THEN {log[Max(starts)].turn} ELSE {}
        BY DEF OpenTurn
      <3> HIDE DEF starts, ends
      <3>4. CASE Cardinality(starts) > Cardinality(ends)
        <4>1. starts # {}
          BY <3>2, <3>4
        <4>2. Max(starts) \in DOMAIN log
          BY <3>1, <3>2, <4>1, MaxProps
        <4>3. log[Max(starts)].turn \in 0..MaxTurns
          BY <4>2, StoredType
        <4> QED BY <3>3, <3>4, <4>3
      <3> QED BY <3>3, <3>4
    <2>2. D \in SUBSET (0..MaxTurns) /\ IsFiniteSet(0..MaxTurns)
      <3>1. D \in SUBSET (0..MaxTurns)
        BY <2>1
      <3>2. 0 \in Int /\ MaxTurns \in Int
        BY <1>0
      <3> QED BY <3>1, <3>2, FS_Interval
    <2>3. D \in SUBSET Int /\ IsFiniteSet(D)
      BY <1>0, <2>2, FS_Subset
    <2> HIDE DEF D
    <2>4. \A x \in D : end(x) \in Events /\ end(x).call = 0 /\ end(x).type = "turn_end"
      <3>1. "turn_end" \in EventTypes /\ "interrupted" \in Infos /\ 0 \in 0..NumCalls /\ 0 \in 0..MaxSteps
        BY <1>0 DEF EventTypes, Infos
      <3> QED BY <2>2, <3>1 DEF Ev, Events
    <2> HIDE DEF end
    <2> QED BY <2>3, <2>4
  <1>5. RecoveryEvents = ((a \o b) \o g) \o d
    <2>1. a = InOrder(InterruptedDrafts, draft)
      <3>1. a = [i \in 1..Cardinality(A) |-> draft(Sorted(A)[i])]
        <4>1. \A i \in 1..Cardinality(A) : Sorted(A)[i] \in A
          BY <1>1, SortedProps
        <4> QED BY <4>1
      <3> QED BY <3>1 DEF InOrder
    <2>2. b = InOrder(Dangling, lost)
      <3>1. b = [i \in 1..Cardinality(B) |-> lost(Sorted(B)[i])]
        <4>1. \A i \in 1..Cardinality(B) : Sorted(B)[i] \in B
          <5> HIDE DEF B
          <5> QED BY <1>3, SortedProps
        <4> QED BY <4>1
      <3> QED BY <3>1 DEF InOrder
    <2>3. g = InOrder(InterruptedSteps, close)
      <3>1. g = [i \in 1..Cardinality(C) |-> close(Sorted(C)[i])]
        <4>1. \A i \in 1..Cardinality(C) : Sorted(C)[i] \in C
          BY <1>2, SortedProps
        <4> QED BY <4>1
      <3> QED BY <3>1 DEF InOrder
    <2>4. d = InOrder(O, end)
      <3>1. d = [i \in 1..Cardinality(D) |-> end(Sorted(D)[i])]
        <4>1. \A i \in 1..Cardinality(D) : Sorted(D)[i] \in D
          BY <1>4, SortedProps
        <4> QED BY <4>1
      <3> QED BY <3>1 DEF InOrder
    <2> HIDE DEF a, b, g, d
    <2> QED BY <2>1, <2>2, <2>3, <2>4 DEF RecoveryEvents
  <1>6. a \in Seq(Events) /\ \A c \in Calls : Silent(a, c)
    <2> HIDE DEF A, fA
    <2>1. a \in Seq(Events) /\ \A c : (\A x \in A : fA[x].call # c) => Silent(a, c)
      BY <1>1, ListProps
    <2> HIDE DEF a
    <2> QED BY <1>0, <1>1, <2>1
  <1>7. g \in Seq(Events) /\ \A c \in Calls : Silent(g, c)
    <2> HIDE DEF C, fC
    <2>1. g \in Seq(Events) /\ \A c : (\A x \in C : fC[x].call # c) => Silent(g, c)
      BY <1>2, ListProps
    <2> HIDE DEF g
    <2> QED BY <1>0, <1>2, <2>1
  <1>8. d \in Seq(Events) /\ \A c \in Calls : Silent(d, c)
    <2> HIDE DEF D, fD
    <2>1. d \in Seq(Events) /\ \A c : (\A x \in D : fD[x].call # c) => Silent(d, c)
      BY <1>4, ListProps
    <2> HIDE DEF d
    <2> QED BY <1>0, <1>4, <2>1
  <1>9. b \in Seq(Events) /\ \A c \in Calls : IF c \in B THEN Lone(b, c, fB[c]) ELSE Silent(b, c)
    <2> HIDE DEF B, fB
    <2>1. /\ b \in Seq(Events)
          /\ \A c : (\A x \in B : fB[x].call # c) => Silent(b, c)
          /\ \A c \in B : (\A x \in B : fB[x].call = x) => Lone(b, c, fB[c])
      BY <1>3, ListProps
    <2> HIDE DEF b
    <2>2. \A x \in B : fB[x].call = x
      BY <1>3
    <2> QED BY <2>1, <2>2
  <1>14. /\ AllIn(a, Repairs) /\ \A k \in DOMAIN a : a[k].type = "assistant"
    <2> HIDE DEF A, fA
    <2>1. \A x \in A : fA[x] \in Events /\ fA[x].type = "assistant"
      BY <1>1
    <2> DEFINE U == {e \in Repairs : e.type = "assistant"}
    <2>2. \A x \in A : fA[x] \in U
      BY <2>1 DEF Repairs
    <2> HIDE DEF U
    <2>3. AllIn(a, U)
      BY <1>1, <2>2, ListProps
    <2> HIDE DEF a
    <2> QED BY <2>3 DEF AllIn, U
  <1>15. /\ AllIn(b, Repairs) /\ \A k \in DOMAIN b : b[k].type = "result"
    <2> HIDE DEF B, fB
    <2>1. \A x \in B : /\ x \in Dangling /\ fB[x] \in Events /\ fB[x].type = "result" /\ fB[x].call = x
                       /\ <<fB[x].turn, fB[x].step>> = StepOf(x)
      BY <1>3
    <2> DEFINE U == {e \in Repairs : e.type = "result"}
    <2>2. \A x \in B : fB[x] \in U
      BY <2>1 DEF Repairs
    <2> HIDE DEF U
    <2>3. AllIn(b, U)
      BY <1>3, <2>2, ListProps
    <2> HIDE DEF b
    <2> QED BY <2>3 DEF AllIn, U
  <1>16. /\ AllIn(g, Repairs) /\ \A k \in DOMAIN g : g[k].type = "step_end"
    <2> HIDE DEF C, fC
    <2>1. \A x \in C : /\ fC[x] \in Events /\ fC[x].type = "step_end" /\ x \in InterruptedSteps
                       /\ fC[x].turn = log[x].turn /\ fC[x].step = log[x].step
      BY <1>2
    <2> DEFINE U == {e \in Repairs : e.type = "step_end"}
    <2>2. \A x \in C : fC[x] \in U
      BY <2>1 DEF Repairs
    <2> HIDE DEF U
    <2>3. AllIn(g, U)
      BY <1>2, <2>2, ListProps
    <2> HIDE DEF g
    <2> QED BY <2>3 DEF AllIn, U
  <1>17. /\ AllIn(d, Repairs) /\ \A k \in DOMAIN d : d[k].type = "turn_end"
    <2> HIDE DEF D, fD
    <2>1. \A x \in D : fD[x] \in Events /\ fD[x].type = "turn_end"
      BY <1>4
    <2> DEFINE U == {e \in Repairs : e.type = "turn_end"}
    <2>2. \A x \in D : fD[x] \in U
      BY <2>1 DEF Repairs
    <2> HIDE DEF U
    <2>3. AllIn(d, U)
      BY <1>4, <2>2, ListProps
    <2> HIDE DEF d
    <2> QED BY <2>3 DEF AllIn, U
  <1>18. ASSUME NEW c \in Dangling, c \notin B PROVE Has("result", c)
    <2>1. PICK j \in DOMAIN log : log[j] = lost(c)
      BY <1>18
    <2>2. log[j].type = "result" /\ log[j].call = c
      BY <2>1 DEF Ev
    <2> QED BY <2>2 DEF Has, Positions
  <1> HIDE DEF a, b, g, d, fB, B
  <1>19. AllIn(RecoveryEvents, Repairs) /\ ResultsFirst(RecoveryEvents)
    <2>1. ResultsFirst(a)
      BY <1>14 DEF ResultsFirst
    <2>2. ResultsFirst(a \o b)
      <3>1. /\ Len(a) \in Nat /\ Len(b) \in Nat /\ DOMAIN a = 1..Len(a) /\ DOMAIN b = 1..Len(b)
        BY <1>6, <1>9
      <3>2. DOMAIN (a \o b) = 1..(Len(a) + Len(b))
        BY <1>6, <1>9
      <3>3. ASSUME NEW k \in DOMAIN (a \o b) PROVE (a \o b)[k].type # "step_end"
        <4>1. CASE k <= Len(a)
          <5>1. (a \o b)[k] = a[k] /\ k \in DOMAIN a
            BY <1>6, <1>9, <3>1, <3>2, <3>3, <4>1
          <5> QED BY <1>14, <5>1
        <4>2. CASE ~(k <= Len(a))
          <5>1. (a \o b)[k] = b[k - Len(a)] /\ k - Len(a) \in DOMAIN b
            BY <1>6, <1>9, <3>1, <3>2, <3>3, <4>2
          <5> QED BY <1>15, <5>1
        <4> QED BY <4>1, <4>2
      <3> QED BY <3>3 DEF ResultsFirst
    <2>3. a \o b \in Seq(Events) /\ AllIn(a \o b, Repairs)
      BY <1>6, <1>9, <1>14, <1>15, JoinRepairs
    <2>4. \A k \in DOMAIN g : g[k].type # "result"
      BY <1>16
    <2>5. \A k \in DOMAIN d : d[k].type # "result"
      BY <1>17
    <2> DEFINE ab == a \o b
    <2> HIDE DEF ab
    <2>8. ab \in Seq(Events) /\ AllIn(ab, Repairs) /\ ResultsFirst(ab)
      BY <2>2, <2>3 DEF ab
    <2>6. ab \o g \in Seq(Events) /\ AllIn(ab \o g, Repairs) /\ ResultsFirst(ab \o g)
      BY <1>7, <1>16, <2>4, <2>8, JoinRepairs
    <2> DEFINE abg == ab \o g
    <2> HIDE DEF abg
    <2>7. AllIn(abg \o d, Repairs) /\ ResultsFirst(abg \o d)
      <3>1. abg \in Seq(Events) /\ AllIn(abg, Repairs) /\ ResultsFirst(abg)
        BY <2>6 DEF abg
      <3> QED BY <1>8, <1>17, <2>5, <3>1, JoinRepairs
    <2> QED BY <1>5, <2>7 DEF ab, abg
  <1>10. RecoveryEvents \in Seq(Events)
    BY <1>5, <1>6, <1>7, <1>8, <1>9
  <1>11. ASSUME NEW c \in Calls, Silent(b, c) PROVE Silent(RecoveryEvents, c)
    <2>1. a \o b \in Seq(Events) /\ Silent(a \o b, c)
      BY <1>6, <1>9, <1>11, JoinCalls
    <2>2. (a \o b) \o g \in Seq(Events) /\ Silent((a \o b) \o g, c)
      BY <1>7, <2>1, JoinCalls
    <2> QED BY <1>5, <1>8, <2>2, JoinCalls
  <1>12. ASSUME NEW c \in Calls, c \in B, Lone(b, c, fB[c]) PROVE Lone(RecoveryEvents, c, fB[c])
    <2> DEFINE e == fB[c]
    <2> HIDE DEF e
    <2>0. Lone(b, c, e)
      BY <1>12 DEF e
    <2>1. a \o b \in Seq(Events) /\ Lone(a \o b, c, e)
      BY <1>6, <1>9, <2>0, JoinCalls
    <2>2. (a \o b) \o g \in Seq(Events) /\ Lone((a \o b) \o g, c, e)
      BY <1>7, <2>1, JoinCalls
    <2>3. Lone(RecoveryEvents, c, e)
      BY <1>5, <1>8, <2>2, JoinCalls
    <2> QED BY <2>3 DEF e
  <1>13. \A c \in B : c \in Dangling /\ fB[c].call = c /\ fB[c].type = "result" /\ fB[c].info = "unknown"
    BY <1>3
  <1>20. \A c \in Dangling : Has("result", c) \/ ~Silent(RecoveryEvents, c)
    <2> SUFFICES ASSUME NEW c \in Dangling, c \in B PROVE ~Silent(RecoveryEvents, c)
      BY <1>18
    <2>1. c \in Calls /\ fB[c].call = c
      BY <1>13, DanglingProps DEF TracesInv
    <2>3. Lone(RecoveryEvents, c, fB[c])
      BY <1>9, <1>12, <2>1
    <2> QED BY <2>1, <2>3 DEF Lone, Silent
  <1> QED BY <1>9, <1>10, <1>11, <1>12, <1>13, <1>19, <1>20

-----------------------------------------------------------------------------
(* The log after each action. *)

LEMMA Bounds ==
  ASSUME ToolTurnAssumption
  PROVE  /\ NumCalls \in Nat /\ MaxTurns \in Nat /\ MaxSteps \in Nat /\ MaxLeases \in Nat
         /\ 0 \in 0..NumCalls /\ 0 \in 0..MaxTurns /\ 0 \in 0..MaxSteps
         /\ \A c \in Calls : c # 0 /\ c \in Int /\ c \in 0..NumCalls
  BY DEF ToolTurnAssumption, Calls

LEMMA Above ==
  ASSUME NEW n \in Nat, NEW k \in Nat, k < n
  PROVE  k + 1 \in 0..n
  OBVIOUS

\* A step that stores nothing, or nothing of a call.
Quiet == log' \in Seq(Events) /\ \A c \in Calls : Same(c)

\* A step that is about d only.
About(d) == log' \in Seq(Events) /\ \A c \in Calls \ {d} : Same(c)

LEMMA QuietStill ==
  ASSUME TypeOK, log' = log
  PROVE  Quiet
  BY StillSame DEF Quiet, TypeOK

LEMMA QuietCommit ==
  ASSUME ToolTurnAssumption, TypeOK, NEW e \in Events, e.call = 0, Commit(<<e>>)
  PROVE  Quiet
  <1>1. \A c \in Calls : c # e.call
    BY DEF Calls, ToolTurnAssumption
  <1> QED BY <1>1, CommitOne DEF Quiet

LEMMA QuietEmit ==
  ASSUME ToolTurnAssumption, TypeOK, NEW t \in EventTypes, NEW x \in Infos, Emit(t, 0, x)
  PROVE  Quiet
  <1>1. 0 \in 0..NumCalls /\ \A c \in Calls : c # 0
    BY DEF Calls, ToolTurnAssumption
  <1> QED BY <1>1, EmitProps DEF Quiet

LEMMA QuietSteps ==
  ASSUME ToolTurnAssumption, TypeOK,
         \/ \E op \in {"run", "batch", "single", "approval"} : Claim(op)
         \/ BeginTurn \/ Cancel \/ Crash \/ LoseLease \/ StartStep \/ EndTurn \/ PolicyWait
         \/ Chunk \/ ModelReplies \/ StartBatch
         \/ \E b \in BOOLEAN : ModelFails(b) \/ FailStep(b)
         \/ \E n \in 1..MaxBatch : ModelCalls(n)
         \/ \E c \in Calls :
             \/ Answer(c) \/ ShortCircuit(c) \/ StartBody(c) \/ ZombieStart(c) \/ ResumeApprovedTool(c)
             \/ \E outcome \in Outcome : Refuse(c, outcome) \/ BodyReturns(c, outcome)
         \/ FinishBatch \/ CloseStep
         \/ \E S \in SUBSET Calls, m \in BOOLEAN : PickRequests(S, m)
         \/ ResumeNothing \/ FinishResume
         \/ UNCHANGED vars
  PROVE  Quiet
  <1>0. /\ NumCalls \in Nat /\ MaxTurns \in Nat /\ MaxSteps \in Nat /\ 0 \in 0..NumCalls /\ 0 \in 0..MaxSteps /\ "" \in Infos
        /\ worker.turn \in 0..MaxTurns /\ worker.step \in 0..MaxSteps
    BY DEF ToolTurnAssumption, Infos, TypeOK, Workers
  <1>1. ASSUME NEW op \in {"run", "batch", "single", "approval"}, Claim(op) PROVE Quiet
    BY <1>1, QuietStill DEF Claim
  <1>2. CASE Cancel
    BY <1>2, QuietStill DEF Cancel
  <1>3. CASE Crash
    BY <1>3, QuietStill DEF Crash
  <1>4. CASE LoseLease
    BY <1>4, QuietStill DEF LoseLease
  <1>5. CASE PolicyWait
    BY <1>5, QuietStill DEF PolicyWait
  <1>6. CASE StartBatch
    BY <1>6, QuietStill DEF StartBatch
  <1>7. CASE FinishBatch
    BY <1>7, QuietStill DEF FinishBatch
  <1>8. CASE ResumeNothing
    BY <1>8, QuietStill DEF ResumeNothing
  <1>9. CASE FinishResume
    BY <1>9, QuietStill DEF FinishResume
  <1>10. ASSUME NEW c \in Calls, Answer(c) PROVE Quiet
    BY <1>10, QuietStill DEF Answer
  <1>11. ASSUME NEW c \in Calls, ShortCircuit(c) PROVE Quiet
    BY <1>11, QuietStill DEF ShortCircuit
  <1>12. ASSUME NEW c \in Calls, StartBody(c) PROVE Quiet
    BY <1>12, QuietStill DEF StartBody
  <1>13. ASSUME NEW c \in Calls, ZombieStart(c) PROVE Quiet
    BY <1>13, QuietStill DEF ZombieStart
  <1>14. ASSUME NEW c \in Calls, ResumeApprovedTool(c) PROVE Quiet
    BY <1>14, QuietStill DEF ResumeApprovedTool
  <1>15. ASSUME NEW c \in Calls, NEW outcome \in Outcome, Refuse(c, outcome) PROVE Quiet
    BY <1>15, QuietStill DEF Refuse
  <1>16. ASSUME NEW c \in Calls, NEW outcome \in Outcome, BodyReturns(c, outcome) PROVE Quiet
    BY <1>16, QuietStill DEF BodyReturns
  <1>17. ASSUME NEW S \in SUBSET Calls, NEW m \in BOOLEAN, PickRequests(S, m) PROVE Quiet
    BY <1>17, QuietStill DEF PickRequests
  <1>18. CASE UNCHANGED vars
    BY <1>18, QuietStill DEF vars
  <1>19. CASE BeginTurn
    <2> DEFINE e == Ev("turn_start", Turns + 1, 0, 0, "")
    <2>0. Turns + 1 \in 0..MaxTurns
      <3> DEFINE S == {i \in DOMAIN log : log[i].type = "turn_start"}
      <3>1. S \in SUBSET DOMAIN log /\ Turns = Cardinality(S)
        BY DEF Turns
      <3> HIDE DEF S
      <3>2. Turns \in Nat /\ Turns < MaxTurns
        BY <1>19, <3>1, PlacesFinite DEF BeginTurn
      <3> QED BY ONLY <1>0, <3>2, Above
    <2>1. e \in Events /\ e.call = 0
      BY <1>0, <2>0 DEF Ev, Events, EventTypes
    <2>2. Commit(<<e>>)
      BY <1>19 DEF BeginTurn
    <2> HIDE DEF e
    <2> QED BY <2>1, <2>2, QuietCommit
  <1>20. CASE StartStep
    <2> DEFINE e == Ev("step_start", worker.turn, worker.step + 1, 0, "")
    <2>0. worker.step + 1 \in 0..MaxSteps
      <3>1. worker.step < MaxSteps
        BY <1>20 DEF StartStep
      <3>2. worker.step \in Nat
        BY Bounds DEF TypeOK, Workers
      <3> QED BY ONLY <1>0, <3>1, <3>2, Above
    <2>1. e \in Events /\ e.call = 0
      BY <1>0, <2>0 DEF Ev, Events, EventTypes
    <2>2. Commit(<<e>>)
      BY <1>20 DEF StartStep
    <2> HIDE DEF e
    <2> QED BY <2>1, <2>2, QuietCommit
  <1>21. CASE EndTurn
    <2> DEFINE e == Ev("turn_end", worker.turn, 0, 0, "")
    <2>1. e \in Events /\ e.call = 0
      BY <1>0 DEF Ev, Events, EventTypes
    <2>2. Commit(<<e>>)
      BY <1>21 DEF EndTurn
    <2> HIDE DEF e
    <2> QED BY <2>1, <2>2, QuietCommit
  <1>22. CASE Chunk
    BY <1>22, QuietEmit, <1>0 DEF Chunk, EventTypes, Infos
  <1>23. CASE ModelReplies
    <2> DEFINE e1 == Ev("assistant", worker.turn, worker.step, 0, "final")
               e2 == Ev("step_end", worker.turn, worker.step, 0, "")
               evs == <<e1, e2>>
    <2>1. e1 \in Events /\ e2 \in Events /\ e1.call = 0 /\ e2.call = 0
      BY <1>0 DEF Ev, Events, EventTypes, Infos
    <2>2. log' = log \o evs
      BY <1>23 DEF ModelReplies, Commit
    <2> HIDE DEF e1, e2
    <2>3. evs \in Seq(Events) /\ DOMAIN evs = 1..2 /\ evs[1] = e1 /\ evs[2] = e2
      BY <2>1
    <2> HIDE DEF evs
    <2>4. \A c \in Calls : Silent(evs, c)
      <3>1. \A k \in DOMAIN evs : evs[k].call = 0
        BY <2>1, <2>3
      <3>2. \A c \in Calls : c # 0
        BY Bounds
      <3> QED BY <3>1, <3>2 DEF Silent
    <2> QED BY <2>2, <2>3, <2>4, SilentSame, AppendShape DEF Quiet
  <1>24. ASSUME NEW b \in BOOLEAN, ModelFails(b) PROVE Quiet
    <2>1. Emit("assistant", 0, "draft") \/ log' = log
      BY <1>24 DEF ModelFails
    <2>2. "assistant" \in EventTypes /\ "draft" \in Infos
      BY DEF EventTypes, Infos
    <2> QED BY <2>1, <2>2, QuietEmit, QuietStill
  <1>25. ASSUME NEW b \in BOOLEAN, FailStep(b) PROVE Quiet
    BY <1>25, QuietEmit DEF FailStep, EventTypes, Infos
  <1>26. ASSUME NEW k \in 1..MaxBatch, ModelCalls(k) PROVE Quiet
    BY <1>26, QuietEmit DEF ModelCalls, EventTypes, Infos
  <1>27. CASE CloseStep
    <2>1. Emit("step_end", 0, "") \/ log' = log
      BY <1>27 DEF CloseStep
    <2> QED BY <1>0, <2>1, QuietEmit, QuietStill DEF EventTypes
  <1> QED BY <1>1, <1>2, <1>3, <1>4, <1>5, <1>6, <1>7, <1>8, <1>9, <1>10, <1>11, <1>12, <1>13, <1>14,
             <1>15, <1>16, <1>17, <1>18, <1>19, <1>20, <1>21, <1>22, <1>23, <1>24, <1>25, <1>26, <1>27

LEMMA AdmitLog ==
  ASSUME ToolTurnAssumption, TypeOK, NEW c \in Calls, Admit(c)
  PROVE  About(c) /\ Wrote(c, "tool_call", "")
  <1>0. c \in 0..NumCalls
    BY DEF Calls, ToolTurnAssumption
  <1>1. Emit("tool_call", c, "") /\ "tool_call" \in EventTypes /\ "" \in Infos
    BY DEF Admit, EventTypes, Infos
  <1> QED BY <1>0, <1>1, EmitProps DEF About

LEMMA AskLog ==
  ASSUME ToolTurnAssumption, TypeOK, NEW c \in Calls, Ask(c)
  PROVE  About(c) /\ (Wrote(c, "approval_requested", "") \/ Same(c))
  <1>0. c \in 0..NumCalls
    BY DEF Calls, ToolTurnAssumption
  <1>1. log' = log \/ Emit("approval_requested", c, "")
    BY DEF Ask, Emit
  <1>2. "approval_requested" \in EventTypes /\ "" \in Infos
    BY DEF EventTypes, Infos
  <1>3. CASE log' = log
    BY <1>3, QuietStill DEF About, Quiet
  <1> QED BY <1>0, <1>1, <1>2, <1>3, EmitProps DEF About

LEMMA DispatchLog ==
  ASSUME ToolTurnAssumption, TypeOK, NEW c \in Calls, Dispatch(c)
  PROVE  About(c) /\ IF worker.op = "batch" THEN Same(c) ELSE Wrote(c, "dispatched", "")
  <1>0. c \in 0..NumCalls
    BY DEF Calls, ToolTurnAssumption
  <1>1. IF worker.op = "batch" THEN log' = log ELSE Emit("dispatched", c, "")
    BY DEF Dispatch
  <1>2. "dispatched" \in EventTypes /\ "" \in Infos
    BY DEF EventTypes, Infos
  <1>3. CASE worker.op = "batch"
    BY <1>1, <1>3, QuietStill DEF About, Quiet
  <1> QED BY <1>0, <1>1, <1>2, <1>3, EmitProps DEF About

LEMMA SettleLog ==
  ASSUME ToolTurnAssumption, TypeOK, NEW c \in Calls, Settle(c)
  PROVE  About(c) /\ IF task[c] = "deferred" THEN Wrote(c, "deferred", "") ELSE Wrote(c, "result", task[c])
  <1>0. c \in 0..NumCalls
    BY DEF Calls, ToolTurnAssumption
  <1>1. IF task[c] = "deferred" THEN Emit("deferred", c, "") ELSE Emit("result", c, task[c])
    BY DEF Settle
  <1>2. "deferred" \in EventTypes /\ "result" \in EventTypes /\ "" \in Infos
    BY DEF EventTypes, Infos
  <1>3. task[c] \in Infos
    BY DEF Settle, IsFirst, Infos
  <1>4. CASE task[c] = "deferred"
    BY <1>0, <1>1, <1>2, <1>4, EmitProps DEF About
  <1>5. CASE task[c] # "deferred"
    BY <1>0, <1>1, <1>2, <1>3, <1>5, EmitProps DEF About
  <1> QED BY <1>4, <1>5

LEMMA DecideLog ==
  ASSUME ToolTurnAssumption, TypeOK, NEW c \in Calls, NEW answer \in {"yes", "no"}, Decide(c, answer)
  PROVE  About(c) /\ Wrote(c, "approval_resolved", answer)
  <1>0. c \in 0..NumCalls
    BY DEF Calls, ToolTurnAssumption
  <1> DEFINE e == Ev("approval_resolved", 0, 0, c, answer)
  <1>1. e \in Events /\ e.call = c /\ e.type = "approval_resolved" /\ e.info = answer
    <2>1. 0 \in 0..MaxTurns /\ 0 \in 0..MaxSteps /\ answer \in Infos /\ "approval_resolved" \in EventTypes
      BY Bounds DEF Infos, EventTypes
    <2> QED BY <1>0, <2>1 DEF Ev, Events
  <1>2. Commit(<<e>>)
    BY DEF Decide
  <1> HIDE DEF e
  <1> QED BY <1>1, <1>2, CommitOne DEF About

LEMMA ResumeLog ==
  ASSUME ToolTurnAssumption, TypeOK, NEW c \in Calls, NEW outcome, ResumeNext(c, outcome)
  PROVE  About(c) /\ IF Has("result", c) \/ ResumeStarted(c) THEN Same(c)
         ELSE Wrote(c, "resume_started", IF worker.materialized THEN "materialized" ELSE "executed")
  <1>0. c \in 0..NumCalls
    BY DEF Calls, ToolTurnAssumption
  <1> DEFINE x == IF worker.materialized THEN "materialized" ELSE "executed"
  <1>1. IF Has("result", c) \/ ResumeStarted(c) THEN log' = log ELSE Emit("resume_started", c, x)
    BY DEF ResumeNext
  <1>2. "resume_started" \in EventTypes /\ x \in Infos
    BY DEF EventTypes, Infos
  <1> HIDE DEF x
  <1>3. CASE Has("result", c) \/ ResumeStarted(c)
    BY <1>1, <1>3, QuietStill DEF About, Quiet
  <1>4. CASE ~(Has("result", c) \/ ResumeStarted(c))
    <2>1. About(c) /\ Wrote(c, "resume_started", x)
      BY <1>0, <1>1, <1>2, <1>4, EmitProps DEF About
    <2> QED BY <1>4, <2>1 DEF x
  <1> QED BY <1>3, <1>4

LEMMA RecoverLog ==
  ASSUME ToolTurnAssumption, TracesInv, Recover
  PROVE  /\ log' \in Seq(Events)
         /\ \A c \in Calls : Same(c) \/ (c \in Dangling /\ Wrote(c, "result", "unknown"))
  <1> DEFINE evs == RecoveryEvents
  <1>1. log' = log \o evs
    BY DEF Recover, Commit
  <1>2. /\ evs \in Seq(Events)
        /\ \A c \in Calls :
             \/ Silent(evs, c)
             \/ c \in Dangling /\ \E e : /\ e.call = c /\ e.type = "result" /\ e.info = "unknown"
                                         /\ Lone(evs, c, e)
    BY RecoverProps
  <1> HIDE DEF evs
  <1>3. TypeOK
    BY DEF TracesInv
  <1>4. log' \in Seq(Events)
    BY <1>1, <1>2, <1>3, AppendShape
  <1>5. ASSUME NEW c \in Calls, Silent(evs, c) PROVE Same(c)
    BY <1>1, <1>2, <1>3, <1>5, SilentSame
  <1>6. ASSUME NEW c \in Calls, NEW e, e.call = c, e.type = "result", e.info = "unknown", Lone(evs, c, e)
        PROVE  Wrote(c, "result", "unknown")
    <2>1. Wrote(c, e.type, e.info)
      BY <1>1, <1>2, <1>3, <1>6, LoneWrote
    <2> QED BY <1>6, <2>1
  <1> QED BY <1>2, <1>4, <1>5, <1>6

-----------------------------------------------------------------------------
(* Types, and that nothing is known of a call before its tool/call. *)

LEMMA NoWorkerType ==
  ASSUME ToolTurnAssumption
  PROVE  NoWorker \in Workers /\ NoTasks \in [Calls -> Tasks]
  <1>1. NoTasks \in [Calls -> Tasks]
    BY DEF NoTasks, Tasks
  <1>2. 0 \in 0..MaxTurns /\ 0 \in 0..MaxSteps
    BY Bounds
  <1> QED BY <1>1, <1>2 DEF NoWorker, Workers, Pcs

\* The log after a step, except for recovery.
LEMMA LogType ==
  ASSUME ToolTurnAssumption, TracesInv, [Next]_vars
  PROVE  log' \in Seq(Events)
  <1>0. TypeOK
    BY DEF TracesInv
  <1>1. ASSUME NEW op \in {"run", "batch", "single", "approval"}, Claim(op) PROVE log' \in Seq(Events)
    BY <1>1, <1>0, QuietSteps DEF Quiet
  <1>2. CASE Recover
    BY <1>2, RecoverLog
  <1>3. CASE BeginTurn
    BY <1>3, <1>0, QuietSteps DEF Quiet
  <1>4. CASE Cancel
    BY <1>4, <1>0, QuietSteps DEF Quiet
  <1>5. CASE Crash
    BY <1>5, <1>0, QuietSteps DEF Quiet
  <1>6. CASE LoseLease
    BY <1>6, <1>0, QuietSteps DEF Quiet
  <1>7. CASE StartStep
    BY <1>7, <1>0, QuietSteps DEF Quiet
  <1>8. CASE EndTurn
    BY <1>8, <1>0, QuietSteps DEF Quiet
  <1>9. CASE PolicyWait
    BY <1>9, <1>0, QuietSteps DEF Quiet
  <1>10. CASE Chunk
    BY <1>10, <1>0, QuietSteps DEF Quiet
  <1>11. CASE ModelReplies
    BY <1>11, <1>0, QuietSteps DEF Quiet
  <1>12. CASE StartBatch
    BY <1>12, <1>0, QuietSteps DEF Quiet
  <1>13. ASSUME NEW b \in BOOLEAN, ModelFails(b) PROVE log' \in Seq(Events)
    BY <1>13, <1>0, QuietSteps DEF Quiet
  <1>14. ASSUME NEW b \in BOOLEAN, FailStep(b) PROVE log' \in Seq(Events)
    BY <1>14, <1>0, QuietSteps DEF Quiet
  <1>15. ASSUME NEW n \in 1..MaxBatch, ModelCalls(n) PROVE log' \in Seq(Events)
    BY <1>15, <1>0, QuietSteps DEF Quiet
  <1>16. ASSUME NEW c \in Calls, Admit(c) PROVE log' \in Seq(Events)
    BY <1>16, <1>0, AdmitLog DEF About
  <1>17. ASSUME NEW c \in Calls, Ask(c) PROVE log' \in Seq(Events)
    BY <1>17, <1>0, AskLog DEF About
  <1>18. ASSUME NEW c \in Calls, Answer(c) PROVE log' \in Seq(Events)
    BY <1>18, <1>0, QuietSteps DEF Quiet
  <1>19. ASSUME NEW c \in Calls, ShortCircuit(c) PROVE log' \in Seq(Events)
    BY <1>19, <1>0, QuietSteps DEF Quiet
  <1>20. ASSUME NEW c \in Calls, Dispatch(c) PROVE log' \in Seq(Events)
    BY <1>20, <1>0, DispatchLog DEF About
  <1>21. ASSUME NEW c \in Calls, StartBody(c) PROVE log' \in Seq(Events)
    BY <1>21, <1>0, QuietSteps DEF Quiet
  <1>22. ASSUME NEW c \in Calls, ZombieStart(c) PROVE log' \in Seq(Events)
    BY <1>22, <1>0, QuietSteps DEF Quiet
  <1>23. ASSUME NEW c \in Calls, Settle(c) PROVE log' \in Seq(Events)
    BY <1>23, <1>0, SettleLog DEF About
  <1>24. ASSUME NEW c \in Calls, ResumeApprovedTool(c) PROVE log' \in Seq(Events)
    BY <1>24, <1>0, QuietSteps DEF Quiet
  <1>25. ASSUME NEW c \in Calls, NEW outcome \in {"error", "aborted"}, Refuse(c, outcome)
        PROVE  log' \in Seq(Events)
    BY <1>25, <1>0, QuietSteps DEF Quiet, Outcome
  <1>26. ASSUME NEW c \in Calls, NEW outcome \in {"ok", "conclude", "error", "deferred"}, BodyReturns(c, outcome)
        PROVE  log' \in Seq(Events)
    BY <1>26, <1>0, QuietSteps DEF Quiet, Outcome
  <1>27. ASSUME NEW c \in Calls, NEW outcome \in {"ok", "conclude", "error", "deferred"}, ResumeNext(c, outcome)
        PROVE  log' \in Seq(Events)
    BY <1>27, <1>0, ResumeLog DEF About
  <1>28. ASSUME NEW c \in Calls, NEW answer \in {"yes", "no"}, Decide(c, answer) PROVE log' \in Seq(Events)
    BY <1>28, <1>0, DecideLog DEF About
  <1>29. CASE FinishBatch
    BY <1>29, <1>0, QuietSteps DEF Quiet
  <1>30. CASE CloseStep
    BY <1>30, <1>0, QuietSteps DEF Quiet
  <1>31. ASSUME NEW S \in SUBSET Calls, NEW m \in BOOLEAN, PickRequests(S, m) PROVE log' \in Seq(Events)
    BY <1>31, <1>0, QuietSteps DEF Quiet
  <1>32. CASE ResumeNothing
    BY <1>32, <1>0, QuietSteps DEF Quiet
  <1>33. CASE FinishResume
    BY <1>33, <1>0, QuietSteps DEF Quiet
  <1>34. CASE UNCHANGED vars
    BY <1>34, <1>0, QuietSteps DEF Quiet
  <1> QED
    BY <1>1, <1>2, <1>3, <1>4, <1>5, <1>6, <1>7, <1>8, <1>9, <1>10,
       <1>11, <1>12, <1>13, <1>14, <1>15, <1>16, <1>17, <1>18, <1>19, <1>20,
       <1>21, <1>22, <1>23, <1>24, <1>25, <1>26, <1>27, <1>28, <1>29, <1>30,
       <1>31, <1>32, <1>33, <1>34
    DEF Next

\* Where a resume leaves the worker.
LEMMA ResumeWorker ==
  ASSUME worker \in Workers, NEW c \in Calls, NEW outcome, ResumeNext(c, outcome)
  PROVE  /\ worker' \in Workers /\ worker.pc = "resuming"
         /\ worker'.op = worker.op /\ worker'.todo = worker.todo \ {c}
         /\ worker'.materialized = worker.materialized
         /\ Has("result", c) => worker'.pc = "resuming" /\ task'[c] = task[c]
         /\ ~Has("result", c) => worker'.pc = "tools" /\ worker'.batch = {c}
  <1> DEFINE R == worker.todo \ {c}
             K == {c}
  <1>1. R \in SUBSET Calls /\ K \in SUBSET Calls
    BY DEF Workers
  <1>2. worker.pc = "resuming"
    BY DEF ResumeNext
  <1>3. CASE Has("result", c)
    <2>1. worker' = [worker EXCEPT !.todo = R] /\ task' = task
      BY <1>3 DEF ResumeNext
    <2> HIDE DEF R
    <2>2. /\ worker' \in Workers /\ worker'.op = worker.op /\ worker'.todo = R
          /\ worker'.materialized = worker.materialized /\ worker'.pc = worker.pc
      BY ONLY worker \in Workers, <1>1, <2>1 DEF Workers
    <2> QED BY <1>2, <1>3, <2>1, <2>2 DEF R
  <1>4. CASE ~Has("result", c)
    <2>1. worker' = [worker EXCEPT !.pc = "tools", !.todo = R, !.batch = K]
      BY <1>4 DEF ResumeNext
    <2> HIDE DEF R, K
    <2>2. /\ worker' \in Workers /\ worker'.op = worker.op /\ worker'.todo = R
          /\ worker'.materialized = worker.materialized /\ worker'.pc = "tools" /\ worker'.batch = K
      BY ONLY worker \in Workers, <1>1, <2>1 DEF Workers, Pcs
    <2> QED BY <1>2, <1>4, <2>2 DEF R, K
  <1> QED BY <1>3, <1>4

LEMMA TypeStep ==
  ASSUME ToolTurnAssumption, TracesInv, [Next]_vars
  PROVE  TypeOK'
  <1>0. log' \in Seq(Events)
    BY LogType
  <1>a. /\ worker \in Workers /\ task \in [Calls -> Tasks] /\ zombies \in SUBSET Calls
        /\ runs \in [Calls -> Nat] /\ used \in 0..NumCalls /\ leases \in 0..MaxLeases
        /\ NoWorker \in Workers /\ NoTasks \in [Calls -> Tasks]
    BY NoWorkerType DEF TracesInv, TypeOK
  <1> USE DEF TypeOK
  <1>1. ASSUME NEW op \in {"run", "batch", "single", "approval"}, Claim(op) PROVE TypeOK'
    <2>1. worker' \in Workers
      BY <1>1, <1>a DEF Claim, Workers, Pcs
    <2>2. leases' \in 0..MaxLeases
      BY <1>1, <1>a, Bounds DEF Claim
    <2> QED BY <1>1, <1>0, <1>a, <2>1, <2>2 DEF Claim
  <1>2. CASE Recover
    BY <1>2, <1>0, <1>a DEF Recover, Goto, Workers, Pcs
  <1>3. CASE BeginTurn
    <2>1. Turns + 1 \in 0..MaxTurns
      <3> DEFINE S == {i \in DOMAIN log : log[i].type = "turn_start"}
      <3>1. S \in SUBSET DOMAIN log /\ Turns = Cardinality(S)
        BY DEF Turns
      <3> HIDE DEF S
      <3>2. Turns \in Nat /\ Turns < MaxTurns
        BY <1>3, <3>1, PlacesFinite DEF BeginTurn, TracesInv
      <3>3. MaxTurns \in Nat
        BY Bounds
      <3> QED BY ONLY <3>2, <3>3, Above
    <2>2. worker' \in Workers
      <3>1. worker' = [worker EXCEPT !.pc = "steps", !.turn = Turns + 1] /\ "steps" \in Pcs
        BY <1>3 DEF BeginTurn, Pcs
      <3> QED BY <1>a, <2>1, <3>1 DEF Workers
    <2> QED BY <1>3, <1>0, <1>a, <2>2 DEF BeginTurn
  <1>4. CASE Cancel
    BY <1>4, <1>0, <1>a DEF Cancel, Workers
  <1>5. CASE Crash
    BY <1>5, <1>0, <1>a DEF Crash, Release
  <1>6. CASE LoseLease
    BY <1>6, <1>0, <1>a DEF LoseLease, Release
  <1>7. CASE StartStep
    <2>1. worker.step + 1 \in 0..MaxSteps
      <3>1. worker.step < MaxSteps
        BY <1>7 DEF StartStep
      <3>2. worker.step \in Nat /\ MaxSteps \in Nat
        BY <1>a, Bounds DEF Workers
      <3> QED BY ONLY <3>1, <3>2, Above
    <2>2. worker' \in Workers
      <3>1. worker' = [worker EXCEPT !.pc = "model", !.step = worker.step + 1, !.cont = "continue"] /\ "model" \in Pcs
        BY <1>7 DEF StartStep, Pcs
      <3> QED BY <1>a, <2>1, <3>1 DEF Workers
    <2> QED BY <1>7, <1>0, <1>a, <2>2 DEF StartStep
  <1>8. CASE EndTurn
    BY <1>8, <1>0, <1>a DEF EndTurn, Release
  <1>9. CASE PolicyWait
    BY <1>9, <1>0, <1>a DEF PolicyWait, Release
  <1>10. CASE Chunk
    BY <1>10, <1>0, <1>a DEF Chunk
  <1>11. CASE ModelReplies
    BY <1>11, <1>0, <1>a DEF ModelReplies, Goto, Workers, Pcs
  <1>12. CASE StartBatch
    <2>1. worker' \in Workers
      BY <1>12, <1>a DEF StartBatch, Goto, Workers, Pcs
    <2>2. task' \in [Calls -> Tasks]
      BY <1>12 DEF StartBatch, Tasks, Outcome, Undispatched
    <2> QED BY <1>12, <1>0, <1>a, <2>1, <2>2 DEF StartBatch
  <1>13. ASSUME NEW b \in BOOLEAN, ModelFails(b) PROVE TypeOK'
    BY <1>13, <1>0, <1>a DEF ModelFails, Goto, Workers, Pcs
  <1>14. ASSUME NEW b \in BOOLEAN, FailStep(b) PROVE TypeOK'
    BY <1>14, <1>0, <1>a DEF FailStep, Goto, Workers, Pcs
  <1>15. ASSUME NEW n \in 1..MaxBatch, ModelCalls(n) PROVE TypeOK'
    <2>1. used + n \in 0..NumCalls /\ (used + 1)..(used + n) \in SUBSET Calls
      BY <1>15, <1>a, Bounds DEF ModelCalls, Calls
    <2>2. worker' \in Workers
      BY <1>15, <1>a, <2>1 DEF ModelCalls, Workers, Pcs
    <2> QED BY <1>15, <1>0, <1>a, <2>1, <2>2 DEF ModelCalls
  <1>16. ASSUME NEW c \in Calls, Admit(c) PROVE TypeOK'
    BY <1>16, <1>0, <1>a DEF Admit
  <1>17. ASSUME NEW c \in Calls, Ask(c) PROVE TypeOK'
    BY <1>17, <1>0, <1>a DEF Ask, Become, Tasks, Outcome, Undispatched
  <1>18. ASSUME NEW c \in Calls, Answer(c) PROVE TypeOK'
    BY <1>18, <1>0, <1>a DEF Answer, Become, Tasks, Outcome, Undispatched
  <1>19. ASSUME NEW c \in Calls, ShortCircuit(c) PROVE TypeOK'
    BY <1>19, <1>0, <1>a DEF ShortCircuit, Become, Tasks, Outcome, Undispatched
  <1>20. ASSUME NEW c \in Calls, Dispatch(c) PROVE TypeOK'
    BY <1>20, <1>0, <1>a DEF Dispatch, Become, Tasks, Outcome, Undispatched
  <1>21. ASSUME NEW c \in Calls, StartBody(c) PROVE TypeOK'
    <2>1. runs' \in [Calls -> Nat]
      BY <1>21, <1>a DEF StartBody
    <2>2. task' \in [Calls -> Tasks]
      BY <1>21, <1>a DEF StartBody, Become, Tasks
    <2> QED BY <1>21, <1>0, <1>a, <2>1, <2>2 DEF StartBody
  <1>22. ASSUME NEW c \in Calls, ZombieStart(c) PROVE TypeOK'
    <2>1. runs' \in [Calls -> Nat]
      BY <1>22, <1>a DEF ZombieStart
    <2> QED BY <1>22, <1>0, <1>a, <2>1 DEF ZombieStart
  <1>23. ASSUME NEW c \in Calls, Settle(c) PROVE TypeOK'
    <2>1. worker' \in Workers
      BY <1>23, <1>a DEF Settle, Workers
    <2>2. task' \in [Calls -> Tasks]
      BY <1>23, <1>a DEF Settle, Become, Tasks
    <2>3. runs' \in [Calls -> Nat]
      <3>1. runs' = runs \/ runs' = [runs EXCEPT ![c] = 0]
        BY <1>23 DEF Settle
      <3> QED BY <1>a, <3>1
    <2> QED BY <1>23, <1>0, <1>a, <2>1, <2>2, <2>3 DEF Settle
  <1>24. ASSUME NEW c \in Calls, ResumeApprovedTool(c) PROVE TypeOK'
    <2>1. Has("tool_call", c)
      BY <1>24 DEF ResumeApprovedTool, Decided, TracesInv, TracedInv, EventTypes
    <2> DEFINE step == StepOf(c)
    <2>2. step[1] \in 0..MaxTurns /\ step[2] \in 0..MaxSteps
      BY <2>1, StepType DEF TracesInv
    <2>3. \/ Release
          \/ /\ worker' = [worker EXCEPT !.pc = IF Has("result", c) THEN "closeStep" ELSE "tools",
                                         !.turn = step[1], !.step = step[2], !.batch = {c}]
             /\ task' = [NoTasks EXCEPT ![c] = IF Has("result", c) THEN "none"
                                               ELSE IF Approved(c) THEN "queued" ELSE "denied"]
      BY <1>24 DEF ResumeApprovedTool
    <2> HIDE DEF step
    <2>4. worker' \in Workers
      <3> DEFINE K == {c}
      <3>1. \/ worker' = NoWorker
            \/ \E p \in {"closeStep", "tools"} :
                 worker' = [worker EXCEPT !.pc = p, !.turn = step[1], !.step = step[2], !.batch = K]
        BY <2>3 DEF Release
      <3>2. K \in SUBSET Calls
        OBVIOUS
      <3> HIDE DEF K
      <3>3. ASSUME NEW p \in {"closeStep", "tools"},
                   worker' = [worker EXCEPT !.pc = p, !.turn = step[1], !.step = step[2], !.batch = K]
            PROVE  worker' \in Workers
        BY ONLY <1>a, <2>2, <3>2, <3>3 DEF Workers, Pcs
      <3> QED BY <1>a, <3>1, <3>3
    <2>5. task' \in [Calls -> Tasks]
      BY <1>a, <2>3 DEF Tasks, Release, Outcome, Undispatched
    <2> QED BY <1>24, <1>0, <1>a, <2>4, <2>5 DEF ResumeApprovedTool
  <1>25. ASSUME NEW c \in Calls, NEW outcome \in {"error", "aborted"}, Refuse(c, outcome) PROVE TypeOK'
    BY <1>25, <1>0, <1>a DEF Refuse, Become, Tasks, Outcome, Undispatched
  <1>26. ASSUME NEW c \in Calls, NEW outcome \in {"ok", "conclude", "error", "deferred"}, BodyReturns(c, outcome)
        PROVE  TypeOK'
    BY <1>26, <1>0, <1>a DEF BodyReturns, Become, Tasks, Outcome, Undispatched
  <1>27. ASSUME NEW c \in Calls, NEW outcome \in {"ok", "conclude", "error", "deferred"}, ResumeNext(c, outcome)
        PROVE  TypeOK'
    <2>1. worker' \in Workers
      BY <1>27, <1>a, ResumeWorker
    <2>2. task' \in [Calls -> Tasks]
      BY <1>27, <1>a DEF ResumeNext, Tasks, Outcome, Undispatched
    <2> QED BY <1>27, <1>0, <1>a, <2>1, <2>2 DEF ResumeNext
  <1>28. ASSUME NEW c \in Calls, NEW answer \in {"yes", "no"}, Decide(c, answer) PROVE TypeOK'
    BY <1>28, <1>0, <1>a DEF Decide
  <1>29. CASE FinishBatch
    <2>1. worker' \in Workers /\ task' \in [Calls -> Tasks]
      BY <1>29, <1>a DEF FinishBatch, Release, Goto, Workers, Pcs
    <2> QED BY <1>29, <1>0, <1>a, <2>1 DEF FinishBatch
  <1>30. CASE CloseStep
    <2>1. worker' \in Workers
      <3>1. \/ worker' = NoWorker
            \/ \E p \in {"endTurn", "steps"} :
                 worker' = [worker EXCEPT !.op = "run", !.batch = {}, !.requests = {}, !.pc = p]
        BY <1>30 DEF CloseStep, Release
      <3> QED BY <1>a, <3>1 DEF Workers, Pcs
    <2>2. task' \in [Calls -> Tasks]
      BY <1>30, <1>a DEF CloseStep, Release
    <2> QED BY <1>30, <1>0, <1>a, <2>1, <2>2 DEF CloseStep
  <1>31. ASSUME NEW S \in SUBSET Calls, NEW m \in BOOLEAN, PickRequests(S, m) PROVE TypeOK'
    <2>1. S \in SUBSET Int /\ IsFiniteSet(S) /\ S # {}
      <3>1. IsFiniteSet(Calls) /\ Calls \in SUBSET Int
        BY Bounds, FS_Interval DEF Calls
      <3> QED BY <1>31, <3>1, FS_Subset DEF PickRequests
    <2>2. Min(S) \in S
      BY <2>1, MinProps
    <2>3. Has("tool_call", Min(S))
      BY <1>31, <2>2 DEF PickRequests, TracesInv, TracedInv, EventTypes
    <2> DEFINE step == StepOf(Min(S))
    <2>4. step[1] \in 0..MaxTurns /\ step[2] \in 0..MaxSteps
      BY <2>3, StepType DEF TracesInv
    <2>5. worker' = [worker EXCEPT !.pc = "resuming", !.turn = step[1], !.step = step[2],
                                   !.todo = S, !.requests = S, !.materialized = m] /\ "resuming" \in Pcs
      BY <1>31 DEF PickRequests, Pcs
    <2> HIDE DEF step
    <2>6. worker' \in Workers
      BY <1>a, <2>4, <2>5 DEF Workers
    <2> QED BY <1>31, <1>0, <1>a, <2>6 DEF PickRequests
  <1>32. CASE ResumeNothing
    BY <1>32, <1>0, <1>a DEF ResumeNothing, Release
  <1>33. CASE FinishResume
    <2>1. worker' \in Workers
      <3>1. \/ worker' = NoWorker
            \/ \E k \in {"conclude", "continue"} : worker' = [worker EXCEPT !.pc = "closeStep", !.cont = k]
        BY <1>33 DEF FinishResume, Release
      <3> QED BY <1>a, <3>1 DEF Workers, Pcs
    <2>2. task' \in [Calls -> Tasks]
      BY <1>33, <1>a DEF FinishResume, Release
    <2> QED BY <1>33, <1>0, <1>a, <2>1, <2>2 DEF FinishResume
  <1>34. CASE UNCHANGED vars
    BY <1>34, <1>0, <1>a DEF vars
  <1> QED
    BY <1>1, <1>2, <1>3, <1>4, <1>5, <1>6, <1>7, <1>8, <1>9, <1>10,
       <1>11, <1>12, <1>13, <1>14, <1>15, <1>16, <1>17, <1>18, <1>19, <1>20,
       <1>21, <1>22, <1>23, <1>24, <1>25, <1>26, <1>27, <1>28, <1>29, <1>30,
       <1>31, <1>32, <1>33, <1>34
    DEF Next

-----------------------------------------------------------------------------
(* The calls a step is not about. *)

Steady(c) ==
    /\ Same(c)
    /\ runs'[c] = runs[c]
    /\ c \in zombies' <=> c \in zombies
    /\ task'[c] \in {"none", "settled"} \/ task'[c] = task[c]
    /\ c \in worker'.todo => c \in worker.todo /\ worker'.materialized = worker.materialized

LEMMA SteadySteps ==
  ASSUME ToolTurnAssumption, TypeOK, NEW c \in Calls,
         \/ \E op \in {"run", "batch", "single", "approval"} : Claim(op)
         \/ BeginTurn \/ Cancel \/ Crash \/ StartStep \/ EndTurn \/ PolicyWait \/ Chunk \/ ModelReplies
         \/ \E b \in BOOLEAN : ModelFails(b) \/ FailStep(b)
         \/ \E n \in 1..MaxBatch : ModelCalls(n)
         \/ FinishBatch \/ CloseStep \/ ResumeNothing \/ FinishResume
         \/ UNCHANGED vars
  PROVE  Steady(c)
  <1>0. Same(c)
    BY QuietSteps DEF Quiet
  <1>a. worker \in Workers /\ NoWorker.todo = {} /\ \A d \in Calls : NoTasks[d] = "none"
    BY DEF TypeOK, NoWorker, NoTasks
  <1>1. ASSUME NEW op \in {"run", "batch", "single", "approval"}, Claim(op) PROVE Steady(c)
    <2>1. task' = task /\ UNCHANGED <<zombies, runs>>
      BY <1>1 DEF Claim
    <2>2. worker'.todo = {}
      BY <1>1, <1>a DEF Claim, Workers
    <2> QED BY <1>0, <1>a, <2>1, <2>2 DEF Steady
  <1>2. CASE BeginTurn
    <2>1. task' = task /\ UNCHANGED <<zombies, runs>>
      BY <1>2 DEF BeginTurn
    <2>2. worker'.todo = worker.todo /\ worker'.materialized = worker.materialized
      BY <1>2, <1>a DEF BeginTurn, Workers
    <2> QED BY <1>0, <1>a, <2>1, <2>2 DEF Steady
  <1>3. CASE Cancel
    <2>1. task' = task /\ UNCHANGED <<zombies, runs>>
      BY <1>3 DEF Cancel
    <2>2. worker'.todo = worker.todo /\ worker'.materialized = worker.materialized
      BY <1>3, <1>a DEF Cancel, Workers
    <2> QED BY <1>0, <1>a, <2>1, <2>2 DEF Steady
  <1>4. CASE Crash
    <2>1. task' = NoTasks /\ UNCHANGED <<zombies, runs>>
      BY <1>4 DEF Crash, Release
    <2>2. worker'.todo = {}
      BY <1>4, <1>a DEF Crash, Release, Workers
    <2> QED BY <1>0, <1>a, <2>1, <2>2 DEF Steady
  <1>5. CASE StartStep
    <2>1. task' = task /\ UNCHANGED <<zombies, runs>>
      BY <1>5 DEF StartStep
    <2>2. worker'.todo = worker.todo /\ worker'.materialized = worker.materialized
      BY <1>5, <1>a DEF StartStep, Workers
    <2> QED BY <1>0, <1>a, <2>1, <2>2 DEF Steady
  <1>6. CASE EndTurn
    <2>1. task' = NoTasks /\ UNCHANGED <<zombies, runs>>
      BY <1>6 DEF EndTurn, Release
    <2>2. worker'.todo = {}
      BY <1>6, <1>a DEF EndTurn, Release, Workers
    <2> QED BY <1>0, <1>a, <2>1, <2>2 DEF Steady
  <1>7. CASE PolicyWait
    <2>1. task' = NoTasks /\ UNCHANGED <<zombies, runs>>
      BY <1>7 DEF PolicyWait, Release
    <2>2. worker'.todo = {}
      BY <1>7, <1>a DEF PolicyWait, Release, Workers
    <2> QED BY <1>0, <1>a, <2>1, <2>2 DEF Steady
  <1>8. CASE Chunk
    <2>1. task' = task /\ UNCHANGED <<zombies, runs>>
      BY <1>8 DEF Chunk
    <2>2. worker'.todo = worker.todo /\ worker'.materialized = worker.materialized
      BY <1>8, <1>a DEF Chunk, Workers
    <2> QED BY <1>0, <1>a, <2>1, <2>2 DEF Steady
  <1>9. CASE ModelReplies
    <2>1. task' = task /\ UNCHANGED <<zombies, runs>>
      BY <1>9 DEF ModelReplies, Goto
    <2>2. worker'.todo = worker.todo /\ worker'.materialized = worker.materialized
      BY <1>9, <1>a DEF ModelReplies, Goto, Workers
    <2> QED BY <1>0, <1>a, <2>1, <2>2 DEF Steady
  <1>10. ASSUME NEW b \in BOOLEAN, ModelFails(b) PROVE Steady(c)
    <2>1. task' = task /\ UNCHANGED <<zombies, runs>>
      BY <1>10 DEF ModelFails, Goto
    <2>2. worker'.todo = worker.todo /\ worker'.materialized = worker.materialized
      BY <1>10, <1>a DEF ModelFails, Goto, Workers
    <2> QED BY <1>0, <1>a, <2>1, <2>2 DEF Steady
  <1>11. ASSUME NEW b \in BOOLEAN, FailStep(b) PROVE Steady(c)
    <2>1. task' = task /\ UNCHANGED <<zombies, runs>>
      BY <1>11 DEF FailStep, Goto
    <2>2. worker'.todo = worker.todo /\ worker'.materialized = worker.materialized
      BY <1>11, <1>a DEF FailStep, Goto, Workers
    <2> QED BY <1>0, <1>a, <2>1, <2>2 DEF Steady
  <1>12. ASSUME NEW n \in 1..MaxBatch, ModelCalls(n) PROVE Steady(c)
    <2>1. task' = task /\ UNCHANGED <<zombies, runs>>
      BY <1>12 DEF ModelCalls
    <2>2. worker'.todo = worker.todo /\ worker'.materialized = worker.materialized
      BY <1>12, <1>a DEF ModelCalls, Workers
    <2> QED BY <1>0, <1>a, <2>1, <2>2 DEF Steady
  <1>13. CASE FinishBatch
    <2>1. (task' = NoTasks \/ task' = task) /\ UNCHANGED <<zombies, runs>>
      BY <1>13 DEF FinishBatch, Release, Goto
    <2>2. worker'.todo = {} \/ (worker'.todo = worker.todo /\ worker'.materialized = worker.materialized)
      BY <1>13, <1>a DEF FinishBatch, Release, Goto, Workers
    <2> QED BY <1>0, <1>a, <2>1, <2>2 DEF Steady
  <1>14. CASE CloseStep
    <2>1. task' = NoTasks /\ UNCHANGED <<zombies, runs>>
      BY <1>14 DEF CloseStep, Release
    <2>2. worker'.todo = {} \/ (worker'.todo = worker.todo /\ worker'.materialized = worker.materialized)
      <3>1. \/ worker' = NoWorker
            \/ \E p \in {"endTurn", "steps"} :
                 worker' = [worker EXCEPT !.op = "run", !.batch = {}, !.requests = {}, !.pc = p]
        BY <1>14 DEF CloseStep, Release
      <3> QED BY <1>a, <3>1 DEF Workers
    <2> QED BY <1>0, <1>a, <2>1, <2>2 DEF Steady
  <1>15. CASE ResumeNothing
    <2>1. task' = NoTasks /\ UNCHANGED <<zombies, runs>>
      BY <1>15 DEF ResumeNothing, Release
    <2>2. worker'.todo = {}
      BY <1>15, <1>a DEF ResumeNothing, Release, Workers
    <2> QED BY <1>0, <1>a, <2>1, <2>2 DEF Steady
  <1>16. CASE FinishResume
    <2>1. (task' = NoTasks \/ task' = task) /\ UNCHANGED <<zombies, runs>>
      BY <1>16 DEF FinishResume, Release
    <2>2. worker'.todo = {} \/ (worker'.todo = worker.todo /\ worker'.materialized = worker.materialized)
      BY <1>16, <1>a DEF FinishResume, Release, Workers
    <2> QED BY <1>0, <1>a, <2>1, <2>2 DEF Steady
  <1>17. CASE UNCHANGED vars
    <2>1. task' = task /\ UNCHANGED <<zombies, runs>>
      BY <1>17 DEF vars
    <2>2. worker'.todo = worker.todo /\ worker'.materialized = worker.materialized
      BY <1>17, <1>a DEF vars, Workers
    <2> QED BY <1>0, <1>a, <2>1, <2>2 DEF Steady
  <1> QED BY <1>1, <1>2, <1>3, <1>4, <1>5, <1>6, <1>7, <1>8, <1>9, <1>10, <1>11, <1>12, <1>13, <1>14,
             <1>15, <1>16, <1>17

LEMMA OthersSteady ==
  ASSUME ToolTurnAssumption, TypeOK, NEW c \in Calls, NEW d \in Calls, d # c,
         \/ Admit(c) \/ Ask(c) \/ Answer(c) \/ ShortCircuit(c) \/ Dispatch(c)
         \/ StartBody(c) \/ ZombieStart(c) \/ Settle(c) \/ ResumeApprovedTool(c)
         \/ \E outcome \in {"error", "aborted"} : Refuse(c, outcome)
         \/ \E outcome \in {"ok", "conclude", "error", "deferred"} :
              BodyReturns(c, outcome) \/ ResumeNext(c, outcome)
         \/ \E answer \in {"yes", "no"} : Decide(c, answer)
  PROVE  Steady(d)
  <1>a. /\ worker \in Workers /\ NoWorker.todo = {} /\ \A x \in Calls : NoTasks[x] = "none"
        /\ task \in [Calls -> Tasks] /\ runs \in [Calls -> Nat]
    BY DEF TypeOK, NoWorker, NoTasks
  <1>1. CASE Admit(c)
    <2>0. Same(d)
      BY <1>1, AdmitLog DEF About
    <2>1. task'[d] = task[d] /\ runs'[d] = runs[d] /\ (d \in zombies' <=> d \in zombies)
      BY <1>1, <1>a DEF Admit
    <2>2. worker'.todo = worker.todo /\ worker'.materialized = worker.materialized
      BY <1>1, <1>a DEF Admit, Workers
    <2> QED BY <2>0, <2>1, <2>2 DEF Steady
  <1>2. CASE Ask(c)
    <2>0. Same(d)
      BY <1>2, AskLog DEF About
    <2>1. task'[d] = task[d] /\ runs'[d] = runs[d] /\ (d \in zombies' <=> d \in zombies)
      BY <1>2, <1>a DEF Ask, Become
    <2>2. worker'.todo = worker.todo /\ worker'.materialized = worker.materialized
      BY <1>2, <1>a DEF Ask, Workers
    <2> QED BY <2>0, <2>1, <2>2 DEF Steady
  <1>3. CASE Answer(c)
    <2>0. Same(d)
      BY <1>3, QuietSteps DEF Quiet
    <2>1. task'[d] = task[d] /\ runs'[d] = runs[d] /\ (d \in zombies' <=> d \in zombies)
      BY <1>3, <1>a DEF Answer, Become
    <2>2. worker'.todo = worker.todo /\ worker'.materialized = worker.materialized
      BY <1>3, <1>a DEF Answer, Workers
    <2> QED BY <2>0, <2>1, <2>2 DEF Steady
  <1>4. CASE ShortCircuit(c)
    <2>0. Same(d)
      BY <1>4, QuietSteps DEF Quiet
    <2>1. task'[d] = task[d] /\ runs'[d] = runs[d] /\ (d \in zombies' <=> d \in zombies)
      BY <1>4, <1>a DEF ShortCircuit, Become
    <2>2. worker'.todo = worker.todo /\ worker'.materialized = worker.materialized
      BY <1>4, <1>a DEF ShortCircuit, Workers
    <2> QED BY <2>0, <2>1, <2>2 DEF Steady
  <1>5. CASE Dispatch(c)
    <2>0. Same(d)
      BY <1>5, DispatchLog DEF About
    <2>1. task'[d] = task[d] /\ runs'[d] = runs[d] /\ (d \in zombies' <=> d \in zombies)
      BY <1>5, <1>a DEF Dispatch, Become
    <2>2. worker'.todo = worker.todo /\ worker'.materialized = worker.materialized
      BY <1>5, <1>a DEF Dispatch, Workers
    <2> QED BY <2>0, <2>1, <2>2 DEF Steady
  <1>6. CASE StartBody(c)
    <2>0. Same(d)
      BY <1>6, QuietSteps DEF Quiet
    <2>1. task'[d] = task[d] /\ runs'[d] = runs[d] /\ (d \in zombies' <=> d \in zombies)
      BY <1>6, <1>a DEF StartBody, Become
    <2>2. worker'.todo = worker.todo /\ worker'.materialized = worker.materialized
      BY <1>6, <1>a DEF StartBody, Workers
    <2> QED BY <2>0, <2>1, <2>2 DEF Steady
  <1>7. CASE ZombieStart(c)
    <2>0. Same(d)
      BY <1>7, QuietSteps DEF Quiet
    <2>1. task'[d] = task[d] /\ runs'[d] = runs[d] /\ (d \in zombies' <=> d \in zombies)
      BY <1>7, <1>a DEF ZombieStart
    <2>2. worker'.todo = worker.todo /\ worker'.materialized = worker.materialized
      BY <1>7, <1>a DEF ZombieStart, Workers
    <2> QED BY <2>0, <2>1, <2>2 DEF Steady
  <1>8. CASE Settle(c)
    <2>0. Same(d)
      BY <1>8, SettleLog DEF About
    <2>1. task'[d] = task[d] /\ runs'[d] = runs[d] /\ (d \in zombies' <=> d \in zombies)
      BY <1>8, <1>a DEF Settle, Become
    <2>2. worker'.todo = worker.todo /\ worker'.materialized = worker.materialized
      BY <1>8, <1>a DEF Settle, Workers
    <2> QED BY <2>0, <2>1, <2>2 DEF Steady
  <1>9. CASE ResumeApprovedTool(c)
    <2>0. Same(d)
      BY <1>9, QuietSteps DEF Quiet
    <2>1. (task'[d] = "none" \/ task'[d] = task[d]) /\ runs'[d] = runs[d] /\ (d \in zombies' <=> d \in zombies)
      BY <1>9, <1>a DEF ResumeApprovedTool, Release, NoTasks
    <2>2. worker'.todo = {} \/ (worker'.todo = worker.todo /\ worker'.materialized = worker.materialized)
      BY <1>9, <1>a DEF ResumeApprovedTool, Release, Workers
    <2> QED BY <2>0, <2>1, <2>2 DEF Steady
  <1>10. ASSUME NEW outcome \in {"error", "aborted"}, Refuse(c, outcome) PROVE Steady(d)
    <2>0. Same(d)
      BY <1>10, QuietSteps DEF Quiet, Outcome
    <2>1. task'[d] = task[d] /\ runs'[d] = runs[d] /\ (d \in zombies' <=> d \in zombies)
      BY <1>10, <1>a DEF Refuse, Become
    <2>2. worker'.todo = worker.todo /\ worker'.materialized = worker.materialized
      BY <1>10, <1>a DEF Refuse, Workers
    <2> QED BY <2>0, <2>1, <2>2 DEF Steady
  <1>11. ASSUME NEW outcome \in {"ok", "conclude", "error", "deferred"}, BodyReturns(c, outcome) PROVE Steady(d)
    <2>0. Same(d)
      BY <1>11, QuietSteps DEF Quiet, Outcome
    <2>1. task'[d] = task[d] /\ runs'[d] = runs[d] /\ (d \in zombies' <=> d \in zombies)
      BY <1>11, <1>a DEF BodyReturns, Become
    <2>2. worker'.todo = worker.todo /\ worker'.materialized = worker.materialized
      BY <1>11, <1>a DEF BodyReturns, Workers
    <2> QED BY <2>0, <2>1, <2>2 DEF Steady
  <1>12. ASSUME NEW outcome \in {"ok", "conclude", "error", "deferred"}, ResumeNext(c, outcome) PROVE Steady(d)
    <2>0. Same(d)
      BY <1>12, ResumeLog DEF About
    <2>1. (task'[d] = "none" \/ task'[d] = task[d]) /\ runs'[d] = runs[d] /\ (d \in zombies' <=> d \in zombies)
      BY <1>12, <1>a DEF ResumeNext, Release, NoTasks
    <2>2. worker'.todo = worker.todo \ {c} /\ worker'.materialized = worker.materialized
      BY <1>12, <1>a DEF ResumeNext, Workers
    <2> QED BY <2>0, <2>1, <2>2 DEF Steady
  <1>13. ASSUME NEW answer \in {"yes", "no"}, Decide(c, answer) PROVE Steady(d)
    <2>0. Same(d)
      BY <1>13, DecideLog DEF About
    <2>1. task'[d] = task[d] /\ runs'[d] = runs[d] /\ (d \in zombies' <=> d \in zombies)
      BY <1>13, <1>a DEF Decide
    <2>2. worker'.todo = worker.todo /\ worker'.materialized = worker.materialized
      BY <1>13, <1>a DEF Decide, Workers
    <2> QED BY <2>0, <2>1, <2>2 DEF Steady
  <1> QED BY <1>1, <1>2, <1>3, <1>4, <1>5, <1>6, <1>7, <1>8, <1>9, <1>10, <1>11, <1>12, <1>13

\* What is stored stays.
LEMMA StaysStored ==
  ASSUME NEW c, Same(c) \/ \E t, x : Wrote(c, t, x)
  PROVE  /\ \A s : Has(s, c) => Has(s, c)'
         /\ \A s, y : HasInfo(s, c, y) => HasInfo(s, c, y)'
         /\ Approved(c) => Approved(c)'
  BY DEF Same, Wrote, Approved

\* Steps keep the two invariants of a call that they are not about.
LEMMA SteadyBase ==
  ASSUME NEW c \in Calls, TracedInv(c), ApprovedInv(c), Steady(c)
  PROVE  TracedInv(c)' /\ ApprovedInv(c)'
  <1>1. /\ \A s : Has(s, c)' <=> Has(s, c)
        /\ Approved(c) => Approved(c)'
    BY StaysStored DEF Steady, Same
  <1>2. TracedInv(c)'
    BY <1>1 DEF Steady, TracedInv, Live
  <1>3. ApprovedInv(c)'
    BY <1>1 DEF Steady, ApprovedInv
  <1> QED BY <1>2, <1>3

LEMMA BaseStep ==
  ASSUME ToolTurnAssumption, BaseInv, [Next]_vars
  PROVE  BaseInv'
  <1>0. TypeOK' /\ TracesInv /\ TypeOK
    BY TypeStep DEF BaseInv, TracesInv
  <1>a. \A d \in Calls : TracedInv(d) /\ (d \in Asks => ApprovedInv(d))
    BY DEF BaseInv, TracesInv, ApprovalInv
  <1>b. Asks \in SUBSET Calls
    BY DEF ToolTurnAssumption
  <1> DEFINE Good(d) == TracedInv(d)' /\ (d \in Asks => ApprovedInv(d)')
  <1>c. SUFFICES \A d \in Calls : Good(d)
    BY <1>0, <1>b DEF BaseInv, TracesInv, ApprovalInv
  <1>d. ASSUME NEW d \in Calls, Steady(d) PROVE Good(d)
    <2>1. TracedInv(d)'
      BY <1>a, <1>d DEF Steady, TracedInv, Live, Same
    <2>2. ASSUME d \in Asks PROVE ApprovedInv(d)'
      BY <1>a, <1>d, <2>2, SteadyBase
    <2> QED BY <2>1, <2>2
  <1>e. /\ worker \in Workers /\ task \in [Calls -> Tasks] /\ runs \in [Calls -> Nat]
        /\ NoWorker.todo = {} /\ \A x \in Calls : NoTasks[x] = "none"
    BY <1>0 DEF TypeOK, NoWorker, NoTasks
  <1>1. ASSUME NEW op \in {"run", "batch", "single", "approval"}, Claim(op) PROVE \A d \in Calls : Good(d)
    BY <1>1, <1>0, <1>d, SteadySteps
  <1>2. CASE Recover
    <2> SUFFICES ASSUME NEW d \in Calls PROVE Good(d)
      OBVIOUS
    <2>1. Same(d) \/ (d \in Dangling /\ Wrote(d, "result", "unknown"))
      BY <1>2, <1>0, RecoverLog
    <2>2. UNCHANGED <<task, zombies, runs>> /\ worker'.todo = worker.todo
      BY <1>2, <1>e DEF Recover, Goto, Workers
    <2>3. (Approved(d) => Approved(d)') /\ \A s : Has(s, d) => Has(s, d)'
      BY <2>1, StaysStored
    <2>4. d \in Dangling => Has("tool_call", d)
      BY <1>0, <1>a, DanglingProps DEF TracedInv, EventTypes
    <2>5. TracedInv(d)'
      BY <1>a, <2>1, <2>2, <2>4 DEF TracedInv, Same, Wrote, Live
    <2>6. d \in Asks => ApprovedInv(d)'
      BY <1>a, <2>2, <2>3 DEF ApprovedInv
    <2> QED BY <2>5, <2>6
  <1>3. CASE BeginTurn
    BY <1>3, <1>0, <1>d, SteadySteps
  <1>4. CASE Cancel
    BY <1>4, <1>0, <1>d, SteadySteps
  <1>5. CASE Crash
    BY <1>5, <1>0, <1>d, SteadySteps
  <1>6. CASE LoseLease
    <2> SUFFICES ASSUME NEW d \in Calls PROVE Good(d)
      OBVIOUS
    <2>1. Same(d)
      BY <1>6, <1>0, QuietSteps DEF Quiet
    <2>2. /\ runs' = runs /\ worker'.todo = {} /\ task'[d] = "none"
          /\ d \in zombies' => d \in zombies \/ task[d] = "armed" \/ (d \in Asks => Approved(d))
      BY <1>6, <1>e DEF LoseLease, Release
    <2>3. Approved(d) => Approved(d)'
      BY <2>1, StaysStored
    <2>5. TracedInv(d)'
      BY <1>a, <2>1, <2>2 DEF TracedInv, Same, Live
    <2>6. d \in Asks => ApprovedInv(d)'
      BY <1>a, <2>2, <2>3 DEF ApprovedInv
    <2> QED BY <2>5, <2>6
  <1>7. CASE StartStep
    BY <1>7, <1>0, <1>d, SteadySteps
  <1>8. CASE EndTurn
    BY <1>8, <1>0, <1>d, SteadySteps
  <1>9. CASE PolicyWait
    BY <1>9, <1>0, <1>d, SteadySteps
  <1>10. CASE Chunk
    BY <1>10, <1>0, <1>d, SteadySteps
  <1>11. CASE ModelReplies
    BY <1>11, <1>0, <1>d, SteadySteps
  <1>12. CASE StartBatch
    <2> SUFFICES ASSUME NEW d \in Calls PROVE Good(d)
      OBVIOUS
    <2>1. Same(d)
      BY <1>12, <1>0, QuietSteps DEF Quiet
    <2>2. /\ UNCHANGED <<zombies, runs>> /\ worker'.todo = worker.todo
          /\ task'[d] = "none" \/ (task'[d] \in {"queued", "aborted"} /\ Has("tool_call", d))
      BY <1>12, <1>e DEF StartBatch, Goto, Workers
    <2>3. Approved(d) => Approved(d)'
      BY <2>1, StaysStored
    <2>5. TracedInv(d)'
      BY <1>a, <2>1, <2>2 DEF TracedInv, Same, Live
    <2>6. d \in Asks => ApprovedInv(d)'
      BY <1>a, <2>2, <2>3 DEF ApprovedInv
    <2> QED BY <2>5, <2>6
  <1>13. ASSUME NEW b \in BOOLEAN, ModelFails(b) PROVE \A d \in Calls : Good(d)
    BY <1>13, <1>0, <1>d, SteadySteps
  <1>14. ASSUME NEW b \in BOOLEAN, FailStep(b) PROVE \A d \in Calls : Good(d)
    BY <1>14, <1>0, <1>d, SteadySteps
  <1>15. ASSUME NEW n \in 1..MaxBatch, ModelCalls(n) PROVE \A d \in Calls : Good(d)
    BY <1>15, <1>0, <1>d, SteadySteps
  <1>16. ASSUME NEW c \in Calls, Admit(c) PROVE \A d \in Calls : Good(d)
    <2>1. \A d \in Calls \ {c} : Steady(d)
      BY <1>16, <1>0, OthersSteady
    <2> DEFINE G == Good(c)
    <2>2. G
      <3>1. Wrote(c, "tool_call", "")
        BY <1>16, <1>0, AdmitLog
      <3>2. UNCHANGED <<worker, task, zombies, runs>>
        BY <1>16, <1>0, <1>e DEF Admit
      <3>3. (Approved(c) => Approved(c)') /\ \A s : Has(s, c) => Has(s, c)'
        BY <3>1, StaysStored
      <3>4. TracedInv(c)'
        BY <1>a, <3>1, <3>2 DEF TracedInv, Wrote, Live
      <3>5. ASSUME c \in Asks PROVE ApprovedInv(c)'
        BY <1>a, <3>2, <3>3, <3>5 DEF ApprovedInv
      <3> QED BY <3>4, <3>5
    <2> QED BY <1>d, <2>1, <2>2
  <1>17. ASSUME NEW c \in Calls, Ask(c) PROVE \A d \in Calls : Good(d)
    <2>1. \A d \in Calls \ {c} : Steady(d)
      BY <1>17, <1>0, OthersSteady
    <2> DEFINE G == Good(c)
    <2>2. G
      <3>1. Wrote(c, "approval_requested", "") \/ Same(c)
        BY <1>17, <1>0, AskLog
      <3>2. UNCHANGED <<worker, zombies, runs>> /\ task[c] \in {"queued", "running"} /\ (task'[c] = "asking" \/ (task[c] = "running" /\ task'[c] = "postAsking"))
        BY <1>17, <1>0, <1>e DEF Ask, Become
      <3>3. (Approved(c) => Approved(c)') /\ \A s : Has(s, c) => Has(s, c)'
        BY <3>1, StaysStored
      <3>4. TracedInv(c)'
        BY <1>a, <3>1, <3>2 DEF TracedInv, Wrote, Same, Live
      <3>5. ASSUME c \in Asks PROVE ApprovedInv(c)'
        BY <1>a, <3>2, <3>3, <3>5 DEF ApprovedInv
      <3> QED BY <3>4, <3>5
    <2> QED BY <1>d, <2>1, <2>2
  <1>18. ASSUME NEW c \in Calls, Answer(c) PROVE \A d \in Calls : Good(d)
    <2>1. \A d \in Calls \ {c} : Steady(d)
      BY <1>18, <1>0, OthersSteady
    <2> DEFINE G == Good(c)
    <2>2. G
      <3>1. Same(c)
        BY <1>18, <1>0, QuietSteps DEF Quiet
      <3>2. UNCHANGED <<worker, zombies, runs>> /\ task[c] \in {"asking", "postAsking"} /\ (Approved(c) \/ task'[c] = "denied")
        BY <1>18, <1>0, <1>e DEF Answer, Become
      <3>3. (Approved(c) => Approved(c)') /\ \A s : Has(s, c) => Has(s, c)'
        BY <3>1, StaysStored
      <3>4. TracedInv(c)'
        BY <1>a, <3>1, <3>2 DEF TracedInv, Same, Live
      <3>5. ASSUME c \in Asks PROVE ApprovedInv(c)'
        BY <1>a, <3>2, <3>3, <3>5 DEF ApprovedInv
      <3> QED BY <3>4, <3>5
    <2> QED BY <1>d, <2>1, <2>2
  <1>19. ASSUME NEW c \in Calls, ShortCircuit(c) PROVE \A d \in Calls : Good(d)
    <2>1. \A d \in Calls \ {c} : Steady(d)
      BY <1>19, <1>0, OthersSteady
    <2> DEFINE G == Good(c)
    <2>2. G
      <3>1. Same(c)
        BY <1>19, <1>0, QuietSteps DEF Quiet
      <3>2. UNCHANGED <<worker, zombies, runs>> /\ task[c] \in Undispatched /\ task'[c] = "deferred"
        BY <1>19, <1>0, <1>e DEF ShortCircuit, Become, Admitted, Undispatched
      <3>3. (Approved(c) => Approved(c)') /\ \A s : Has(s, c) => Has(s, c)'
        BY <3>1, StaysStored
      <3>4. TracedInv(c)'
        BY <1>a, <3>1, <3>2 DEF TracedInv, Same, Live, Undispatched
      <3>5. ASSUME c \in Asks PROVE ApprovedInv(c)'
        BY <1>a, <3>2, <3>3, <3>5 DEF ApprovedInv
      <3> QED BY <3>4, <3>5
    <2> QED BY <1>d, <2>1, <2>2
  <1>20. ASSUME NEW c \in Calls, Dispatch(c) PROVE \A d \in Calls : Good(d)
    <2>1. \A d \in Calls \ {c} : Steady(d)
      BY <1>20, <1>0, OthersSteady
    <2> DEFINE G == Good(c)
    <2>2. G
      <3>1. Same(c) \/ Wrote(c, "dispatched", "")
        BY <1>20, <1>0, DispatchLog
      <3>2. UNCHANGED <<worker, zombies, runs>> /\ (task[c] = "cleared" \/ (task[c] = "queued" /\ c \notin Asks))
        BY <1>20, <1>0, <1>e DEF Dispatch, Admitted
      <3>3. (Approved(c) => Approved(c)') /\ \A s : Has(s, c) => Has(s, c)'
        BY <3>1, StaysStored
      <3>4. TracedInv(c)'
        BY <1>a, <3>1, <3>2 DEF TracedInv, Same, Wrote, Live
      <3>5. ASSUME c \in Asks PROVE ApprovedInv(c)'
        BY <1>a, <3>2, <3>3, <3>5 DEF ApprovedInv
      <3> QED BY <3>4, <3>5
    <2> QED BY <1>d, <2>1, <2>2
  <1>21. ASSUME NEW c \in Calls, StartBody(c) PROVE \A d \in Calls : Good(d)
    <2>1. \A d \in Calls \ {c} : Steady(d)
      BY <1>21, <1>0, OthersSteady
    <2> DEFINE G == Good(c)
    <2>2. G
      <3>1. Same(c)
        BY <1>21, <1>0, QuietSteps DEF Quiet
      <3>2. UNCHANGED <<worker, zombies>> /\ task[c] = "armed"
        BY <1>21, <1>0, <1>e DEF StartBody
      <3>3. (Approved(c) => Approved(c)') /\ \A s : Has(s, c) => Has(s, c)'
        BY <3>1, StaysStored
      <3>4. TracedInv(c)'
        BY <1>a, <3>1, <3>2 DEF TracedInv, Same, Live
      <3>5. ASSUME c \in Asks PROVE ApprovedInv(c)'
        BY <1>a, <3>2, <3>3, <3>5 DEF ApprovedInv
      <3> QED BY <3>4, <3>5
    <2> QED BY <1>d, <2>1, <2>2
  <1>22. ASSUME NEW c \in Calls, ZombieStart(c) PROVE \A d \in Calls : Good(d)
    <2>1. \A d \in Calls \ {c} : Steady(d)
      BY <1>22, <1>0, OthersSteady
    <2> DEFINE G == Good(c)
    <2>2. G
      <3>1. Same(c)
        BY <1>22, <1>0, QuietSteps DEF Quiet
      <3>2. UNCHANGED <<worker, task>> /\ c \in zombies
        BY <1>22, <1>0, <1>e DEF ZombieStart
      <3>3. (Approved(c) => Approved(c)') /\ \A s : Has(s, c) => Has(s, c)'
        BY <3>1, StaysStored
      <3>4. TracedInv(c)'
        BY <1>a, <3>1, <3>2 DEF TracedInv, Same, Live
      <3>5. ASSUME c \in Asks PROVE ApprovedInv(c)'
        BY <1>a, <3>2, <3>3, <3>5 DEF ApprovedInv
      <3> QED BY <3>4, <3>5
    <2> QED BY <1>d, <2>1, <2>2
  <1>23. ASSUME NEW c \in Calls, Settle(c) PROVE \A d \in Calls : Good(d)
    <2>1. \A d \in Calls \ {c} : Steady(d)
      BY <1>23, <1>0, OthersSteady
    <2> DEFINE G == Good(c)
    <2>2. G
      <3>1. Wrote(c, "deferred", "") \/ Wrote(c, "result", task[c])
        BY <1>23, <1>0, SettleLog
      <3>2. zombies' = zombies /\ worker'.todo = worker.todo /\ task[c] \in Outcome /\ task'[c] = "settled" /\ (runs'[c] = runs[c] \/ runs'[c] = 0)
        BY <1>23, <1>0, <1>e DEF Settle, Become, IsFirst, Workers
      <3>3. (Approved(c) => Approved(c)') /\ \A s : Has(s, c) => Has(s, c)'
        BY <3>1, StaysStored
      <3>4. TracedInv(c)'
        BY <1>a, <3>1, <3>2 DEF TracedInv, Wrote, Live, Outcome
      <3>5. ASSUME c \in Asks PROVE ApprovedInv(c)'
        BY <1>a, <3>2, <3>3, <3>5 DEF ApprovedInv
      <3> QED BY <3>4, <3>5
    <2> QED BY <1>d, <2>1, <2>2
  <1>24. ASSUME NEW c \in Calls, ResumeApprovedTool(c) PROVE \A d \in Calls : Good(d)
    <2>1. \A d \in Calls \ {c} : Steady(d)
      BY <1>24, <1>0, OthersSteady
    <2> DEFINE G == Good(c)
    <2>2. G
      <3>1. Same(c)
        BY <1>24, <1>0, QuietSteps DEF Quiet
      <3>2. UNCHANGED <<zombies, runs>> /\ worker'.todo \subseteq worker.todo /\ Decided(c) /\ task'[c] \in {"none", "queued", "denied"}
        BY <1>24, <1>0, <1>e DEF ResumeApprovedTool, Release, Workers, NoTasks
      <3>3. (Approved(c) => Approved(c)') /\ \A s : Has(s, c) => Has(s, c)'
        BY <3>1, StaysStored
      <3>4. TracedInv(c)'
        BY <1>a, <3>1, <3>2 DEF TracedInv, Same, Live, Decided, EventTypes
      <3>5. ASSUME c \in Asks PROVE ApprovedInv(c)'
        BY <1>a, <3>2, <3>3, <3>5 DEF ApprovedInv
      <3> QED BY <3>4, <3>5
    <2> QED BY <1>d, <2>1, <2>2
  <1>25. ASSUME NEW c \in Calls, NEW outcome \in {"error", "aborted"}, Refuse(c, outcome)
        PROVE  \A d \in Calls : Good(d)
    <2>1. \A d \in Calls \ {c} : Steady(d)
      BY <1>25, <1>0, OthersSteady
    <2> DEFINE G == Good(c)
    <2>2. G
      <3>1. Same(c)
        BY <1>25, <1>0, QuietSteps DEF Quiet, Outcome
      <3>2. UNCHANGED <<worker, zombies, runs>> /\ task[c] \in Undispatched /\ task'[c] = outcome
        BY <1>25, <1>0, <1>e DEF Refuse, Become
      <3>3. (Approved(c) => Approved(c)') /\ \A s : Has(s, c) => Has(s, c)'
        BY <3>1, StaysStored
      <3>4. TracedInv(c)'
        BY <1>a, <3>1, <3>2 DEF TracedInv, Same, Live, Undispatched
      <3>5. ASSUME c \in Asks PROVE ApprovedInv(c)'
        BY <1>a, <3>2, <3>3, <3>5 DEF ApprovedInv
      <3> QED BY <3>4, <3>5
    <2> QED BY <1>d, <2>1, <2>2
  <1>26. ASSUME NEW c \in Calls, NEW outcome \in {"ok", "conclude", "error", "deferred"}, BodyReturns(c, outcome)
        PROVE  \A d \in Calls : Good(d)
    <2>1. \A d \in Calls \ {c} : Steady(d)
      BY <1>26, <1>0, OthersSteady
    <2> DEFINE G == Good(c)
    <2>2. G
      <3>1. Same(c)
        BY <1>26, <1>0, QuietSteps DEF Quiet, Outcome
      <3>2. UNCHANGED <<worker, zombies, runs>> /\ task[c] \in {"running", "postAsking"} /\ task'[c] = outcome
        BY <1>26, <1>0, <1>e DEF BodyReturns, Become
      <3>3. (Approved(c) => Approved(c)') /\ \A s : Has(s, c) => Has(s, c)'
        BY <3>1, StaysStored
      <3>4. TracedInv(c)'
        BY <1>a, <3>1, <3>2 DEF TracedInv, Same, Live
      <3>5. ASSUME c \in Asks PROVE ApprovedInv(c)'
        BY <1>a, <3>2, <3>3, <3>5 DEF ApprovedInv
      <3> QED BY <3>4, <3>5
    <2> QED BY <1>d, <2>1, <2>2
  <1>27. ASSUME NEW c \in Calls, NEW outcome \in {"ok", "conclude", "error", "deferred"}, ResumeNext(c, outcome)
        PROVE  \A d \in Calls : Good(d)
    <2>1. \A d \in Calls \ {c} : Steady(d)
      BY <1>27, <1>0, OthersSteady
    <2> DEFINE G == Good(c)
    <2>2. G
      <3>1. Same(c) \/ \E x : Wrote(c, "resume_started", x)
        BY <1>27, <1>0, ResumeLog
      <3>2. UNCHANGED <<zombies, runs>> /\ worker'.todo \subseteq worker.todo /\ c \in worker.todo /\ (task' = task \/ task'[c] \in {"queued", "ok", "conclude", "error", "deferred"})
        <4>1. UNCHANGED <<zombies, runs>> /\ c \in worker.todo
          BY <1>27 DEF ResumeNext, IsFirst
        <4>2. worker'.todo = worker.todo \ {c}
          BY <1>27, <1>e DEF ResumeNext, Workers
        <4>3. task' = task \/ task'[c] \in {"queued", "ok", "conclude", "error", "deferred"}
          BY <1>27 DEF ResumeNext, NoTasks
        <4> QED BY <4>1, <4>2, <4>3
      <3>3. (Approved(c) => Approved(c)') /\ \A s : Has(s, c) => Has(s, c)'
        BY <3>1, StaysStored
      <3>4. TracedInv(c)'
        BY <1>a, <3>1, <3>2 DEF TracedInv, Same, Wrote, Live
      <3>5. ASSUME c \in Asks PROVE ApprovedInv(c)'
        BY <1>a, <3>2, <3>3, <3>5 DEF ApprovedInv
      <3> QED BY <3>4, <3>5
    <2> QED BY <1>d, <2>1, <2>2
  <1>28. ASSUME NEW c \in Calls, NEW answer \in {"yes", "no"}, Decide(c, answer)
        PROVE  \A d \in Calls : Good(d)
    <2>1. \A d \in Calls \ {c} : Steady(d)
      BY <1>28, <1>0, OthersSteady
    <2> DEFINE G == Good(c)
    <2>2. G
      <3>1. Wrote(c, "approval_resolved", answer) /\ Has("approval_requested", c)
        BY <1>28, <1>0, DecideLog DEF Decide
      <3>2. UNCHANGED <<worker, task, zombies, runs>>
        BY <1>28, <1>0, <1>e DEF Decide
      <3>3. (Approved(c) => Approved(c)') /\ \A s : Has(s, c) => Has(s, c)'
        BY <3>1, StaysStored
      <3>4. TracedInv(c)'
        BY <1>a, <3>1, <3>2 DEF TracedInv, Wrote, Live, EventTypes
      <3>5. ASSUME c \in Asks PROVE ApprovedInv(c)'
        BY <1>a, <3>2, <3>3, <3>5 DEF ApprovedInv
      <3> QED BY <3>4, <3>5
    <2> QED BY <1>d, <2>1, <2>2
  <1>29. CASE FinishBatch
    BY <1>29, <1>0, <1>d, SteadySteps
  <1>30. CASE CloseStep
    BY <1>30, <1>0, <1>d, SteadySteps
  <1>31. ASSUME NEW S \in SUBSET Calls, NEW m \in BOOLEAN, PickRequests(S, m) PROVE \A d \in Calls : Good(d)
    <2> SUFFICES ASSUME NEW d \in Calls PROVE Good(d)
      OBVIOUS
    <2>1. Same(d)
      BY <1>31, <1>0, QuietSteps DEF Quiet
    <2>2. /\ UNCHANGED <<task, zombies, runs>> /\ worker'.todo = S
          /\ d \in S => Has("deferred", d)
      BY <1>31, <1>e DEF PickRequests, Workers
    <2>3. Approved(d) => Approved(d)'
      BY <2>1, StaysStored
    <2>5. TracedInv(d)'
      BY <1>a, <2>1, <2>2 DEF TracedInv, Same, Live, EventTypes
    <2>6. d \in Asks => ApprovedInv(d)'
      BY <1>a, <2>2, <2>3 DEF ApprovedInv
    <2> QED BY <2>5, <2>6
  <1>32. CASE ResumeNothing
    BY <1>32, <1>0, <1>d, SteadySteps
  <1>33. CASE FinishResume
    BY <1>33, <1>0, <1>d, SteadySteps
  <1>34. CASE UNCHANGED vars
    BY <1>34, <1>0, <1>d, SteadySteps
  <1> QED
    BY <1>1, <1>2, <1>3, <1>4, <1>5, <1>6, <1>7, <1>8, <1>9, <1>10,
       <1>11, <1>12, <1>13, <1>14, <1>15, <1>16, <1>17, <1>18, <1>19, <1>20,
       <1>21, <1>22, <1>23, <1>24, <1>25, <1>26, <1>27, <1>28, <1>29, <1>30,
       <1>31, <1>32, <1>33, <1>34
    DEF Next

-----------------------------------------------------------------------------
(* The invariant of one call. *)

\* Where a step leaves the calls it is not about.
Placed(c) ==
    /\ used' >= used
    /\ worker'.pc = "admit" /\ c \in worker'.batch => worker.pc = "admit" /\ c \in worker.batch
    /\ Live(c) /\ task'[c] = task[c] => worker'.pc = "tools" /\ worker'.op = worker.op /\ c \in worker'.batch

LEMMA SteadyCall ==
  ASSUME ToolTurnAssumption, TypeOK, used' \in Int, NEW c \in Calls, CallInv(c), Steady(c), Placed(c)
  PROVE  CallInv(c)'
  <1>0. used \in Int /\ c \in Int
    BY Bounds DEF TypeOK
  <1>1. EventInv(c)'
    BY DEF CallInv, EventInv, Steady, Same, Decided
  <1>2. FreshInv(c)'
    BY <1>0 DEF CallInv, FreshInv, Steady, Same, Placed
  <1>3. LiveInv(c)'
    BY DEF CallInv, LiveInv, Steady, Same, Placed, Live
  <1>4. TodoInv(c)'
    BY DEF CallInv, TodoInv, Steady, Same
  <1>5. StartInv(c)'
    BY DEF CallInv, StartInv, Steady, Same, Behind
  <1>6. StageInv(c)'
    <2>1. CASE task'[c] \in {"none", "settled"}
      BY <2>1 DEF StageInv, Undispatched
    <2>2. CASE task'[c] = task[c] /\ task[c] \notin {"none", "settled"}
      BY <2>2 DEF CallInv, StageInv, Steady, Same, Behind, Placed, Live
    <2> QED BY <2>1, <2>2 DEF Steady
  <1>7. ResultInv(c)'
    BY DEF CallInv, ResultInv, Steady, Same
  <1>8. FinalInv(c)'
    BY DEF CallInv, Steady, Same
  <1> QED BY <1>1, <1>2, <1>3, <1>4, <1>5, <1>6, <1>7, <1>8 DEF CallInv

\* A call with events was made.
LEMMA KnownMade ==
  ASSUME used \in Int, NEW c \in Int, FreshInv(c), Has("tool_call", c)
  PROVE  c <= used
  <1>1. "tool_call" \in EventTypes
    BY DEF EventTypes
  <1>2. ~(c > used)
    BY <1>1 DEF FreshInv
  <1> QED BY <1>2

LEMMA MadeFresh ==
  ASSUME used' \in Int, NEW c \in Int, c <= used',
         worker'.pc = "admit" /\ c \in worker'.batch => LastBarrier(c)'.type = "none" /\ ~Has("result", c)'
  PROVE  FreshInv(c)'
  <1>1. ~(c > used')
    OBVIOUS
  <1> QED BY <1>1 DEF FreshInv

\* A call the registry does not have.
LEMMA RestInv ==
  ASSUME NEW c, task'[c] \in {"none", "settled"}
  PROVE  LiveInv(c)' /\ StageInv(c)'
  BY DEF LiveInv, StageInv, Live, Undispatched

\* What the two resumes read of a deferred call.
LEMMA ResumeReads ==
  ASSUME TypeOK, NEW c, LastBarrier(c).type \in {"deferred", "resume_started"}
  PROVE  /\ worker.op = "batch" => (ResumeStarted(c) <=> LastBarrier(c).type = "resume_started")
         /\ LastBarrier(c).type = "resume_started" => ResumeStarted(c)
         /\ LastBarrier(c).type = "resume_started" /\ ResumeMaterialized(c) => LastBarrier(c).info = "materialized"
  <1>0. LastBarrier(c) = LastOf(Barriers, c) /\ "none" \notin Barriers
    BY DEF LastBarrier, Barriers
  <1> DEFINE T == {"deferred", "resume_started"}
             R == {"resume_started"}
  <1>1. T \subseteq Barriers /\ R \subseteq Barriers
    BY DEF Barriers
  <1>2. LastOf(T, c) = LastBarrier(c)
    <2> HIDE DEF T
    <2>1. LastOf(Barriers, c).type \in T
      BY <1>0 DEF T
    <2> QED BY <1>0, <1>1, <2>1, LastOfFewer
  <1>3. ASSUME LastBarrier(c).type = "resume_started" PROVE LastOf(R, c) = LastBarrier(c) /\ Has("resume_started", c)
    <2> HIDE DEF R
    <2>1. LastOf(Barriers, c).type \in R
      BY <1>0, <1>3 DEF R
    <2>2. LastOf(R, c) = LastBarrier(c)
      BY <1>0, <1>1, <2>1, LastOfFewer
    <2>3. Has("resume_started", c)
      BY <1>3, BarrierProps
    <2> QED BY <2>2, <2>3
  <1>4. worker.op = "batch" => (ResumeStarted(c) <=> LastBarrier(c).type = "resume_started")
    BY <1>2 DEF ResumeStarted
  <1>5. LastBarrier(c).type = "resume_started" => ResumeStarted(c)
    BY <1>2, <1>3 DEF ResumeStarted
  <1>6. LastBarrier(c).type = "resume_started" /\ ResumeMaterialized(c) => LastBarrier(c).info = "materialized"
    BY <1>3 DEF ResumeMaterialized
  <1> QED BY <1>4, <1>5, <1>6

LEMMA CallStep ==
  ASSUME ToolTurnAssumption, Apart, TurnInv, [Next]_vars, NEW d \in Calls
  PROVE  CallInv(d)'
  <1>0. TracesInv /\ TypeOK /\ TypeOK' /\ WorkerInv
    BY TypeStep DEF TurnInv, BaseInv, TracesInv
  <1>a. \A x \in Calls : CallInv(x) /\ TracedInv(x)
    BY DEF TurnInv, BaseInv, TracesInv
  <1>b. used \in Int /\ used' \in Int /\ \A x \in Calls : x \in Int
    BY <1>0, Bounds DEF TypeOK
  <1>c. /\ worker \in Workers /\ task \in [Calls -> Tasks] /\ runs \in [Calls -> Nat]
        /\ NoWorker.todo = {} /\ NoWorker.pc = "none" /\ \A x \in Calls : NoTasks[x] = "none"
    BY <1>0 DEF TypeOK, NoWorker, NoTasks
  <1>e. ASSUME NEW x \in Calls, Steady(x), Placed(x) PROVE CallInv(x)'
    BY <1>0, <1>a, <1>b, <1>e, SteadyCall
  <1>f. \A x \in Calls : Live(x) => worker.pc = "tools" /\ x \in worker.batch
    BY <1>a DEF CallInv, LiveInv
  <1>1. ASSUME NEW op \in {"run", "batch", "single", "approval"}, Claim(op) PROVE CallInv(d)'
    <2>1. Steady(d)
      BY <1>1, <1>0, SteadySteps
    <2>2. used' = used /\ worker.pc = "none" /\ worker'.pc # "admit"
      BY <1>1, <1>c DEF Claim, Workers
    <2>3. Placed(d)
      BY <1>b, <1>f, <2>2 DEF Placed, Live
    <2> QED BY <1>e, <2>1, <2>3
  <1>2. CASE Recover
    <2>1. Same(d) \/ (d \in Dangling /\ Wrote(d, "result", "unknown"))
      BY <1>2, <1>0, RecoverLog
    <2>2. UNCHANGED <<task, zombies, runs, used>> /\ worker.pc = "recover" /\ worker'.pc # "admit"
      BY <1>2, <1>c DEF Recover, Goto, Workers
    <2>3. worker'.todo = worker.todo /\ worker'.materialized = worker.materialized
      BY <1>2, <1>c DEF Recover, Goto, Workers
    <2>4. EventInv(d) /\ FreshInv(d) /\ LiveInv(d) /\ TodoInv(d) /\ StartInv(d) /\ StageInv(d) /\ ResultInv(d) /\ FinalInv(d)
      BY <1>a DEF CallInv
    <2>5. /\ LastBarrier(d).type \in Barriers \cup {"none"} /\ \A x : HasInfo("result", d, x) => Has("result", d)
          /\ LastBarrier(d).type # "none" => Has(LastBarrier(d).type, d)
          /\ \A t \in Barriers : Has(t, d) => LastBarrier(d).type # "none"
      BY <1>0, BarrierProps
    <2>6. \A t \in EventTypes : Has(t, d) => Has("tool_call", d)
      BY <1>a DEF TracedInv
    <2>7. ~Live(d)
      BY <2>2, <2>4 DEF LiveInv
    <2>8. task'[d] \in {"none", "settled"}
      BY <2>2, <2>7 DEF Live
    <2>9. d \in Dangling => ~Has("result", d) /\ (Has("dispatched", d) \/ Has("resume_started", d))
      BY <1>0, DanglingProps, <2>4
    <2>10. d \in Dangling => Has("tool_call", d) /\ d <= used
      BY <2>4, <2>9, <2>6, <1>b DEF EventTypes, FreshInv
    <2>11. EventInv(d)'
      BY <2>1, <2>2, <2>3, <2>4, <2>5, <2>7, <2>8, <2>9, <2>10, <2>6, <1>b DEF EventInv, Decided, Same,
         Wrote, Barriers, EventTypes, Undispatched
    <2>12. FreshInv(d)'
      BY <2>1, <2>2, <2>4, <2>10, <1>b DEF FreshInv, Same
    <2>13. LiveInv(d)'
      BY <2>8 DEF LiveInv, Live
    <2>14. TodoInv(d)'
      BY <2>1, <2>3, <2>4 DEF TodoInv, Same, Wrote
    <2>15. StartInv(d)'
      BY <2>1, <2>2, <2>4 DEF StartInv, Behind, Same, Wrote, Barriers
    <2>16. StageInv(d)'
      BY <2>8, RestInv
    <2>17. ResultInv(d)'
      BY <2>1, <2>2, <2>4 DEF ResultInv, Same, Wrote
    <2>18. FinalInv(d)'
      BY <2>1, <2>4, <2>9 DEF Same, Wrote
    <2> QED BY <2>11, <2>12, <2>13, <2>14, <2>15, <2>16, <2>17, <2>18 DEF CallInv
  <1>3. CASE BeginTurn
    <2>1. Steady(d)
      BY <1>3, <1>0, SteadySteps
    <2>2. used' = used /\ worker.pc = "begin" /\ worker'.pc = "steps"
      BY <1>3, <1>c DEF BeginTurn, Workers
    <2>3. Placed(d)
      BY <1>b, <1>f, <2>2 DEF Placed, Live
    <2> QED BY <1>e, <2>1, <2>3
  <1>4. CASE Cancel
    <2>1. Steady(d)
      BY <1>4, <1>0, SteadySteps
    <2>2. used' = used /\ worker'.pc = worker.pc /\ worker'.op = worker.op /\ worker'.batch = worker.batch
      BY <1>4, <1>c DEF Cancel, Workers
    <2>3. Placed(d)
      BY <1>b, <1>f, <2>2 DEF Placed, Live
    <2> QED BY <1>e, <2>1, <2>3
  <1>5. CASE Crash
    <2>1. Steady(d)
      BY <1>5, <1>0, SteadySteps
    <2>2. used' = used /\ worker'.pc = "none" /\ task'[d] = "none"
      BY <1>5, <1>c DEF Crash, Release, Workers
    <2>3. Placed(d)
      BY <1>b, <1>f, <2>2 DEF Placed, Live
    <2> QED BY <1>e, <2>1, <2>3
  <1>6. CASE LoseLease
    <2>1. Same(d)
      BY <1>6, <1>0, QuietSteps DEF Quiet
    <2>2. UNCHANGED <<runs, used>> /\ task'[d] = "none" /\ worker'.pc = "none" /\ worker'.todo = {}
      BY <1>6, <1>c DEF LoseLease, Release
    <2>3. d \in zombies' => d \in zombies \/ task[d] = "armed" \/ (worker.op = "batch" /\ task[d] \in Undispatched)
      BY <1>6, <1>c DEF LoseLease
    <2>4. EventInv(d) /\ FreshInv(d) /\ LiveInv(d) /\ TodoInv(d) /\ StartInv(d) /\ StageInv(d) /\ ResultInv(d) /\ FinalInv(d)
      BY <1>a DEF CallInv
    <2>5. /\ LastBarrier(d).type \in Barriers \cup {"none"} /\ \A x : HasInfo("result", d, x) => Has("result", d)
          /\ LastBarrier(d).type # "none" => Has(LastBarrier(d).type, d)
          /\ \A t \in Barriers : Has(t, d) => LastBarrier(d).type # "none"
      BY <1>0, BarrierProps
    <2>6. \A t \in EventTypes : Has(t, d) => Has("tool_call", d)
      BY <1>a DEF TracedInv
    <2>7. d \in zombies' => Behind(d) /\ runs[d] = 0
      BY <2>3, <2>4 DEF StartInv, StageInv
    <2>8. d \in zombies' => d \in zombies \/ ~Has("result", d)
      BY <2>3, <2>4 DEF LiveInv, Live, Undispatched
    <2>9. EventInv(d)'
      BY <2>1, <2>2, <2>3, <2>4, <2>5, <2>7, <2>8, <2>6, <1>b DEF EventInv, Decided, Same, Barriers,
         EventTypes, Undispatched
    <2>10. FreshInv(d)'
      BY <2>1, <2>2, <2>4 DEF FreshInv, Same
    <2>11. LiveInv(d)'
      BY <2>2 DEF LiveInv, Live
    <2>12. TodoInv(d)'
      BY <2>2 DEF TodoInv
    <2>13. StartInv(d)'
      BY <2>1, <2>2, <2>4, <2>7 DEF StartInv, Behind, Same
    <2>14. StageInv(d)'
      BY <2>2 DEF StageInv, Undispatched
    <2>15. ResultInv(d)'
      BY <2>1, <2>2, <2>4, <2>5, <2>8 DEF ResultInv, Same
    <2>16. FinalInv(d)'
      BY <2>1, <2>4 DEF Same
    <2> QED BY <2>9, <2>10, <2>11, <2>12, <2>13, <2>14, <2>15, <2>16 DEF CallInv
  <1>7. CASE StartStep
    <2>1. Steady(d)
      BY <1>7, <1>0, SteadySteps
    <2>2. used' = used /\ worker.pc = "steps" /\ worker'.pc = "model"
      BY <1>7, <1>c DEF StartStep, Workers
    <2>3. Placed(d)
      BY <1>b, <1>f, <2>2 DEF Placed, Live
    <2> QED BY <1>e, <2>1, <2>3
  <1>8. CASE EndTurn
    <2>1. Steady(d)
      BY <1>8, <1>0, SteadySteps
    <2>2. used' = used /\ worker.pc # "tools" /\ worker'.pc = "none"
      BY <1>8, <1>c DEF EndTurn, Release, Workers
    <2>3. Placed(d)
      BY <1>b, <1>f, <2>2 DEF Placed, Live
    <2> QED BY <1>e, <2>1, <2>3
  <1>9. CASE PolicyWait
    <2>1. Steady(d)
      BY <1>9, <1>0, SteadySteps
    <2>2. used' = used /\ worker.pc # "tools" /\ worker'.pc = "none"
      BY <1>9, <1>c DEF PolicyWait, Release, Workers
    <2>3. Placed(d)
      BY <1>b, <1>f, <2>2 DEF Placed, Live
    <2> QED BY <1>e, <2>1, <2>3
  <1>10. CASE Chunk
    <2>1. Steady(d)
      BY <1>10, <1>0, SteadySteps
    <2>2. used' = used /\ worker' = worker
      BY <1>10, <1>c DEF Chunk, Workers
    <2>3. Placed(d)
      BY <1>b, <1>f, <2>2 DEF Placed, Live
    <2> QED BY <1>e, <2>1, <2>3
  <1>11. CASE ModelReplies
    <2>1. Steady(d)
      BY <1>11, <1>0, SteadySteps
    <2>2. used' = used /\ worker.pc = "model" /\ worker'.pc = "endTurn"
      BY <1>11, <1>c DEF ModelReplies, Goto, Workers
    <2>3. Placed(d)
      BY <1>b, <1>f, <2>2 DEF Placed, Live
    <2> QED BY <1>e, <2>1, <2>3
  <1>12. CASE StartBatch
    <2>1. Same(d)
      BY <1>12, <1>0, QuietSteps DEF Quiet
    <2>2. UNCHANGED <<runs, used, zombies>> /\ worker.pc = "admit" /\ worker'.pc = "tools" /\ worker'.todo = worker.todo /\ worker'.batch = worker.batch /\ worker'.op = worker.op
      BY <1>12, <1>c DEF StartBatch, Goto, Workers
    <2>3. IF d \notin worker.batch THEN task'[d] = "none" ELSE task'[d] \in {"aborted", "queued"}
      BY <1>12, <1>c DEF StartBatch
    <2>4. EventInv(d) /\ FreshInv(d) /\ LiveInv(d) /\ TodoInv(d) /\ StartInv(d) /\ StageInv(d) /\ ResultInv(d) /\ FinalInv(d)
      BY <1>a DEF CallInv
    <2>5. /\ LastBarrier(d).type \in Barriers \cup {"none"} /\ \A x : HasInfo("result", d, x) => Has("result", d)
          /\ LastBarrier(d).type # "none" => Has(LastBarrier(d).type, d)
          /\ \A t \in Barriers : Has(t, d) => LastBarrier(d).type # "none"
      BY <1>0, BarrierProps
    <2>6. \A t \in EventTypes : Has(t, d) => Has("tool_call", d)
      BY <1>a DEF TracedInv
    <2>7. worker.op = "run" /\ worker.todo = {}
      BY <1>0, <2>2 DEF WorkerInv
    <2>8. d \in worker.batch => LastBarrier(d).type = "none" /\ ~Has("result", d) /\ runs[d] = 0 /\ d \notin zombies
      BY <2>2, <2>4 DEF FreshInv, StartInv, Behind
    <2>9. EventInv(d)'
      BY <2>1, <2>2, <2>3, <2>4, <2>5, <2>7, <2>8, <2>6, <1>b DEF EventInv, Decided, Same, Barriers,
         EventTypes, Undispatched
    <2>10. FreshInv(d)'
      BY <2>1, <2>2, <2>4 DEF FreshInv, Same
    <2>11. LiveInv(d)'
      BY <2>1, <2>2, <2>3, <2>7, <2>8 DEF LiveInv, Live, Same
    <2>12. TodoInv(d)'
      BY <2>2, <2>7 DEF TodoInv
    <2>13. StartInv(d)'
      BY <2>1, <2>2, <2>4 DEF StartInv, Behind, Same
    <2>14. StageInv(d)'
      BY <2>1, <2>2, <2>3, <2>7, <2>8 DEF StageInv, Same, Undispatched
    <2>15. ResultInv(d)'
      BY <2>1, <2>2, <2>4 DEF ResultInv, Same
    <2>16. FinalInv(d)'
      BY <2>1, <2>4 DEF Same
    <2> QED BY <2>9, <2>10, <2>11, <2>12, <2>13, <2>14, <2>15, <2>16 DEF CallInv
  <1>13. ASSUME NEW b \in BOOLEAN, ModelFails(b) PROVE CallInv(d)'
    <2>1. Steady(d)
      BY <1>13, <1>0, SteadySteps
    <2>2. used' = used /\ worker.pc = "model" /\ worker'.pc = "failStep"
      BY <1>13, <1>c DEF ModelFails, Goto, Workers
    <2>3. Placed(d)
      BY <1>b, <1>f, <2>2 DEF Placed, Live
    <2> QED BY <1>e, <2>1, <2>3
  <1>14. ASSUME NEW b \in BOOLEAN, FailStep(b) PROVE CallInv(d)'
    <2>1. Steady(d)
      BY <1>14, <1>0, SteadySteps
    <2>2. used' = used /\ worker.pc = "failStep" /\ worker'.pc # "admit"
      BY <1>14, <1>c DEF FailStep, Goto, Workers
    <2>3. Placed(d)
      BY <1>b, <1>f, <2>2 DEF Placed, Live
    <2> QED BY <1>e, <2>1, <2>3
  <1>15. ASSUME NEW n \in 1..MaxBatch, ModelCalls(n) PROVE CallInv(d)'
    <2>1. Same(d)
      BY <1>15, <1>0, QuietSteps DEF Quiet
    <2>2. UNCHANGED <<task, runs, zombies>> /\ worker.pc = "model" /\ used' = used + n
      BY <1>15, <1>c DEF ModelCalls
    <2>3. worker'.pc = "admit" /\ worker'.todo = worker.todo /\ worker'.materialized = worker.materialized /\ worker'.batch = (used + 1)..(used + n)
      BY <1>15, <1>c DEF ModelCalls, Workers
    <2>4. EventInv(d) /\ FreshInv(d) /\ LiveInv(d) /\ TodoInv(d) /\ StartInv(d) /\ StageInv(d) /\ ResultInv(d) /\ FinalInv(d)
      BY <1>a DEF CallInv
    <2>5. /\ LastBarrier(d).type \in Barriers \cup {"none"} /\ \A x : HasInfo("result", d, x) => Has("result", d)
          /\ LastBarrier(d).type # "none" => Has(LastBarrier(d).type, d)
          /\ \A t \in Barriers : Has(t, d) => LastBarrier(d).type # "none"
      BY <1>0, BarrierProps
    <2>6. \A t \in EventTypes : Has(t, d) => Has("tool_call", d)
      BY <1>a DEF TracedInv
    <2>7. ~Live(d)
      BY <2>2, <2>4 DEF LiveInv
    <2>8. task'[d] \in {"none", "settled"}
      BY <2>2, <2>7 DEF Live
    <2>9. d > used => \A t \in EventTypes : ~Has(t, d)
      BY <2>4 DEF FreshInv
    <2>10. d > used => LastBarrier(d).type = "none" /\ ~Has("result", d)
      BY <2>5, <2>9 DEF Barriers, EventTypes
    <2>11. (d \in worker'.batch => d > used /\ d <= used') /\ (d > used' => d > used)
      BY <2>2, <2>3, <1>b
    <2>12. EventInv(d)'
      BY <2>1, <2>2, <2>3, <2>4, <2>5, <2>7, <2>8, <2>9, <2>10, <2>11, <2>6, <1>b DEF EventInv, Decided,
         Same, Barriers, EventTypes, Undispatched
    <2>13. FreshInv(d)'
      BY <2>1, <2>4, <2>10, <2>11 DEF FreshInv, Same
    <2>14. LiveInv(d)'
      BY <2>8 DEF LiveInv, Live
    <2>15. TodoInv(d)'
      BY <2>1, <2>3, <2>4 DEF TodoInv, Same
    <2>16. StartInv(d)'
      BY <2>1, <2>2, <2>4 DEF StartInv, Behind, Same
    <2>17. StageInv(d)'
      BY <2>8, RestInv
    <2>18. ResultInv(d)'
      BY <2>1, <2>2, <2>4 DEF ResultInv, Same
    <2>19. FinalInv(d)'
      BY <2>1, <2>4 DEF Same
    <2> QED BY <2>12, <2>13, <2>14, <2>15, <2>16, <2>17, <2>18, <2>19 DEF CallInv
  <1>16. ASSUME NEW c \in Calls, Admit(c) PROVE CallInv(d)'
    <2>1. ASSUME d # c PROVE CallInv(d)'
      <3>1. Steady(d)
        BY <1>16, <1>0, <2>1, OthersSteady
      <3>2. used' = used /\ worker' = worker
        BY <1>16, <1>c DEF Admit, Workers
      <3>3. Placed(d)
        BY <1>b, <1>f, <3>2 DEF Placed
      <3> QED BY <1>e, <3>1, <3>3
    <2>2. CallInv(c)'
      <3>1. Wrote(c, "tool_call", "")
        BY <1>16, <1>0, AdmitLog
      <3>2. UNCHANGED <<worker, task, zombies, runs, used>> /\ worker.pc = "admit" /\ c \in worker.batch
        BY <1>16, <1>c DEF Admit, IsFirst
      <3>3. EventInv(c) /\ FreshInv(c) /\ LiveInv(c) /\ TodoInv(c) /\ StartInv(c) /\ StageInv(c) /\ ResultInv(c) /\ FinalInv(c)
        BY <1>a DEF CallInv
      <3>4. /\ LastBarrier(c).type \in Barriers \cup {"none"} /\ \A x : HasInfo("result", c, x) => Has("result", c)
            /\ LastBarrier(c).type # "none" => Has(LastBarrier(c).type, c)
            /\ \A t \in Barriers : Has(t, c) => LastBarrier(c).type # "none"
        BY <1>0, BarrierProps
      <3>5. \A t \in EventTypes : Has(t, c) => Has("tool_call", c)
        BY <1>a DEF TracedInv
      <3>6. c <= used /\ LastBarrier(c).type = "none" /\ ~Has("result", c)
        BY <3>1, <3>2, <3>3, <3>4, <3>5 DEF FreshInv
      <3>7. EventInv(c)'
        BY <3>1, <3>2, <3>3, <3>4, <3>6, <3>5, <1>b DEF EventInv, Decided, Wrote, Barriers, EventTypes
      <3>8. FreshInv(c)'
        BY <3>1, <3>2, <3>3, <3>4, <3>6, <3>5, <1>b, MadeFresh DEF Wrote, Barriers
      <3>9. LiveInv(c)'
        BY <3>2, <3>3 DEF LiveInv, Live
      <3>10. TodoInv(c)'
        BY <3>2, <3>3, <3>6 DEF TodoInv
      <3>11. StartInv(c)'
        BY <3>2, <3>3, <3>6 DEF StartInv, Behind
      <3>12. StageInv(c)'
        BY <3>1, <3>2, <3>3, <3>4, <3>6, <3>5, <1>b DEF StageInv, Behind, Wrote, Barriers
      <3>13. ResultInv(c)'
        BY <3>1, <3>2, <3>3, <3>4, <3>6, <3>5, <1>b DEF ResultInv, Wrote, Barriers
      <3>14. FinalInv(c)'
        BY <3>1, <3>2, <3>3, <3>4, <3>6, <3>5, <1>b DEF Wrote, Barriers
      <3> QED BY <3>7, <3>8, <3>9, <3>10, <3>11, <3>12, <3>13, <3>14 DEF CallInv
    <2> QED BY <2>1, <2>2
  <1>17. ASSUME NEW c \in Calls, Ask(c) PROVE CallInv(d)'
    <2>1. ASSUME d # c PROVE CallInv(d)'
      <3>1. Steady(d)
        BY <1>17, <1>0, <2>1, OthersSteady
      <3>2. used' = used /\ worker' = worker
        BY <1>17, <1>c DEF Ask, Become, Workers
      <3>3. Placed(d)
        BY <1>b, <1>f, <3>2 DEF Placed
      <3> QED BY <1>e, <3>1, <3>3
    <2>2. CallInv(c)'
      <3>1. Wrote(c, "approval_requested", "") \/ Same(c)
        BY <1>17, <1>0, AskLog
      <3>2. UNCHANGED <<worker, zombies, runs, used>> /\ ((task[c] = "queued" /\ task'[c] = "asking" /\ c \in Asks) \/ (task[c] = "running" /\ task'[c] = "postAsking" /\ c \in PostAsks))
        BY <1>17, <1>c DEF Ask, Become
      <3>3. EventInv(c) /\ FreshInv(c) /\ LiveInv(c) /\ TodoInv(c) /\ StartInv(c) /\ StageInv(c) /\ ResultInv(c) /\ FinalInv(c)
        BY <1>a DEF CallInv
      <3>4. /\ LastBarrier(c).type \in Barriers \cup {"none"} /\ \A x : HasInfo("result", c, x) => Has("result", c)
            /\ LastBarrier(c).type # "none" => Has(LastBarrier(c).type, c)
            /\ \A t \in Barriers : Has(t, c) => LastBarrier(c).type # "none"
        BY <1>0, BarrierProps
      <3>5. \A t \in EventTypes : Has(t, c) => Has("tool_call", c)
        BY <1>a DEF TracedInv
      <3>6. c \notin worker.todo /\ c \notin zombies /\ ~Has("result", c) /\ worker.pc = "tools"
        BY <3>1, <3>2, <3>3, <3>4, <3>5 DEF LiveInv, Live, Undispatched, Outcome
      <3>7. Has("tool_call", c)
        BY <1>a, <3>2 DEF TracedInv, Live
      <3>8. c <= used
        BY <1>b, KnownMade, <3>3, <3>7
      <3>9. EventInv(c)'
        BY <3>1, <3>2, <3>3, <3>4, <3>6, <3>7, <3>8, <3>5, <1>b DEF EventInv, Decided, Wrote, Same,
           Barriers, EventTypes, Undispatched
      <3>10. FreshInv(c)'
        BY <3>2, <3>6, <3>8, <1>b, MadeFresh
      <3>11. LiveInv(c)'
        BY <3>1, <3>2, <3>3, <3>4, <3>6, <3>7, <3>8, <3>5, <1>b DEF LiveInv, Live, Wrote, Same, Barriers,
           Undispatched
      <3>12. TodoInv(c)'
        BY <3>2, <3>6 DEF TodoInv
      <3>13. StartInv(c)'
        BY <3>1, <3>2, <3>3, <3>4, <3>6, <3>7, <3>8, <3>5, <1>b DEF StartInv, Behind, Wrote, Same,
           Barriers, Undispatched
      <3>14. StageInv(c)'
        BY <3>1, <3>2, <3>3, <3>4, <3>6, <3>7, <3>8, <3>5, <1>b DEF StageInv, Behind, Wrote, Same,
           Barriers, Undispatched
      <3>15. ResultInv(c)'
        BY <3>1, <3>2, <3>3, <3>4, <3>6, <3>7, <3>8, <3>5, <1>b DEF ResultInv, Wrote, Same, Barriers,
           Undispatched
      <3>16. FinalInv(c)'
        BY <3>1, <3>2, <3>3, <3>4, <3>6, <3>7, <3>8, <3>5, <1>b DEF Wrote, Same, Barriers, Undispatched
      <3> QED BY <3>9, <3>10, <3>11, <3>12, <3>13, <3>14, <3>15, <3>16 DEF CallInv
    <2> QED BY <2>1, <2>2
  <1>18. ASSUME NEW c \in Calls, Answer(c) PROVE CallInv(d)'
    <2>1. ASSUME d # c PROVE CallInv(d)'
      <3>1. Steady(d)
        BY <1>18, <1>0, <2>1, OthersSteady
      <3>2. used' = used /\ worker' = worker
        BY <1>18, <1>c DEF Answer, Become, Workers
      <3>3. Placed(d)
        BY <1>b, <1>f, <3>2 DEF Placed
      <3> QED BY <1>e, <3>1, <3>3
    <2>2. CallInv(c)'
      <3>1. Same(c)
        BY <1>18, <1>0, QuietSteps DEF Quiet
      <3>2. UNCHANGED <<worker, zombies, runs, used>> /\ ((task[c] = "asking" /\ task'[c] \in {"cleared", "denied"}) \/ (task[c] = "postAsking" /\ task'[c] \in {"denied", "ok"}))
        BY <1>18, <1>c DEF Answer, Become
      <3>3. EventInv(c) /\ FreshInv(c) /\ LiveInv(c) /\ TodoInv(c) /\ StartInv(c) /\ StageInv(c) /\ ResultInv(c) /\ FinalInv(c)
        BY <1>a DEF CallInv
      <3>4. /\ LastBarrier(c).type \in Barriers \cup {"none"} /\ \A x : HasInfo("result", c, x) => Has("result", c)
            /\ LastBarrier(c).type # "none" => Has(LastBarrier(c).type, c)
            /\ \A t \in Barriers : Has(t, c) => LastBarrier(c).type # "none"
        BY <1>0, BarrierProps
      <3>5. \A t \in EventTypes : Has(t, c) => Has("tool_call", c)
        BY <1>a DEF TracedInv
      <3>6. EventInv(c)'
        BY <3>1, <3>2, <3>3, <3>4, <3>5, <1>b DEF EventInv, Decided, Same, Barriers, EventTypes, Undispatched
      <3>7. FreshInv(c)'
        BY <3>1, <3>2, <3>3 DEF FreshInv, Same
      <3>8. LiveInv(c)'
        BY <3>1, <3>2, <3>3 DEF LiveInv, Live, Same
      <3>9. TodoInv(c)'
        BY <3>1, <3>2, <3>3 DEF TodoInv, Same
      <3>10. StartInv(c)'
        BY <3>1, <3>2, <3>3 DEF StartInv, Behind, Same
      <3>11. StageInv(c)'
        BY <3>1, <3>2, <3>3 DEF StageInv, Behind, Same, Undispatched
      <3>12. ResultInv(c)'
        BY <3>1, <3>2, <3>3 DEF ResultInv, Same
      <3>13. FinalInv(c)'
        BY <3>1, <3>3 DEF Same
      <3> QED BY <3>6, <3>7, <3>8, <3>9, <3>10, <3>11, <3>12, <3>13 DEF CallInv
    <2> QED BY <2>1, <2>2
  <1>19. ASSUME NEW c \in Calls, ShortCircuit(c) PROVE CallInv(d)'
    <2>1. ASSUME d # c PROVE CallInv(d)'
      <3>1. Steady(d)
        BY <1>19, <1>0, <2>1, OthersSteady
      <3>2. used' = used /\ worker' = worker
        BY <1>19, <1>c DEF ShortCircuit, Become, Workers
      <3>3. Placed(d)
        BY <1>b, <1>f, <3>2 DEF Placed
      <3> QED BY <1>e, <3>1, <3>3
    <2>2. CallInv(c)'
      <3>1. Same(c)
        BY <1>19, <1>0, QuietSteps DEF Quiet
      <3>2. UNCHANGED <<worker, zombies, runs, used>> /\ task[c] \in Undispatched /\ task'[c] = "deferred" /\ c \in Defers
        BY <1>19, <1>c DEF ShortCircuit, Become, Admitted, Undispatched
      <3>3. EventInv(c) /\ FreshInv(c) /\ LiveInv(c) /\ TodoInv(c) /\ StartInv(c) /\ StageInv(c) /\ ResultInv(c) /\ FinalInv(c)
        BY <1>a DEF CallInv
      <3>4. /\ LastBarrier(c).type \in Barriers \cup {"none"} /\ \A x : HasInfo("result", c, x) => Has("result", c)
            /\ LastBarrier(c).type # "none" => Has(LastBarrier(c).type, c)
            /\ \A t \in Barriers : Has(t, c) => LastBarrier(c).type # "none"
        BY <1>0, BarrierProps
      <3>5. \A t \in EventTypes : Has(t, c) => Has("tool_call", c)
        BY <1>a DEF TracedInv
      <3>6. EventInv(c)'
        BY <3>1, <3>2, <3>3, <3>4, <3>5, <1>b DEF EventInv, Decided, Same, Barriers, EventTypes, Undispatched
      <3>7. FreshInv(c)'
        BY <3>1, <3>2, <3>3 DEF FreshInv, Same
      <3>8. LiveInv(c)'
        BY <3>1, <3>2, <3>3 DEF LiveInv, Live, Same, Undispatched
      <3>9. TodoInv(c)'
        BY <3>1, <3>2, <3>3 DEF TodoInv, Same
      <3>10. StartInv(c)'
        BY <3>1, <3>2, <3>3 DEF StartInv, Behind, Same
      <3>11. StageInv(c)'
        BY <3>1, <3>2, <3>3 DEF StageInv, Behind, Same
      <3>12. ResultInv(c)'
        BY <3>1, <3>2, <3>3 DEF ResultInv, Same
      <3>13. FinalInv(c)'
        BY <3>1, <3>3 DEF Same
      <3> QED BY <3>6, <3>7, <3>8, <3>9, <3>10, <3>11, <3>12, <3>13 DEF CallInv
    <2> QED BY <2>1, <2>2
  <1>20. ASSUME NEW c \in Calls, Dispatch(c) PROVE CallInv(d)'
    <2>1. ASSUME d # c PROVE CallInv(d)'
      <3>1. Steady(d)
        BY <1>20, <1>0, <2>1, OthersSteady
      <3>2. used' = used /\ worker' = worker
        BY <1>20, <1>c DEF Dispatch, Become, Workers
      <3>3. Placed(d)
        BY <1>b, <1>f, <3>2 DEF Placed
      <3> QED BY <1>e, <3>1, <3>3
    <2>2. CallInv(c)'
      <3>1. IF worker.op = "batch" THEN Same(c) ELSE Wrote(c, "dispatched", "")
        BY <1>20, <1>0, DispatchLog
      <3>2. UNCHANGED <<worker, zombies, runs, used>> /\ task[c] \in Undispatched /\ task'[c] = "armed"
        BY <1>20, <1>c DEF Dispatch, Become, Admitted, Undispatched
      <3>3. EventInv(c) /\ FreshInv(c) /\ LiveInv(c) /\ TodoInv(c) /\ StartInv(c) /\ StageInv(c) /\ ResultInv(c) /\ FinalInv(c)
        BY <1>a DEF CallInv
      <3>4. /\ LastBarrier(c).type \in Barriers \cup {"none"} /\ \A x : HasInfo("result", c, x) => Has("result", c)
            /\ LastBarrier(c).type # "none" => Has(LastBarrier(c).type, c)
            /\ \A t \in Barriers : Has(t, c) => LastBarrier(c).type # "none"
        BY <1>0, BarrierProps
      <3>5. \A t \in EventTypes : Has(t, c) => Has("tool_call", c)
        BY <1>a DEF TracedInv
      <3>6. c \notin worker.todo /\ c \notin zombies /\ ~Has("result", c) /\ worker.pc = "tools"
        BY <3>1, <3>2, <3>3, <3>4, <3>5 DEF LiveInv, Live, Undispatched, Outcome
      <3>7. Has("tool_call", c)
        BY <1>a, <3>2 DEF TracedInv, Live, Undispatched
      <3>8. c <= used
        BY <1>b, KnownMade, <3>3, <3>7
      <3>9. runs[c] = 0 /\ (worker.op = "batch" => Behind(c)) /\ (worker.op # "batch" => LastBarrier(c).type = "none")
        BY <3>2, <3>3 DEF StageInv
      <3>10. worker.op # "batch" => ~Has("deferred", c) /\ ~Has("resume_started", c)
        BY <3>4, <3>9 DEF Barriers
      <3>11. EventInv(c)'
        BY <3>1, <3>2, <3>3, <3>4, <3>6, <3>7, <3>8, <3>9, <3>10, <3>5, <1>b DEF EventInv, Decided,
           Wrote, Same, Barriers, EventTypes, Undispatched
      <3>12. FreshInv(c)'
        BY <3>2, <3>6, <3>8, <1>b, MadeFresh
      <3>13. LiveInv(c)'
        BY <3>1, <3>2, <3>3, <3>4, <3>6, <3>7, <3>8, <3>9, <3>10, <3>5, <1>b DEF LiveInv, Live, Wrote,
           Same, Barriers, Undispatched
      <3>14. TodoInv(c)'
        BY <3>2, <3>6 DEF TodoInv
      <3>15. StartInv(c)'
        BY <3>2, <3>6, <3>9 DEF StartInv
      <3>16. StageInv(c)'
        BY <3>1, <3>2, <3>3, <3>4, <3>6, <3>7, <3>8, <3>9, <3>10, <3>5, <1>b DEF StageInv, Behind, Wrote,
           Same, Barriers, Undispatched
      <3>17. ResultInv(c)'
        BY <3>2, <3>6, <3>9 DEF ResultInv
      <3>18. FinalInv(c)'
        BY <3>1, <3>2, <3>3, <3>4, <3>6, <3>7, <3>8, <3>9, <3>10, <3>5, <1>b DEF Wrote, Same, Barriers,
           Undispatched
      <3> QED BY <3>11, <3>12, <3>13, <3>14, <3>15, <3>16, <3>17, <3>18 DEF CallInv
    <2> QED BY <2>1, <2>2
  <1>21. ASSUME NEW c \in Calls, StartBody(c) PROVE CallInv(d)'
    <2>1. ASSUME d # c PROVE CallInv(d)'
      <3>1. Steady(d)
        BY <1>21, <1>0, <2>1, OthersSteady
      <3>2. used' = used /\ worker' = worker
        BY <1>21, <1>c DEF StartBody, Become, Workers
      <3>3. Placed(d)
        BY <1>b, <1>f, <3>2 DEF Placed
      <3> QED BY <1>e, <3>1, <3>3
    <2>2. CallInv(c)'
      <3>1. Same(c)
        BY <1>21, <1>0, QuietSteps DEF Quiet
      <3>2. UNCHANGED <<worker, zombies, used>> /\ task[c] = "armed" /\ task'[c] = "running" /\ runs'[c] = runs[c] + 1
        BY <1>21, <1>c DEF StartBody, Become
      <3>3. EventInv(c) /\ FreshInv(c) /\ LiveInv(c) /\ TodoInv(c) /\ StartInv(c) /\ StageInv(c) /\ ResultInv(c) /\ FinalInv(c)
        BY <1>a DEF CallInv
      <3>4. /\ LastBarrier(c).type \in Barriers \cup {"none"} /\ \A x : HasInfo("result", c, x) => Has("result", c)
            /\ LastBarrier(c).type # "none" => Has(LastBarrier(c).type, c)
            /\ \A t \in Barriers : Has(t, c) => LastBarrier(c).type # "none"
        BY <1>0, BarrierProps
      <3>5. \A t \in EventTypes : Has(t, c) => Has("tool_call", c)
        BY <1>a DEF TracedInv
      <3>6. runs[c] = 0 /\ Behind(c)
        BY <3>1, <3>2, <3>3, <3>4, <3>5 DEF StageInv
      <3>7. c \notin zombies /\ ~Has("result", c)
        BY <3>2, <3>3 DEF LiveInv, Live
      <3>8. runs'[c] = 1
        BY <3>2, <3>6
      <3>9. EventInv(c)'
        BY <3>1, <3>2, <3>3, <3>4, <3>6, <3>7, <3>8, <3>5, <1>b DEF EventInv, Decided, Same, Barriers,
           EventTypes, Undispatched
      <3>10. FreshInv(c)'
        BY <3>1, <3>2, <3>3 DEF FreshInv, Same
      <3>11. LiveInv(c)'
        BY <3>1, <3>2, <3>3 DEF LiveInv, Live, Same
      <3>12. TodoInv(c)'
        BY <3>1, <3>2, <3>3 DEF TodoInv, Same
      <3>13. StartInv(c)'
        BY <3>1, <3>2, <3>6, <3>7 DEF StartInv, Behind, Same
      <3>14. StageInv(c)'
        BY <3>1, <3>2, <3>3 DEF StageInv, Behind, Same, Undispatched
      <3>15. ResultInv(c)'
        BY <3>1, <3>4, <3>7 DEF ResultInv, Same
      <3>16. FinalInv(c)'
        BY <3>1, <3>3 DEF Same
      <3> QED BY <3>9, <3>10, <3>11, <3>12, <3>13, <3>14, <3>15, <3>16 DEF CallInv
    <2> QED BY <2>1, <2>2
  <1>22. ASSUME NEW c \in Calls, ZombieStart(c) PROVE CallInv(d)'
    <2>1. ASSUME d # c PROVE CallInv(d)'
      <3>1. Steady(d)
        BY <1>22, <1>0, <2>1, OthersSteady
      <3>2. used' = used /\ worker' = worker
        BY <1>22, <1>c DEF ZombieStart, Workers
      <3>3. Placed(d)
        BY <1>b, <1>f, <3>2 DEF Placed
      <3> QED BY <1>e, <3>1, <3>3
    <2>2. CallInv(c)'
      <3>1. Same(c)
        BY <1>22, <1>0, QuietSteps DEF Quiet
      <3>2. UNCHANGED <<worker, task, used>> /\ c \in zombies /\ c \notin zombies' /\ runs'[c] = runs[c] + 1
        BY <1>22, <1>c DEF ZombieStart
      <3>3. EventInv(c) /\ FreshInv(c) /\ LiveInv(c) /\ TodoInv(c) /\ StartInv(c) /\ StageInv(c) /\ ResultInv(c) /\ FinalInv(c)
        BY <1>a DEF CallInv
      <3>4. /\ LastBarrier(c).type \in Barriers \cup {"none"} /\ \A x : HasInfo("result", c, x) => Has("result", c)
            /\ LastBarrier(c).type # "none" => Has(LastBarrier(c).type, c)
            /\ \A t \in Barriers : Has(t, c) => LastBarrier(c).type # "none"
        BY <1>0, BarrierProps
      <3>5. \A t \in EventTypes : Has(t, c) => Has("tool_call", c)
        BY <1>a DEF TracedInv
      <3>6. ~Live(c)
        BY <3>1, <3>2, <3>3, <3>4, <3>5 DEF LiveInv
      <3>7. runs[c] = 0 /\ Behind(c)
        BY <3>2, <3>3 DEF StartInv
      <3>8. runs'[c] = 1
        BY <3>2, <3>7
      <3>9. task'[c] \in {"none", "settled"}
        BY <3>2, <3>6 DEF Live
      <3>10. EventInv(c)'
        BY <3>1, <3>2, <3>3, <3>4, <3>6, <3>7, <3>8, <3>9, <3>5, <1>b DEF EventInv, Decided, Same,
           Barriers, EventTypes, Undispatched
      <3>11. FreshInv(c)'
        BY <3>1, <3>2, <3>3 DEF FreshInv, Same
      <3>12. LiveInv(c)'
        BY <3>9 DEF LiveInv, Live
      <3>13. TodoInv(c)'
        BY <3>1, <3>2, <3>3 DEF TodoInv, Same
      <3>14. StartInv(c)'
        BY <3>1, <3>2, <3>3 DEF StartInv, Behind, Same
      <3>15. StageInv(c)'
        BY <3>9, RestInv
      <3>16. ResultInv(c)'
        BY <3>1, <3>2, <3>3 DEF ResultInv, Same
      <3>17. FinalInv(c)'
        BY <3>1, <3>3 DEF Same
      <3> QED BY <3>10, <3>11, <3>12, <3>13, <3>14, <3>15, <3>16, <3>17 DEF CallInv
    <2> QED BY <2>1, <2>2
  <1>23. ASSUME NEW c \in Calls, Settle(c) PROVE CallInv(d)'
    <2>1. ASSUME d # c PROVE CallInv(d)'
      <3>1. Steady(d)
        BY <1>23, <1>0, <2>1, OthersSteady
      <3>2. used' = used /\ worker'.pc = worker.pc /\ worker'.op = worker.op /\ worker'.batch = worker.batch
        BY <1>23, <1>c DEF Settle, Workers
      <3>3. Placed(d)
        BY <1>b, <1>f, <3>2 DEF Placed
      <3> QED BY <1>e, <3>1, <3>3
    <2>2. CallInv(c)'
      <3>1. IF task[c] = "deferred" THEN Wrote(c, "deferred", "") ELSE Wrote(c, "result", task[c])
        BY <1>23, <1>0, SettleLog
      <3>2. UNCHANGED <<zombies, used>> /\ task[c] \in Outcome /\ task'[c] = "settled" /\ runs'[c] = IF task[c] = "deferred" THEN 0 ELSE runs[c]
        BY <1>23, <1>c DEF Settle, Become, IsFirst
      <3>3. worker'.pc = worker.pc /\ worker'.op = worker.op /\ worker'.batch = worker.batch /\ worker'.todo = worker.todo /\ worker'.materialized = worker.materialized
        BY <1>23, <1>c DEF Settle, Workers
      <3>4. EventInv(c) /\ FreshInv(c) /\ LiveInv(c) /\ TodoInv(c) /\ StartInv(c) /\ StageInv(c) /\ ResultInv(c) /\ FinalInv(c)
        BY <1>a DEF CallInv
      <3>5. /\ LastBarrier(c).type \in Barriers \cup {"none"} /\ \A x : HasInfo("result", c, x) => Has("result", c)
            /\ LastBarrier(c).type # "none" => Has(LastBarrier(c).type, c)
            /\ \A t \in Barriers : Has(t, c) => LastBarrier(c).type # "none"
        BY <1>0, BarrierProps
      <3>6. \A t \in EventTypes : Has(t, c) => Has("tool_call", c)
        BY <1>a DEF TracedInv
      <3>7. c \notin worker.todo /\ c \notin zombies /\ ~Has("result", c) /\ worker.pc = "tools"
        BY <3>2, <3>4 DEF LiveInv, Live, Outcome
      <3>8. Has("tool_call", c)
        BY <1>a, <3>2 DEF TracedInv, Live, Outcome
      <3>9. c <= used
        BY <1>b, KnownMade, <3>4, <3>8
      <3>10. task[c] = "deferred" => c \in Defers
        BY <3>4 DEF StageInv
      <3>11. EventInv(c)'
        <4>1. CASE task[c] = "deferred"
          <5>1. Wrote(c, "deferred", "") /\ runs'[c] = 0
            BY <3>1, <3>2, <4>1
          <5> QED BY <4>1, <5>1, <3>1, <3>2, <3>3, <3>4, <3>5, <3>7, <3>8, <3>9, <3>10, <3>6, <1>b
                  DEF EventInv, Wrote, Barriers, EventTypes, Decided
        <4>2. CASE task[c] # "deferred"
          <5>1. Wrote(c, "result", task[c]) /\ runs'[c] = runs[c]
            BY <3>1, <3>2, <4>2
          <5> QED BY <4>2, <5>1, <3>1, <3>2, <3>3, <3>4, <3>5, <3>7, <3>8, <3>9, <3>10, <3>6, <1>b
                  DEF EventInv, Wrote, Barriers, EventTypes, Decided
        <4> QED BY <4>1, <4>2
      <3>12. FreshInv(c)'
        BY <3>2, <3>3, <3>7, <3>9, <1>b, MadeFresh
      <3>13. LiveInv(c)'
        BY <3>2 DEF LiveInv, Live
      <3>14. TodoInv(c)'
        BY <3>3, <3>7 DEF TodoInv
      <3>15. StartInv(c)'
        <4>1. CASE task[c] = "deferred"
          <5>1. Wrote(c, "deferred", "") /\ runs'[c] = 0
            BY <3>1, <3>2, <4>1
          <5>2. c \notin zombies'
            BY <3>2, <3>7
          <5>3. runs'[c] = 0
            BY <5>1
          <5> QED BY ONLY <5>2, <5>3 DEF StartInv
        <4>2. CASE task[c] # "deferred"
          <5>1. Wrote(c, "result", task[c]) /\ runs'[c] = runs[c]
            BY <3>1, <3>2, <4>2
          <5> QED BY <4>2, <3>1, <3>2, <3>4 DEF StartInv, Wrote, Barriers, Behind
        <4> QED BY <4>1, <4>2
      <3>16. StageInv(c)'
        BY <3>2 DEF StageInv, Undispatched
      <3>17. ResultInv(c)'
        <4>1. CASE task[c] = "deferred"
          <5>1. Wrote(c, "deferred", "") /\ runs'[c] = 0
            BY <3>1, <3>2, <4>1
          <5> QED BY <4>1, <5>1, <3>1, <3>2, <3>3, <3>4, <3>5, <3>7, <3>8, <3>9, <3>10, <3>6, <1>b
                  DEF ResultInv, Wrote, Barriers, StageInv
        <4>2. CASE task[c] # "deferred"
          <5>1. Wrote(c, "result", task[c]) /\ runs'[c] = runs[c]
            BY <3>1, <3>2, <4>2
          <5> QED BY <4>2, <3>1, <3>2, <3>4, <3>7 DEF ResultInv, Wrote, StageInv
        <4> QED BY <4>1, <4>2
      <3>18. FinalInv(c)'
        BY <3>1, <3>2, <3>3, <3>4, <3>5, <3>7, <3>8, <3>9, <3>10, <3>6, <1>b DEF Wrote, Barriers,
           Undispatched, Outcome
      <3> QED BY <3>11, <3>12, <3>13, <3>14, <3>15, <3>16, <3>17, <3>18 DEF CallInv
    <2> QED BY <2>1, <2>2
  <1>24. ASSUME NEW c \in Calls, ResumeApprovedTool(c) PROVE CallInv(d)'
    <2>1. ASSUME d # c PROVE CallInv(d)'
      <3>1. Steady(d)
        BY <1>24, <1>0, <2>1, OthersSteady
      <3>2. used' = used /\ worker.pc = "approve" /\ worker'.pc # "admit"
        BY <1>24, <1>c DEF ResumeApprovedTool, Release, Workers
      <3>3. Placed(d)
        BY <1>b, <1>f, <3>2 DEF Placed
      <3> QED BY <1>e, <3>1, <3>3
    <2>2. CallInv(c)'
      <3>1. Same(c)
        BY <1>24, <1>0, QuietSteps DEF Quiet
      <3>2. UNCHANGED <<zombies, runs, used>> /\ worker.pc = "approve" /\ Decided(c)
        BY <1>24, <1>c DEF ResumeApprovedTool
      <3>3. worker'.todo = {} \/ worker'.todo = worker.todo
        BY <1>24, <1>c DEF ResumeApprovedTool, Release, Workers
      <3>4. \/ worker' = NoWorker /\ task' = NoTasks
            \/ /\ ~Has("dispatched", c)
               /\ \E p, x : worker' = [worker EXCEPT !.pc = IF Has("result", c) THEN "closeStep" ELSE "tools",
                                              !.turn = p, !.step = x, !.batch = {c}]
               /\ task' = [NoTasks EXCEPT ![c] = IF Has("result", c) THEN "none"
                                                 ELSE IF Approved(c) THEN "queued" ELSE "denied"]
        BY <1>24, <1>c DEF ResumeApprovedTool, Release
      <3>5. EventInv(c) /\ FreshInv(c) /\ LiveInv(c) /\ TodoInv(c) /\ StartInv(c) /\ StageInv(c) /\ ResultInv(c) /\ FinalInv(c)
        BY <1>a DEF CallInv
      <3>6. /\ LastBarrier(c).type \in Barriers \cup {"none"} /\ \A x : HasInfo("result", c, x) => Has("result", c)
            /\ LastBarrier(c).type # "none" => Has(LastBarrier(c).type, c)
            /\ \A t \in Barriers : Has(t, c) => LastBarrier(c).type # "none"
        BY <1>0, BarrierProps
      <3>7. \A t \in EventTypes : Has(t, c) => Has("tool_call", c)
        BY <1>a DEF TracedInv
      <3>8. \/ task'[c] = "none" /\ worker'.pc # "admit"
            \/ /\ ~Has("dispatched", c) /\ ~Has("result", c) /\ task'[c] \in {"queued", "denied"}
               /\ worker'.pc = "tools" /\ worker'.op = worker.op /\ c \in worker'.batch
        <4>1. CASE worker' = NoWorker /\ task' = NoTasks
          BY <1>c, <4>1
        <4>2. ASSUME ~Has("dispatched", c), NEW p, NEW x,
                     worker' = [worker EXCEPT !.pc = IF Has("result", c) THEN "closeStep" ELSE "tools",
                                              !.turn = p, !.step = x, !.batch = {c}]
              PROVE  /\ worker'.pc = IF Has("result", c) THEN "closeStep" ELSE "tools"
                     /\ worker'.op = worker.op /\ c \in worker'.batch
          BY <1>c, <4>2 DEF Workers
        <4>3. ASSUME task' = [NoTasks EXCEPT ![c] = IF Has("result", c) THEN "none"
                                                   ELSE IF Approved(c) THEN "queued" ELSE "denied"]
              PROVE  task'[c] = "none" \/ (~Has("result", c) /\ task'[c] \in {"queued", "denied"})
          BY <4>3 DEF NoTasks
        <4>4. ASSUME task' = [NoTasks EXCEPT ![c] = IF Has("result", c) THEN "none"
                                                   ELSE IF Approved(c) THEN "queued" ELSE "denied"], Has("result", c)
              PROVE  task'[c] = "none"
          BY <4>4 DEF NoTasks
        <4> QED BY <3>4, <4>1, <4>2, <4>3, <4>4
      <3>9. worker.op = "approval" /\ worker.todo = {} /\ worker'.todo = {}
        BY <1>0, <3>2, <3>3 DEF WorkerInv
      <3>10. ~Has("dispatched", c) => LastBarrier(c).type = "none"
        BY <3>1, <3>2, <3>3, <3>4, <3>5, <3>6, <3>8, <3>9, <3>7 DEF EventInv, Apart, Barriers, Decided
      <3>11. LastBarrier(c).type = "none" => runs[c] = 0 /\ c \notin zombies
        BY <3>5 DEF StartInv, Behind
      <3>12. EventInv(c)'
        BY <3>1, <3>2, <3>3, <3>4, <3>5, <3>6, <3>8, <3>9, <3>10, <3>11, <3>7, <1>b DEF EventInv,
           Decided, Same, Barriers, EventTypes, Undispatched
      <3>13. FreshInv(c)'
        BY <3>1, <3>2, <3>5, <3>8 DEF FreshInv, Same
      <3>14. LiveInv(c)'
        BY <3>1, <3>2, <3>8, <3>9, <3>10, <3>11 DEF LiveInv, Live, Same
      <3>15. TodoInv(c)'
        BY <3>9 DEF TodoInv
      <3>16. StartInv(c)'
        BY <3>1, <3>2, <3>5 DEF StartInv, Behind, Same
      <3>17. StageInv(c)'
        BY <3>1, <3>2, <3>8, <3>9, <3>10, <3>11 DEF StageInv, Same, Undispatched
      <3>18. ResultInv(c)'
        BY <3>1, <3>2, <3>5 DEF ResultInv, Same
      <3>19. FinalInv(c)'
        BY <3>1, <3>5 DEF Same
      <3> QED BY <3>12, <3>13, <3>14, <3>15, <3>16, <3>17, <3>18, <3>19 DEF CallInv
    <2> QED BY <2>1, <2>2
  <1>25. ASSUME NEW c \in Calls, NEW outcome \in {"error", "aborted"}, Refuse(c, outcome) PROVE CallInv(d)'
    <2>1. ASSUME d # c PROVE CallInv(d)'
      <3>1. Steady(d)
        BY <1>25, <1>0, <2>1, OthersSteady
      <3>2. used' = used /\ worker' = worker
        BY <1>25, <1>c DEF Refuse, Become, Workers
      <3>3. Placed(d)
        BY <1>b, <1>f, <3>2 DEF Placed
      <3> QED BY <1>e, <3>1, <3>3
    <2>2. CallInv(c)'
      <3>1. Same(c)
        BY <1>25, <1>0, QuietSteps DEF Quiet, Outcome
      <3>2. UNCHANGED <<worker, zombies, runs, used>> /\ task[c] \in Undispatched /\ task'[c] = outcome
        BY <1>25, <1>c DEF Refuse, Become
      <3>3. EventInv(c) /\ FreshInv(c) /\ LiveInv(c) /\ TodoInv(c) /\ StartInv(c) /\ StageInv(c) /\ ResultInv(c) /\ FinalInv(c)
        BY <1>a DEF CallInv
      <3>4. /\ LastBarrier(c).type \in Barriers \cup {"none"} /\ \A x : HasInfo("result", c, x) => Has("result", c)
            /\ LastBarrier(c).type # "none" => Has(LastBarrier(c).type, c)
            /\ \A t \in Barriers : Has(t, c) => LastBarrier(c).type # "none"
        BY <1>0, BarrierProps
      <3>5. \A t \in EventTypes : Has(t, c) => Has("tool_call", c)
        BY <1>a DEF TracedInv
      <3>6. EventInv(c)'
        BY <3>1, <3>2, <3>3, <3>4, <3>5, <1>b DEF EventInv, Decided, Same, Barriers, EventTypes, Undispatched
      <3>7. FreshInv(c)'
        BY <3>1, <3>2, <3>3 DEF FreshInv, Same
      <3>8. LiveInv(c)'
        BY <3>1, <3>2, <3>3 DEF LiveInv, Live, Same, Undispatched
      <3>9. TodoInv(c)'
        BY <3>1, <3>2, <3>3 DEF TodoInv, Same
      <3>10. StartInv(c)'
        BY <3>1, <3>2, <3>3 DEF StartInv, Behind, Same
      <3>11. StageInv(c)'
        BY <3>1, <3>2, <3>3 DEF StageInv, Behind, Same
      <3>12. ResultInv(c)'
        BY <3>1, <3>2, <3>3 DEF ResultInv, Same
      <3>13. FinalInv(c)'
        BY <3>1, <3>3 DEF Same
      <3> QED BY <3>6, <3>7, <3>8, <3>9, <3>10, <3>11, <3>12, <3>13 DEF CallInv
    <2> QED BY <2>1, <2>2
  <1>26. ASSUME NEW c \in Calls, NEW outcome \in {"ok", "conclude", "error", "deferred"}, BodyReturns(c, outcome)
        PROVE  CallInv(d)'
    <2>1. ASSUME d # c PROVE CallInv(d)'
      <3>1. Steady(d)
        BY <1>26, <1>0, <2>1, OthersSteady
      <3>2. used' = used /\ worker' = worker
        BY <1>26, <1>c DEF BodyReturns, Become, Workers
      <3>3. Placed(d)
        BY <1>b, <1>f, <3>2 DEF Placed
      <3> QED BY <1>e, <3>1, <3>3
    <2>2. CallInv(c)'
      <3>1. Same(c)
        BY <1>26, <1>0, QuietSteps DEF Quiet, Outcome
      <3>2. UNCHANGED <<worker, zombies, runs, used>> /\ task[c] \in {"running", "postAsking"} /\ task'[c] = outcome /\ (outcome = "deferred" => c \in Defers)
        BY <1>26, <1>c DEF BodyReturns, Become
      <3>3. EventInv(c) /\ FreshInv(c) /\ LiveInv(c) /\ TodoInv(c) /\ StartInv(c) /\ StageInv(c) /\ ResultInv(c) /\ FinalInv(c)
        BY <1>a DEF CallInv
      <3>4. /\ LastBarrier(c).type \in Barriers \cup {"none"} /\ \A x : HasInfo("result", c, x) => Has("result", c)
            /\ LastBarrier(c).type # "none" => Has(LastBarrier(c).type, c)
            /\ \A t \in Barriers : Has(t, c) => LastBarrier(c).type # "none"
        BY <1>0, BarrierProps
      <3>5. \A t \in EventTypes : Has(t, c) => Has("tool_call", c)
        BY <1>a DEF TracedInv
      <3>6. EventInv(c)'
        BY <3>1, <3>2, <3>3, <3>4, <3>5, <1>b DEF EventInv, Decided, Same, Barriers, EventTypes, Undispatched
      <3>7. FreshInv(c)'
        BY <3>1, <3>2, <3>3 DEF FreshInv, Same
      <3>8. LiveInv(c)'
        BY <3>1, <3>2, <3>3 DEF LiveInv, Live, Same
      <3>9. TodoInv(c)'
        BY <3>1, <3>2, <3>3 DEF TodoInv, Same
      <3>10. StartInv(c)'
        BY <3>1, <3>2, <3>3 DEF StartInv, Behind, Same
      <3>11. StageInv(c)'
        BY <3>2 DEF StageInv, Undispatched
      <3>12. ResultInv(c)'
        BY <3>1, <3>2, <3>3 DEF ResultInv, Same
      <3>13. FinalInv(c)'
        BY <3>1, <3>3 DEF Same
      <3> QED BY <3>6, <3>7, <3>8, <3>9, <3>10, <3>11, <3>12, <3>13 DEF CallInv
    <2> QED BY <2>1, <2>2
  <1>27. ASSUME NEW c \in Calls, NEW outcome \in {"ok", "conclude", "error", "deferred"}, ResumeNext(c, outcome)
        PROVE  CallInv(d)'
    <2>1. ASSUME d # c PROVE CallInv(d)'
      <3>1. Steady(d)
        BY <1>27, <1>0, <2>1, OthersSteady
      <3>2. used' = used /\ worker.pc = "resuming" /\ worker'.pc # "admit"
        BY <1>27, <1>c DEF ResumeNext, Workers
      <3>3. Placed(d)
        BY <1>b, <1>f, <3>2 DEF Placed
      <3> QED BY <1>e, <3>1, <3>3
    <2>2. CallInv(c)'
      <3>1. IF Has("result", c) \/ ResumeStarted(c) THEN Same(c)
            ELSE Wrote(c, "resume_started", IF worker.materialized THEN "materialized" ELSE "executed")
        BY <1>27, <1>0, ResumeLog
      <3>2. UNCHANGED <<zombies, runs, used>> /\ worker.pc = "resuming" /\ c \in worker.todo
        BY <1>27, <1>c DEF ResumeNext, IsFirst
      <3>3. worker'.todo = worker.todo \ {c} /\ worker'.materialized = worker.materialized /\ worker'.op = worker.op
        BY <1>27, <1>c, ResumeWorker
      <3>4. IF Has("result", c) THEN worker'.pc = "resuming" /\ task'[c] = task[c]
            ELSE worker'.pc = "tools" /\ c \in worker'.batch
        BY <1>27, <1>c, ResumeWorker
      <3>5. Has("result", c) \/ task'[c] = IF worker.op = "batch" /\ ~worker.materialized THEN "queued" ELSE outcome
        BY <1>27, <1>c DEF ResumeNext, NoTasks
      <3>6. worker.materialized \in BOOLEAN
        BY <1>27, <1>c DEF Workers
      <3>7. EventInv(c) /\ FreshInv(c) /\ LiveInv(c) /\ TodoInv(c) /\ StartInv(c) /\ StageInv(c) /\ ResultInv(c) /\ FinalInv(c)
        BY <1>a DEF CallInv
      <3>8. /\ LastBarrier(c).type \in Barriers \cup {"none"} /\ \A x : HasInfo("result", c, x) => Has("result", c)
            /\ LastBarrier(c).type # "none" => Has(LastBarrier(c).type, c)
            /\ \A t \in Barriers : Has(t, c) => LastBarrier(c).type # "none"
        BY <1>0, BarrierProps
      <3>9. \A t \in EventTypes : Has(t, c) => Has("tool_call", c)
        BY <1>a DEF TracedInv
      <3>10. worker.op \in {"batch", "single"} /\ ~Live(c)
        BY <1>0, <3>2, <3>7 DEF WorkerInv, LiveInv
      <3>11. ~Has("result", c) => runs[c] = 0 /\ c \notin zombies
        BY <3>2, <3>7 DEF StartInv, TodoInv, Behind
      <3>12. Has("tool_call", c) /\ c <= used /\ c \in Defers
        <4>1. Has("deferred", c)
          BY <3>2, <3>7 DEF TodoInv
        <4>2. c \in Defers
          BY <3>7, <4>1 DEF EventInv
        <4>3. Has("tool_call", c)
          BY <3>9, <4>1 DEF EventTypes
        <4> QED BY <1>b, <3>7, <4>2, <4>3, KnownMade
      <3>13. ~Has("result", c) /\ worker.op = "batch" /\ ~worker.materialized => LastBarrier(c).type = "deferred"
        BY <3>2, <3>7 DEF TodoInv
      <3>14. ~Has("result", c) /\ worker.op = "batch" /\ ~worker.materialized => ~ResumeStarted(c)
        BY <1>0, <3>13, ResumeReads
      <3>15. Has("deferred", c)
        BY <3>2, <3>7 DEF TodoInv
      <3>16. EventInv(c)'
        BY <3>1, <3>2, <3>3, <3>4, <3>5, <3>6, <3>7, <3>8, <3>10, <3>11, <3>12, <3>13, <3>14, <3>15,
           <3>9, <1>b DEF EventInv, Decided, Same, Wrote, Barriers, EventTypes, Undispatched
      <3>17. FreshInv(c)'
        BY <3>2, <3>4, <3>12, <1>b DEF FreshInv
      <3>18. LiveInv(c)'
        BY <3>1, <3>2, <3>3, <3>4, <3>10, <3>11 DEF LiveInv, Live, Same, Wrote
      <3>19. TodoInv(c)'
        BY <3>3 DEF TodoInv
      <3>20. StartInv(c)'
        BY <3>1, <3>2, <3>7, <3>11 DEF StartInv, Behind, Same
      <3>21. StageInv(c)'
        BY <3>1, <3>2, <3>3, <3>4, <3>5, <3>7, <3>11, <3>12, <3>14 DEF StageInv, Behind, Same, Wrote,
           Barriers, Undispatched
      <3>22. ResultInv(c)'
        BY <3>1, <3>2, <3>7 DEF ResultInv, Same, Wrote
      <3>23. FinalInv(c)'
        BY <3>1, <3>7 DEF Same, Wrote
      <3> QED BY <3>16, <3>17, <3>18, <3>19, <3>20, <3>21, <3>22, <3>23 DEF CallInv
    <2> QED BY <2>1, <2>2
  <1>28. ASSUME NEW c \in Calls, NEW answer \in {"yes", "no"}, Decide(c, answer) PROVE CallInv(d)'
    <2>1. ASSUME d # c PROVE CallInv(d)'
      <3>1. Steady(d)
        BY <1>28, <1>0, <2>1, OthersSteady
      <3>2. used' = used /\ worker' = worker
        BY <1>28, <1>c DEF Decide, Workers
      <3>3. Placed(d)
        BY <1>b, <1>f, <3>2 DEF Placed
      <3> QED BY <1>e, <3>1, <3>3
    <2>2. CallInv(c)'
      <3>1. Wrote(c, "approval_resolved", answer)
        BY <1>28, <1>0, DecideLog
      <3>2. UNCHANGED <<worker, task, zombies, runs, used>> /\ Has("approval_requested", c)
        BY <1>28, <1>c DEF Decide
      <3>3. EventInv(c) /\ FreshInv(c) /\ LiveInv(c) /\ TodoInv(c) /\ StartInv(c) /\ StageInv(c) /\ ResultInv(c) /\ FinalInv(c)
        BY <1>a DEF CallInv
      <3>4. /\ LastBarrier(c).type \in Barriers \cup {"none"} /\ \A x : HasInfo("result", c, x) => Has("result", c)
            /\ LastBarrier(c).type # "none" => Has(LastBarrier(c).type, c)
            /\ \A t \in Barriers : Has(t, c) => LastBarrier(c).type # "none"
        BY <1>0, BarrierProps
      <3>5. \A t \in EventTypes : Has(t, c) => Has("tool_call", c)
        BY <1>a DEF TracedInv
      <3>6. Has("tool_call", c)
        BY <3>1, <3>2, <3>3, <3>4, <3>5 DEF EventTypes
      <3>7. c <= used
        BY <1>b, KnownMade, <3>3, <3>6
      <3>8. EventInv(c)'
        BY <3>1, <3>2, <3>3, <3>4, <3>6, <3>7, <3>5, <1>b DEF EventInv, Decided, Wrote, Barriers, EventTypes
      <3>9. FreshInv(c)'
        BY <3>1, <3>2, <3>3, <3>7, <1>b DEF Wrote, Barriers, FreshInv
      <3>10. LiveInv(c)'
        BY <3>1, <3>2, <3>3 DEF LiveInv, Live, Wrote
      <3>11. TodoInv(c)'
        BY <3>1, <3>2, <3>3 DEF TodoInv, Wrote, Barriers
      <3>12. StartInv(c)'
        BY <3>1, <3>2, <3>3 DEF StartInv, Behind, Wrote, Barriers
      <3>13. StageInv(c)'
        BY <3>1, <3>2, <3>3 DEF StageInv, Behind, Wrote, Barriers
      <3>14. ResultInv(c)'
        BY <3>1, <3>2, <3>3 DEF ResultInv, Wrote
      <3>15. FinalInv(c)'
        BY <3>1, <3>3 DEF Wrote, Barriers
      <3> QED BY <3>8, <3>9, <3>10, <3>11, <3>12, <3>13, <3>14, <3>15 DEF CallInv
    <2> QED BY <2>1, <2>2
  <1>29. CASE FinishBatch
    <2>1. Steady(d)
      BY <1>29, <1>0, SteadySteps
    <2>2. used' = used /\ worker'.pc # "admit" /\ (d \in worker.batch => task[d] = "settled")
      BY <1>29, <1>c DEF FinishBatch, Release, Goto, Workers
    <2>3. Placed(d)
      BY <1>b, <1>f, <2>2 DEF Placed, Live
    <2> QED BY <1>e, <2>1, <2>3
  <1>30. CASE CloseStep
    <2>1. Steady(d)
      BY <1>30, <1>0, SteadySteps
    <2>2. worker.pc = "closeStep" /\ used' = used /\ worker'.pc \in {"none", "endTurn", "steps"}
      <3>1. worker.pc = "closeStep" /\ used' = used
        BY <1>30 DEF CloseStep
      <3>2. \/ worker' = NoWorker
            \/ \E p \in {"endTurn", "steps"} :
                 worker' = [worker EXCEPT !.op = "run", !.batch = {}, !.requests = {}, !.pc = p]
        BY <1>30 DEF CloseStep, Release
      <3> QED BY <1>c, <3>1, <3>2 DEF Workers
    <2>3. Placed(d)
      BY <1>b, <1>f, <2>2 DEF Placed
    <2> QED BY <1>e, <2>1, <2>3
  <1>31. ASSUME NEW S \in SUBSET Calls, NEW m \in BOOLEAN, PickRequests(S, m) PROVE CallInv(d)'
    <2>1. Same(d)
      BY <1>31, <1>0, QuietSteps DEF Quiet
    <2>2. UNCHANGED <<task, runs, used, zombies>> /\ worker.pc = "resume"
      BY <1>31, <1>c DEF PickRequests
    <2>3. worker'.pc = "resuming" /\ worker'.todo = S /\ worker'.materialized = m
      BY <1>31, <1>c DEF PickRequests, Workers
    <2>4. d \in S => Has("deferred", d) /\ Resumable(d, m)
      BY <1>31, <1>c DEF PickRequests
    <2>5. EventInv(d) /\ FreshInv(d) /\ LiveInv(d) /\ TodoInv(d) /\ StartInv(d) /\ StageInv(d) /\ ResultInv(d) /\ FinalInv(d)
      BY <1>a DEF CallInv
    <2>6. /\ LastBarrier(d).type \in Barriers \cup {"none"} /\ \A x : HasInfo("result", d, x) => Has("result", d)
          /\ LastBarrier(d).type # "none" => Has(LastBarrier(d).type, d)
          /\ \A t \in Barriers : Has(t, d) => LastBarrier(d).type # "none"
      BY <1>0, BarrierProps
    <2>7. \A t \in EventTypes : Has(t, d) => Has("tool_call", d)
      BY <1>a DEF TracedInv
    <2>8. ~Live(d) /\ worker.op \in {"batch", "single"}
      BY <1>0, <2>2, <2>5 DEF LiveInv, WorkerInv
    <2>9. task'[d] \in {"none", "settled"}
      BY <2>2, <2>8 DEF Live
    <2>10. d \in S => LastBarrier(d).type \in {"deferred", "resume_started"}
      BY <2>1, <2>2, <2>3, <2>4, <2>5, <2>6, <2>8, <2>9, <2>7 DEF EventInv, Barriers
    <2>11. d \in S /\ ~ResumeStarted(d) => LastBarrier(d).type = "deferred"
      BY <1>0, <2>10, ResumeReads
    <2>12. d \in S /\ ResumeMaterialized(d) => LastBarrier(d).type = "deferred" \/ LastBarrier(d).info = "materialized"
      BY <1>0, <2>10, ResumeReads
    <2>13. EventInv(d)'
      BY <2>1, <2>2, <2>3, <2>4, <2>5, <2>6, <2>8, <2>9, <2>10, <2>11, <2>12, <2>7, <1>b DEF EventInv,
         Decided, Same, Barriers, EventTypes, Undispatched, Resumable
    <2>14. FreshInv(d)'
      BY <2>1, <2>2, <2>3, <2>5 DEF FreshInv, Same
    <2>15. LiveInv(d)'
      BY <2>9 DEF LiveInv, Live
    <2>16. TodoInv(d)'
      BY <2>1, <2>3, <2>4, <2>10, <2>11, <2>12 DEF TodoInv, Same, Resumable
    <2>17. StartInv(d)'
      BY <2>1, <2>2, <2>5 DEF StartInv, Behind, Same
    <2>18. StageInv(d)'
      BY <2>9, RestInv
    <2>19. ResultInv(d)'
      BY <2>1, <2>2, <2>5 DEF ResultInv, Same
    <2>20. FinalInv(d)'
      BY <2>1, <2>5 DEF Same
    <2> QED BY <2>13, <2>14, <2>15, <2>16, <2>17, <2>18, <2>19, <2>20 DEF CallInv
  <1>32. CASE ResumeNothing
    <2>1. Steady(d)
      BY <1>32, <1>0, SteadySteps
    <2>2. used' = used /\ worker.pc # "tools" /\ worker'.pc = "none"
      BY <1>32, <1>c DEF ResumeNothing, Release, Workers
    <2>3. Placed(d)
      BY <1>b, <1>f, <2>2 DEF Placed, Live
    <2> QED BY <1>e, <2>1, <2>3
  <1>33. CASE FinishResume
    <2>1. Steady(d)
      BY <1>33, <1>0, SteadySteps
    <2>2. used' = used /\ worker.pc # "tools" /\ worker'.pc # "admit"
      BY <1>33, <1>c DEF FinishResume, Release, Workers
    <2>3. Placed(d)
      BY <1>b, <1>f, <2>2 DEF Placed, Live
    <2> QED BY <1>e, <2>1, <2>3
  <1>34. CASE UNCHANGED vars
    <2>1. Steady(d)
      BY <1>34, <1>0, SteadySteps
    <2>2. used' = used /\ worker' = worker
      BY <1>34, <1>c DEF vars, Workers
    <2>3. Placed(d)
      BY <1>b, <1>f, <2>2 DEF Placed, Live
    <2> QED BY <1>e, <2>1, <2>3
  <1> QED
    BY <1>1, <1>2, <1>3, <1>4, <1>5, <1>6, <1>7, <1>8, <1>9, <1>10,
       <1>11, <1>12, <1>13, <1>14, <1>15, <1>16, <1>17, <1>18, <1>19, <1>20,
       <1>21, <1>22, <1>23, <1>24, <1>25, <1>26, <1>27, <1>28, <1>29, <1>30,
       <1>31, <1>32, <1>33, <1>34
    DEF Next

LEMMA WorkerStep ==
  ASSUME ToolTurnAssumption, TypeOK, WorkerInv, [Next]_vars
  PROVE  WorkerInv'
  <1>0. worker \in Workers
    BY DEF TypeOK
  <1>a. NoWorker.pc = "none" /\ NoWorker.op = "none" /\ NoWorker.todo = {}
    BY DEF NoWorker
  <1>b. worker' = NoWorker => WorkerInv'
    BY <1>a DEF WorkerInv
  <1>c. ASSUME worker'.op = worker.op, worker'.pc = worker.pc, worker'.todo \subseteq worker.todo PROVE WorkerInv'
    BY <1>c DEF WorkerInv
  <1>1. ASSUME NEW op \in {"run", "batch", "single", "approval"}, Claim(op) PROVE WorkerInv'
    <2>1. worker'.op = op /\ worker'.pc = (IF op = "approval" THEN "approve" ELSE "recover") /\ worker'.todo = {}
      BY <1>1, <1>0 DEF Claim, NoWorker
    <2> QED BY <2>1 DEF WorkerInv
  <1>2. CASE Recover
    <2>1. worker.pc = "recover" /\ worker'.op = worker.op /\ worker'.todo = worker.todo /\ worker'.pc = (IF worker.op = "run" THEN "begin" ELSE "resume")
      BY <1>2, <1>0 DEF Recover, Goto, Workers
    <2> QED BY <2>1 DEF WorkerInv
  <1>3. CASE BeginTurn
    <2>1. worker.pc = "begin" /\ worker'.pc = "steps" /\ worker'.op = worker.op /\ worker'.todo = worker.todo
      BY <1>3, <1>0 DEF BeginTurn, Workers
    <2> QED BY <2>1 DEF WorkerInv
  <1>4. CASE Cancel
    <2>1. worker'.op = worker.op /\ worker'.pc = worker.pc /\ worker'.todo = worker.todo
      BY <1>4, <1>0 DEF Cancel, Workers
    <2> QED BY <1>c, <2>1
  <1>5. CASE Crash
    BY <1>5, <1>b DEF Crash, Release
  <1>6. CASE LoseLease
    BY <1>6, <1>b DEF LoseLease, Release
  <1>7. CASE StartStep
    <2>1. worker.pc = "steps" /\ worker'.pc = "model" /\ worker'.op = worker.op /\ worker'.todo = worker.todo
      BY <1>7, <1>0 DEF StartStep, Workers
    <2> QED BY <2>1 DEF WorkerInv
  <1>8. CASE EndTurn
    BY <1>8, <1>b DEF EndTurn, Release
  <1>9. CASE PolicyWait
    BY <1>9, <1>b DEF PolicyWait, Release
  <1>10. CASE Chunk
    BY <1>10, <1>c DEF Chunk
  <1>11. CASE ModelReplies
    <2>1. worker.pc = "model" /\ worker'.pc = "endTurn" /\ worker'.op = worker.op /\ worker'.todo = worker.todo
      BY <1>11, <1>0 DEF ModelReplies, Goto, Workers
    <2> QED BY <2>1 DEF WorkerInv
  <1>12. CASE StartBatch
    <2>1. worker.pc = "admit" /\ worker'.pc = "tools" /\ worker'.op = worker.op /\ worker'.todo = worker.todo
      BY <1>12, <1>0 DEF StartBatch, Goto, Workers
    <2> QED BY <2>1 DEF WorkerInv
  <1>13. ASSUME NEW b \in BOOLEAN, ModelFails(b) PROVE WorkerInv'
    <2>1. worker.pc = "model" /\ worker'.pc = "failStep" /\ worker'.op = worker.op /\ worker'.todo = worker.todo
      BY <1>13, <1>0 DEF ModelFails, Goto, Workers
    <2> QED BY <2>1 DEF WorkerInv
  <1>14. ASSUME NEW b \in BOOLEAN, FailStep(b) PROVE WorkerInv'
    <2>1. worker.pc = "failStep" /\ worker'.pc \in {"steps", "endTurn"} /\ worker'.op = worker.op /\ worker'.todo = worker.todo
      BY <1>14, <1>0 DEF FailStep, Goto, Workers
    <2> QED BY <2>1 DEF WorkerInv
  <1>15. ASSUME NEW n \in 1..MaxBatch, ModelCalls(n) PROVE WorkerInv'
    <2>1. worker.pc = "model" /\ worker'.pc = "admit" /\ worker'.op = worker.op /\ worker'.todo = worker.todo
      BY <1>15, <1>0 DEF ModelCalls, Workers
    <2> QED BY <2>1 DEF WorkerInv
  <1>16. ASSUME NEW c \in Calls, Admit(c) PROVE WorkerInv'
    BY <1>16, <1>c DEF Admit
  <1>17. ASSUME NEW c \in Calls, Ask(c) PROVE WorkerInv'
    BY <1>17, <1>c DEF Ask
  <1>18. ASSUME NEW c \in Calls, Answer(c) PROVE WorkerInv'
    BY <1>18, <1>c DEF Answer
  <1>19. ASSUME NEW c \in Calls, ShortCircuit(c) PROVE WorkerInv'
    BY <1>19, <1>c DEF ShortCircuit
  <1>20. ASSUME NEW c \in Calls, Dispatch(c) PROVE WorkerInv'
    BY <1>20, <1>c DEF Dispatch
  <1>21. ASSUME NEW c \in Calls, StartBody(c) PROVE WorkerInv'
    BY <1>21, <1>c DEF StartBody
  <1>22. ASSUME NEW c \in Calls, ZombieStart(c) PROVE WorkerInv'
    BY <1>22, <1>c DEF ZombieStart
  <1>23. ASSUME NEW c \in Calls, Settle(c) PROVE WorkerInv'
    <2>1. worker'.op = worker.op /\ worker'.pc = worker.pc /\ worker'.todo = worker.todo
      BY <1>23, <1>0 DEF Settle, Workers
    <2> QED BY <1>c, <2>1
  <1>24. ASSUME NEW c \in Calls, ResumeApprovedTool(c) PROVE WorkerInv'
    <2>1. worker.pc = "approve"
      BY <1>24 DEF ResumeApprovedTool
    <2>2. \/ worker' = NoWorker
          \/ \E p \in {"closeStep", "tools"} : \E t, s :
               worker' = [worker EXCEPT !.pc = p, !.turn = t, !.step = s, !.batch = {c}]
      BY <1>24 DEF ResumeApprovedTool, Release
    <2>3. worker' = NoWorker \/ (worker'.op = worker.op /\ worker'.todo = worker.todo /\ worker'.pc \in {"closeStep", "tools"})
      BY <1>0, <2>2 DEF Workers
    <2> QED BY <1>b, <2>1, <2>3 DEF WorkerInv
  <1>25. ASSUME NEW c \in Calls, NEW outcome \in {"error", "aborted"}, Refuse(c, outcome) PROVE WorkerInv'
    BY <1>25, <1>c DEF Refuse
  <1>26. ASSUME NEW c \in Calls, NEW outcome \in {"ok", "conclude", "error", "deferred"}, BodyReturns(c, outcome)
        PROVE  WorkerInv'
    BY <1>26, <1>c DEF BodyReturns
  <1>27. ASSUME NEW c \in Calls, NEW outcome \in {"ok", "conclude", "error", "deferred"}, ResumeNext(c, outcome)
        PROVE  WorkerInv'
    <2>1. /\ worker.pc = "resuming" /\ worker'.pc \in {"resuming", "tools"}
          /\ worker'.op = worker.op /\ worker'.todo \subseteq worker.todo
      BY <1>27, <1>0, ResumeWorker
    <2> QED BY <2>1 DEF WorkerInv
  <1>28. ASSUME NEW c \in Calls, NEW answer \in {"yes", "no"}, Decide(c, answer) PROVE WorkerInv'
    BY <1>28, <1>c DEF Decide
  <1>29. CASE FinishBatch
    <2>1. \/ worker' = NoWorker
          \/ /\ worker'.op = worker.op /\ worker'.todo = worker.todo
             /\ worker'.pc = IF worker.op \in {"batch", "single"} THEN "resuming" ELSE "closeStep"
      BY <1>29, <1>0 DEF FinishBatch, Release, Goto, Workers
    <2> QED BY <1>b, <2>1 DEF WorkerInv
  <1>30. CASE CloseStep
    <2>1. worker.pc = "closeStep"
      BY <1>30 DEF CloseStep
    <2>2. \/ worker' = NoWorker
          \/ \E p \in {"endTurn", "steps"} :
               worker' = [worker EXCEPT !.op = "run", !.batch = {}, !.requests = {}, !.pc = p]
      BY <1>30 DEF CloseStep, Release
    <2>3. worker' = NoWorker \/ (worker'.op = "run" /\ worker'.todo = worker.todo /\ worker'.pc \in {"endTurn", "steps"})
      BY <1>0, <2>2 DEF Workers
    <2> QED BY <1>b, <2>1, <2>3 DEF WorkerInv
  <1>31. ASSUME NEW S \in SUBSET Calls, NEW m \in BOOLEAN, PickRequests(S, m) PROVE WorkerInv'
    <2>1. worker.pc = "resume" /\ worker'.pc = "resuming" /\ worker'.op = worker.op
      BY <1>31, <1>0 DEF PickRequests, Workers
    <2> QED BY <2>1 DEF WorkerInv
  <1>32. CASE ResumeNothing
    BY <1>32, <1>b DEF ResumeNothing, Release
  <1>33. CASE FinishResume
    <2>1. worker.pc = "resuming" /\ worker.todo = {}
      BY <1>33 DEF FinishResume
    <2>2. \/ worker' = NoWorker
          \/ \E k : worker' = [worker EXCEPT !.pc = "closeStep", !.cont = k]
      BY <1>33 DEF FinishResume, Release
    <2>3. worker' = NoWorker \/ (worker'.op = worker.op /\ worker'.todo = worker.todo /\ worker'.pc = "closeStep")
      BY <1>0, <2>2 DEF Workers
    <2> QED BY <1>b, <2>1, <2>3 DEF WorkerInv
  <1>34. CASE UNCHANGED vars
    BY <1>34, <1>c DEF vars
  <1> QED
    BY <1>1, <1>2, <1>3, <1>4, <1>5, <1>6, <1>7, <1>8, <1>9, <1>10,
       <1>11, <1>12, <1>13, <1>14, <1>15, <1>16, <1>17, <1>18, <1>19, <1>20,
       <1>21, <1>22, <1>23, <1>24, <1>25, <1>26, <1>27, <1>28, <1>29, <1>30,
       <1>31, <1>32, <1>33, <1>34
    DEF Next

-----------------------------------------------------------------------------
(* What holds of every behaviour. *)

LEMMA InitInv ==
  ASSUME ToolTurnAssumption, Init
  PROVE  BaseInv /\ TurnInv
  <1>1. TypeOK
    <2>1. NoWorker \in Workers /\ NoTasks \in [Calls -> Tasks]
      BY NoWorkerType
    <2>2. <<>> \in Seq(Events) /\ 0 \in 0..NumCalls /\ 0 \in 0..MaxLeases /\ [c \in Calls |-> 0] \in [Calls -> Nat]
      BY Bounds
    <2> QED BY <2>1, <2>2 DEF Init, TypeOK
  <1>2. ASSUME NEW c PROVE /\ \A t : ~Has(t, c) /\ \A T : Positions(T, c) = {}
                           /\ \A t, x : ~HasInfo(t, c, x) /\ LastBarrier(c).type = "none"
    <2>1. \A T : Positions(T, c) = {}
      BY DEF Init, Positions
    <2>2. \A t : ~Has(t, c)
      BY <2>1 DEF Has
    <2>3. \A t, x : ~HasInfo(t, c, x)
      BY <2>1 DEF HasInfo
    <2>4. LastBarrier(c).type = "none"
      BY <2>1 DEF LastBarrier, LastOf, Ev
    <2> QED BY <2>1, <2>2, <2>3, <2>4
  <1>3. /\ \A c \in Calls : task[c] = "none" /\ runs[c] = 0 /\ c \notin zombies
        /\ worker.pc = "none" /\ worker.op = "none" /\ worker.todo = {}
    BY DEF Init, NoTasks, NoWorker
  <1>4. WorkerInv
    BY <1>3 DEF WorkerInv
  <1>5. ASSUME NEW c \in Calls PROVE CallInv(c) /\ TracedInv(c) /\ ApprovedInv(c)
    <2>1. EventInv(c) /\ FreshInv(c) /\ LiveInv(c) /\ TodoInv(c)
      BY <1>2, <1>3 DEF EventInv, FreshInv, LiveInv, TodoInv, Live, Decided
    <2>2. StartInv(c) /\ StageInv(c) /\ ResultInv(c) /\ FinalInv(c)
      BY <1>2, <1>3 DEF StartInv, StageInv, ResultInv, FinalInv, Undispatched
    <2>3. TracedInv(c) /\ ApprovedInv(c)
      BY <1>2, <1>3 DEF TracedInv, ApprovedInv, Live
    <2> QED BY <2>1, <2>2, <2>3 DEF CallInv
  <1>6. Asks \subseteq Calls
    BY DEF ToolTurnAssumption
  <1> QED BY <1>1, <1>4, <1>5, <1>6 DEF BaseInv, TurnInv, TracesInv, ApprovalInv

LEMMA BaseSafe == Spec => []BaseInv
  <1>1. Init => BaseInv
    BY ToolTurnAssumption, InitInv
  <1>2. BaseInv /\ [Next]_vars => BaseInv'
    BY ToolTurnAssumption, BaseStep
  <1> QED BY <1>1, <1>2, PTL DEF Spec

\* Every state of the loop is of the right type, with the turn and step numbers,
\* calls and payloads of the stored events in their ranges, those that recovery
\* makes up included.
THEOREM TurnTyped == Spec => []TypeOK
  <1>1. BaseInv => TypeOK
    BY DEF BaseInv, TracesInv
  <1> QED BY <1>1, BaseSafe, PTL

\* A call whose policy asks runs only with a durable yes, whatever crashes,
\* takeovers, resumes and late bodies come between the answer and the start.
THEOREM ApprovedFirst == Spec => []ApprovedBeforeBody
  <1>1. BaseInv => ApprovedBeforeBody
    BY DEF BaseInv, ApprovalInv, ApprovedInv, ApprovedBeforeBody
  <1> QED BY <1>1, BaseSafe, PTL

\* The invariant of the loop is inductive when no call both asks and defers.
LEMMA TurnStep ==
  ASSUME ToolTurnAssumption, Apart, TurnInv, [Next]_vars
  PROVE  TurnInv'
  <1>1. TypeOK /\ BaseInv /\ WorkerInv
    BY DEF TurnInv, BaseInv, TracesInv
  <1>2. WorkerInv'
    BY <1>1, WorkerStep
  <1>3. \A c \in Calls : CallInv(c)'
    BY CallStep
  <1>4. BaseInv'
    BY <1>1, BaseStep
  <1> QED BY <1>2, <1>3, <1>4 DEF TurnInv

\* The invariant holds throughout: what the log says of each call, what the
\* worker does for it and how often its body started fit together.
THEOREM TurnSafe == ASSUME Apart PROVE Spec => []TurnInv
  <1>1. Init => TurnInv
    BY ToolTurnAssumption, InitInv
  <1>2. TurnInv /\ [Next]_vars => TurnInv'
    BY ToolTurnAssumption, TurnStep
  <1> QED BY <1>1, <1>2, PTL DEF Spec

\* No body starts a second time unless its call was deferred in between: not
\* after a crash, a takeover, a resume or by a replaced worker.
THEOREM NeverTwice == ASSUME Apart PROVE Spec => []NeverReexecuted
  <1>1. TurnInv => NeverReexecuted
    BY DEF TurnInv, CallInv, StartInv, NeverReexecuted
  <1> QED BY <1>1, TurnSafe, PTL

\* A stored "aborted" or "denied" is never contradicted by a body.
THEOREM AbortedTrue == ASSUME Apart PROVE Spec => []AbortedNeverRan
  <1>1. TurnInv => AbortedNeverRan
    BY DEF TurnInv, CallInv, ResultInv, AbortedNeverRan
  <1> QED BY <1>1, TurnSafe, PTL

\* A call gets one result, and nothing is dispatched, resumed or deferred after it.
THEOREM ResultFinal == ASSUME Apart PROVE Spec => []ResultIsFinal
  <1>1. TurnInv => ResultIsFinal
    BY DEF TurnInv, CallInv, FinalInv, ResultIsFinal
  <1> QED BY <1>1, TurnSafe, PTL

-----------------------------------------------------------------------------
(* The loop implements the call lifecycle. *)

\* The phase of a call from its last barrier and its result.
LEMMA PhaseOf ==
  ASSUME NEW c
  PROVE  /\ Has("result", c) /\ HasInfo("result", c, "unknown") => Phase(c) = "unknown"
         /\ Has("result", c) /\ ~HasInfo("result", c, "unknown") => Phase(c) = "settled"
         /\ ~Has("result", c) => Phase(c) \in {"open", "inflight", "deferred"}
         /\ ~Has("result", c) /\ LastBarrier(c).type = "none" => Phase(c) = "open"
         /\ ~Has("result", c) /\ LastBarrier(c).type = "deferred" => Phase(c) = "deferred"
         /\ ~Has("result", c) /\ LastBarrier(c).type = "resume_started" /\ LastBarrier(c).info = "materialized"
              => Phase(c) = "deferred"
         /\ ~Has("result", c) /\ Behind(c) /\ EventInv(c) => Phase(c) = "inflight"
         /\ Phase(c) = "deferred" /\ EventInv(c) => ~Behind(c)
  <1> DEFINE e == LastBarrier(c)
  <1>1. Phase(c) = IF Has("result", c) THEN IF HasInfo("result", c, "unknown") THEN "unknown" ELSE "settled"
                   ELSE IF e.type = "none" THEN "open"
                   ELSE IF e.type = "deferred" \/ e.info = "materialized" THEN "deferred"
                   ELSE "inflight"
    BY DEF Phase, LastBarrier
  <1>2. Behind(c) <=> e.type = "dispatched" \/ (e.type = "resume_started" /\ e.info = "executed")
    BY DEF Behind
  <1>3. EventInv(c) => (e.type = "dispatched" => e.info = "")
    BY DEF EventInv
  <1> HIDE DEF e
  <1> QED BY <1>1, <1>2, <1>3 DEF e

LEMMA PhaseNext ==
  ASSUME NEW c
  PROVE  /\ Has("result", c)' /\ HasInfo("result", c, "unknown")' => Phase(c)' = "unknown"
         /\ Has("result", c)' /\ ~HasInfo("result", c, "unknown")' => Phase(c)' = "settled"
         /\ ~Has("result", c)' /\ LastBarrier(c)'.type = "deferred" => Phase(c)' = "deferred"
         /\ ~Has("result", c)' /\ LastBarrier(c)'.type = "resume_started" /\ LastBarrier(c)'.info = "materialized"
              => Phase(c)' = "deferred"
         /\ ~Has("result", c)' /\ Behind(c)' /\ EventInv(c)' => Phase(c)' = "inflight"
  <1> DEFINE e == LastBarrier(c)'
  <1>1. Phase(c)' = IF Has("result", c)' THEN IF HasInfo("result", c, "unknown")' THEN "unknown" ELSE "settled"
                    ELSE IF e.type = "none" THEN "open"
                    ELSE IF e.type = "deferred" \/ e.info = "materialized" THEN "deferred"
                    ELSE "inflight"
    BY DEF Phase, LastBarrier
  <1>2. Behind(c)' <=> e.type = "dispatched" \/ (e.type = "resume_started" /\ e.info = "executed")
    BY DEF Behind
  <1>3. EventInv(c)' => (e.type = "dispatched" => e.info = "")
    BY DEF EventInv
  <1> HIDE DEF e
  <1> QED BY <1>1, <1>2, <1>3 DEF e

LEMMA PhaseSame ==
  ASSUME NEW c, Same(c)
  PROVE  Phase(c)' = Phase(c)
  BY DEF Same, Phase, LastBarrier

\* A step that is about one call moves that call only.
LEMMA OneMoves ==
  ASSUME NEW c \in Calls, \A d \in Calls \ {c} : Same(d), NEW p, Phase(c)' = p
  PROVE  [x \in Calls |-> Phase(x)]' = [[x \in Calls |-> Phase(x)] EXCEPT ![c] = p]
  <1>1. \A d \in Calls \ {c} : Phase(d)' = Phase(d)
    BY PhaseSame
  <1> QED BY <1>1

LEMMA NoneMoves ==
  ASSUME \A d \in Calls : Same(d)
  PROVE  [x \in Calls |-> Phase(x)]' = [x \in Calls |-> Phase(x)]
  <1>1. \A d \in Calls : Phase(d)' = Phase(d)
    BY PhaseSame
  <1> QED BY <1>1

LEMMA LifeStep ==
  ASSUME ToolTurnAssumption, Apart, TurnInv, [Next]_vars
  PROVE  [Lifecycle!LifecycleNext]_(Lifecycle!lifecycleVars)
  <1> DEFINE ph == [x \in Calls |-> Phase(x)]
             Step == [Lifecycle!LifecycleNext]_(Lifecycle!lifecycleVars)
  <1>0. TracesInv /\ TypeOK /\ TypeOK' /\ WorkerInv /\ TurnInv'
    BY TypeStep, TurnStep DEF TurnInv, BaseInv, TracesInv
  <1>a. \A x \in Calls : CallInv(x) /\ CallInv(x)' /\ EventInv(x) /\ EventInv(x)'
    BY <1>0 DEF TurnInv, CallInv
  <1>b. task \in [Calls -> Tasks] /\ runs \in [Calls -> Nat]
    BY <1>0 DEF TypeOK
  <1>c. ASSUME \A x \in Calls : Same(x), runs' = runs PROVE Step
    <2>1. ph' = ph
      BY <1>c, NoneMoves
    <2> QED BY <1>c, <2>1 DEF Lifecycle!lifecycleVars
  <1>h. ASSUME NEW c \in Calls, \A x \in Calls \ {c} : Same(x), Phase(c)' = Phase(c), runs' = runs PROVE Step
    <2>1. ph' = [ph EXCEPT ![c] = Phase(c)]
      BY <1>h, OneMoves
    <2>2. ph' = ph
      BY <2>1
    <2> QED BY <1>h, <2>2 DEF Lifecycle!lifecycleVars
  <1>d. ASSUME NEW c \in Calls, \A x \in Calls \ {c} : Same(x), runs' = runs,
               Same(c) \/ \E t, y : t \notin Barriers \cup {"result"} /\ Wrote(c, t, y)
        PROVE  Step
    <2>1. /\ LastBarrier(c)' = LastBarrier(c) /\ (Has("result", c)' <=> Has("result", c))
          /\ HasInfo("result", c, "unknown")' <=> HasInfo("result", c, "unknown")
      BY <1>d DEF Same, Wrote
    <2>2. Phase(c)' = Phase(c)
      BY <2>1 DEF Phase, LastBarrier
    <2> QED BY <1>d, <1>h, <2>2
  <1>e. ASSUME NEW c \in Calls, Phase(c) \in {"open", "deferred"}, Phase(c)' = "inflight",
               \A x \in Calls \ {c} : Same(x), runs' = runs
        PROVE  Step
    <2>1. ph' = [ph EXCEPT ![c] = "inflight"]
      BY <1>e, OneMoves
    <2> QED BY <1>e, <2>1 DEF Lifecycle!LifecycleNext, Lifecycle!Barrier
  <1>f. ASSUME NEW c \in Calls, Phase(c) \in {"inflight", "unknown"}, \A x \in Calls : Same(x),
               runs[c] = 0, runs' = [runs EXCEPT ![c] = 1]
        PROVE  Step
    <2>1. ph' = ph
      BY <1>f, NoneMoves
    <2> QED BY <1>f, <2>1 DEF Lifecycle!LifecycleNext, Lifecycle!Start
  <1>g. ASSUME NEW c \in Calls, ~Has("result", c), Phase(c)' \in {"settled", "deferred"},
               \A x \in Calls \ {c} : Same(x),
               runs' = IF Phase(c)' = "deferred" THEN [runs EXCEPT ![c] = 0] ELSE runs,
               Phase(c) = "deferred" => runs[c] = 0
        PROVE  Step
    <2>0. Phase(c) \in {"open", "inflight", "deferred"}
      BY <1>g, PhaseOf
    <2>1. CASE Phase(c)' = "settled"
      <3>1. ph' = [ph EXCEPT ![c] = "settled"]
        BY <1>g, <2>1, OneMoves
      <3> QED BY <1>g, <2>0, <2>1, <3>1 DEF Lifecycle!LifecycleNext, Lifecycle!Conclude
    <2>2. CASE Phase(c)' = "deferred" /\ Phase(c) # "deferred"
      <3>1. ph' = [ph EXCEPT ![c] = "deferred"]
        BY <1>g, <2>2, OneMoves
      <3> QED BY <1>g, <2>0, <2>2, <3>1 DEF Lifecycle!LifecycleNext, Lifecycle!Defer
    <2>3. CASE Phase(c)' = "deferred" /\ Phase(c) = "deferred"
      <3>1. ph' = [ph EXCEPT ![c] = "deferred"]
        BY <1>g, <2>3, OneMoves
      <3>2. ph' = ph
        BY <2>3, <3>1
      <3>3. runs' = runs
        BY <1>b, <1>g, <2>3
      <3> QED BY <3>2, <3>3 DEF Lifecycle!lifecycleVars
    <2> QED BY <1>g, <2>1, <2>2, <2>3
  <1> SUFFICES Step
    OBVIOUS
  <1> HIDE DEF Step, ph
  <1>1. ASSUME NEW op \in {"run", "batch", "single", "approval"}, Claim(op) PROVE Step
    <2>1. \A x \in Calls : Same(x)
      BY <1>1, <1>0, QuietSteps DEF Quiet, Outcome
    <2>2. runs' = runs
      BY <1>1 DEF Claim
    <2> QED BY <1>c, <2>1, <2>2
  <1>2. CASE Recover
    <2> DEFINE S == {c \in Calls : ~Same(c)}
    <2>1. \A c \in Calls : Same(c) \/ (c \in Dangling /\ Wrote(c, "result", "unknown"))
      BY <1>2, <1>0, RecoverLog
    <2>2. runs' = runs
      BY <1>2 DEF Recover
    <2>3. ASSUME NEW c \in S PROVE Phase(c) = "inflight" /\ Phase(c)' = "unknown"
      <3>1. c \in Calls /\ c \in Dangling /\ Wrote(c, "result", "unknown")
        BY <2>1
      <3>2. Behind(c) /\ ~Has("result", c)
        BY <1>0, <1>a, <3>1, DanglingProps DEF CallInv
      <3>3. Phase(c) = "inflight"
        BY <1>a, <3>1, <3>2, PhaseOf
      <3>4. Has("result", c)' /\ HasInfo("result", c, "unknown")'
        BY <3>1 DEF Wrote
      <3> QED BY <3>3, <3>4, PhaseNext
    <2>4. \A c \in Calls \ S : Phase(c)' = Phase(c)
      BY PhaseSame
    <2>5. S \in SUBSET Calls
      OBVIOUS
    <2> HIDE DEF S
    <2>6. /\ \A c \in S : ph[c] = "inflight"
          /\ ph' = [c \in Calls |-> IF c \in S THEN "unknown" ELSE ph[c]]
      BY <2>3, <2>4, <2>5 DEF ph
    <2> QED BY <2>2, <2>5, <2>6 DEF Step, ph, Lifecycle!LifecycleNext, Lifecycle!GiveUp
  <1>3. CASE BeginTurn
    <2>1. \A x \in Calls : Same(x)
      BY <1>3, <1>0, QuietSteps DEF Quiet, Outcome
    <2>2. runs' = runs
      BY <1>3 DEF BeginTurn
    <2> QED BY <1>c, <2>1, <2>2
  <1>4. CASE Cancel
    <2>1. \A x \in Calls : Same(x)
      BY <1>4, <1>0, QuietSteps DEF Quiet, Outcome
    <2>2. runs' = runs
      BY <1>4 DEF Cancel
    <2> QED BY <1>c, <2>1, <2>2
  <1>5. CASE Crash
    <2>1. \A x \in Calls : Same(x)
      BY <1>5, <1>0, QuietSteps DEF Quiet, Outcome
    <2>2. runs' = runs
      BY <1>5 DEF Crash
    <2> QED BY <1>c, <2>1, <2>2
  <1>6. CASE LoseLease
    <2>1. \A x \in Calls : Same(x)
      BY <1>6, <1>0, QuietSteps DEF Quiet, Outcome
    <2>2. runs' = runs
      BY <1>6 DEF LoseLease
    <2> QED BY <1>c, <2>1, <2>2
  <1>7. CASE StartStep
    <2>1. \A x \in Calls : Same(x)
      BY <1>7, <1>0, QuietSteps DEF Quiet, Outcome
    <2>2. runs' = runs
      BY <1>7 DEF StartStep
    <2> QED BY <1>c, <2>1, <2>2
  <1>8. CASE EndTurn
    <2>1. \A x \in Calls : Same(x)
      BY <1>8, <1>0, QuietSteps DEF Quiet, Outcome
    <2>2. runs' = runs
      BY <1>8 DEF EndTurn
    <2> QED BY <1>c, <2>1, <2>2
  <1>9. CASE PolicyWait
    <2>1. \A x \in Calls : Same(x)
      BY <1>9, <1>0, QuietSteps DEF Quiet, Outcome
    <2>2. runs' = runs
      BY <1>9 DEF PolicyWait
    <2> QED BY <1>c, <2>1, <2>2
  <1>10. CASE Chunk
    <2>1. \A x \in Calls : Same(x)
      BY <1>10, <1>0, QuietSteps DEF Quiet, Outcome
    <2>2. runs' = runs
      BY <1>10 DEF Chunk
    <2> QED BY <1>c, <2>1, <2>2
  <1>11. CASE ModelReplies
    <2>1. \A x \in Calls : Same(x)
      BY <1>11, <1>0, QuietSteps DEF Quiet, Outcome
    <2>2. runs' = runs
      BY <1>11 DEF ModelReplies
    <2> QED BY <1>c, <2>1, <2>2
  <1>12. CASE StartBatch
    <2>1. \A x \in Calls : Same(x)
      BY <1>12, <1>0, QuietSteps DEF Quiet, Outcome
    <2>2. runs' = runs
      BY <1>12 DEF StartBatch
    <2> QED BY <1>c, <2>1, <2>2
  <1>13. ASSUME NEW b \in BOOLEAN, ModelFails(b) PROVE Step
    <2>1. \A x \in Calls : Same(x)
      BY <1>13, <1>0, QuietSteps DEF Quiet, Outcome
    <2>2. runs' = runs
      BY <1>13 DEF ModelFails
    <2> QED BY <1>c, <2>1, <2>2
  <1>14. ASSUME NEW b \in BOOLEAN, FailStep(b) PROVE Step
    <2>1. \A x \in Calls : Same(x)
      BY <1>14, <1>0, QuietSteps DEF Quiet, Outcome
    <2>2. runs' = runs
      BY <1>14 DEF FailStep
    <2> QED BY <1>c, <2>1, <2>2
  <1>15. ASSUME NEW n \in 1..MaxBatch, ModelCalls(n) PROVE Step
    <2>1. \A x \in Calls : Same(x)
      BY <1>15, <1>0, QuietSteps DEF Quiet, Outcome
    <2>2. runs' = runs
      BY <1>15 DEF ModelCalls
    <2> QED BY <1>c, <2>1, <2>2
  <1>16. ASSUME NEW c \in Calls, Admit(c) PROVE Step
    <2>1. About(c) /\ (Same(c) \/ \E y : Wrote(c, "tool_call", y)) /\ runs' = runs
      BY <1>16, <1>0, AdmitLog DEF Admit
    <2> QED BY <1>d, <2>1 DEF About, Barriers
  <1>17. ASSUME NEW c \in Calls, Ask(c) PROVE Step
    <2>1. About(c) /\ (Same(c) \/ \E y : Wrote(c, "approval_requested", y)) /\ runs' = runs
      BY <1>17, <1>0, AskLog DEF Ask
    <2> QED BY <1>d, <2>1 DEF About, Barriers
  <1>18. ASSUME NEW c \in Calls, Answer(c) PROVE Step
    <2>1. \A x \in Calls : Same(x)
      BY <1>18, <1>0, QuietSteps DEF Quiet, Outcome
    <2>2. runs' = runs
      BY <1>18 DEF Answer
    <2> QED BY <1>c, <2>1, <2>2
  <1>19. ASSUME NEW c \in Calls, ShortCircuit(c) PROVE Step
    <2>1. \A x \in Calls : Same(x)
      BY <1>19, <1>0, QuietSteps DEF Quiet, Outcome
    <2>2. runs' = runs
      BY <1>19 DEF ShortCircuit
    <2> QED BY <1>c, <2>1, <2>2
  <1>20. ASSUME NEW c \in Calls, Dispatch(c) PROVE Step
    <2>1. About(c) /\ IF worker.op = "batch" THEN Same(c) ELSE Wrote(c, "dispatched", "")
      BY <1>20, <1>0, DispatchLog
    <2>2. runs' = runs /\ task[c] \in {"queued", "cleared"}
      BY <1>20 DEF Dispatch, Admitted
    <2>3. CASE worker.op = "batch"
      BY <1>d, <2>1, <2>2, <2>3 DEF About
    <2>4. CASE worker.op # "batch"
      <3>1. ~Has("result", c) /\ LastBarrier(c).type = "none"
        BY <1>a, <2>2, <2>4 DEF CallInv, LiveInv, Live, StageInv, Undispatched
      <3>2. ~Has("result", c)' /\ Behind(c)'
        BY <2>1, <2>4, <3>1 DEF Wrote, Barriers, Behind
      <3>3. Phase(c) = "open"
        BY <3>1, PhaseOf
      <3>4. Phase(c)' = "inflight"
        BY <1>a, <3>2, PhaseNext
      <3> QED BY <1>e, <2>1, <2>2, <3>3, <3>4 DEF About
    <2> QED BY <2>3, <2>4
  <1>21. ASSUME NEW c \in Calls, StartBody(c) PROVE Step
    <2>1. \A x \in Calls : Same(x)
      BY <1>21, <1>0, QuietSteps DEF Quiet
    <2>2. task[c] = "armed" /\ runs' = [runs EXCEPT ![c] = @ + 1]
      BY <1>21 DEF StartBody
    <2>3. runs[c] = 0 /\ Behind(c)
      BY <1>a, <2>2 DEF CallInv, StageInv
    <2>4. ~Has("result", c)
      BY <1>a, <2>2 DEF CallInv, LiveInv, Live
    <2>5. Phase(c) = "inflight"
      BY <1>a, <2>3, <2>4, PhaseOf
    <2>6. runs' = [runs EXCEPT ![c] = 1]
      BY <1>b, <2>2, <2>3
    <2> QED BY <1>f, <2>1, <2>3, <2>5, <2>6
  <1>22. ASSUME NEW c \in Calls, ZombieStart(c) PROVE Step
    <2>1. \A x \in Calls : Same(x)
      BY <1>22, <1>0, QuietSteps DEF Quiet
    <2>2. c \in zombies /\ runs' = [runs EXCEPT ![c] = @ + 1]
      BY <1>22 DEF ZombieStart
    <2>3. runs[c] = 0 /\ Behind(c) /\ (Has("result", c) => HasInfo("result", c, "unknown"))
      BY <1>a, <2>2 DEF CallInv, StartInv, ResultInv
    <2>4. Phase(c) \in {"inflight", "unknown"}
      BY <1>a, <2>3, PhaseOf
    <2>5. runs' = [runs EXCEPT ![c] = 1]
      BY <1>b, <2>2, <2>3
    <2> QED BY <1>f, <2>1, <2>3, <2>4, <2>5
  <1>23. ASSUME NEW c \in Calls, Settle(c) PROVE Step
    <2>1. About(c) /\ IF task[c] = "deferred" THEN Wrote(c, "deferred", "") ELSE Wrote(c, "result", task[c])
      BY <1>23, <1>0, SettleLog
    <2>2. /\ worker.pc = "tools" /\ c \in worker.batch /\ task[c] \in Outcome
          /\ runs' = IF task[c] = "deferred" THEN [runs EXCEPT ![c] = 0] ELSE runs
      BY <1>23 DEF Settle, IsFirst
    <2>3. ~Has("result", c)
      BY <1>a, <2>2 DEF CallInv, LiveInv, Live, Outcome
    <2>4. ~HasInfo("result", c, "unknown")
      BY <1>0, <2>3, BarrierProps
    <2>5. Phase(c) = "deferred" => runs[c] = 0
      BY <1>a, PhaseOf DEF CallInv, StartInv
    <2>6. CASE task[c] = "deferred"
      <3>1. ~Has("result", c)' /\ LastBarrier(c)'.type = "deferred"
        BY <2>1, <2>3, <2>6 DEF Wrote, Barriers
      <3>2. Phase(c)' = "deferred"
        BY <3>1, PhaseNext
      <3> QED BY <1>g, <2>1, <2>2, <2>3, <2>5, <2>6, <3>2 DEF About
    <2>7. CASE task[c] # "deferred"
      <3>1. Has("result", c)' /\ ~HasInfo("result", c, "unknown")'
        BY <2>1, <2>2, <2>4, <2>7 DEF Wrote, Outcome
      <3>2. Phase(c)' = "settled"
        BY <3>1, PhaseNext
      <3> QED BY <1>g, <2>1, <2>2, <2>3, <2>5, <2>7, <3>2 DEF About
    <2> QED BY <2>6, <2>7
  <1>24. ASSUME NEW c \in Calls, ResumeApprovedTool(c) PROVE Step
    <2>1. \A x \in Calls : Same(x)
      BY <1>24, <1>0, QuietSteps DEF Quiet, Outcome
    <2>2. runs' = runs
      BY <1>24 DEF ResumeApprovedTool
    <2> QED BY <1>c, <2>1, <2>2
  <1>25. ASSUME NEW c \in Calls, NEW outcome \in {"error", "aborted"}, Refuse(c, outcome) PROVE Step
    <2>1. \A x \in Calls : Same(x)
      BY <1>25, <1>0, QuietSteps DEF Quiet, Outcome
    <2>2. runs' = runs
      BY <1>25 DEF Refuse
    <2> QED BY <1>c, <2>1, <2>2
  <1>26. ASSUME NEW c \in Calls, NEW outcome \in {"ok", "conclude", "error", "deferred"}, BodyReturns(c, outcome)
        PROVE  Step
    <2>1. \A x \in Calls : Same(x)
      BY <1>26, <1>0, QuietSteps DEF Quiet, Outcome
    <2>2. runs' = runs
      BY <1>26 DEF BodyReturns
    <2> QED BY <1>c, <2>1, <2>2
  <1>27. ASSUME NEW c \in Calls, NEW outcome \in {"ok", "conclude", "error", "deferred"}, ResumeNext(c, outcome)
        PROVE  Step
    <2>1. /\ About(c)
          /\ IF Has("result", c) \/ ResumeStarted(c) THEN Same(c)
             ELSE Wrote(c, "resume_started", IF worker.materialized THEN "materialized" ELSE "executed")
      BY <1>27, <1>0, ResumeLog
    <2>2. c \in worker.todo /\ runs' = runs
      BY <1>27 DEF ResumeNext, IsFirst
    <2>3. CASE Has("result", c) \/ ResumeStarted(c)
      BY <1>d, <2>1, <2>2, <2>3 DEF About
    <2>4. CASE ~Has("result", c) /\ ~ResumeStarted(c)
      <3>1. LastBarrier(c).type \in {"deferred", "resume_started"}
        BY <1>a, <2>2, <2>4 DEF CallInv, TodoInv
      <3>2. LastBarrier(c).type = "deferred"
        BY <1>0, <2>4, <3>1, ResumeReads
      <3>3. Phase(c) = "deferred"
        BY <2>4, <3>2, PhaseOf
      <3>4. /\ ~Has("result", c)' /\ LastBarrier(c)'.type = "resume_started"
            /\ LastBarrier(c)'.info = IF worker.materialized THEN "materialized" ELSE "executed"
        BY <2>1, <2>4 DEF Wrote, Barriers
      <3>5. CASE worker.materialized
        <4>1. Phase(c)' = Phase(c)
          BY <3>3, <3>4, <3>5, PhaseNext
        <4> QED BY <1>h, <2>1, <2>2, <4>1 DEF About
      <3>6. CASE ~worker.materialized
        <4>1. Behind(c)'
          BY <3>4, <3>6 DEF Behind
        <4>2. Phase(c)' = "inflight"
          BY <1>a, <3>4, <4>1, PhaseNext
        <4> QED BY <1>e, <2>1, <2>2, <3>3, <4>2 DEF About
      <3> QED BY <3>5, <3>6
    <2> QED BY <2>3, <2>4
  <1>28. ASSUME NEW c \in Calls, NEW answer \in {"yes", "no"}, Decide(c, answer) PROVE Step
    <2>1. About(c) /\ (Same(c) \/ \E y : Wrote(c, "approval_resolved", y)) /\ runs' = runs
      BY <1>28, <1>0, DecideLog DEF Decide
    <2> QED BY <1>d, <2>1 DEF About, Barriers
  <1>29. CASE FinishBatch
    <2>1. \A x \in Calls : Same(x)
      BY <1>29, <1>0, QuietSteps DEF Quiet, Outcome
    <2>2. runs' = runs
      BY <1>29 DEF FinishBatch
    <2> QED BY <1>c, <2>1, <2>2
  <1>30. CASE CloseStep
    <2>1. \A x \in Calls : Same(x)
      BY <1>30, <1>0, QuietSteps DEF Quiet, Outcome
    <2>2. runs' = runs
      BY <1>30 DEF CloseStep
    <2> QED BY <1>c, <2>1, <2>2
  <1>31. ASSUME NEW S \in SUBSET Calls, NEW m \in BOOLEAN, PickRequests(S, m) PROVE Step
    <2>1. \A x \in Calls : Same(x)
      BY <1>31, <1>0, QuietSteps DEF Quiet, Outcome
    <2>2. runs' = runs
      BY <1>31 DEF PickRequests
    <2> QED BY <1>c, <2>1, <2>2
  <1>32. CASE ResumeNothing
    <2>1. \A x \in Calls : Same(x)
      BY <1>32, <1>0, QuietSteps DEF Quiet, Outcome
    <2>2. runs' = runs
      BY <1>32 DEF ResumeNothing
    <2> QED BY <1>c, <2>1, <2>2
  <1>33. CASE FinishResume
    <2>1. \A x \in Calls : Same(x)
      BY <1>33, <1>0, QuietSteps DEF Quiet, Outcome
    <2>2. runs' = runs
      BY <1>33 DEF FinishResume
    <2> QED BY <1>c, <2>1, <2>2
  <1>34. CASE UNCHANGED vars
    <2>1. \A x \in Calls : Same(x)
      BY <1>34, <1>0, QuietSteps DEF Quiet, Outcome
    <2>2. runs' = runs
      BY <1>34 DEF vars
    <2> QED BY <1>c, <2>1, <2>2
  <1> QED
    BY <1>1, <1>2, <1>3, <1>4, <1>5, <1>6, <1>7, <1>8, <1>9, <1>10,
       <1>11, <1>12, <1>13, <1>14, <1>15, <1>16, <1>17, <1>18, <1>19, <1>20,
       <1>21, <1>22, <1>23, <1>24, <1>25, <1>26, <1>27, <1>28, <1>29, <1>30,
       <1>31, <1>32, <1>33, <1>34
    DEF Next

\* The loop implements the call lifecycle: with the phase of a call read off the
\* log, every step of every worker is a barrier, a start, a deferral, a result,
\* recovery giving up on the calls behind their barrier, or nothing.
THEOREM LoopImplementsLifecycle == ASSUME Apart PROVE Spec => ImplementsCallLifecycle
  <1>1. Init => Lifecycle!LifecycleInit
    <2> SUFFICES ASSUME Init PROVE Lifecycle!LifecycleInit
      OBVIOUS
    <2>1. ASSUME NEW c PROVE Phase(c) = "open"
      <3>1. \A T : Positions(T, c) = {}
        BY DEF Init, Positions
      <3>2. ~Has("result", c) /\ LastBarrier(c).type = "none"
        BY <3>1 DEF Has, LastBarrier, LastOf, Ev
      <3> QED BY <3>2, PhaseOf
    <2> QED BY <2>1 DEF Init, Lifecycle!LifecycleInit
  <1>2. TurnInv /\ [Next]_vars => [Lifecycle!LifecycleNext]_(Lifecycle!lifecycleVars)
    BY ToolTurnAssumption, LifeStep
  <1> QED BY <1>1, <1>2, TurnSafe, PTL DEF Spec, ImplementsCallLifecycle, Lifecycle!LifecycleSpec

-----------------------------------------------------------------------------
(* Barriers settle before the next turn starts. *)

\* Recovery finds every call that is behind a barrier without an outcome.
FoundInv(c) == Open(c) => Found(c)

\* A call that asks gets behind its dispatch with a durable yes only.
PassedInv(c) == c \in Asks /\ LastBarrier(c).type = "dispatched" => Approved(c)

BarrierInv(c) == SettledInv(c) /\ FoundInv(c) /\ PassedInv(c)

\* When a turn begins recovery has been there.
BeginInv(c) == worker.pc = "begin" => ~Open(c)

\* Barriers are of calls.
OwnedInv == \A i \in DOMAIN log : log[i].type \in {"dispatched", "resume_started"} => log[i].call \in Calls

SettleInv == OwnedInv /\ SettledBeforeNextTurn /\ \A c \in Calls : BarrierInv(c) /\ BeginInv(c)

LEMMA BarrierSame ==
  ASSUME NEW c, BarrierInv(c), Same(c)
  PROVE  BarrierInv(c)' /\ (Open(c)' <=> Open(c))
  <1>1. /\ LastBarrier(c)' = LastBarrier(c) /\ (Has("result", c)' <=> Has("result", c))
        /\ SettledInv(c)' /\ (Found(c) => Found(c)')
    BY DEF Same, BarrierInv
  <1>2. Open(c)' <=> Open(c)
    BY <1>1 DEF Open, Behind
  <1>3. Approved(c) => Approved(c)'
    BY StaysStored
  <1> QED BY <1>1, <1>2, <1>3 DEF BarrierInv, FoundInv, PassedInv

LEMMA BarrierWrote ==
  ASSUME NEW c, BarrierInv(c), NEW t, NEW x, Wrote(c, t, x),
         t \in {"dispatched", "resume_started"} => ~Has("result", c) /\ ~Behind(c),
         t = "approval_requested" => ~Open(c),
         t = "dispatched" /\ c \in Asks => Approved(c)
  PROVE  BarrierInv(c)' /\ (t \notin Barriers => (Open(c)' => Open(c)))
  <1>1. /\ t \in Barriers => LastBarrier(c)'.type = t
        /\ t \notin Barriers => LastBarrier(c)' = LastBarrier(c)
        /\ Has("result", c)' <=> Has("result", c) \/ t = "result"
        /\ t \in Barriers \/ (Found(c) /\ t \notin {"result", "approval_requested"}) => Found(c)'
    BY DEF Wrote
  <1>2. SettledInv(c)'
    BY DEF Wrote, BarrierInv
  <1>3. t \notin Barriers => (Open(c)' => Open(c))
    BY <1>1 DEF Open, Behind
  <1>4. FoundInv(c)'
    <2> SUFFICES ASSUME Open(c)' PROVE Found(c)'
      BY DEF FoundInv
    <2>1. CASE t \in Barriers
      BY <1>1, <2>1
    <2>2. CASE t \notin Barriers
      <3>1. Open(c) /\ t # "result"
        BY <1>1, <1>3, <2>2 DEF Open
      <3> QED BY <1>1, <3>1 DEF BarrierInv, FoundInv
    <2> QED BY <2>1, <2>2
  <1>5. Approved(c) => Approved(c)'
    BY StaysStored
  <1>6. PassedInv(c)'
    BY <1>1, <1>5 DEF BarrierInv, PassedInv, Barriers
  <1> QED BY <1>2, <1>3, <1>4, <1>6 DEF BarrierInv

\* A question is stored before the call's barrier, if at all.
LEMMA AskedBefore ==
  ASSUME ToolTurnAssumption, Apart, PostAsks \subseteq Asks, TurnInv, NEW c \in Calls, PassedInv(c), Ask(c)
  PROVE  log' = log \/ ~Open(c)
  <1>0. TypeOK /\ CallInv(c) /\ (c \in Asks => ApprovedInv(c))
    BY DEF TurnInv, BaseInv, TracesInv, ApprovalInv
  <1>1. Approved(c) => Decided(c)
    BY DEF Approved, Decided, HasInfo, Has
  <1>2. Decided(c) => log' = log
    BY DEF Ask
  <1>3. CASE task[c] = "queued" /\ c \in Asks
    <2>1. (worker.op = "batch" /\ Behind(c)) \/ LastBarrier(c).type = "none"
      BY <1>0, <1>3 DEF CallInv, StageInv, Undispatched
    <2>2. CASE LastBarrier(c).type = "none"
      BY <2>2 DEF Open, Behind
    <2>3. CASE LastBarrier(c).type = "dispatched"
      BY <1>1, <1>2, <1>3, <2>3 DEF PassedInv
    <2>4. CASE LastBarrier(c).type = "resume_started"
      <3>1. Has("resume_started", c)
        BY <1>0, <2>4, BarrierProps
      <3>2. c \in Defers
        BY <1>0, <3>1 DEF CallInv, EventInv
      <3> QED BY <1>3, <3>2 DEF Apart
    <2> QED BY <2>1, <2>2, <2>3, <2>4 DEF Behind
  <1>4. CASE task[c] = "running" /\ c \in PostAsks
    BY <1>0, <1>1, <1>2, <1>4 DEF ApprovedInv
  <1> QED BY <1>3, <1>4 DEF Ask

LEMMA BarrierStep ==
  ASSUME ToolTurnAssumption, Apart, PostAsks \subseteq Asks, TurnInv, [Next]_vars, NEW d \in Calls, BarrierInv(d)
  PROVE  BarrierInv(d)' /\ (worker.pc = "begin" => (Open(d)' => Open(d)))
  <1> DEFINE Good == BarrierInv(d)' /\ (worker.pc = "begin" => (Open(d)' => Open(d)))
  <1>0. TracesInv /\ TypeOK /\ CallInv(d) /\ (d \in Asks => ApprovedInv(d))
    BY DEF TurnInv, BaseInv, TracesInv, ApprovalInv
  <1>s. ASSUME Same(d) PROVE Good
    BY <1>s, BarrierSame
  <1>g. SUFFICES Good
    OBVIOUS
  <1> HIDE DEF Good
  <1>t. TypeOK
    BY <1>0
  <1>q. Quiet => Good
    BY <1>s DEF Quiet
  <1>1. ASSUME NEW op \in {"run", "batch", "single", "approval"}, Claim(op) PROVE Good
    BY <1>1, <1>t, <1>q, QuietSteps
  <1>2. CASE Recover
    <2>1. Same(d) \/ Wrote(d, "result", "unknown")
      BY <1>0, <1>2, RecoverLog
    <2>2. ASSUME Wrote(d, "result", "unknown") PROVE Good
      BY <2>2, BarrierWrote DEF Barriers, Good
    <2> QED BY <1>s, <2>1, <2>2
  <1>3. CASE BeginTurn
    BY <1>3, <1>t, <1>q, QuietSteps
  <1>4. CASE Cancel
    BY <1>4, <1>t, <1>q, QuietSteps
  <1>5. CASE Crash
    BY <1>5, <1>t, <1>q, QuietSteps
  <1>6. CASE LoseLease
    BY <1>6, <1>t, <1>q, QuietSteps
  <1>7. CASE StartStep
    BY <1>7, <1>t, <1>q, QuietSteps
  <1>8. CASE EndTurn
    BY <1>8, <1>t, <1>q, QuietSteps
  <1>9. CASE PolicyWait
    BY <1>9, <1>t, <1>q, QuietSteps
  <1>10. CASE Chunk
    BY <1>10, <1>t, <1>q, QuietSteps
  <1>11. CASE ModelReplies
    BY <1>11, <1>t, <1>q, QuietSteps
  <1>12. CASE StartBatch
    BY <1>12, <1>t, <1>q, QuietSteps
  <1>13. ASSUME NEW b \in BOOLEAN, ModelFails(b) PROVE Good
    BY <1>13, <1>t, <1>q, QuietSteps
  <1>14. ASSUME NEW b \in BOOLEAN, FailStep(b) PROVE Good
    BY <1>14, <1>t, <1>q, QuietSteps
  <1>15. ASSUME NEW n \in 1..MaxBatch, ModelCalls(n) PROVE Good
    BY <1>15, <1>t, <1>q, QuietSteps
  <1>16. ASSUME NEW c \in Calls, Admit(c) PROVE Good
    <2>1. d = c => Wrote(d, "tool_call", "")
      BY <1>0, <1>16, AdmitLog
    <2>2. d # c => Same(d)
      BY <1>0, <1>16, AdmitLog DEF About
    <2>3. ASSUME NEW x, Wrote(d, "tool_call", x) PROVE Good
      BY <2>3, BarrierWrote DEF Barriers, Good
    <2> QED BY <1>s, <2>1, <2>2, <2>3
  <1>17. ASSUME NEW c \in Calls, Ask(c) PROVE Good
    <2>1. CASE d # c
      BY <1>0, <1>17, <1>s, <2>1, AskLog DEF About
    <2>2. CASE d = c /\ log' = log
      BY <1>s, <2>2, StillSame
    <2>3. CASE d = c /\ ~Open(c)
      <3>1. Wrote(d, "approval_requested", "") \/ Same(d)
        BY <1>0, <1>17, <2>3, AskLog
      <3>2. ASSUME NEW x, Wrote(d, "approval_requested", x) PROVE Good
        BY <2>3, <3>2, BarrierWrote DEF Barriers, Good
      <3> QED BY <1>s, <3>1, <3>2
    <2> QED BY <1>17, <2>1, <2>2, <2>3, AskedBefore DEF BarrierInv
  <1>18. ASSUME NEW c \in Calls, Answer(c) PROVE Good
    BY <1>18, <1>t, <1>q, QuietSteps
  <1>19. ASSUME NEW c \in Calls, ShortCircuit(c) PROVE Good
    BY <1>19, <1>t, <1>q, QuietSteps
  <1>20. ASSUME NEW c \in Calls, Dispatch(c) PROVE Good
    <2>1. CASE d # c
      BY <1>0, <1>20, <1>s, <2>1, DispatchLog DEF About
    <2>2. CASE d = c /\ worker.op = "batch"
      <3>1. Same(d)
        BY <1>0, <1>20, <2>2, DispatchLog
      <3> QED BY <1>s, <3>1
    <2>3. CASE d = c /\ worker.op # "batch"
      <3>1. Wrote(d, "dispatched", "")
        BY <1>0, <1>20, <2>3, DispatchLog
      <3>2. task[d] \in {"queued", "cleared"} /\ (task[d] = "queued" => d \notin Asks)
        BY <1>20, <2>3 DEF Dispatch, Admitted
      <3>3. Live(d) /\ task[d] \in Undispatched
        BY <3>2 DEF Live, Undispatched
      <3>4. ~Has("result", d) /\ worker.pc = "tools"
        BY <1>0, <3>3 DEF CallInv, LiveInv
      <3>5. LastBarrier(d).type = "none"
        BY <1>0, <2>3, <3>3 DEF CallInv, StageInv
      <3>6. ~Behind(d)
        BY <3>5 DEF Behind
      <3>7. d \in Asks => Approved(d)
        BY <1>0, <3>2 DEF ApprovedInv
      <3>8. BarrierInv(d)'
        BY <3>1, <3>4, <3>6, <3>7, BarrierWrote
      <3> QED BY <3>4, <3>8 DEF Good
    <2> QED BY <2>1, <2>2, <2>3
  <1>21. ASSUME NEW c \in Calls, StartBody(c) PROVE Good
    BY <1>21, <1>t, <1>q, QuietSteps
  <1>22. ASSUME NEW c \in Calls, ZombieStart(c) PROVE Good
    BY <1>22, <1>t, <1>q, QuietSteps
  <1>23. ASSUME NEW c \in Calls, Settle(c) PROVE Good
    <2>1. CASE d # c
      BY <1>0, <1>23, <1>s, <2>1, SettleLog DEF About
    <2>2. CASE d = c
      <3>1. Wrote(d, "deferred", "") \/ Wrote(d, "result", task[d])
        BY <1>0, <1>23, <2>2, SettleLog
      <3>2. worker.pc = "tools"
        BY <1>23 DEF Settle
      <3>3. ASSUME Wrote(d, "deferred", "") PROVE Good
        BY <3>2, <3>3, BarrierWrote DEF Good
      <3>4. ASSUME Wrote(d, "result", task[d]) PROVE Good
        BY <3>2, <3>4, BarrierWrote DEF Good
      <3> QED BY <3>1, <3>3, <3>4
    <2> QED BY <2>1, <2>2
  <1>24. ASSUME NEW c \in Calls, ResumeApprovedTool(c) PROVE Good
    BY <1>24, <1>t, <1>q, QuietSteps
  <1>25. ASSUME NEW c \in Calls, NEW outcome \in {"error", "aborted"}, Refuse(c, outcome) PROVE Good
    BY <1>25, <1>t, <1>q, QuietSteps DEF Outcome
  <1>26. ASSUME NEW c \in Calls, NEW outcome \in {"ok", "conclude", "error", "deferred"}, BodyReturns(c, outcome)
        PROVE  Good
    BY <1>26, <1>t, <1>q, QuietSteps DEF Outcome
  <1>27. ASSUME NEW c \in Calls, NEW outcome \in {"ok", "conclude", "error", "deferred"}, ResumeNext(c, outcome)
        PROVE  Good
    <2>1. CASE d # c
      BY <1>0, <1>27, <1>s, <2>1, ResumeLog DEF About
    <2>2. CASE d = c /\ (Has("result", c) \/ ResumeStarted(c))
      <3>1. Same(d)
        BY <1>0, <1>27, <2>2, ResumeLog
      <3> QED BY <1>s, <3>1
    <2>3. CASE d = c /\ ~Has("result", c) /\ ~ResumeStarted(c)
      <3> DEFINE x == IF worker.materialized THEN "materialized" ELSE "executed"
      <3>1. Wrote(d, "resume_started", x)
        BY <1>0, <1>27, <2>3, ResumeLog
      <3> HIDE DEF x
      <3>2. worker.pc = "resuming" /\ d \in worker.todo
        BY <1>27, <2>3 DEF ResumeNext, IsFirst
      <3>3. LastBarrier(d).type \in {"deferred", "resume_started"}
        BY <1>0, <2>3, <3>2 DEF CallInv, TodoInv
      <3>4. LastBarrier(d).type = "deferred"
        BY <1>0, <2>3, <3>3, ResumeReads
      <3>5. ~Behind(d)
        BY <3>4 DEF Behind
      <3>6. BarrierInv(d)'
        BY <2>3, <3>1, <3>5, BarrierWrote
      <3> QED BY <3>2, <3>6 DEF Good
    <2> QED BY <2>1, <2>2, <2>3
  <1>28. ASSUME NEW c \in Calls, NEW answer \in {"yes", "no"}, Decide(c, answer) PROVE Good
    <2>1. CASE d # c
      BY <1>0, <1>28, <1>s, <2>1, DecideLog DEF About
    <2>2. CASE d = c
      <3>1. Wrote(d, "approval_resolved", answer)
        BY <1>0, <1>28, <2>2, DecideLog
      <3> QED BY <3>1, BarrierWrote DEF Barriers, Good
    <2> QED BY <2>1, <2>2
  <1>29. CASE FinishBatch
    BY <1>29, <1>t, <1>q, QuietSteps
  <1>30. CASE CloseStep
    BY <1>30, <1>t, <1>q, QuietSteps
  <1>31. ASSUME NEW S \in SUBSET Calls, NEW m \in BOOLEAN, PickRequests(S, m) PROVE Good
    BY <1>31, <1>t, <1>q, QuietSteps
  <1>32. CASE ResumeNothing
    BY <1>32, <1>t, <1>q, QuietSteps
  <1>33. CASE FinishResume
    BY <1>33, <1>t, <1>q, QuietSteps
  <1>34. CASE UNCHANGED vars
    BY <1>34, <1>t, <1>q, QuietSteps
  <1> QED
    BY <1>1, <1>2, <1>3, <1>4, <1>5, <1>6, <1>7, <1>8, <1>9, <1>10,
       <1>11, <1>12, <1>13, <1>14, <1>15, <1>16, <1>17, <1>18, <1>19, <1>20,
       <1>21, <1>22, <1>23, <1>24, <1>25, <1>26, <1>27, <1>28, <1>29, <1>30,
       <1>31, <1>32, <1>33, <1>34
    DEF Next

\* What a step may store: no turn starts, barriers of calls.
Plain ==
    {e \in Events :
        /\ e.type # "turn_start"
        /\ e.type \in {"dispatched", "resume_started"} => e.call \in Calls}
Grown == \E evs \in Seq(Events) : log' = log \o evs /\ AllIn(evs, Plain)

LEMMA GrownStill ==
  ASSUME TypeOK, log' = log
  PROVE  Grown
  <1> DEFINE evs == << >>
  <1>1. evs \in Seq(Events) /\ log' = log \o evs /\ DOMAIN evs = {}
    BY DEF TypeOK
  <1> HIDE DEF evs
  <1> QED BY <1>1 DEF Grown, AllIn

LEMMA GrownOne ==
  ASSUME NEW e \in Plain, Commit(<<e>>)
  PROVE  Grown
  <1> DEFINE evs == <<e>>
  <1>1. e \in Events
    BY DEF Plain
  <1>2. evs \in Seq(Events) /\ log' = log \o evs /\ DOMAIN evs = {1} /\ evs[1] = e
    BY <1>1 DEF Commit
  <1> HIDE DEF evs
  <1> QED BY <1>2 DEF Grown, AllIn

LEMMA GrownEmit ==
  ASSUME TypeOK, NEW t \in EventTypes \ {"turn_start"}, NEW d \in 0..NumCalls, NEW x \in Infos, Emit(t, d, x),
         t \in {"dispatched", "resume_started"} => d \in Calls
  PROVE  Grown
  <1> DEFINE e == Ev(t, worker.turn, worker.step, d, x)
  <1>1. e \in Events /\ e.type = t /\ e.call = d /\ Commit(<<e>>)
    BY DEF Emit, Ev, Events, TypeOK, Workers
  <1> HIDE DEF e
  <1>2. e \in Plain
    BY <1>1 DEF Plain
  <1> QED BY <1>1, <1>2, GrownOne

\* Every step but the start of a turn stores such events.
LEMMA GrownSteps ==
  ASSUME ToolTurnAssumption, TracesInv, [Next]_vars
  PROVE  BeginTurn \/ Grown
  <1>0. TypeOK
    BY DEF TracesInv
  <1>t. /\ EventTypes \ {"turn_start"} =
             {"turn_end", "step_start", "step_end", "chunk", "assistant", "tool_call", "dispatched", "deferred",
              "resume_started", "result", "approval_requested", "approval_resolved"}
        /\ {"", "draft", "calls", "executed", "materialized"} \subseteq Infos
        /\ Outcome \subseteq Infos
    BY DEF EventTypes, Infos
  <1>z. ASSUME NEW x \in Infos, NEW t \in {"chunk", "assistant", "step_end"}, Emit(t, 0, x) PROVE Grown
    <2>1. 0 \in 0..NumCalls
      BY Bounds
    <2> QED BY <1>0, <1>t, <1>z, <2>1, GrownEmit
  <1>c. ASSUME NEW x \in Infos, NEW c \in Calls,
               NEW t \in {"tool_call", "approval_requested", "dispatched", "resume_started", "deferred", "result"},
               Emit(t, c, x)
        PROVE  Grown
    <2>1. c \in 0..NumCalls
      BY Bounds
    <2> QED BY <1>0, <1>t, <1>c, <2>1, GrownEmit
  <1>1. ASSUME NEW op \in {"run", "batch", "single", "approval"}, Claim(op) PROVE Grown
    BY <1>0, <1>1, GrownStill DEF Claim
  <1>2. CASE Recover
    <2> DEFINE evs == RecoveryEvents
    <2>1. log' = log \o evs
      BY <1>2 DEF Recover, Commit
    <2>2. evs \in Seq(Events) /\ AllIn(evs, Repairs)
      BY RecoverProps
    <2> HIDE DEF evs
    <2>3. AllIn(evs, Plain)
      BY <2>2 DEF AllIn, Repairs, Plain
    <2> QED BY <2>1, <2>2, <2>3 DEF Grown
  <1>4. CASE Cancel
    BY <1>0, <1>4, GrownStill DEF Cancel
  <1>5. CASE Crash
    BY <1>0, <1>5, GrownStill DEF Crash
  <1>6. CASE LoseLease
    BY <1>0, <1>6, GrownStill DEF LoseLease
  <1>7. CASE StartStep
    <2> DEFINE e == Ev("step_start", worker.turn, worker.step + 1, 0, "")
    <2>0. worker.step + 1 \in 0..MaxSteps /\ worker.turn \in 0..MaxTurns /\ 0 \in 0..NumCalls
      <3>1. worker.step < MaxSteps
        BY <1>7 DEF StartStep
      <3>2. worker.step \in Nat /\ MaxSteps \in Nat
        BY <1>0, Bounds DEF TypeOK, Workers
      <3>3. worker.step + 1 \in 0..MaxSteps
        BY ONLY <3>1, <3>2, Above
      <3> QED BY <1>0, <3>3, Bounds DEF TypeOK, Workers
    <2>1. e \in Plain
      BY <1>t, <2>0 DEF Ev, Events, Plain
    <2>2. Commit(<<e>>)
      BY <1>7 DEF StartStep
    <2> HIDE DEF e
    <2> QED BY <2>1, <2>2, GrownOne
  <1>8. CASE EndTurn
    <2> DEFINE e == Ev("turn_end", worker.turn, 0, 0, "")
    <2>1. worker.turn \in 0..MaxTurns /\ 0 \in 0..MaxSteps /\ 0 \in 0..NumCalls
      BY <1>0, Bounds DEF TypeOK, Workers
    <2>2. e \in Plain
      BY <1>t, <2>1 DEF Ev, Events, Plain
    <2>3. Commit(<<e>>)
      BY <1>8 DEF EndTurn
    <2> HIDE DEF e
    <2> QED BY <2>2, <2>3, GrownOne
  <1>9. CASE PolicyWait
    BY <1>0, <1>9, GrownStill DEF PolicyWait
  <1>10. CASE Chunk
    BY <1>10, <1>t, <1>z DEF Chunk
  <1>11. CASE ModelReplies
    <2> DEFINE e1 == Ev("assistant", worker.turn, worker.step, 0, "final")
               e2 == Ev("step_end", worker.turn, worker.step, 0, "")
               evs == <<e1, e2>>
    <2>0. worker.turn \in 0..MaxTurns /\ worker.step \in 0..MaxSteps /\ 0 \in 0..NumCalls
      BY <1>0, Bounds DEF TypeOK, Workers
    <2>1. e1 \in Plain /\ e2 \in Plain
      BY <2>0 DEF Ev, Events, EventTypes, Infos, Plain
    <2>2. log' = log \o evs
      BY <1>11 DEF ModelReplies, Commit
    <2> HIDE DEF e1, e2
    <2>3. e1 \in Events /\ e2 \in Events
      BY <2>1 DEF Plain
    <2>4. evs \in Seq(Events) /\ DOMAIN evs = {1, 2} /\ evs[1] = e1 /\ evs[2] = e2
      BY <2>3
    <2> HIDE DEF evs
    <2>5. AllIn(evs, Plain)
      BY <2>1, <2>4 DEF AllIn
    <2> QED BY <2>2, <2>4, <2>5 DEF Grown
  <1>12. CASE StartBatch
    BY <1>0, <1>12, GrownStill DEF StartBatch
  <1>13. ASSUME NEW b \in BOOLEAN, ModelFails(b) PROVE Grown
    <2>1. log' = log \/ Emit("assistant", 0, "draft")
      BY <1>13 DEF ModelFails
    <2> QED BY <1>0, <1>t, <1>z, <2>1, GrownStill
  <1>14. ASSUME NEW b \in BOOLEAN, FailStep(b) PROVE Grown
    BY <1>14, <1>t, <1>z DEF FailStep
  <1>15. ASSUME NEW n \in 1..MaxBatch, ModelCalls(n) PROVE Grown
    BY <1>15, <1>t, <1>z DEF ModelCalls
  <1>16. ASSUME NEW c \in Calls, Admit(c) PROVE Grown
    BY <1>16, <1>t, <1>c DEF Admit
  <1>17. ASSUME NEW c \in Calls, Ask(c) PROVE Grown
    <2>1. log' = log \/ Emit("approval_requested", c, "")
      BY <1>17 DEF Ask, Emit
    <2> QED BY <1>0, <1>t, <1>c, <2>1, GrownStill
  <1>18. ASSUME NEW c \in Calls, Answer(c) PROVE Grown
    BY <1>0, <1>18, GrownStill DEF Answer
  <1>19. ASSUME NEW c \in Calls, ShortCircuit(c) PROVE Grown
    BY <1>0, <1>19, GrownStill DEF ShortCircuit
  <1>20. ASSUME NEW c \in Calls, Dispatch(c) PROVE Grown
    <2>1. log' = log \/ Emit("dispatched", c, "")
      BY <1>20 DEF Dispatch
    <2> QED BY <1>0, <1>t, <1>c, <2>1, GrownStill
  <1>21. ASSUME NEW c \in Calls, StartBody(c) PROVE Grown
    BY <1>0, <1>21, GrownStill DEF StartBody
  <1>22. ASSUME NEW c \in Calls, ZombieStart(c) PROVE Grown
    BY <1>0, <1>22, GrownStill DEF ZombieStart
  <1>23. ASSUME NEW c \in Calls, Settle(c) PROVE Grown
    <2>1. Emit("deferred", c, "") \/ Emit("result", c, task[c])
      BY <1>23 DEF Settle
    <2>2. task[c] \in Infos
      BY <1>23 DEF Settle, IsFirst, Infos
    <2> QED BY <1>t, <1>c, <2>1, <2>2
  <1>24. ASSUME NEW c \in Calls, ResumeApprovedTool(c) PROVE Grown
    BY <1>0, <1>24, GrownStill DEF ResumeApprovedTool
  <1>25. ASSUME NEW c \in Calls, NEW outcome \in {"error", "aborted"}, Refuse(c, outcome) PROVE Grown
    BY <1>0, <1>25, GrownStill DEF Refuse
  <1>26. ASSUME NEW c \in Calls, NEW outcome \in {"ok", "conclude", "error", "deferred"}, BodyReturns(c, outcome)
        PROVE  Grown
    BY <1>0, <1>26, GrownStill DEF BodyReturns
  <1>27. ASSUME NEW c \in Calls, NEW outcome \in {"ok", "conclude", "error", "deferred"}, ResumeNext(c, outcome)
        PROVE  Grown
    <2>1. log' = log \/ Emit("resume_started", c, "materialized") \/ Emit("resume_started", c, "executed")
      BY <1>27 DEF ResumeNext
    <2> QED BY <1>0, <1>t, <1>c, <2>1, GrownStill
  <1>28. ASSUME NEW c \in Calls, NEW answer \in {"yes", "no"}, Decide(c, answer) PROVE Grown
    <2> DEFINE e == Ev("approval_resolved", 0, 0, c, answer)
    <2>1. 0 \in 0..MaxTurns /\ 0 \in 0..MaxSteps /\ c \in 0..NumCalls /\ answer \in Infos
      BY Bounds DEF Infos
    <2>2. e \in Plain
      BY <1>t, <2>1 DEF Ev, Events, Plain
    <2>3. Commit(<<e>>)
      BY <1>28 DEF Decide
    <2> HIDE DEF e
    <2> QED BY <2>2, <2>3, GrownOne
  <1>29. CASE FinishBatch
    BY <1>0, <1>29, GrownStill DEF FinishBatch
  <1>30. CASE CloseStep
    <2>1. log' = log \/ Emit("step_end", 0, "")
      BY <1>30 DEF CloseStep
    <2> QED BY <1>0, <1>t, <1>z, <2>1, GrownStill
  <1>31. ASSUME NEW S \in SUBSET Calls, NEW m \in BOOLEAN, PickRequests(S, m) PROVE Grown
    BY <1>0, <1>31, GrownStill DEF PickRequests
  <1>32. CASE ResumeNothing
    BY <1>0, <1>32, GrownStill DEF ResumeNothing
  <1>33. CASE FinishResume
    BY <1>0, <1>33, GrownStill DEF FinishResume
  <1>34. CASE UNCHANGED vars
    BY <1>0, <1>34, GrownStill DEF vars
  <1> QED
    BY <1>1, <1>2, <1>4, <1>5, <1>6, <1>7, <1>8, <1>9, <1>10,
       <1>11, <1>12, <1>13, <1>14, <1>15, <1>16, <1>17, <1>18, <1>19, <1>20,
       <1>21, <1>22, <1>23, <1>24, <1>25, <1>26, <1>27, <1>28, <1>29, <1>30,
       <1>31, <1>32, <1>33, <1>34
    DEF Next

\* No turn starts: what held of those that did holds.
LEMMA GrownSettled ==
  ASSUME TypeOK, OwnedInv, SettledBeforeNextTurn, Grown
  PROVE  OwnedInv' /\ SettledBeforeNextTurn'
  <1>1. PICK evs \in Seq(Events) : log' = log \o evs /\ AllIn(evs, Plain)
    BY DEF Grown
  <1>2. /\ \A i \in DOMAIN log : i \in DOMAIN log' /\ log'[i] = log[i]
        /\ \A k \in DOMAIN evs : log'[Len(log) + k] = evs[k]
        /\ \A i \in DOMAIN log' : i \in DOMAIN log \/ \E k \in DOMAIN evs : i = Len(log) + k
        /\ DOMAIN log = 1..Len(log) /\ DOMAIN log' = 1..(Len(log) + Len(evs)) /\ Len(log) \in Nat /\ Len(evs) \in Nat
    BY <1>1, AppendShape
  <1>3. ASSUME NEW i \in DOMAIN log', i \notin DOMAIN log PROVE log'[i] \in Plain
    BY <1>1, <1>2, <1>3 DEF AllIn
  <1>4. OwnedInv'
    <2> SUFFICES ASSUME NEW i \in DOMAIN log', log'[i].type \in {"dispatched", "resume_started"}
                 PROVE  log'[i].call \in Calls
      BY DEF OwnedInv, Calls
    <2>1. CASE i \in DOMAIN log
      BY <1>2, <2>1 DEF OwnedInv
    <2>2. CASE i \notin DOMAIN log
      BY <1>3, <2>2 DEF Plain
    <2> QED BY <2>1, <2>2
  <1>5. SettledBeforeNextTurn'
    <2> SUFFICES ASSUME NEW i \in DOMAIN log', NEW k \in DOMAIN log', log'[k].type = "turn_start", i < k,
                        log'[i].type = "dispatched" \/ (log'[i].type = "resume_started" /\ log'[i].info = "executed")
                 PROVE  \E j \in (i + 1)..(k - 1) :
                          log'[j].call = log'[i].call /\ log'[j].type \in {"result", "deferred"}
      BY DEF SettledBeforeNextTurn
    <2>1. k \in DOMAIN log
      BY <1>3 DEF Plain
    <2>2. i \in DOMAIN log
      BY <1>2, <2>1
    <2>3. log'[i] = log[i] /\ log'[k] = log[k]
      BY <1>2, <2>1, <2>2
    <2>4. PICK j \in (i + 1)..(k - 1) : log[j].call = log[i].call /\ log[j].type \in {"result", "deferred"}
      BY <2>1, <2>2, <2>3 DEF SettledBeforeNextTurn
    <2>5. j \in DOMAIN log
      BY <1>2, <2>1, <2>2
    <2> QED BY <1>2, <2>3, <2>4, <2>5
  <1> QED BY <1>4, <1>5

\* A turn starts when no call is behind a barrier.
LEMMA BeginSettled ==
  ASSUME ToolTurnAssumption, TypeOK, TypeOK', OwnedInv, SettledBeforeNextTurn, BeginTurn,
         \A c \in Calls : SettledInv(c) /\ ~Open(c)
  PROVE  OwnedInv' /\ SettledBeforeNextTurn'
  <1> DEFINE e == Ev("turn_start", Turns + 1, 0, 0, "")
             n == Len(log) + 1
  <1>1. log' = log \o <<e>> /\ e.type = "turn_start"
    BY DEF BeginTurn, Commit, Ev
  <1> HIDE DEF e
  <1>2. /\ Len(log) \in Nat /\ DOMAIN log = 1..Len(log) /\ DOMAIN log' = 1..n
        /\ log'[n] = e /\ \A i \in DOMAIN log : log'[i] = log[i]
    BY <1>1 DEF TypeOK
  <1>3. \A i \in DOMAIN log' : i \in DOMAIN log \/ i = n
    BY <1>2
  <1> HIDE DEF n
  <1>4. n \in Int /\ \A i \in DOMAIN log : i \in Int /\ i < n
    BY <1>2 DEF n
  <1>5. OwnedInv'
    <2> SUFFICES ASSUME NEW i \in DOMAIN log', log'[i].type \in {"dispatched", "resume_started"}
                 PROVE  log'[i].call \in Calls
      BY DEF OwnedInv, Calls
    <2>1. i \in DOMAIN log
      BY <1>1, <1>2, <1>3
    <2> QED BY <1>2, <2>1 DEF OwnedInv
  <1>6. SettledBeforeNextTurn'
    <2> SUFFICES ASSUME NEW i \in DOMAIN log', NEW k \in DOMAIN log', log'[k].type = "turn_start", i < k,
                        log'[i].type = "dispatched" \/ (log'[i].type = "resume_started" /\ log'[i].info = "executed")
                 PROVE  \E j \in (i + 1)..(k - 1) :
                          log'[j].call = log'[i].call /\ log'[j].type \in {"result", "deferred"}
      BY DEF SettledBeforeNextTurn
    <2>1. i \in DOMAIN log
      BY <1>1, <1>2, <1>3
    <2>2. log'[i] = log[i]
      BY <1>2, <2>1
    <2>3. CASE k \in DOMAIN log
      <3>1. PICK j \in (i + 1)..(k - 1) : log[j].call = log[i].call /\ log[j].type \in {"result", "deferred"}
        BY <1>2, <2>1, <2>2, <2>3 DEF SettledBeforeNextTurn
      <3>2. j \in DOMAIN log
        BY <1>2, <2>1, <2>3
      <3> QED BY <1>2, <2>2, <3>1, <3>2
    <2>4. CASE k = n
      <3>1. log[i].call \in Calls
        BY <2>1, <2>2 DEF OwnedInv
      <3> DEFINE c == log[i].call
      <3>2. i \in Positions({"dispatched", "resume_started"}, c) /\ IsBarrier(log[i])
        BY <2>1, <2>2 DEF Positions, IsBarrier
      <3>3. \E j \in Positions({"result", "deferred"}, c) : i < j
        BY <3>1, <3>2 DEF SettledInv
      <3>4. PICK j \in DOMAIN log : log[j].type \in {"result", "deferred"} /\ log[j].call = c /\ i < j
        BY <3>3 DEF Positions
      <3>5. j \in (i + 1)..(k - 1)
        BY <1>4, <2>1, <2>4, <3>4
      <3> QED BY <1>2, <2>2, <3>4, <3>5
    <2> QED BY <1>3, <2>3, <2>4
  <1> QED BY <1>5, <1>6

\* Recovery leaves no call behind a barrier.
LEMMA RecoverOpen ==
  ASSUME ToolTurnAssumption, TurnInv, Recover, NEW c \in Calls, FoundInv(c)
  PROVE  ~Open(c)'
  <1> SUFFICES ASSUME Open(c)' PROVE FALSE
    OBVIOUS
  <1>0. TracesInv /\ TypeOK /\ FinalInv(c)
    BY DEF TurnInv, BaseInv, TracesInv, CallInv
  <1>1. Same(c) \/ (c \in Dangling /\ Wrote(c, "result", "unknown"))
    BY <1>0, RecoverLog
  <1>2. ~Wrote(c, "result", "unknown")
    BY DEF Wrote, Open
  <1>3. Same(c)
    BY <1>1, <1>2
  <1>4. Open(c)
    BY <1>3 DEF Same, Open, Behind
  <1>5. c \in Dangling
    BY <1>4 DEF FoundInv, Found, Open, Behind, Dangling
  <1> DEFINE evs == RecoveryEvents
  <1>6. /\ log' = log \o evs /\ evs \in Seq(Events)
        /\ Silent(evs, c) \/ \E e : e.call = c /\ e.type = "result" /\ e.info = "unknown" /\ Lone(evs, c, e)
        /\ Has("result", c) \/ ~Silent(evs, c)
    BY <1>0, <1>5, RecoverProps DEF Recover, Commit
  <1> HIDE DEF evs
  <1>7. PICK e : e.call = c /\ e.type = "result" /\ e.info = "unknown" /\ Lone(evs, c, e)
    BY <1>4, <1>6 DEF Open
  <1>8. Wrote(c, e.type, e.info)
    BY <1>0, <1>6, <1>7, LoneWrote
  <1> QED BY <1>2, <1>7, <1>8

\* Only recovery lets a turn begin.
LEMMA BeginStep ==
  ASSUME ToolTurnAssumption, TypeOK, WorkerInv, [Next]_vars, worker'.pc = "begin"
  PROVE  worker.pc = "begin" \/ Recover
  <1>0. worker \in Workers /\ NoWorker.pc = "none"
    BY DEF TypeOK, NoWorker
  <1> SUFFICES ASSUME ~Recover PROVE worker'.pc = worker.pc
    OBVIOUS
  <1>1. ASSUME NEW op \in {"run", "batch", "single", "approval"}, Claim(op)
        PROVE  worker'.pc = worker.pc
    BY <1>0, <1>1 DEF Claim, Workers
  <1>3. CASE BeginTurn
    BY <1>0, <1>3 DEF BeginTurn, Workers
  <1>4. CASE Cancel
    BY <1>0, <1>4 DEF Cancel, Workers
  <1>5. CASE Crash
    BY <1>0, <1>5 DEF Crash, Release, Workers
  <1>6. CASE LoseLease
    BY <1>0, <1>6 DEF LoseLease, Release, Workers
  <1>7. CASE StartStep
    BY <1>0, <1>7 DEF StartStep, Workers
  <1>8. CASE EndTurn
    BY <1>0, <1>8 DEF EndTurn, Release, Workers
  <1>9. CASE PolicyWait
    BY <1>0, <1>9 DEF PolicyWait, Release, Workers
  <1>10. CASE Chunk
    BY <1>0, <1>10 DEF Chunk, Workers
  <1>11. CASE ModelReplies
    BY <1>0, <1>11 DEF ModelReplies, Goto, Workers
  <1>12. CASE StartBatch
    BY <1>0, <1>12 DEF StartBatch, Goto, Workers
  <1>13. ASSUME NEW b \in BOOLEAN, ModelFails(b)
        PROVE  worker'.pc = worker.pc
    BY <1>0, <1>13 DEF ModelFails, Goto, Workers
  <1>14. ASSUME NEW b \in BOOLEAN, FailStep(b)
        PROVE  worker'.pc = worker.pc
    BY <1>0, <1>14 DEF FailStep, Goto, Workers
  <1>15. ASSUME NEW n \in 1..MaxBatch, ModelCalls(n)
        PROVE  worker'.pc = worker.pc
    BY <1>0, <1>15 DEF ModelCalls, Workers
  <1>16. ASSUME NEW c \in Calls, Admit(c)
        PROVE  worker'.pc = worker.pc
    BY <1>0, <1>16 DEF Admit, Workers
  <1>17. ASSUME NEW c \in Calls, Ask(c)
        PROVE  worker'.pc = worker.pc
    BY <1>0, <1>17 DEF Ask, Workers
  <1>18. ASSUME NEW c \in Calls, Answer(c)
        PROVE  worker'.pc = worker.pc
    BY <1>0, <1>18 DEF Answer, Workers
  <1>19. ASSUME NEW c \in Calls, ShortCircuit(c)
        PROVE  worker'.pc = worker.pc
    BY <1>0, <1>19 DEF ShortCircuit, Workers
  <1>20. ASSUME NEW c \in Calls, Dispatch(c)
        PROVE  worker'.pc = worker.pc
    BY <1>0, <1>20 DEF Dispatch, Workers
  <1>21. ASSUME NEW c \in Calls, StartBody(c)
        PROVE  worker'.pc = worker.pc
    BY <1>0, <1>21 DEF StartBody, Workers
  <1>22. ASSUME NEW c \in Calls, ZombieStart(c)
        PROVE  worker'.pc = worker.pc
    BY <1>0, <1>22 DEF ZombieStart, Workers
  <1>23. ASSUME NEW c \in Calls, Settle(c)
        PROVE  worker'.pc = worker.pc
    BY <1>0, <1>23 DEF Settle, Workers
  <1>24. ASSUME NEW c \in Calls, ResumeApprovedTool(c)
        PROVE  worker'.pc = worker.pc
    BY <1>0, <1>24 DEF ResumeApprovedTool, Release, Workers
  <1>25. ASSUME NEW c \in Calls, NEW outcome \in {"error", "aborted"}, Refuse(c, outcome)
        PROVE  worker'.pc = worker.pc
    BY <1>0, <1>25 DEF Refuse, Workers
  <1>26. ASSUME NEW c \in Calls, NEW outcome \in {"ok", "conclude", "error", "deferred"}, BodyReturns(c, outcome)
        PROVE  worker'.pc = worker.pc
    BY <1>0, <1>26 DEF BodyReturns, Workers
  <1>27. ASSUME NEW c \in Calls, NEW outcome \in {"ok", "conclude", "error", "deferred"}, ResumeNext(c, outcome)
        PROVE  worker'.pc = worker.pc
    BY <1>0, <1>27 DEF ResumeNext, Workers
  <1>28. ASSUME NEW c \in Calls, NEW answer \in {"yes", "no"}, Decide(c, answer)
        PROVE  worker'.pc = worker.pc
    BY <1>0, <1>28 DEF Decide, Workers
  <1>29. CASE FinishBatch
    BY <1>0, <1>29 DEF FinishBatch, Release, Goto, Workers
  <1>30. CASE CloseStep
    BY <1>0, <1>30 DEF CloseStep, Release, Workers
  <1>31. ASSUME NEW S \in SUBSET Calls, NEW m \in BOOLEAN, PickRequests(S, m)
        PROVE  worker'.pc = worker.pc
    BY <1>0, <1>31 DEF PickRequests, Workers
  <1>32. CASE ResumeNothing
    BY <1>0, <1>32 DEF ResumeNothing, Release, Workers
  <1>33. CASE FinishResume
    BY <1>0, <1>33 DEF FinishResume, Release, Workers
  <1>34. CASE UNCHANGED vars
    BY <1>0, <1>34 DEF vars, Workers
  <1> QED
    BY <1>1, <1>3, <1>4, <1>5, <1>6, <1>7, <1>8, <1>9, <1>10,
       <1>11, <1>12, <1>13, <1>14, <1>15, <1>16, <1>17, <1>18, <1>19, <1>20,
       <1>21, <1>22, <1>23, <1>24, <1>25, <1>26, <1>27, <1>28, <1>29, <1>30,
       <1>31, <1>32, <1>33, <1>34
    DEF Next

LEMMA SettleStep ==
  ASSUME ToolTurnAssumption, Apart, PostAsks \subseteq Asks, TurnInv, SettleInv, [Next]_vars
  PROVE  SettleInv'
  <1>0. TracesInv /\ TypeOK /\ TypeOK' /\ WorkerInv
    BY TypeStep DEF TurnInv, BaseInv, TracesInv
  <1>1. \A c \in Calls : BarrierInv(c) /\ BeginInv(c)
    BY DEF SettleInv
  <1>2. \A c \in Calls : BarrierInv(c)' /\ (worker.pc = "begin" => (Open(c)' => Open(c)))
    BY <1>1, BarrierStep
  <1>3. ASSUME NEW c \in Calls PROVE BeginInv(c)'
    <2> SUFFICES ASSUME worker'.pc = "begin" PROVE ~Open(c)'
      BY DEF BeginInv
    <2>1. worker.pc = "begin" \/ Recover
      BY <1>0, BeginStep
    <2>2. CASE worker.pc = "begin"
      BY <1>1, <1>2, <2>2 DEF BeginInv
    <2>3. CASE Recover
      BY <1>1, <2>3, RecoverOpen DEF BarrierInv
    <2> QED BY <2>1, <2>2, <2>3
  <1>4. OwnedInv' /\ SettledBeforeNextTurn'
    <2>0. OwnedInv /\ SettledBeforeNextTurn
      BY DEF SettleInv
    <2>1. CASE BeginTurn
      <3>1. worker.pc = "begin"
        BY <2>1 DEF BeginTurn
      <3>2. \A c \in Calls : SettledInv(c) /\ ~Open(c)
        BY <1>1, <3>1 DEF BarrierInv, BeginInv
      <3> QED BY <1>0, <2>0, <2>1, <3>2, BeginSettled
    <2>2. CASE Grown
      BY <1>0, <2>0, <2>2, GrownSettled
    <2> QED BY <1>0, <2>1, <2>2, GrownSteps
  <1> QED BY <1>2, <1>3, <1>4 DEF SettleInv, Calls

\* When a turn starts, every dispatch and every execution of a deferred call
\* before it has its result or deferral before it, however many workers crashed,
\* lost their lease or resumed in between: recovery ran before the new work.
\* A call with a post-policy approval is one that also asks before its body.
THEOREM SettledFirst == ASSUME Apart, PostAsks \subseteq Asks PROVE Spec => []SettledBeforeNextTurn
  <1>1. Init => SettleInv
    <2> SUFFICES ASSUME Init PROVE SettleInv
      OBVIOUS
    <2>1. DOMAIN log = {} /\ worker.pc = "none"
      BY DEF Init, NoWorker
    <2>2. ASSUME NEW c PROVE /\ \A T : Positions(T, c) = {}
                             /\ LastBarrier(c).type = "none"
      <3>1. \A T : Positions(T, c) = {}
        BY <2>1 DEF Positions
      <3> QED BY <3>1 DEF LastBarrier, LastOf, Ev
    <2>3. \A c : BarrierInv(c) /\ BeginInv(c)
      <3> SUFFICES ASSUME NEW c PROVE BarrierInv(c) /\ BeginInv(c)
        OBVIOUS
      <3>1. ~Open(c)
        BY <2>2 DEF Open, Behind
      <3>2. SettledInv(c)
        BY <2>2 DEF SettledInv
      <3> QED BY <2>2, <3>1, <3>2 DEF BarrierInv, FoundInv, PassedInv, BeginInv
    <2> QED BY <2>1, <2>3 DEF SettleInv, OwnedInv, SettledBeforeNextTurn
  <1>2. TurnInv /\ SettleInv /\ [Next]_vars => SettleInv'
    BY ToolTurnAssumption, SettleStep
  <1>3. SettleInv => SettledBeforeNextTurn
    BY DEF SettleInv
  <1> QED BY <1>1, <1>2, <1>3, TurnSafe, PTL DEF Spec

-----------------------------------------------------------------------------
(* Nothing of a call follows the end of its step. *)

Here == <<worker.turn, worker.step>>
Started == StepsOf("step_start")
Ended == StepsOf("step_end")
Exempt == Reentered \cup StepsOf("approval_requested")
CallTypes == {"tool_call", "dispatched", "deferred", "resume_started", "result"}

\* The step stores events of the types T and the step s: what the readers of
\* steps see of it.
Marked(T, s) ==
    /\ \A t : StepsOf(t)' = IF t \in T THEN StepsOf(t) \cup {s} ELSE StepsOf(t)
    /\ Reentered \subseteq Reentered'
    /\ \A c : Has("tool_call", c) => StepOf(c)' = StepOf(c)
    /\ OutcomesBeforeStepEnd /\ (T \cap CallTypes # {} => s \notin Ended \/ s \in Exempt') => OutcomesBeforeStepEnd'

\* Appending events: the steps of each type grow, calls keep their step.
LEMMA StepsGrow ==
  ASSUME TypeOK, NEW evs \in Seq(Events), log' = log \o evs
  PROVE  /\ \A t : StepsOf(t)' =
               StepsOf(t) \cup {<<evs[k].turn, evs[k].step>> : k \in {j \in DOMAIN evs : evs[j].type = t}}
         /\ Reentered \subseteq Reentered'
         /\ \A c : Has("tool_call", c) /\ (\A k \in DOMAIN evs : ~(evs[k].type = "tool_call" /\ evs[k].call = c))
                     => StepOf(c)' = StepOf(c)
  <1>1. /\ \A i \in DOMAIN log : i \in DOMAIN log' /\ log'[i] = log[i]
        /\ \A k \in DOMAIN evs : Len(log) + k \in DOMAIN log' /\ log'[Len(log) + k] = evs[k]
        /\ \A i \in DOMAIN log' : i \in DOMAIN log \/ \E k \in DOMAIN evs : i = Len(log) + k
        /\ DOMAIN log = 1..Len(log) /\ Len(log) \in Nat
    BY AppendShape
  <1>2. ASSUME NEW t
        PROVE  StepsOf(t)' =
                 StepsOf(t) \cup {<<evs[k].turn, evs[k].step>> : k \in {j \in DOMAIN evs : evs[j].type = t}}
    <2> DEFINE N == {<<evs[k].turn, evs[k].step>> : k \in {j \in DOMAIN evs : evs[j].type = t}}
    <2>1. ASSUME NEW s \in StepsOf(t)' PROVE s \in StepsOf(t) \cup N
      <3>1. PICK i \in DOMAIN log' : log'[i].type = t /\ s = <<log'[i].turn, log'[i].step>>
        BY <2>1 DEF StepsOf
      <3>2. CASE i \in DOMAIN log
        BY <1>1, <3>1, <3>2 DEF StepsOf
      <3>3. CASE \E k \in DOMAIN evs : i = Len(log) + k
        <4>1. PICK k \in DOMAIN evs : i = Len(log) + k
          BY <3>3
        <4>2. log'[i] = evs[k]
          BY <1>1, <4>1
        <4> QED BY <3>1, <4>1, <4>2
      <3> QED BY <1>1, <3>2, <3>3
    <2>2. ASSUME NEW s \in StepsOf(t) PROVE s \in StepsOf(t)'
      BY <1>1, <2>2 DEF StepsOf
    <2>3. ASSUME NEW s \in N PROVE s \in StepsOf(t)'
      <3>1. PICK k \in DOMAIN evs : evs[k].type = t /\ s = <<evs[k].turn, evs[k].step>>
        BY <2>3
      <3> DEFINE i == Len(log) + k
      <3>2. i \in DOMAIN log' /\ log'[i] = evs[k]
        BY <1>1
      <3> HIDE DEF i
      <3> QED BY <3>1, <3>2 DEF StepsOf
    <2> HIDE DEF N
    <2>4. StepsOf(t)' = StepsOf(t) \cup N
      BY <2>1, <2>2, <2>3
    <2> QED BY <2>4 DEF N
  <1>3. Reentered \subseteq Reentered'
    <2> SUFFICES ASSUME NEW s \in Reentered PROVE s \in Reentered'
      OBVIOUS
    <2>1. PICK j \in DOMAIN log : /\ log[j].type = "step_start" /\ s = <<log[j].turn, log[j].step>>
                                  /\ \E k \in 1..(j - 1) : /\ log[k].type = "step_start"
                                                           /\ <<log[k].turn, log[k].step>> = <<log[j].turn, log[j].step>>
      BY DEF Reentered
    <2>2. PICK k \in 1..(j - 1) : /\ log[k].type = "step_start"
                                  /\ <<log[k].turn, log[k].step>> = <<log[j].turn, log[j].step>>
      BY <2>1
    <2>3. k \in DOMAIN log
      BY <1>1
    <2>4. log'[j] = log[j] /\ log'[k] = log[k] /\ j \in DOMAIN log'
      BY <1>1, <2>3
    <2> QED BY <2>1, <2>2, <2>4 DEF Reentered
  <1>4. ASSUME NEW c, Has("tool_call", c), \A k \in DOMAIN evs : ~(evs[k].type = "tool_call" /\ evs[k].call = c)
        PROVE  StepOf(c)' = StepOf(c)
    <2> DEFINE T == {"tool_call"}
    <2>1. \A k \in DOMAIN evs : ~(evs[k].type \in T /\ evs[k].call = c)
      BY <1>4
    <2>2. "none" \notin T /\ Positions(T, c) # {}
      BY <1>4 DEF Has
    <2> HIDE DEF T
    <2>3. Positions(T, c)' = Positions(T, c) /\ \A i \in Positions(T, c) : log'[i] = log[i]
      BY <2>1, Unread
    <2>4. Max(Positions(T, c)) \in Positions(T, c)
      BY <2>2, LastProps
    <2> DEFINE m == Max(Positions(T, c))
    <2>5. m \in Positions(T, c) /\ log'[m] = log[m] /\ m' = m
      BY <2>3, <2>4
    <2>6. StepOf(c) = <<log[m].turn, log[m].step>> /\ StepOf(c)' = <<log'[m].turn, log'[m].step>>
      BY <2>3 DEF StepOf, T
    <2> HIDE DEF m
    <2> QED BY <2>5, <2>6
  <1> QED BY <1>2, <1>3, <1>4

\* What follows the end of its step, after an append.
LEMMA OutcomesGrow ==
  ASSUME TypeOK, NEW evs \in Seq(Events), log' = log \o evs, OutcomesBeforeStepEnd,
         \A k \in DOMAIN evs : evs[k].type \in CallTypes =>
             /\ <<evs[k].turn, evs[k].step>> \notin Ended \/ <<evs[k].turn, evs[k].step>> \in Exempt'
             /\ \A j \in DOMAIN evs : evs[j].type = "step_end" => k < j
  PROVE  OutcomesBeforeStepEnd'
  <1>1. /\ \A i \in DOMAIN log : i \in DOMAIN log' /\ log'[i] = log[i]
        /\ \A k \in DOMAIN evs : Len(log) + k \in DOMAIN log' /\ log'[Len(log) + k] = evs[k]
        /\ \A i \in DOMAIN log' : i \in DOMAIN log \/ \E k \in DOMAIN evs : i = Len(log) + k
        /\ DOMAIN log = 1..Len(log) /\ Len(log) \in Nat /\ DOMAIN evs = 1..Len(evs) /\ Len(evs) \in Nat
    BY AppendShape
  <1>2. Exempt \subseteq Exempt'
    BY StepsGrow DEF Exempt
  <1> SUFFICES ASSUME NEW i \in DOMAIN log', NEW j \in DOMAIN log', log'[i].type = "step_end", i < j,
                      log'[j].type \in CallTypes,
                      <<log'[i].turn, log'[i].step>> = <<log'[j].turn, log'[j].step>>
               PROVE  <<log'[i].turn, log'[i].step>> \in Exempt'
    BY DEF OutcomesBeforeStepEnd, CallTypes, Exempt
  <1>3. CASE j \in DOMAIN log
    <2>1. i \in DOMAIN log
      BY <1>1, <1>3
    <2>2. log'[i] = log[i] /\ log'[j] = log[j]
      BY <1>1, <1>3, <2>1
    <2>3. <<log[i].turn, log[i].step>> \in Exempt
      BY <1>3, <2>1, <2>2 DEF OutcomesBeforeStepEnd, CallTypes, Exempt
    <2> QED BY <1>2, <2>2, <2>3
  <1>4. CASE \E k \in DOMAIN evs : j = Len(log) + k
    <2>1. PICK k \in DOMAIN evs : j = Len(log) + k
      BY <1>4
    <2>2. log'[j] = evs[k]
      BY <1>1, <2>1
    <2>3. CASE i \in DOMAIN log
      <3>1. log'[i] = log[i]
        BY <1>1, <2>3
      <3>2. <<log[i].turn, log[i].step>> \in Ended
        BY <2>3, <3>1 DEF Ended, StepsOf
      <3> QED BY <2>2, <3>1, <3>2
    <2>4. CASE \E h \in DOMAIN evs : i = Len(log) + h
      <3>1. PICK h \in DOMAIN evs : i = Len(log) + h
        BY <2>4
      <3>2. log'[i] = evs[h]
        BY <1>1, <3>1
      <3>3. k < h
        BY <2>2, <3>2
      <3>4. h < k
        BY <1>1, <2>1, <3>1
      <3> QED BY <1>1, <3>3, <3>4
    <2> QED BY <1>1, <2>3, <2>4
  <1> QED BY <1>1, <1>3, <1>4

LEMMA MarkStill ==
  ASSUME log' = log, NEW s
  PROVE  Marked({}, s)
  <1>1. \A t : StepsOf(t)' = StepsOf(t)
    BY DEF StepsOf
  <1>2. Reentered' = Reentered
    BY DEF Reentered
  <1>3. \A c : StepOf(c)' = StepOf(c)
    <2>1. \A c : Positions({"tool_call"}, c)' = Positions({"tool_call"}, c)
      BY DEF Positions
    <2> QED BY <2>1 DEF StepOf
  <1>4. OutcomesBeforeStepEnd => OutcomesBeforeStepEnd'
    BY <1>1, <1>2 DEF OutcomesBeforeStepEnd
  <1> QED BY <1>1, <1>2, <1>3, <1>4 DEF Marked

LEMMA MarkOne ==
  ASSUME TypeOK, NEW e \in Events, Commit(<<e>>), e.type = "tool_call" => ~Has("tool_call", e.call)
  PROVE  /\ Marked({e.type}, <<e.turn, e.step>>)
         /\ e.type = "tool_call" => StepOf(e.call)' = <<e.turn, e.step>>
         /\ e.type = "step_start" /\ <<e.turn, e.step>> \in Started => <<e.turn, e.step>> \in Reentered'
  <1> DEFINE evs == <<e>>
             s == <<e.turn, e.step>>
             n == Len(log) + 1
  <1>1. evs \in Seq(Events) /\ log' = log \o evs /\ DOMAIN evs = {1} /\ evs[1] = e
    BY DEF Commit
  <1> HIDE DEF evs
  <1>2. /\ \A i \in DOMAIN log : i \in DOMAIN log' /\ log'[i] = log[i]
        /\ n \in DOMAIN log' /\ log'[n] = e
        /\ \A i \in DOMAIN log' : i \in DOMAIN log \/ i = n
        /\ DOMAIN log = 1..Len(log) /\ Len(log) \in Nat
    BY <1>1, AppendShape
  <1>3. ASSUME NEW t PROVE StepsOf(t)' = IF t \in {e.type} THEN StepsOf(t) \cup {s} ELSE StepsOf(t)
    <2>1. StepsOf(t)' = StepsOf(t) \cup {<<evs[k].turn, evs[k].step>> : k \in {j \in DOMAIN evs : evs[j].type = t}}
      BY <1>1, StepsGrow
    <2>2. CASE t = e.type
      <3>1. {j \in DOMAIN evs : evs[j].type = t} = {1}
        BY <1>1, <2>2
      <3>2. {<<evs[k].turn, evs[k].step>> : k \in {1}} = {s}
        BY <1>1
      <3> QED BY <2>1, <2>2, <3>1, <3>2
    <2>3. CASE t # e.type
      <3>1. {j \in DOMAIN evs : evs[j].type = t} = {}
        BY <1>1, <2>3
      <3> QED BY <2>1, <2>3, <3>1
    <2> QED BY <2>2, <2>3
  <1>4. Reentered \subseteq Reentered'
    BY <1>1, StepsGrow
  <1>5. ASSUME NEW c, Has("tool_call", c) PROVE StepOf(c)' = StepOf(c)
    <2>1. \A k \in DOMAIN evs : ~(evs[k].type = "tool_call" /\ evs[k].call = c)
      BY <1>1, <1>5
    <2> QED BY <1>1, <1>5, <2>1, StepsGrow
  <1>6. ASSUME OutcomesBeforeStepEnd, {e.type} \cap CallTypes # {} => s \notin Ended \/ s \in Exempt'
        PROVE  OutcomesBeforeStepEnd'
    <2>1. ASSUME NEW k \in DOMAIN evs, evs[k].type \in CallTypes
          PROVE  /\ <<evs[k].turn, evs[k].step>> \notin Ended \/ <<evs[k].turn, evs[k].step>> \in Exempt'
                 /\ \A j \in DOMAIN evs : evs[j].type = "step_end" => k < j
      <3>1. k = 1 /\ e.type \in CallTypes
        BY <1>1, <2>1
      <3>2. \A j \in DOMAIN evs : evs[j].type # "step_end"
        BY <1>1, <3>1 DEF CallTypes
      <3> QED BY <1>1, <1>6, <3>1, <3>2
    <2> QED BY <1>1, <1>6, <2>1, OutcomesGrow
  <1> DEFINE M == Marked({e.type}, s)
  <1>7. M
    BY <1>3, <1>4, <1>5, <1>6 DEF Marked
  <1>8. ASSUME e.type = "tool_call" PROVE StepOf(e.call)' = s
    <2>1. Positions({"tool_call"}, e.call) = {}
      BY <1>8 DEF Has
    <2>2. Positions({"tool_call"}, e.call)' = {n}
      <3>1. n \in Positions({"tool_call"}, e.call)'
        BY <1>2, <1>8 DEF Positions
      <3>2. ASSUME NEW i \in Positions({"tool_call"}, e.call)' PROVE i = n
        BY <1>2, <2>1, <3>2 DEF Positions
      <3> QED BY <3>1, <3>2
    <2>3. Max({n}) = n
      <3>0. n \in Int
        BY <1>2
      <3> HIDE DEF n
      <3>1. {n} \in SUBSET Int /\ IsFiniteSet({n}) /\ {n} # {}
        BY <3>0, FS_Singleton
      <3> QED BY <3>1, MaxProps
    <2>4. StepOf(e.call)' = <<log'[n].turn, log'[n].step>>
      <3> HIDE DEF n
      <3> QED BY <2>2, <2>3 DEF StepOf
    <2> QED BY <1>2, <2>4
  <1>9. ASSUME e.type = "step_start", s \in Started PROVE s \in Reentered'
    <2>1. PICK i \in DOMAIN log : log[i].type = "step_start" /\ <<log[i].turn, log[i].step>> = s
      BY <1>9 DEF Started, StepsOf
    <2>2. i \in 1..(n - 1) /\ log'[i] = log[i]
      BY <1>2
    <2>3. \E k \in 1..(n - 1) : log'[k].type = "step_start" /\ <<log'[k].turn, log'[k].step>> = <<log'[n].turn, log'[n].step>>
      BY <1>2, <2>1, <2>2
    <2> HIDE DEF n
    <2>4. <<log'[n].turn, log'[n].step>> \in Reentered'
      BY <1>2, <1>9, <2>3 DEF Reentered
    <2> QED BY <1>2, <2>4
  <1> QED BY <1>7, <1>8, <1>9

LEMMA MarkEmit ==
  ASSUME TypeOK, NEW t \in EventTypes, NEW d \in 0..NumCalls, NEW x \in Infos, Emit(t, d, x),
         t = "tool_call" => ~Has("tool_call", d)
  PROVE  /\ Marked({t}, Here)
         /\ t = "tool_call" => StepOf(d)' = Here
  <1> DEFINE e == Ev(t, worker.turn, worker.step, d, x)
  <1>1. /\ e \in Events /\ e.type = t /\ e.call = d /\ Commit(<<e>>)
        /\ <<e.turn, e.step>> = Here
    BY DEF Emit, Ev, Events, TypeOK, Workers, Here
  <1> HIDE DEF e
  <1> QED BY <1>1, MarkOne

-----------------------------------------------------------------------------
(* The invariant of steps. *)

StartedInv == Ended \cup StepsOf("tool_call") \subseteq Started

\* A call that asked makes its step an exception.
AskStepInv(c) == Has("approval_requested", c) => StepOf(c) \in StepsOf("approval_requested")

\* A resume is one of two kinds.
KindInv(c) == LastBarrier(c).type = "resume_started" => LastBarrier(c).info \in {"materialized", "executed"}

\* In a step that ended a call has its result, or was never taken up and is not.
ClosedInv(c) ==
    Has("tool_call", c) /\ StepOf(c) \in Ended =>
        \/ Has("result", c)
        \/ LastBarrier(c).type = "none" /\ ~Live(c)
        \/ StepOf(c) \in Exempt

\* The worker's step was started, and did not end before its calls are made.
HereInv ==
    /\ worker.pc \in {"model", "failStep", "admit", "tools", "closeStep", "resuming"} => Here \in Started
    /\ worker.pc \in {"model", "admit"} => Here \notin Ended \/ Here \in Exempt
    /\ worker.op \notin {"run", "batch", "single"} /\ worker.pc \in {"tools", "closeStep"} =>
          Here \in StepsOf("approval_requested")

\* The worker's calls are of its step.
PlaceInv(c) == Live(c) \/ c \in worker.todo => StepOf(c) = Here

\* The calls of the step of a turn are those of its batch.
OwnInv(c) ==
    /\ Has("tool_call", c) /\ StepOf(c) = Here =>
         /\ worker.pc \in {"model", "failStep"} => Here \in Exempt
         /\ worker.op = "run" /\ worker.pc \in {"admit", "tools", "closeStep"} => c \in worker.batch \/ Here \in Exempt
    /\ worker.pc = "admit" /\ c \in worker.batch /\ Has("tool_call", c) => StepOf(c) = Here

\* A call the registry is done with has its result or was deferred.
DoneInv(c) ==
    task[c] = "settled" =>
        /\ worker.pc \in {"tools", "resuming", "closeStep"}
        /\ \/ Has("result", c)
           \/ LastBarrier(c).type = "deferred" /\ (worker.op = "run" => worker.cont = "deferred")

\* What FinishBatch and FinishResume saw before the step is closed.
CloseInv(c) ==
    worker.pc = "closeStep" =>
        /\ worker.op = "run" /\ c \in worker.batch => Has("result", c)
        /\ worker.op \in {"batch", "single"} /\ Has("deferred", c) /\ StepOf(c) = Here => Has("result", c)

\* A resume follows recovery: a call left behind its barrier is one that asked.
LeftInv(c) ==
    /\ worker.op \in {"batch", "single"} /\ worker.pc \in {"resume", "resuming", "tools", "closeStep"}
    /\ Open(c) /\ ~Live(c)
    => Has("approval_requested", c)

WorkInv(c) == PlaceInv(c) /\ OwnInv(c) /\ DoneInv(c) /\ CloseInv(c) /\ LeftInv(c)
StepCallInv(c) == AskStepInv(c) /\ KindInv(c) /\ ClosedInv(c) /\ WorkInv(c)
StepInv == StartedInv /\ HereInv /\ OutcomesBeforeStepEnd /\ \A c \in Calls : StepCallInv(c)

\* Recovery closes started steps without a deferred call, and gives results in
\* the steps of the calls.
LEMMA RecoverMarks ==
  ASSUME ToolTurnAssumption, TracesInv, Recover
  PROVE  /\ \A t : t \notin {"assistant", "result", "step_end", "turn_end"} => StepsOf(t)' = StepsOf(t)
         /\ \A s \in Ended' : s \in Ended \/ (s \in Started /\ s \notin DeferredSteps)
         /\ Ended \subseteq Ended' /\ Reentered \subseteq Reentered'
         /\ \A c : Has("tool_call", c) => StepOf(c)' = StepOf(c)
         /\ OutcomesBeforeStepEnd /\ (\A c \in Dangling : StepOf(c) \notin Ended \/ StepOf(c) \in Exempt)
              => OutcomesBeforeStepEnd'
  <1> DEFINE evs == RecoveryEvents
             N(t) == {<<evs[k].turn, evs[k].step>> : k \in {j \in DOMAIN evs : evs[j].type = t}}
  <1>0. TypeOK
    BY DEF TracesInv
  <1>1. log' = log \o evs
    BY DEF Recover, Commit
  <1>2. evs \in Seq(Events) /\ AllIn(evs, Repairs) /\ ResultsFirst(evs)
    BY RecoverProps
  <1> HIDE DEF evs
  <1>3. /\ \A t : StepsOf(t)' = StepsOf(t) \cup N(t)
        /\ Reentered \subseteq Reentered'
        /\ \A c : Has("tool_call", c) /\ (\A k \in DOMAIN evs : ~(evs[k].type = "tool_call" /\ evs[k].call = c))
                    => StepOf(c)' = StepOf(c)
    BY <1>0, <1>1, <1>2, StepsGrow
  <1>4. \A k \in DOMAIN evs : evs[k] \in Repairs
    BY <1>2 DEF AllIn
  <1>5. \A k \in DOMAIN evs :
          /\ evs[k].type \in {"assistant", "result", "step_end", "turn_end"}
          /\ evs[k].type = "result" => evs[k].call \in Dangling /\ <<evs[k].turn, evs[k].step>> = StepOf(evs[k].call)
          /\ evs[k].type = "step_end" =>
               \E i \in InterruptedSteps : <<evs[k].turn, evs[k].step>> = <<log[i].turn, log[i].step>>
    BY <1>4 DEF Repairs
  <1>6. ASSUME NEW t, t \notin {"assistant", "result", "step_end", "turn_end"} PROVE StepsOf(t)' = StepsOf(t)
    <2>1. {j \in DOMAIN evs : evs[j].type = t} = {}
      BY <1>5, <1>6
    <2> QED BY <1>3, <2>1
  <1>7. ASSUME NEW s \in Ended' PROVE s \in Ended \/ (s \in Started /\ s \notin DeferredSteps)
    <2>1. s \in Ended \/ s \in N("step_end")
      BY <1>3, <1>7 DEF Ended
    <2>2. ASSUME s \in N("step_end") PROVE s \in Started /\ s \notin DeferredSteps
      <3>1. PICK k \in DOMAIN evs : evs[k].type = "step_end" /\ s = <<evs[k].turn, evs[k].step>>
        BY <2>2
      <3>2. PICK i \in InterruptedSteps : s = <<log[i].turn, log[i].step>>
        BY <1>5, <3>1
      <3> QED BY <3>2 DEF InterruptedSteps, Started, StepsOf
    <2> QED BY <2>1, <2>2
  <1>8. Ended \subseteq Ended'
    BY <1>3 DEF Ended
  <1>9. \A c : Has("tool_call", c) => StepOf(c)' = StepOf(c)
    <2>1. \A k \in DOMAIN evs : evs[k].type # "tool_call"
      BY <1>5
    <2> QED BY <1>3, <2>1
  <1>10. ASSUME OutcomesBeforeStepEnd, \A c \in Dangling : StepOf(c) \notin Ended \/ StepOf(c) \in Exempt
         PROVE  OutcomesBeforeStepEnd'
    <2>1. Exempt \subseteq Exempt'
      BY <1>3 DEF Exempt
    <2>2. ASSUME NEW k \in DOMAIN evs, evs[k].type \in CallTypes
          PROVE  /\ <<evs[k].turn, evs[k].step>> \notin Ended \/ <<evs[k].turn, evs[k].step>> \in Exempt'
                 /\ \A j \in DOMAIN evs : evs[j].type = "step_end" => k < j
      <3>1. evs[k].type = "result"
        BY <1>5, <2>2 DEF CallTypes
      <3>2. evs[k].call \in Dangling /\ <<evs[k].turn, evs[k].step>> = StepOf(evs[k].call)
        BY <1>5, <3>1
      <3>3. \A j \in DOMAIN evs : evs[j].type = "step_end" => k < j
        BY <1>2, <3>1 DEF ResultsFirst
      <3> QED BY <1>10, <2>1, <3>2, <3>3
    <2> QED BY <1>0, <1>1, <1>2, <1>10, <2>2, OutcomesGrow
  <1> QED BY <1>3, <1>6, <1>7, <1>8, <1>9, <1>10

Closing ==
    /\ worker.pc \in {"model", "failStep", "closeStep"}
    /\ worker'.pc \in {"none", "steps", "endTurn"}

\* What a step other than recovery may store: the end of the worker's step, which
\* it leaves then, calls where it makes them, and what is known of a call only
\* while its step is open.
Allowed(T, s) ==
    /\ "step_end" \in T => s = Here /\ Closing
    /\ "tool_call" \in T => s = Here /\ worker.pc = "admit"
    /\ T \cap CallTypes # {} => s \notin Ended \/ s \in Exempt
Marks == \E T, s : Marked(T, s) /\ Allowed(T, s)

LEMMA MarksStill ==
  ASSUME log' = log
  PROVE  Marks
  <1>1. Marked({}, Here)
    BY MarkStill
  <1>2. Allowed({}, Here)
    BY DEF Allowed
  <1> QED BY <1>1, <1>2 DEF Marks

LEMMA MarksOne ==
  ASSUME TypeOK, NEW e \in Events, Commit(<<e>>), e.type \notin CallTypes \cup {"step_end"}
  PROVE  Marks
  <1> DEFINE T == {e.type}
             s == <<e.turn, e.step>>
  <1>1. e.type # "tool_call" /\ "step_end" \notin T /\ "tool_call" \notin T /\ T \cap CallTypes = {}
    BY DEF CallTypes
  <1>2. Marked(T, s)
    BY <1>1, MarkOne
  <1> HIDE DEF T, s
  <1>3. Allowed(T, s)
    BY <1>1 DEF Allowed
  <1> QED BY <1>2, <1>3 DEF Marks

LEMMA MarksEmit ==
  ASSUME TypeOK, NEW t \in EventTypes, NEW d \in 0..NumCalls, NEW x \in Infos, Emit(t, d, x),
         t = "tool_call" => ~Has("tool_call", d) /\ worker.pc = "admit",
         t = "step_end" => Closing,
         t \in CallTypes => Here \notin Ended \/ Here \in Exempt
  PROVE  Marks
  <1> DEFINE T == {t}
  <1>1. Marked(T, Here)
    BY MarkEmit
  <1>2. Allowed(T, Here)
    BY DEF Allowed
  <1> HIDE DEF T
  <1> QED BY <1>1, <1>2 DEF Marks

\* The step of a call the worker holds is open, or an exception.
LEMMA LiveOpen ==
  ASSUME TurnInv, StepInv, NEW c \in Calls,
         Live(c) \/ (c \in worker.todo /\ ~Has("result", c))
  PROVE  /\ Has("tool_call", c) /\ StepOf(c) = Here /\ ~Has("result", c)
         /\ Here \notin Ended \/ Here \in Exempt
  <1>0. TypeOK /\ CallInv(c) /\ TracedInv(c) /\ StepCallInv(c)
    BY DEF TurnInv, BaseInv, TracesInv, StepInv
  <1>1. Has("tool_call", c)
    BY <1>0 DEF TracedInv
  <1>2. StepOf(c) = Here
    BY <1>0 DEF StepCallInv, WorkInv, PlaceInv
  <1>3. ~Has("result", c)
    BY <1>0 DEF CallInv, LiveInv
  <1>4. Live(c) \/ LastBarrier(c).type # "none"
    <2>1. c \in worker.todo => Has("deferred", c)
      BY <1>0 DEF CallInv, TodoInv
    <2>2. Has("deferred", c) => LastBarrier(c).type # "none"
      BY <1>0, BarrierProps DEF Barriers
    <2> QED BY <2>1, <2>2
  <1>5. StepOf(c) \notin Ended \/ StepOf(c) \in Exempt
    BY <1>0, <1>1, <1>3, <1>4 DEF StepCallInv, ClosedInv
  <1> QED BY <1>1, <1>2, <1>3, <1>5

LEMMA RepliesMark ==
  ASSUME ToolTurnAssumption, TypeOK, ModelReplies
  PROVE  Marked({"assistant", "step_end"}, Here)
  <1> DEFINE e1 == Ev("assistant", worker.turn, worker.step, 0, "final")
             e2 == Ev("step_end", worker.turn, worker.step, 0, "")
             evs == <<e1, e2>>
             T == {"assistant", "step_end"}
  <1>1. /\ e1 \in Events /\ e2 \in Events /\ e1.type = "assistant" /\ e2.type = "step_end"
        /\ <<e1.turn, e1.step>> = Here /\ <<e2.turn, e2.step>> = Here
    <2>1. worker.turn \in 0..MaxTurns /\ worker.step \in 0..MaxSteps /\ 0 \in 0..NumCalls
      BY Bounds DEF TypeOK, Workers
    <2> QED BY <2>1 DEF Ev, Events, EventTypes, Infos, Here
  <1>2. log' = log \o evs
    BY DEF ModelReplies, Commit
  <1> HIDE DEF e1, e2
  <1>3. evs \in Seq(Events) /\ DOMAIN evs = {1, 2} /\ evs[1] = e1 /\ evs[2] = e2
    BY <1>1
  <1> HIDE DEF evs
  <1> DEFINE N(t) == {<<evs[k].turn, evs[k].step>> : k \in {j \in DOMAIN evs : evs[j].type = t}}
  <1>4. /\ \A t : StepsOf(t)' = StepsOf(t) \cup N(t)
        /\ Reentered \subseteq Reentered'
        /\ \A c : Has("tool_call", c) /\ (\A k \in DOMAIN evs : ~(evs[k].type = "tool_call" /\ evs[k].call = c))
                    => StepOf(c)' = StepOf(c)
    BY <1>2, <1>3, StepsGrow
  <1>5. \A k \in DOMAIN evs : evs[k].type \in T /\ <<evs[k].turn, evs[k].step>> = Here
    BY <1>1, <1>3
  <1>6. \A t \in T : N(t) = {Here}
    <2> SUFFICES ASSUME NEW t \in T PROVE N(t) = {Here}
      OBVIOUS
    <2>1. \E k \in DOMAIN evs : evs[k].type = t
      BY <1>1, <1>3
    <2> QED BY <1>5, <2>1
  <1>7. \A t : t \notin T => N(t) = {}
    BY <1>5
  <1> HIDE DEF N
  <1>8. \A t : StepsOf(t)' = IF t \in T THEN StepsOf(t) \cup {Here} ELSE StepsOf(t)
    BY <1>4, <1>6, <1>7
  <1>9. \A k \in DOMAIN evs : evs[k].type # "tool_call" /\ evs[k].type \notin CallTypes
    BY <1>5 DEF CallTypes
  <1>10. \A c : Has("tool_call", c) => StepOf(c)' = StepOf(c)
    BY <1>4, <1>9
  <1>11. OutcomesBeforeStepEnd => OutcomesBeforeStepEnd'
    BY <1>2, <1>3, <1>9, OutcomesGrow
  <1> QED BY <1>4, <1>8, <1>10, <1>11 DEF Marked

LEMMA MarksStep ==
  ASSUME ToolTurnAssumption, TurnInv, StepInv, [Next]_vars
  PROVE  Recover \/ Marks
  <1>0. TypeOK
    BY DEF TurnInv, BaseInv, TracesInv
  <1>a. HereInv
    BY DEF StepInv
  <1>b. {"", "draft", "calls", "executed", "materialized"} \subseteq Infos /\ Outcome \subseteq Infos
    BY DEF Infos
  <1>c. 0 \in 0..NumCalls /\ \A c \in Calls : c \in 0..NumCalls
    BY Bounds
  <1>d. worker.turn \in 0..MaxTurns /\ worker.step \in 0..MaxSteps /\ 0 \in 0..MaxTurns /\ 0 \in 0..MaxSteps
    BY <1>0, Bounds DEF TypeOK, Workers
  <1>e. ASSUME NEW c \in Calls, NEW x \in Infos, NEW t \in {"dispatched", "deferred", "result", "resume_started"},
               Emit(t, c, x), Live(c) \/ (c \in worker.todo /\ ~Has("result", c))
        PROVE  Marks
    <2>1. Here \notin Ended \/ Here \in Exempt
      BY <1>e, LiveOpen
    <2>2. t \in EventTypes /\ t # "tool_call" /\ t # "step_end"
      BY DEF EventTypes
    <2> QED BY <1>0, <1>c, <1>e, <2>1, <2>2, MarksEmit
  <1>f. ASSUME NEW x \in Infos, NEW t \in {"chunk", "assistant"}, Emit(t, 0, x) PROVE Marks
    <2>1. t \in EventTypes /\ t \notin CallTypes /\ t # "step_end" /\ t # "tool_call"
      BY DEF EventTypes, CallTypes
    <2> QED BY <1>0, <1>c, <1>f, <2>1, MarksEmit
  <1>g. ASSUME Emit("step_end", 0, ""), Closing PROVE Marks
    <2>1. "step_end" \in EventTypes /\ "step_end" \notin CallTypes
      BY DEF EventTypes, CallTypes
    <2> QED BY <1>0, <1>b, <1>c, <1>g, <2>1, MarksEmit
  <1>1. ASSUME NEW op \in {"run", "batch", "single", "approval"}, Claim(op) PROVE Marks
    BY <1>1, MarksStill DEF Claim
  <1>2. CASE Recover
    BY <1>2
  <1>3. CASE BeginTurn
    <2> DEFINE e == Ev("turn_start", Turns + 1, 0, 0, "")
    <2>0. Turns + 1 \in 0..MaxTurns
      <3> DEFINE S == {i \in DOMAIN log : log[i].type = "turn_start"}
      <3>1. S \in SUBSET DOMAIN log /\ Turns = Cardinality(S)
        BY DEF Turns
      <3> HIDE DEF S
      <3>2. Turns \in Nat /\ Turns < MaxTurns /\ MaxTurns \in Nat
        BY <1>0, <1>3, <3>1, PlacesFinite, Bounds DEF BeginTurn
      <3> QED BY ONLY <3>2, Above
    <2>1. e \in Events /\ e.type \notin CallTypes \cup {"step_end"}
      BY <1>b, <1>c, <1>d, <2>0 DEF Ev, Events, EventTypes, CallTypes
    <2>2. Commit(<<e>>)
      BY <1>3 DEF BeginTurn
    <2> HIDE DEF e
    <2> QED BY <1>0, <2>1, <2>2, MarksOne
  <1>4. CASE Cancel
    BY <1>4, MarksStill DEF Cancel
  <1>5. CASE Crash
    BY <1>5, MarksStill DEF Crash
  <1>6. CASE LoseLease
    BY <1>6, MarksStill DEF LoseLease
  <1>7. CASE StartStep
    <2> DEFINE e == Ev("step_start", worker.turn, worker.step + 1, 0, "")
    <2>0. worker.step + 1 \in 0..MaxSteps
      <3>1. worker.step < MaxSteps
        BY <1>7 DEF StartStep
      <3>2. worker.step \in Nat /\ MaxSteps \in Nat
        BY <1>d, Bounds
      <3> QED BY ONLY <3>1, <3>2, Above
    <2>1. e \in Events /\ e.type \notin CallTypes \cup {"step_end"}
      BY <1>b, <1>c, <1>d, <2>0 DEF Ev, Events, EventTypes, CallTypes
    <2>2. Commit(<<e>>)
      BY <1>7 DEF StartStep
    <2> HIDE DEF e
    <2> QED BY <1>0, <2>1, <2>2, MarksOne
  <1>8. CASE EndTurn
    <2> DEFINE e == Ev("turn_end", worker.turn, 0, 0, "")
    <2>1. e \in Events /\ e.type \notin CallTypes \cup {"step_end"}
      BY <1>b, <1>c, <1>d DEF Ev, Events, EventTypes, CallTypes
    <2>2. Commit(<<e>>)
      BY <1>8 DEF EndTurn
    <2> HIDE DEF e
    <2> QED BY <1>0, <2>1, <2>2, MarksOne
  <1>9. CASE PolicyWait
    BY <1>9, MarksStill DEF PolicyWait
  <1>10. CASE Chunk
    BY <1>10, <1>b, <1>f DEF Chunk
  <1>11. CASE ModelReplies
    <2> DEFINE T == {"assistant", "step_end"}
    <2>1. Marked(T, Here)
      BY <1>0, <1>11, RepliesMark, ToolTurnAssumption
    <2>2. Closing
      BY <1>0, <1>11 DEF ModelReplies, Goto, TypeOK, Workers, Closing
    <2>3. Allowed(T, Here)
      BY <2>2 DEF Allowed, CallTypes
    <2> HIDE DEF T
    <2> QED BY <2>1, <2>3 DEF Marks
  <1>12. CASE StartBatch
    BY <1>12, MarksStill DEF StartBatch
  <1>13. ASSUME NEW b \in BOOLEAN, ModelFails(b) PROVE Marks
    <2>1. log' = log \/ Emit("assistant", 0, "draft")
      BY <1>13 DEF ModelFails
    <2> QED BY <1>b, <1>f, <2>1, MarksStill
  <1>14. ASSUME NEW b \in BOOLEAN, FailStep(b) PROVE Marks
    <2>1. Emit("step_end", 0, "")
      BY <1>14 DEF FailStep
    <2>2. Closing
      BY <1>0, <1>14 DEF FailStep, Goto, TypeOK, Workers, Closing
    <2> QED BY <1>g, <2>1, <2>2
  <1>15. ASSUME NEW n \in 1..MaxBatch, ModelCalls(n) PROVE Marks
    BY <1>15, <1>b, <1>f DEF ModelCalls
  <1>16. ASSUME NEW c \in Calls, Admit(c) PROVE Marks
    <2>1. Emit("tool_call", c, "") /\ worker.pc = "admit" /\ ~Has("tool_call", c)
      BY <1>16 DEF Admit, IsFirst
    <2>2. Here \notin Ended \/ Here \in Exempt
      BY <1>a, <2>1 DEF HereInv
    <2>3. "tool_call" \in EventTypes /\ "tool_call" # "step_end"
      BY DEF EventTypes
    <2> QED BY <1>0, <1>b, <1>c, <2>1, <2>2, <2>3, MarksEmit
  <1>17. ASSUME NEW c \in Calls, Ask(c) PROVE Marks
    <2>1. log' = log \/ Emit("approval_requested", c, "")
      BY <1>17 DEF Ask, Emit
    <2>2. "approval_requested" \in EventTypes /\ "approval_requested" \notin CallTypes
      BY DEF EventTypes, CallTypes
    <2> QED BY <1>0, <1>b, <1>c, <2>1, <2>2, MarksStill, MarksEmit
  <1>18. ASSUME NEW c \in Calls, Answer(c) PROVE Marks
    BY <1>18, MarksStill DEF Answer
  <1>19. ASSUME NEW c \in Calls, ShortCircuit(c) PROVE Marks
    BY <1>19, MarksStill DEF ShortCircuit
  <1>20. ASSUME NEW c \in Calls, Dispatch(c) PROVE Marks
    <2>1. log' = log \/ Emit("dispatched", c, "")
      BY <1>20 DEF Dispatch
    <2>2. Live(c)
      BY <1>20 DEF Dispatch, Admitted, Live
    <2> QED BY <1>b, <1>e, <2>1, <2>2, MarksStill
  <1>21. ASSUME NEW c \in Calls, StartBody(c) PROVE Marks
    BY <1>21, MarksStill DEF StartBody
  <1>22. ASSUME NEW c \in Calls, ZombieStart(c) PROVE Marks
    BY <1>22, MarksStill DEF ZombieStart
  <1>23. ASSUME NEW c \in Calls, Settle(c) PROVE Marks
    <2>1. Emit("deferred", c, "") \/ Emit("result", c, task[c])
      BY <1>23 DEF Settle
    <2>2. Live(c) /\ task[c] \in Infos
      BY <1>23 DEF Settle, IsFirst, Live, Outcome, Infos
    <2> QED BY <1>b, <1>e, <2>1, <2>2
  <1>24. ASSUME NEW c \in Calls, ResumeApprovedTool(c) PROVE Marks
    BY <1>24, MarksStill DEF ResumeApprovedTool
  <1>25. ASSUME NEW c \in Calls, NEW outcome \in {"error", "aborted"}, Refuse(c, outcome) PROVE Marks
    BY <1>25, MarksStill DEF Refuse
  <1>26. ASSUME NEW c \in Calls, NEW outcome \in {"ok", "conclude", "error", "deferred"}, BodyReturns(c, outcome)
        PROVE  Marks
    BY <1>26, MarksStill DEF BodyReturns
  <1>27. ASSUME NEW c \in Calls, NEW outcome \in {"ok", "conclude", "error", "deferred"}, ResumeNext(c, outcome)
        PROVE  Marks
    <2>1. log' = log \/ (~Has("result", c) /\ \E x \in {"materialized", "executed"} : Emit("resume_started", c, x))
      BY <1>27 DEF ResumeNext
    <2>2. c \in worker.todo
      BY <1>27 DEF ResumeNext, IsFirst
    <2> QED BY <1>b, <1>e, <2>1, <2>2, MarksStill
  <1>28. ASSUME NEW c \in Calls, NEW answer \in {"yes", "no"}, Decide(c, answer) PROVE Marks
    <2> DEFINE e == Ev("approval_resolved", 0, 0, c, answer)
    <2>1. answer \in Infos
      BY DEF Infos
    <2>2. e \in Events /\ e.type \notin CallTypes \cup {"step_end"}
      BY <1>c, <1>d, <2>1 DEF Ev, Events, EventTypes, CallTypes
    <2>3. Commit(<<e>>)
      BY <1>28 DEF Decide
    <2> HIDE DEF e
    <2> QED BY <1>0, <2>2, <2>3, MarksOne
  <1>29. CASE FinishBatch
    BY <1>29, MarksStill DEF FinishBatch
  <1>30. CASE CloseStep
    <2>1. log' = log \/ Emit("step_end", 0, "")
      BY <1>30 DEF CloseStep
    <2>2. Closing
      <3>1. worker \in Workers /\ NoWorker.pc = "none" /\ worker.pc = "closeStep"
        BY <1>0, <1>30 DEF CloseStep, NoWorker, TypeOK
      <3>2. CASE worker.cont = "deferred"
        BY <1>30, <3>1, <3>2 DEF CloseStep, Release, Closing
      <3>3. CASE worker.cont # "deferred"
        BY <1>30, <3>1, <3>3 DEF CloseStep, Workers, Closing
      <3> QED BY <3>2, <3>3
    <2> QED BY <1>g, <2>1, <2>2, MarksStill
  <1>31. ASSUME NEW S \in SUBSET Calls, NEW m \in BOOLEAN, PickRequests(S, m) PROVE Marks
    BY <1>31, MarksStill DEF PickRequests
  <1>32. CASE ResumeNothing
    BY <1>32, MarksStill DEF ResumeNothing
  <1>33. CASE FinishResume
    BY <1>33, MarksStill DEF FinishResume
  <1>34. CASE UNCHANGED vars
    BY <1>34, MarksStill DEF vars
  <1> QED
    BY <1>1, <1>2, <1>3, <1>4, <1>5, <1>6, <1>7, <1>8, <1>9, <1>10,
       <1>11, <1>12, <1>13, <1>14, <1>15, <1>16, <1>17, <1>18, <1>19, <1>20,
       <1>21, <1>22, <1>23, <1>24, <1>25, <1>26, <1>27, <1>28, <1>29, <1>30,
       <1>31, <1>32, <1>33, <1>34
    DEF Next

\* What a step leaves of the steps.
LEMMA MarksGrow ==
  ASSUME NEW T, NEW s, Marked(T, s)
  PROVE  /\ Started \subseteq Started' /\ Ended \subseteq Ended' /\ Exempt \subseteq Exempt'
         /\ StepsOf("approval_requested") \subseteq StepsOf("approval_requested")'
         /\ Ended' \subseteq Ended \cup {s} /\ ("step_end" \notin T => Ended' = Ended)
         /\ StepsOf("tool_call")' \subseteq StepsOf("tool_call") \cup {s}
         /\ "tool_call" \notin T => StepsOf("tool_call")' = StepsOf("tool_call")
         /\ \A c : Has("tool_call", c) => StepOf(c)' = StepOf(c)
  BY DEF Marked, Started, Ended, Exempt

\* A call is of a step with calls.
LEMMA CallsStep ==
  ASSUME TypeOK, NEW c, Has("tool_call", c)
  PROVE  StepOf(c) \in StepsOf("tool_call")
  <1> DEFINE m == Max(Positions({"tool_call"}, c))
  <1>1. Positions({"tool_call"}, c) # {} /\ "none" \notin {"tool_call"}
    BY DEF Has
  <1>2. m \in Positions({"tool_call"}, c)
    BY <1>1, LastProps
  <1>3. StepOf(c) = <<log[m].turn, log[m].step>>
    BY DEF StepOf
  <1> HIDE DEF m
  <1>4. m \in DOMAIN log /\ log[m].type = "tool_call"
    BY <1>2 DEF Positions
  <1> QED BY <1>3, <1>4 DEF StepsOf

\* Steps end after they start, and before nothing of their calls.
LEMMA StartedStep ==
  ASSUME ToolTurnAssumption, TurnInv, StepInv, [Next]_vars
  PROVE  StartedInv' /\ OutcomesBeforeStepEnd'
  <1>0. TracesInv /\ TypeOK /\ HereInv /\ StartedInv /\ OutcomesBeforeStepEnd
    BY DEF TurnInv, BaseInv, TracesInv, StepInv
  <1>1. CASE Recover
    <2>1. /\ StepsOf("tool_call")' = StepsOf("tool_call") /\ Started' = Started
          /\ \A s \in Ended' : s \in Ended \/ s \in Started
      BY <1>0, <1>1, RecoverMarks DEF Started
    <2>2. ASSUME NEW c \in Dangling PROVE StepOf(c) \notin Ended \/ StepOf(c) \in Exempt
      <3>1. c \in Calls /\ Behind(c) /\ (FinalInv(c) => ~Has("result", c))
            /\ (Has("dispatched", c) \/ Has("resume_started", c))
        BY <1>0, DanglingProps
      <3>2. FinalInv(c) /\ ClosedInv(c) /\ TracedInv(c)
        BY <1>0, <3>1 DEF TurnInv, CallInv, StepInv, StepCallInv, TracesInv
      <3>3. Has("tool_call", c)
        BY <3>1, <3>2 DEF TracedInv, EventTypes
      <3>4. LastBarrier(c).type # "none"
        BY <3>1 DEF Behind
      <3> QED BY <3>1, <3>2, <3>3, <3>4 DEF ClosedInv
    <2>3. OutcomesBeforeStepEnd'
      BY <1>0, <1>1, <2>2, RecoverMarks
    <2> QED BY <1>0, <2>1, <2>3 DEF StartedInv
  <1>2. CASE Marks
    <2>1. PICK T, s : Marked(T, s) /\ Allowed(T, s)
      BY <1>2 DEF Marks
    <2>2. OutcomesBeforeStepEnd'
      BY <1>0, <2>1, MarksGrow DEF Marked, Allowed
    <2>3. "step_end" \in T \/ "tool_call" \in T => s \in Started
      BY <1>0, <2>1 DEF Allowed, Closing, HereInv
    <2>4. StartedInv'
      BY <1>0, <2>1, <2>3, MarksGrow DEF StartedInv
    <2> QED BY <2>2, <2>4
  <1> QED BY <1>1, <1>2, MarksStep

\* When the worker ends its step, the step's calls have their results, were not
\* taken up and are not, or the step is an exception.
LEMMA ClosingCalls ==
  ASSUME TurnInv, StepInv, worker.pc \in {"model", "failStep", "closeStep"},
         NEW c \in Calls, Has("tool_call", c), StepOf(c) = Here
  PROVE  Has("result", c) \/ (LastBarrier(c).type = "none" /\ ~Live(c)) \/ StepOf(c) \in Exempt
  <1>0. TypeOK /\ CallInv(c) /\ StepCallInv(c) /\ HereInv
    BY DEF TurnInv, BaseInv, TracesInv, StepInv
  <1>1. ~Live(c)
    BY <1>0 DEF CallInv, LiveInv
  <1>2. CASE worker.pc \in {"model", "failStep"}
    BY <1>0, <1>2 DEF StepCallInv, WorkInv, OwnInv
  <1>3. CASE worker.pc = "closeStep" /\ worker.op = "run"
    BY <1>0, <1>3 DEF StepCallInv, WorkInv, OwnInv, CloseInv
  <1>4. CASE worker.pc = "closeStep" /\ worker.op \notin {"run", "batch", "single"}
    BY <1>0, <1>4 DEF HereInv, Exempt
  <1>5. CASE worker.pc = "closeStep" /\ worker.op \in {"batch", "single"}
    <2> SUFFICES ASSUME ~Has("result", c), LastBarrier(c).type # "none" PROVE StepOf(c) \in Exempt
      BY <1>1
    <2>1. ~Has("deferred", c)
      BY <1>0, <1>5 DEF StepCallInv, WorkInv, CloseInv
    <2>2. LastBarrier(c).type \in Barriers \cup {"none"} /\ Has(LastBarrier(c).type, c)
      BY <1>0, BarrierProps
    <2>3. LastBarrier(c).type = "dispatched"
      BY <1>0, <2>1, <2>2 DEF Barriers, CallInv, EventInv
    <2>4. Has("approval_requested", c)
      BY <1>0, <1>1, <1>5, <2>3 DEF StepCallInv, WorkInv, LeftInv, Open, Behind
    <2> QED BY <1>0, <2>4 DEF StepCallInv, AskStepInv, Exempt
  <1> QED BY <1>2, <1>3, <1>4, <1>5

\* A call that is not taken up by the step.
LEMMA ClosedKept ==
  ASSUME TurnInv, StepInv, Marks, NEW c \in Calls,
         Has("tool_call", c)' => Has("tool_call", c), Has("result", c) => Has("result", c)',
         LastBarrier(c).type = "none" /\ ~Live(c) => LastBarrier(c)'.type = "none" /\ ~Live(c)'
  PROVE  ClosedInv(c)'
  <1> SUFFICES ASSUME Has("tool_call", c)', StepOf(c)' \in Ended',
                      ~Has("result", c)', LastBarrier(c)'.type # "none" \/ Live(c)'
               PROVE  StepOf(c)' \in Exempt'
    BY DEF ClosedInv
  <1>1. PICK T, s : Marked(T, s) /\ Allowed(T, s)
    BY DEF Marks
  <1>2. Has("tool_call", c) /\ ~Has("result", c) /\ ~(LastBarrier(c).type = "none" /\ ~Live(c))
    OBVIOUS
  <1>3. StepOf(c)' = StepOf(c) /\ Exempt \subseteq Exempt'
    BY <1>1, <1>2, MarksGrow
  <1>4. CASE StepOf(c) \in Ended
    BY <1>2, <1>3, <1>4 DEF StepInv, StepCallInv, ClosedInv
  <1>5. CASE StepOf(c) \notin Ended
    <2>1. "step_end" \in T /\ StepOf(c) = s
      BY <1>1, <1>3, <1>5, MarksGrow
    <2>2. worker.pc \in {"model", "failStep", "closeStep"} /\ StepOf(c) = Here
      BY <1>1, <2>1 DEF Allowed, Closing
    <2> QED BY <1>2, <1>3, <2>2, ClosingCalls
  <1> QED BY <1>4, <1>5

\* A call of a step that is open, or an exception.
LEMMA ClosedOpen ==
  ASSUME Marks, worker.pc \notin {"model", "failStep", "closeStep"}, NEW c \in Calls,
         Has("tool_call", c), StepOf(c) \notin Ended \/ StepOf(c) \in Exempt
  PROVE  ClosedInv(c)'
  <1>1. PICK T, s : Marked(T, s) /\ Allowed(T, s)
    BY DEF Marks
  <1>2. "step_end" \notin T
    BY <1>1 DEF Allowed, Closing
  <1>3. StepOf(c)' = StepOf(c) /\ Ended' = Ended /\ Exempt \subseteq Exempt'
    BY <1>1, <1>2, MarksGrow
  <1> QED BY <1>3 DEF ClosedInv

LEMMA AskKept ==
  ASSUME Marks, NEW c \in Calls, AskStepInv(c), TracedInv(c),
         Has("approval_requested", c)' => Has("approval_requested", c)
  PROVE  AskStepInv(c)'
  <1>1. PICK T, s : Marked(T, s) /\ Allowed(T, s)
    BY DEF Marks
  <1>2. Has("approval_requested", c) => Has("tool_call", c)
    BY DEF TracedInv, EventTypes
  <1> QED BY <1>1, <1>2, MarksGrow DEF AskStepInv

\* A call that asked for nothing: what recovery reads of it.
LEMMA UnaskedFound ==
  ASSUME TypeOK, NEW c, ~Has("approval_requested", c), ~Has("result", c)
  PROVE  /\ Found(c)
         /\ LastBarrier(c).type \in {"deferred", "resume_started"} =>
              LastOf({"deferred", "resume_started", "result"}, c) = LastBarrier(c)
  <1> DEFINE U == {"dispatched", "deferred", "resume_started", "result", "approval_requested"}
             R == {"deferred", "resume_started"}
             Q == {"deferred", "resume_started", "result"}
  <1>1. Positions(U, c) = Positions(Barriers, c) /\ Positions(Q, c) = Positions(R, c)
    BY DEF Positions, Has, Barriers
  <1>2. LastOf(U, c) = LastBarrier(c) /\ LastOf(Q, c) = LastOf(R, c)
    <2> HIDE DEF U, Q, R
    <2> QED BY <1>1 DEF LastOf, LastBarrier, Barriers
  <1>3. ASSUME LastBarrier(c).type \in R PROVE LastOf(R, c) = LastBarrier(c)
    <2>1. R \subseteq Barriers /\ "none" \notin Barriers /\ LastOf(Barriers, c) = LastBarrier(c)
      BY DEF Barriers, LastBarrier
    <2> HIDE DEF R
    <2> QED BY <1>3, <2>1, LastOfFewer
  <1> QED BY <1>2, <1>3 DEF Found

\* What recovery does for a call: its step stays open or the call gets a result.
LEMMA RecoverClosed ==
  ASSUME ToolTurnAssumption, TurnInv, StepInv, Recover, NEW c \in Calls
  PROVE  /\ AskStepInv(c)' /\ KindInv(c)' /\ ClosedInv(c)'
         /\ Open(c)' => Has("approval_requested", c)'
         /\ Has("tool_call", c) => StepOf(c)' = StepOf(c)
  <1>0. TracesInv /\ TypeOK /\ TracedInv(c) /\ CallInv(c) /\ AskStepInv(c) /\ KindInv(c) /\ ClosedInv(c)
    BY DEF TurnInv, BaseInv, TracesInv, StepInv, StepCallInv
  <1>1. Same(c) \/ Wrote(c, "result", "unknown")
    BY <1>0, RecoverLog
  <1>2. /\ LastBarrier(c)' = LastBarrier(c) /\ (Has("result", c) => Has("result", c)')
        /\ \A t : t # "result" => (Has(t, c)' <=> Has(t, c))
    BY <1>1 DEF Same, Wrote, Barriers
  <1>3. /\ \A t : t \notin {"assistant", "result", "step_end", "turn_end"} => StepsOf(t)' = StepsOf(t)
        /\ \A s \in Ended' : s \in Ended \/ (s \in Started /\ s \notin DeferredSteps)
        /\ Reentered \subseteq Reentered'
        /\ \A x : Has("tool_call", x) => StepOf(x)' = StepOf(x)
    BY <1>0, RecoverMarks
  <1>4. StepsOf("approval_requested")' = StepsOf("approval_requested") /\ Exempt \subseteq Exempt'
    BY <1>3 DEF Exempt
  <1>5. worker.pc = "recover" /\ task' = task
    BY DEF Recover
  <1>6. ~Live(c) /\ ~Live(c)'
    BY <1>0, <1>5 DEF CallInv, LiveInv, Live
  <1>7. Has("approval_requested", c) => Has("tool_call", c)
    BY <1>0 DEF TracedInv, EventTypes
  <1>8. AskStepInv(c)'
    BY <1>0, <1>2, <1>3, <1>4, <1>7 DEF AskStepInv
  <1>9. Open(c)' => Has("approval_requested", c)'
    <2>1. CASE Has("approval_requested", c)
      BY <1>2, <2>1
    <2>2. CASE ~Has("approval_requested", c)
      <3>1. FoundInv(c)
        BY <1>0, <2>2, UnaskedFound DEF FoundInv, Open
      <3> QED BY <3>1, RecoverOpen
    <2> QED BY <2>1, <2>2
  <1>10. ClosedInv(c)'
    <2> SUFFICES ASSUME Has("tool_call", c)', StepOf(c)' \in Ended', ~Has("result", c)', LastBarrier(c)'.type # "none"
                 PROVE  StepOf(c)' \in Exempt'
      BY <1>6 DEF ClosedInv
    <2>1. Has("tool_call", c) /\ StepOf(c)' = StepOf(c) /\ ~Has("result", c) /\ LastBarrier(c).type # "none"
      BY <1>2, <1>3
    <2>2. CASE StepOf(c) \in Ended
      BY <1>0, <1>4, <1>6, <2>1, <2>2 DEF ClosedInv
    <2>3. CASE StepOf(c) \notin DeferredSteps /\ ~Has("approval_requested", c)
      <3>1. ~Pending(c)
        BY <2>3 DEF DeferredSteps
      <3>2. LastBarrier(c).type \in {"deferred", "resume_started"} =>
              LastOf({"deferred", "resume_started", "result"}, c) = LastBarrier(c)
        BY <1>0, <2>1, <2>3, UnaskedFound
      <3>3. LastBarrier(c).type \in Barriers
        BY <1>0, <2>1, BarrierProps
      <3>4. /\ LastBarrier(c).type # "deferred"
            /\ ~(LastBarrier(c).type = "resume_started" /\ LastBarrier(c).info = "materialized")
        BY <3>1, <3>2 DEF Pending
      <3>5. ~Open(c)'
        BY <1>2, <1>9, <2>3
      <3>6. ~Behind(c)
        BY <1>2, <3>5 DEF Open, Behind
      <3>7. LastBarrier(c).type = "resume_started" => LastBarrier(c).info \in {"materialized", "executed"}
        BY <1>0 DEF KindInv
      <3> QED BY <3>3, <3>4, <3>6, <3>7 DEF Behind, Barriers
    <2>4. CASE Has("approval_requested", c)
      BY <1>0, <1>4, <2>1, <2>4 DEF AskStepInv, Exempt
    <2> QED BY <1>3, <2>1, <2>2, <2>3, <2>4
  <1>11. KindInv(c)'
    BY <1>0, <1>2 DEF KindInv
  <1> QED BY <1>3, <1>8, <1>9, <1>10, <1>11

SideInv(c) == AskStepInv(c) /\ KindInv(c) /\ ClosedInv(c)

\* A call that the step says nothing of and does not take up.
LEMMA SideSame ==
  ASSUME TurnInv, StepInv, Marks, NEW c \in Calls, Same(c), Live(c)' => Live(c)
  PROVE  SideInv(c)'
  <1>0. TracedInv(c) /\ AskStepInv(c) /\ KindInv(c)
    BY DEF TurnInv, BaseInv, TracesInv, StepInv, StepCallInv
  <1>1. LastBarrier(c)' = LastBarrier(c) /\ \A t : Has(t, c)' <=> Has(t, c)
    BY DEF Same
  <1>2. ClosedInv(c)'
    BY <1>1, ClosedKept
  <1>3. AskStepInv(c)'
    BY <1>0, <1>1, AskKept
  <1> QED BY <1>0, <1>1, <1>2, <1>3 DEF SideInv, KindInv

\* A call the registry works on.
LEMMA SideLive ==
  ASSUME TurnInv, StepInv, Marks, NEW c \in Calls, Live(c),
         Has("approval_requested", c)' => Has("approval_requested", c),
         LastBarrier(c)' = LastBarrier(c) \/ LastBarrier(c)'.type # "resume_started"
  PROVE  SideInv(c)'
  <1>0. TracedInv(c) /\ AskStepInv(c) /\ KindInv(c) /\ CallInv(c)
    BY DEF TurnInv, BaseInv, TracesInv, StepInv, StepCallInv
  <1>2. /\ Has("tool_call", c) /\ StepOf(c) = Here /\ (Here \notin Ended \/ Here \in Exempt)
        /\ worker.pc = "tools"
    BY <1>0, LiveOpen DEF CallInv, LiveInv
  <1>3. ClosedInv(c)'
    BY <1>2, ClosedOpen
  <1>4. AskStepInv(c)'
    BY <1>0, AskKept
  <1> QED BY <1>0, <1>3, <1>4 DEF SideInv, KindInv

\* The request for an approval is stored in the step of the call.
LEMMA SideAsk ==
  ASSUME ToolTurnAssumption, TurnInv, StepInv, Marks, NEW c \in Calls, Ask(c)
  PROVE  SideInv(c)'
  <1>0. TypeOK /\ TracedInv(c) /\ KindInv(c) /\ CallInv(c) /\ c \in 0..NumCalls
    BY Bounds DEF TurnInv, BaseInv, TracesInv, StepInv, StepCallInv
  <1>1. Live(c) /\ (log' = log \/ Emit("approval_requested", c, ""))
    BY DEF Ask, Emit, Live
  <1>2. CASE log' = log
    <2>1. Same(c)
      BY <1>0, <1>2, StillSame
    <2> QED BY <1>1, <2>1, SideLive DEF Same
  <1>3. CASE Emit("approval_requested", c, "")
    <2>1. "approval_requested" \in EventTypes /\ "" \in Infos /\ "approval_requested" # "tool_call"
      BY DEF EventTypes, Infos
    <2>2. Marked({"approval_requested"}, Here) /\ Wrote(c, "approval_requested", "")
      BY <1>0, <1>3, <2>1, MarkEmit, EmitProps
    <2>3. /\ Has("tool_call", c) /\ StepOf(c) = Here /\ (Here \notin Ended \/ Here \in Exempt)
          /\ worker.pc = "tools"
      BY <1>0, <1>1, LiveOpen DEF CallInv, LiveInv
    <2>4. ClosedInv(c)'
      BY <2>3, ClosedOpen
    <2>5. AskStepInv(c)'
      BY <2>2, <2>3 DEF AskStepInv, Marked
    <2>6. KindInv(c)'
      BY <1>0, <2>2 DEF KindInv, Wrote, Barriers
    <2> QED BY <2>4, <2>5, <2>6 DEF SideInv
  <1> QED BY <1>1, <1>2, <1>3

LEMMA SideStep ==
  ASSUME ToolTurnAssumption, TurnInv, StepInv, [Next]_vars, NEW d \in Calls
  PROVE  SideInv(d)'
  <1>0. TypeOK /\ TracesInv /\ HereInv
    BY DEF TurnInv, BaseInv, TracesInv, StepInv
  <1>a. Recover \/ Marks
    BY MarksStep
  <1>b. CallInv(d) /\ TracedInv(d) /\ StepCallInv(d)
    BY DEF TurnInv, BaseInv, TracesInv, StepInv
  <1>2. CASE Recover
    BY <1>2, RecoverClosed DEF SideInv
  <1>m. SUFFICES ASSUME Marks PROVE SideInv(d)'
    BY <1>2, <1>a
  <1>c. ASSUME Steady(d) PROVE SideInv(d)'
    <2>1. Same(d) /\ (Live(d)' => Live(d))
      BY <1>c DEF Steady, Live
    <2> QED BY <1>m, <2>1, SideSame
  <1>d. ASSUME Same(d), task' = task \/ task' = NoTasks PROVE SideInv(d)'
    <2>1. Live(d)' => Live(d)
      BY <1>d DEF NoTasks, Live
    <2> QED BY <1>m, <1>d, <2>1, SideSame
  <1>e. ASSUME log' = log PROVE Same(d)
    BY <1>e, <1>0, StillSame
  <1>f. ASSUME NEW c \in Calls, d # c,
               \/ Admit(c) \/ Ask(c) \/ Answer(c) \/ ShortCircuit(c) \/ Dispatch(c)
               \/ StartBody(c) \/ ZombieStart(c) \/ Settle(c) \/ ResumeApprovedTool(c)
               \/ \E outcome \in {"error", "aborted"} : Refuse(c, outcome)
               \/ \E outcome \in {"ok", "conclude", "error", "deferred"} :
                    BodyReturns(c, outcome) \/ ResumeNext(c, outcome)
               \/ \E answer \in {"yes", "no"} : Decide(c, answer)
        PROVE  SideInv(d)'
    BY <1>0, <1>c, <1>f, OthersSteady
  <1>1. ASSUME NEW op \in {"run", "batch", "single", "approval"}, Claim(op) PROVE SideInv(d)'
    BY <1>1, <1>0, <1>c, SteadySteps
  <1>3. CASE BeginTurn
    BY <1>3, <1>0, <1>c, SteadySteps
  <1>4. CASE Cancel
    BY <1>4, <1>0, <1>c, SteadySteps
  <1>5. CASE Crash
    BY <1>5, <1>0, <1>c, SteadySteps
  <1>6. CASE LoseLease
    <2>1. Same(d) /\ task' = NoTasks
      BY <1>6, <1>0, QuietSteps DEF Quiet, LoseLease, Release
    <2> QED BY <1>d, <2>1
  <1>7. CASE StartStep
    BY <1>7, <1>0, <1>c, SteadySteps
  <1>8. CASE EndTurn
    BY <1>8, <1>0, <1>c, SteadySteps
  <1>9. CASE PolicyWait
    BY <1>9, <1>0, <1>c, SteadySteps
  <1>10. CASE Chunk
    BY <1>10, <1>0, <1>c, SteadySteps
  <1>11. CASE ModelReplies
    BY <1>11, <1>0, <1>c, SteadySteps
  <1>12. CASE StartBatch
    <2>1. log' = log /\ worker.pc = "admit"
      BY <1>12 DEF StartBatch
    <2>2. Same(d)
      BY <1>e, <2>1
    <2>3. CASE d \in worker.batch
      <3>1. Has("tool_call", d) /\ StepOf(d) = Here
        BY <1>12, <1>b, <2>1, <2>3 DEF StartBatch, StepCallInv, WorkInv, OwnInv
      <3>2. Here \notin Ended \/ Here \in Exempt
        BY <1>0, <2>1 DEF HereInv
      <3>3. ClosedInv(d)'
        BY <1>m, <2>1, <3>1, <3>2, ClosedOpen
      <3>4. AskStepInv(d)'
        BY <1>b, <1>m, <2>2, AskKept DEF Same, StepCallInv
      <3> QED BY <1>b, <2>2, <3>3, <3>4 DEF SideInv, Same, StepCallInv, KindInv
    <2>4. CASE d \notin worker.batch
      <3>1. ~Live(d)'
        BY <1>12, <2>4 DEF StartBatch, Live
      <3> QED BY <1>m, <2>2, <3>1, SideSame
    <2> QED BY <2>3, <2>4
  <1>13. ASSUME NEW b \in BOOLEAN, ModelFails(b) PROVE SideInv(d)'
    BY <1>13, <1>0, <1>c, SteadySteps
  <1>14. ASSUME NEW b \in BOOLEAN, FailStep(b) PROVE SideInv(d)'
    BY <1>14, <1>0, <1>c, SteadySteps
  <1>15. ASSUME NEW n \in 1..MaxBatch, ModelCalls(n) PROVE SideInv(d)'
    BY <1>15, <1>0, <1>c, SteadySteps
  <1>16. ASSUME NEW c \in Calls, Admit(c) PROVE SideInv(d)'
    <2>1. CASE d = c
      <3>1. Emit("tool_call", d, "") /\ worker.pc = "admit" /\ ~Has("tool_call", d)
        BY <1>16, <2>1 DEF Admit, IsFirst
      <3>2. "tool_call" \in EventTypes /\ "" \in Infos /\ d \in 0..NumCalls
        BY Bounds DEF EventTypes, Infos
      <3>3. Marked({"tool_call"}, Here) /\ StepOf(d)' = Here
        BY <1>0, <3>1, <3>2, MarkEmit
      <3>4. Wrote(d, "tool_call", "")
        BY <1>0, <1>16, <2>1, AdmitLog
      <3>5. Here \notin Ended \/ Here \in Exempt
        BY <1>0, <3>1 DEF HereInv
      <3>6. Ended' = Ended /\ Exempt \subseteq Exempt'
        BY <3>3, MarksGrow
      <3>7. ClosedInv(d)'
        BY <3>3, <3>5, <3>6 DEF ClosedInv
      <3>8. AskStepInv(d)'
        BY <1>b, <1>m, <3>4, AskKept DEF Wrote, StepCallInv
      <3>9. KindInv(d)'
        BY <1>b, <3>4 DEF StepCallInv, KindInv, Wrote, Barriers
      <3> QED BY <3>7, <3>8, <3>9 DEF SideInv
    <2> QED BY <1>16, <1>f, <2>1
  <1>17. ASSUME NEW c \in Calls, Ask(c) PROVE SideInv(d)'
    <2>1. CASE d = c
      BY <1>17, <1>m, <2>1, SideAsk
    <2> QED BY <1>17, <1>f, <2>1
  <1>18. ASSUME NEW c \in Calls, Answer(c) PROVE SideInv(d)'
    <2>1. CASE d = c
      <3>1. Live(d) /\ log' = log
        BY <1>18, <2>1 DEF Answer, Live
      <3> QED BY <1>m, <1>e, <3>1, SideLive DEF Same
    <2> QED BY <1>18, <1>f, <2>1
  <1>19. ASSUME NEW c \in Calls, ShortCircuit(c) PROVE SideInv(d)'
    <2>1. CASE d = c
      <3>1. Live(d) /\ log' = log
        BY <1>19, <2>1 DEF ShortCircuit, Admitted, Live
      <3> QED BY <1>m, <1>e, <3>1, SideLive DEF Same
    <2> QED BY <1>19, <1>f, <2>1
  <1>20. ASSUME NEW c \in Calls, Dispatch(c) PROVE SideInv(d)'
    <2>1. CASE d = c
      <3>1. Live(d)
        BY <1>20, <2>1 DEF Dispatch, Admitted, Live
      <3>2. Same(d) \/ Wrote(d, "dispatched", "")
        BY <1>0, <1>20, <2>1, DispatchLog
      <3>3. /\ Has("approval_requested", d)' => Has("approval_requested", d)
            /\ LastBarrier(d)' = LastBarrier(d) \/ LastBarrier(d)'.type # "resume_started"
        BY <3>2 DEF Same, Wrote, Barriers
      <3> QED BY <1>m, <3>1, <3>3, SideLive
    <2> QED BY <1>20, <1>f, <2>1
  <1>21. ASSUME NEW c \in Calls, StartBody(c) PROVE SideInv(d)'
    <2>1. CASE d = c
      <3>1. Live(d) /\ log' = log
        BY <1>21, <2>1 DEF StartBody, Live
      <3> QED BY <1>m, <1>e, <3>1, SideLive DEF Same
    <2> QED BY <1>21, <1>f, <2>1
  <1>22. ASSUME NEW c \in Calls, ZombieStart(c) PROVE SideInv(d)'
    BY <1>22, <1>d, <1>e DEF ZombieStart
  <1>23. ASSUME NEW c \in Calls, Settle(c) PROVE SideInv(d)'
    <2>1. CASE d = c
      <3>1. Live(d)
        BY <1>23, <2>1 DEF Settle, IsFirst, Live, Outcome
      <3>2. Wrote(d, "deferred", "") \/ Wrote(d, "result", task[d])
        BY <1>0, <1>23, <2>1, SettleLog
      <3>3. /\ Has("approval_requested", d)' => Has("approval_requested", d)
            /\ LastBarrier(d)' = LastBarrier(d) \/ LastBarrier(d)'.type # "resume_started"
        BY <3>2 DEF Wrote, Barriers
      <3> QED BY <1>m, <3>1, <3>3, SideLive
    <2> QED BY <1>23, <1>f, <2>1
  <1>24. ASSUME NEW c \in Calls, ResumeApprovedTool(c) PROVE SideInv(d)'
    <2>1. CASE d = c
      <3>1. log' = log /\ Decided(d) /\ worker.pc = "approve"
        BY <1>24, <2>1 DEF ResumeApprovedTool
      <3>2. Has("approval_requested", d)
        BY <1>b, <3>1 DEF CallInv, EventInv
      <3>3. Has("tool_call", d) /\ StepOf(d) \in Exempt
        BY <1>b, <3>2 DEF TracedInv, EventTypes, StepCallInv, AskStepInv, Exempt
      <3>4. Same(d)
        BY <1>e, <3>1
      <3>5. ClosedInv(d)'
        BY <1>m, <3>1, <3>3, ClosedOpen
      <3>6. AskStepInv(d)'
        BY <1>b, <1>m, <3>4, AskKept DEF Same, StepCallInv
      <3> QED BY <1>b, <3>4, <3>5, <3>6 DEF SideInv, Same, StepCallInv, KindInv
    <2> QED BY <1>24, <1>f, <2>1
  <1>25. ASSUME NEW c \in Calls, NEW outcome \in {"error", "aborted"}, Refuse(c, outcome) PROVE SideInv(d)'
    <2>1. CASE d = c
      <3>1. Live(d) /\ log' = log
        BY <1>25, <2>1 DEF Refuse, Live, Undispatched
      <3> QED BY <1>m, <1>e, <3>1, SideLive DEF Same
    <2> QED BY <1>25, <1>f, <2>1
  <1>26. ASSUME NEW c \in Calls, NEW outcome \in {"ok", "conclude", "error", "deferred"}, BodyReturns(c, outcome)
        PROVE  SideInv(d)'
    <2>1. CASE d = c
      <3>1. Live(d) /\ log' = log
        BY <1>26, <2>1 DEF BodyReturns, Live
      <3> QED BY <1>m, <1>e, <3>1, SideLive DEF Same
    <2> QED BY <1>26, <1>f, <2>1
  <1>27. ASSUME NEW c \in Calls, NEW outcome \in {"ok", "conclude", "error", "deferred"}, ResumeNext(c, outcome)
        PROVE  SideInv(d)'
    <2>1. CASE d = c /\ Has("result", d)
      <3>1. log' = log /\ task' = task
        BY <1>27, <2>1 DEF ResumeNext
      <3> QED BY <1>d, <1>e, <3>1
    <2>2. CASE d = c /\ ~Has("result", d)
      <3>1. worker.pc = "resuming" /\ d \in worker.todo
        BY <1>27, <2>2 DEF ResumeNext, IsFirst
      <3>2. Has("tool_call", d) /\ StepOf(d) = Here /\ (Here \notin Ended \/ Here \in Exempt)
        BY <2>2, <3>1, LiveOpen
      <3>3. Same(d) \/ \E x \in {"materialized", "executed"} : Wrote(d, "resume_started", x)
        BY <1>0, <1>27, <2>2, ResumeLog
      <3>4. ClosedInv(d)'
        BY <1>m, <3>1, <3>2, ClosedOpen
      <3>5. Has("approval_requested", d)' <=> Has("approval_requested", d)
        BY <3>3 DEF Same, Wrote
      <3>6. AskStepInv(d)'
        BY <1>b, <1>m, <3>5, AskKept DEF StepCallInv
      <3>7. KindInv(d)'
        BY <1>b, <3>3 DEF StepCallInv, KindInv, Same, Wrote, Barriers
      <3> QED BY <3>4, <3>6, <3>7 DEF SideInv
    <2> QED BY <1>27, <1>f, <2>1, <2>2
  <1>28. ASSUME NEW c \in Calls, NEW answer \in {"yes", "no"}, Decide(c, answer) PROVE SideInv(d)'
    <2>1. CASE d = c
      <3>1. Wrote(d, "approval_resolved", answer)
        BY <1>0, <1>28, <2>1, DecideLog
      <3>2. task' = task
        BY <1>28 DEF Decide
      <3>3. LastBarrier(d)' = LastBarrier(d) /\ \A t : t # "approval_resolved" => (Has(t, d)' <=> Has(t, d))
        BY <3>1 DEF Wrote, Barriers
      <3>4. ClosedInv(d)'
        BY <1>m, <3>2, <3>3, ClosedKept DEF Live
      <3>5. AskStepInv(d)'
        BY <1>b, <1>m, <3>3, AskKept DEF StepCallInv
      <3> QED BY <1>b, <3>3, <3>4, <3>5 DEF SideInv, StepCallInv, KindInv
    <2> QED BY <1>28, <1>f, <2>1
  <1>29. CASE FinishBatch
    BY <1>29, <1>0, <1>c, SteadySteps
  <1>30. CASE CloseStep
    BY <1>30, <1>0, <1>c, SteadySteps
  <1>31. ASSUME NEW S \in SUBSET Calls, NEW m \in BOOLEAN, PickRequests(S, m) PROVE SideInv(d)'
    <2>1. log' = log /\ task' = task
      BY <1>31 DEF PickRequests
    <2> QED BY <1>d, <1>e, <2>1
  <1>32. CASE ResumeNothing
    BY <1>32, <1>0, <1>c, SteadySteps
  <1>33. CASE FinishResume
    BY <1>33, <1>0, <1>c, SteadySteps
  <1>34. CASE UNCHANGED vars
    BY <1>34, <1>0, <1>c, SteadySteps
  <1> QED
    BY <1>1, <1>2, <1>3, <1>4, <1>5, <1>6, <1>7, <1>8, <1>9, <1>10,
       <1>11, <1>12, <1>13, <1>14, <1>15, <1>16, <1>17, <1>18, <1>19, <1>20,
       <1>21, <1>22, <1>23, <1>24, <1>25, <1>26, <1>27, <1>28, <1>29, <1>30,
       <1>31, <1>32, <1>33, <1>34
    DEF Next

-----------------------------------------------------------------------------
(* The worker and its step. *)

AtStep == {"model", "failStep", "admit", "tools", "closeStep", "resuming"}

\* Away from the tools the registry has no call.
LEMMA Idle ==
  ASSUME TurnInv, StepInv, worker.pc \notin {"tools", "resuming", "closeStep"}, NEW c \in Calls
  PROVE  task[c] = "none"
  BY DEF TurnInv, CallInv, LiveInv, Live, StepInv, StepCallInv, WorkInv, DoneInv

\* A worker between steps, and no worker.
LEMMA OffStep ==
  ASSUME worker'.pc \notin AtStep \cup {"resume"}, worker'.todo = {}, NEW c, task'[c] = "none"
  PROVE  HereInv' /\ WorkInv(c)'
  BY DEF AtStep, HereInv, WorkInv, PlaceInv, OwnInv, DoneInv, CloseInv, LeftInv, Live

LEMMA GoneStep ==
  ASSUME worker' = NoWorker, NEW c \in Calls, task' = NoTasks
  PROVE  HereInv' /\ WorkInv(c)'
  BY OffStep DEF NoWorker, NoTasks, AtStep

\* A worker that stays in its step.
LEMMA HereKept ==
  ASSUME HereInv, Marks, Here' = Here, worker'.op = worker.op,
         worker'.pc \in AtStep => worker.pc \in AtStep,
         worker'.pc \in {"model", "admit"} => worker.pc \in {"model", "admit"},
         worker'.pc \in {"tools", "closeStep"} =>
             worker.pc \in {"tools", "closeStep"} \/ worker.op \in {"run", "batch", "single"}
  PROVE  HereInv'
  <1>1. PICK T, s : Marked(T, s) /\ Allowed(T, s)
    BY DEF Marks
  <1>2. /\ Started \subseteq Started' /\ Exempt \subseteq Exempt'
        /\ StepsOf("approval_requested") \subseteq StepsOf("approval_requested")'
        /\ "step_end" \notin T => Ended' = Ended
    BY <1>1, MarksGrow
  <1>3. "step_end" \in T => worker'.pc \notin AtStep
    BY <1>1 DEF Allowed, Closing, AtStep
  <1> QED BY <1>2, <1>3 DEF HereInv, AtStep

LEMMA MarksCall ==
  ASSUME Marks
  PROVE  /\ \A c : Has("tool_call", c) => StepOf(c)' = StepOf(c)
         /\ Exempt \subseteq Exempt'
  BY MarksGrow DEF Marks

\* A call that only stays where it was.
LEMMA WorkKept ==
  ASSUME TurnInv, StepInv, Marks, NEW c \in Calls,
         worker'.pc = worker.pc, worker'.op = worker.op, Here' = Here, worker'.batch = worker.batch,
         worker'.todo = worker.todo, worker.cont = "deferred" => worker'.cont = "deferred",
         task'[c] = task[c], LastBarrier(c)' = LastBarrier(c),
         \A t \in {"tool_call", "deferred", "result"} : Has(t, c)' <=> Has(t, c),
         Has("approval_requested", c) => Has("approval_requested", c)'
  PROVE  HereInv' /\ WorkInv(c)'
  <1>0. WorkInv(c) /\ TracedInv(c) /\ HereInv
    BY DEF TurnInv, BaseInv, TracesInv, StepInv, StepCallInv
  <1>1. /\ Has("tool_call", c) => StepOf(c)' = StepOf(c)
        /\ Exempt \subseteq Exempt'
    BY MarksCall
  <1>2. HereInv'
    BY <1>0, HereKept
  <1>3. PlaceInv(c)'
    BY <1>0, <1>1 DEF WorkInv, PlaceInv, TracedInv, Live
  <1>4. OwnInv(c)'
    BY <1>0, <1>1 DEF WorkInv, OwnInv
  <1>5. DoneInv(c)'
    BY <1>0 DEF WorkInv, DoneInv
  <1>6. CloseInv(c)'
    <2>1. Has("deferred", c) => Has("tool_call", c)
      BY <1>0 DEF TracedInv, EventTypes
    <2> QED BY <1>0, <1>1, <2>1 DEF WorkInv, CloseInv
  <1>7. LeftInv(c)'
    BY <1>0 DEF WorkInv, LeftInv, Open, Behind, Live
  <1> QED BY <1>2, <1>3, <1>4, <1>5, <1>6, <1>7 DEF WorkInv

\* A call the registry works on, before and after.
LEMMA WorkLive ==
  ASSUME TurnInv, StepInv, Marks, NEW c \in Calls, worker' = worker, Live(c), Live(c)'
  PROVE  HereInv' /\ WorkInv(c)'
  <1>0. WorkInv(c) /\ TracedInv(c) /\ CallInv(c) /\ HereInv
    BY DEF TurnInv, BaseInv, TracesInv, StepInv, StepCallInv
  <1>1. StepOf(c)' = Here /\ Here' = Here
    BY <1>0, LiveOpen, MarksCall DEF Here
  <1>2. worker.pc = "tools" /\ c \in worker.batch
    BY <1>0 DEF CallInv, LiveInv
  <1>3. HereInv'
    BY <1>0, <1>1, HereKept
  <1> QED BY <1>1, <1>2, <1>3 DEF WorkInv, PlaceInv, OwnInv, DoneInv, CloseInv, LeftInv, Live

\* A new step, unless it was there already.
LEMMA HereStart ==
  ASSUME ToolTurnAssumption, TurnInv, StepInv, StartStep
  PROVE  /\ HereInv' /\ worker'.pc = "model" /\ worker'.todo = {} /\ worker.pc = "steps"
         /\ Here' \in Started => Here' \in Exempt'
         /\ \A c : Has("tool_call", c) => StepOf(c)' = StepOf(c)
  <1>0. TypeOK /\ WorkerInv /\ StartedInv
    BY DEF TurnInv, BaseInv, TracesInv, StepInv
  <1> DEFINE e == Ev("step_start", worker.turn, worker.step + 1, 0, "")
             s == <<worker.turn, worker.step + 1>>
             x == ""
  <1>1. worker \in Workers /\ worker.pc = "steps" /\ worker.op = "run" /\ worker.todo = {}
    BY <1>0 DEF TypeOK, WorkerInv, StartStep
  <1>2. worker'.pc = "model" /\ worker'.op = "run" /\ worker'.todo = {} /\ Here' = s
    BY <1>1 DEF StartStep, Workers, Here
  <1>3. e \in Events /\ Commit(<<e>>) /\ e.type = "step_start" /\ <<e.turn, e.step>> = s
    <2>0. worker.step + 1 \in 0..MaxSteps
      <3>1. worker.step < MaxSteps
        BY DEF StartStep
      <3>2. worker.step \in Nat /\ MaxSteps \in Nat
        BY <1>1, Bounds DEF Workers
      <3> QED BY ONLY <3>1, <3>2, Above
    <2>1. worker.turn \in 0..MaxTurns /\ 0 \in 0..NumCalls /\ x \in Infos /\ "step_start" \in EventTypes
      BY <1>1, Bounds DEF Workers, Infos, EventTypes
    <2>2. Commit(<<e>>)
      BY DEF StartStep
    <2> HIDE DEF x
    <2>3. Ev("step_start", worker.turn, worker.step + 1, 0, x) \in Events
      BY <2>0, <2>1 DEF Ev, Events
    <2>4. e \in Events
      BY <2>3 DEF x
    <2> QED BY <2>2, <2>4 DEF Ev
  <1> HIDE DEF e
  <1>4. Marked({"step_start"}, s) /\ (s \in Started => s \in Reentered')
    BY <1>0, <1>3, MarkOne
  <1>5. Started' = Started \cup {s} /\ Ended' = Ended
    BY <1>4 DEF Marked, Started, Ended
  <1> HIDE DEF s
  <1>6. HereInv'
    BY <1>0, <1>2, <1>4, <1>5 DEF HereInv, StartedInv, Exempt
  <1> QED BY <1>1, <1>2, <1>4, <1>6 DEF Marked, Exempt

LEMMA WorkStart ==
  ASSUME ToolTurnAssumption, TurnInv, StepInv, StartStep, NEW c \in Calls
  PROVE  HereInv' /\ WorkInv(c)'
  <1>0. TypeOK /\ StartedInv
    BY DEF TurnInv, BaseInv, TracesInv, StepInv
  <1>1. Has("tool_call", c)' <=> Has("tool_call", c)
    BY <1>0, SteadySteps DEF Steady, Same
  <1>2. task'[c] = "none"
    BY HereStart, Idle DEF StartStep
  <1>3. ASSUME Has("tool_call", c)', StepOf(c)' = Here' PROVE Here' \in Exempt'
    <2>1. Has("tool_call", c) /\ StepOf(c)' = StepOf(c)
      BY <1>1, <1>3, HereStart
    <2>2. StepOf(c) \in Started
      BY <1>0, <2>1, CallsStep DEF StartedInv
    <2> QED BY <1>3, <2>1, <2>2, HereStart
  <1> QED BY <1>2, <1>3, HereStart DEF WorkInv, PlaceInv, OwnInv, DoneInv, CloseInv, LeftInv, Live

\* Recovery leaves a call behind its barrier only if that call asked.
LEMMA WorkRecover ==
  ASSUME ToolTurnAssumption, TurnInv, StepInv, Recover, NEW c \in Calls
  PROVE  HereInv' /\ WorkInv(c)'
  <1>0. worker \in Workers /\ WorkerInv /\ StepCallInv(c) /\ TracedInv(c)
    BY DEF TurnInv, BaseInv, TracesInv, TypeOK, StepInv
  <1>1. task'[c] = "none"
    BY Idle DEF Recover
  <1>2. CASE worker.op = "run"
    <2>1. worker'.pc = "begin" /\ worker'.todo = {}
      BY <1>0, <1>2 DEF Recover, Goto, Workers, WorkerInv
    <2> QED BY <1>1, <2>1, OffStep DEF AtStep
  <1>3. CASE worker.op # "run"
    <2>1. worker'.pc = "resume" /\ worker'.todo = worker.todo /\ Here' = Here
      BY <1>0, <1>3 DEF Recover, Goto, Workers, Here
    <2>2. /\ Open(c)' => Has("approval_requested", c)'
          /\ Has("tool_call", c) => StepOf(c)' = StepOf(c)
      BY RecoverClosed
    <2> QED BY <1>0, <1>1, <2>1, <2>2 DEF HereInv, StepCallInv, WorkInv, PlaceInv, OwnInv, DoneInv, CloseInv,
               LeftInv, Live, TracedInv
  <1> QED BY <1>2, <1>3

LEMMA WorkFails ==
  ASSUME ToolTurnAssumption, TurnInv, StepInv, Marks, NEW b \in BOOLEAN, ModelFails(b), NEW c \in Calls
  PROVE  HereInv' /\ WorkInv(c)'
  <1>0. worker \in Workers /\ TypeOK /\ WorkerInv /\ StepCallInv(c) /\ HereInv
    BY DEF TurnInv, BaseInv, TracesInv, TypeOK, StepInv
  <1>1. worker.pc = "model" /\ worker.op = "run" /\ worker.todo = {} /\ task' = task
    BY <1>0 DEF ModelFails, WorkerInv
  <1>2. worker'.pc = "failStep" /\ worker'.op = "run" /\ worker'.todo = {} /\ Here' = Here
    BY <1>0, <1>1 DEF ModelFails, Goto, Workers, Here
  <1>3. task'[c] = "none"
    BY <1>1, Idle
  <1>4. Has("tool_call", c)' <=> Has("tool_call", c)
    BY <1>0, SteadySteps DEF Steady, Same
  <1>5. (Has("tool_call", c) => StepOf(c)' = StepOf(c)) /\ Exempt \subseteq Exempt'
    BY MarksCall
  <1>6. HereInv'
    BY <1>0, <1>1, <1>2, HereKept DEF AtStep
  <1>7. OwnInv(c)'
    BY <1>0, <1>1, <1>2, <1>4, <1>5 DEF StepCallInv, WorkInv, OwnInv
  <1> QED BY <1>2, <1>3, <1>6, <1>7 DEF WorkInv, PlaceInv, DoneInv, CloseInv, LeftInv, Live

\* The calls of the new batch are new.
LEMMA WorkCalls ==
  ASSUME ToolTurnAssumption, TurnInv, StepInv, Marks, NEW n \in 1..MaxBatch, ModelCalls(n), NEW c \in Calls
  PROVE  HereInv' /\ WorkInv(c)'
  <1>0. worker \in Workers /\ TypeOK /\ WorkerInv /\ StepCallInv(c) /\ HereInv /\ FreshInv(c) /\ used \in Int /\ c \in Int
    BY Bounds DEF TurnInv, BaseInv, TracesInv, TypeOK, StepInv, CallInv
  <1>1. worker.pc = "model" /\ worker.op = "run" /\ worker.todo = {} /\ task' = task
    BY <1>0 DEF ModelCalls, WorkerInv
  <1>2. /\ worker'.pc = "admit" /\ worker'.op = "run" /\ worker'.todo = {} /\ Here' = Here
        /\ worker'.batch = (used + 1)..(used + n)
    BY <1>0, <1>1 DEF ModelCalls, Workers, Here
  <1>3. task'[c] = "none"
    BY <1>1, Idle
  <1>4. Has("tool_call", c)' <=> Has("tool_call", c)
    BY <1>0, SteadySteps DEF Steady, Same
  <1>5. (Has("tool_call", c) => StepOf(c)' = StepOf(c)) /\ Exempt \subseteq Exempt'
    BY MarksCall
  <1>6. HereInv'
    BY <1>0, <1>1, <1>2, HereKept DEF AtStep
  <1>7. c \in worker'.batch => ~Has("tool_call", c)
    <2>1. c \in worker'.batch => c > used
      BY <1>0, <1>2
    <2>2. "tool_call" \in EventTypes
      BY DEF EventTypes
    <2> QED BY <1>0, <2>1, <2>2 DEF FreshInv
  <1>8. OwnInv(c)'
    BY <1>0, <1>1, <1>2, <1>4, <1>5, <1>7 DEF StepCallInv, WorkInv, OwnInv
  <1> QED BY <1>2, <1>3, <1>6, <1>8 DEF WorkInv, PlaceInv, DoneInv, CloseInv, LeftInv, Live

LEMMA WorkBatch ==
  ASSUME ToolTurnAssumption, TurnInv, StepInv, Marks, StartBatch, NEW c \in Calls
  PROVE  HereInv' /\ WorkInv(c)'
  <1>0. worker \in Workers /\ TypeOK /\ WorkerInv /\ StepCallInv(c) /\ HereInv
    BY DEF TurnInv, BaseInv, TracesInv, TypeOK, StepInv
  <1>1. worker.pc = "admit" /\ worker.op = "run" /\ worker.todo = {} /\ log' = log
    BY <1>0 DEF StartBatch, WorkerInv
  <1>2. /\ worker'.pc = "tools" /\ worker'.op = "run" /\ worker'.todo = {} /\ Here' = Here
        /\ worker'.batch = worker.batch
    BY <1>0, <1>1 DEF StartBatch, Goto, Workers, Here
  <1>3. task'[c] # "settled" /\ (Live(c)' => c \in worker.batch /\ Has("tool_call", c))
    BY DEF StartBatch, Live
  <1>4. Same(c)
    BY <1>1, StillSame
  <1>5. (Has("tool_call", c) => StepOf(c)' = StepOf(c)) /\ Exempt \subseteq Exempt'
    BY MarksCall
  <1>6. HereInv'
    BY <1>0, <1>1, <1>2, HereKept DEF AtStep
  <1>7. OwnInv(c)'
    BY <1>0, <1>1, <1>2, <1>4, <1>5 DEF StepCallInv, WorkInv, OwnInv, Same
  <1>8. PlaceInv(c)'
    BY <1>0, <1>1, <1>2, <1>3, <1>5 DEF StepCallInv, WorkInv, OwnInv, PlaceInv
  <1> QED BY <1>2, <1>3, <1>6, <1>7, <1>8 DEF WorkInv, DoneInv, CloseInv, LeftInv

\* Settling a call: it has its result, or the batch waits.
LEMMA WorkSettle ==
  ASSUME ToolTurnAssumption, TurnInv, StepInv, Marks, NEW c \in Calls, Settle(c)
  PROVE  HereInv' /\ WorkInv(c)'
  <1>0. worker \in Workers /\ task \in [Calls -> Tasks] /\ TypeOK /\ CallInv(c) /\ HereInv
    BY DEF TurnInv, BaseInv, TracesInv, TypeOK, StepInv
  <1>1. Live(c) /\ worker.pc = "tools" /\ c \in worker.batch
    BY DEF Settle, IsFirst, Live, Outcome
  <1>2. /\ worker'.pc = "tools" /\ worker'.op = worker.op /\ worker'.todo = worker.todo /\ Here' = Here
        /\ worker'.batch = worker.batch
    BY <1>0, <1>1 DEF Settle, Workers, Here
  <1>3. task'[c] = "settled"
    BY <1>0 DEF Settle, Become
  <1>4. StepOf(c)' = Here /\ Exempt \subseteq Exempt'
    BY <1>1, LiveOpen, MarksCall
  <1>5. HereInv'
    BY <1>0, <1>1, <1>2, HereKept DEF AtStep
  <1>6. IF task[c] = "deferred" THEN Wrote(c, "deferred", "") ELSE Wrote(c, "result", task[c])
    BY <1>0, SettleLog
  <1>7. Has("result", c)' \/ (LastBarrier(c)'.type = "deferred" /\ worker'.cont = "deferred")
    <2>1. CASE task[c] = "deferred"
      <3>1. LastBarrier(c)'.type = "deferred"
        BY <1>6, <2>1 DEF Wrote, Barriers
      <3>2. worker'.cont = "deferred"
        BY <1>0, <2>1 DEF Settle, Workers
      <3> QED BY <3>1, <3>2
    <2>2. CASE task[c] # "deferred"
      BY <1>6, <2>2 DEF Wrote
    <2> QED BY <2>1, <2>2
  <1>8. ~Open(c)'
    BY <1>7 DEF Open, Behind
  <1> QED BY <1>1, <1>2, <1>3, <1>4, <1>5, <1>7, <1>8
      DEF WorkInv, PlaceInv, OwnInv, DoneInv, CloseInv, LeftInv, Live

\* What FinishBatch sees: every call of the batch is settled.
LEMMA WorkFinish ==
  ASSUME ToolTurnAssumption, TurnInv, StepInv, Marks, FinishBatch, NEW c \in Calls
  PROVE  HereInv' /\ WorkInv(c)'
  <1>0. worker \in Workers /\ TypeOK /\ WorkerInv /\ WorkInv(c) /\ HereInv /\ TracedInv(c) /\ worker.pc = "tools"
    BY DEF TurnInv, BaseInv, TracesInv, TypeOK, StepInv, StepCallInv, FinishBatch
  <1>1. Steady(c)
    BY <1>0, SteadySteps
  <1>2. (Has("tool_call", c) => StepOf(c)' = StepOf(c)) /\ Exempt \subseteq Exempt'
    BY MarksCall
  <1>3. CASE worker.op = "run" /\ worker.cont = "deferred"
    BY <1>3, GoneStep DEF FinishBatch, Release
  <1>4. CASE ~(worker.op = "run" /\ worker.cont = "deferred")
    <2>1. /\ worker' = [worker EXCEPT !.pc = IF worker.op \in {"batch", "single"} THEN "resuming" ELSE "closeStep"]
          /\ task' = task
      BY <1>4 DEF FinishBatch, Goto
    <2>2. /\ worker'.pc = IF worker.op \in {"batch", "single"} THEN "resuming" ELSE "closeStep"
          /\ worker'.op = worker.op /\ worker'.todo = worker.todo /\ Here' = Here
          /\ worker'.batch = worker.batch /\ worker'.cont = worker.cont
      BY <1>0, <2>1 DEF Workers, Here
    <2>3. HereInv'
      BY <1>0, <2>2, HereKept DEF AtStep
    <2>4. PlaceInv(c)'
      BY <1>0, <1>1, <1>2, <2>1, <2>2 DEF WorkInv, PlaceInv, TracedInv, Live
    <2>5. OwnInv(c)'
      BY <1>0, <1>1, <1>2, <2>2 DEF WorkInv, OwnInv, Steady, Same
    <2>6. DoneInv(c)'
      BY <1>0, <1>1, <2>1, <2>2 DEF WorkInv, DoneInv, Steady, Same
    <2>7. CloseInv(c)'
      <3>1. worker.op = "run" /\ c \in worker.batch => Has("result", c)
        BY <1>0, <1>4 DEF FinishBatch, WorkInv, DoneInv
      <3> QED BY <1>1, <2>2, <3>1 DEF CloseInv, Steady, Same
    <2>8. LeftInv(c)'
      BY <1>0, <1>1, <2>1, <2>2 DEF WorkInv, LeftInv, Steady, Same, Open, Behind, Live
    <2> QED BY <2>3, <2>4, <2>5, <2>6, <2>7, <2>8 DEF WorkInv
  <1> QED BY <1>3, <1>4

\* What FinishResume sees: no deferred call of the step lacks its result.
LEMMA WorkResumed ==
  ASSUME ToolTurnAssumption, TurnInv, StepInv, Marks, FinishResume, NEW c \in Calls
  PROVE  HereInv' /\ WorkInv(c)'
  <1>0. /\ worker \in Workers /\ TypeOK /\ WorkInv(c) /\ HereInv /\ CallInv(c) /\ TracedInv(c)
        /\ worker.pc = "resuming" /\ worker.op \in {"batch", "single"} /\ worker.todo = {}
    BY DEF TurnInv, BaseInv, TracesInv, TypeOK, StepInv, StepCallInv, FinishResume, WorkerInv
  <1>1. Steady(c)
    BY <1>0, SteadySteps
  <1>2. (Has("tool_call", c) => StepOf(c)' = StepOf(c)) /\ Exempt \subseteq Exempt'
    BY MarksCall
  <1>3. CASE Release
    BY <1>3, GoneStep DEF Release
  <1>4. CASE ~Release
    <2>1. /\ ~Unresolved /\ task' = task
          /\ worker' = [worker EXCEPT !.pc = "closeStep", !.cont =
                          IF \E d \in worker.requests : HasInfo("result", d, "conclude")
                            THEN "conclude" ELSE "continue"]
      BY <1>4 DEF FinishResume
    <2>2. /\ worker'.pc = "closeStep" /\ worker'.op = worker.op /\ worker'.todo = {} /\ Here' = Here
      BY <1>0, <2>1 DEF Workers, Here
    <2>3. HereInv'
      BY <1>0, <2>2, HereKept DEF AtStep
    <2>4. ~Live(c) /\ ~Live(c)'
      BY <1>0, <2>1 DEF CallInv, LiveInv, Live
    <2>5. DoneInv(c)'
      BY <1>0, <1>1, <2>1, <2>2 DEF WorkInv, DoneInv, Steady, Same
    <2>6. CloseInv(c)'
      <3>1. Has("deferred", c) /\ StepOf(c) = Here => Has("result", c)
        BY <2>1 DEF Unresolved, Here
      <3>2. Has("deferred", c) => Has("tool_call", c)
        BY <1>0 DEF TracedInv, EventTypes
      <3> QED BY <1>0, <1>1, <1>2, <2>2, <3>1, <3>2 DEF CloseInv, Steady, Same
    <2>7. LeftInv(c)'
      BY <1>0, <1>1, <2>1, <2>2, <2>4 DEF WorkInv, LeftInv, Steady, Same, Open, Behind
    <2> QED BY <1>0, <2>2, <2>3, <2>4, <2>5, <2>6, <2>7 DEF WorkInv, PlaceInv, OwnInv
  <1> QED BY <1>3, <1>4

\* The requested calls share their step.
LEMMA WorkPicked ==
  ASSUME ToolTurnAssumption, TurnInv, StepInv, Marks,
         NEW S \in SUBSET Calls, NEW m \in BOOLEAN, PickRequests(S, m), NEW c \in Calls
  PROVE  HereInv' /\ WorkInv(c)'
  <1>0. /\ worker \in Workers /\ TypeOK /\ WorkInv(c) /\ StartedInv /\ \A d \in Calls : TracedInv(d)
        /\ worker.pc = "resume" /\ worker.op \in {"batch", "single"}
    BY DEF TurnInv, BaseInv, TracesInv, TypeOK, StepInv, StepCallInv, PickRequests, WorkerInv
  <1> DEFINE f == Min(S)
  <1>1. f \in S
    <2>1. Calls \in SUBSET Int /\ IsFiniteSet(Calls)
      BY Bounds, FS_Interval DEF Calls
    <2>2. S \in SUBSET Int /\ IsFiniteSet(S) /\ S # {}
      BY <2>1, FS_Subset DEF PickRequests
    <2> QED BY <2>2, MinProps
  <1>2. /\ log' = log /\ task' = task
        /\ worker' = [worker EXCEPT !.pc = "resuming", !.turn = StepOf(f)[1], !.step = StepOf(f)[2],
                                    !.todo = S, !.requests = S, !.materialized = m]
    BY DEF PickRequests
  <1>3. /\ f \in Calls /\ Has("tool_call", f) /\ \A d \in S : StepOf(d) = StepOf(f) /\ Has("tool_call", d)
    <2>1. \A d \in S : Has("deferred", d) /\ d \in Calls
      BY DEF PickRequests
    <2>2. \A d \in S : Has("tool_call", d)
      BY <1>0, <2>1 DEF TracedInv, EventTypes
    <2> QED BY <1>1, <2>2 DEF PickRequests
  <1>4. StepOf(f) = <<StepOf(f)[1], StepOf(f)[2]>>
    BY DEF StepOf
  <1> HIDE DEF f
  <1>5. worker'.pc = "resuming" /\ worker'.op = worker.op /\ worker'.todo = S /\ Here' = StepOf(f)
    BY <1>0, <1>2, <1>4 DEF Workers, Here
  <1>6. Here' \in Started
    BY <1>0, <1>3, <1>5, CallsStep DEF StartedInv
  <1>7. Started \subseteq Started'
    BY MarksGrow DEF Marks
  <1>8. HereInv'
    BY <1>0, <1>5, <1>6, <1>7 DEF HereInv
  <1>9. task'[c] = "none"
    BY <1>0, <1>2, Idle
  <1>10. PlaceInv(c)'
    BY <1>3, <1>5, <1>9, MarksCall DEF PlaceInv, Live
  <1>11. LeftInv(c)'
    <2>1. Same(c) /\ ~Live(c)
      BY <1>2, <1>9, StillSame DEF Live
    <2> QED BY <1>0, <1>5, <1>9, <2>1 DEF WorkInv, LeftInv, Same, Open, Behind, Live
  <1> QED BY <1>5, <1>8, <1>9, <1>10, <1>11 DEF WorkInv, OwnInv, DoneInv, CloseInv

\* The next request of a resume.
LEMMA WorkNext ==
  ASSUME ToolTurnAssumption, TurnInv, StepInv, Marks, NEW c \in Calls,
         NEW outcome \in {"ok", "conclude", "error", "deferred"}, ResumeNext(c, outcome), NEW d \in Calls
  PROVE  HereInv' /\ WorkInv(d)'
  <1>0. /\ worker \in Workers /\ TypeOK /\ WorkInv(d) /\ HereInv /\ CallInv(d) /\ TracedInv(d)
        /\ worker.pc = "resuming" /\ worker.op \in {"batch", "single"} /\ c \in worker.todo
    BY DEF TurnInv, BaseInv, TracesInv, TypeOK, StepInv, StepCallInv, ResumeNext, IsFirst, WorkerInv
  <1>1. (Has("tool_call", d) => StepOf(d)' = StepOf(d)) /\ Exempt \subseteq Exempt'
    BY MarksCall
  <1>2. ~Live(d)
    BY <1>0 DEF CallInv, LiveInv
  <1>3. d # c => Same(d)
    BY <1>0, OthersSteady DEF Steady
  <1>4. CASE Has("result", c)
    <2>1. worker' = [worker EXCEPT !.todo = @ \ {c}] /\ log' = log /\ task' = task
      BY <1>4 DEF ResumeNext
    <2>2. /\ worker'.pc = "resuming" /\ worker'.op = worker.op /\ worker'.todo = worker.todo \ {c}
          /\ Here' = Here
      BY <1>0, <2>1 DEF Workers, Here
    <2>3. Same(d) /\ ~Live(d)'
      BY <1>2, <2>1, StillSame DEF Live
    <2>4. HereInv'
      BY <1>0, <2>2, HereKept DEF AtStep
    <2>5. PlaceInv(d)'
      BY <1>0, <1>1, <2>2, <2>3 DEF WorkInv, PlaceInv, TracedInv
    <2>6. LeftInv(d)'
      BY <1>0, <1>2, <2>2, <2>3 DEF WorkInv, LeftInv, Same, Open, Behind
    <2>7. DoneInv(d)'
      BY <1>0, <2>1, <2>2, <2>3 DEF WorkInv, DoneInv, Same
    <2> QED BY <1>0, <2>2, <2>4, <2>5, <2>6, <2>7 DEF WorkInv, OwnInv, CloseInv
  <1>5. CASE ~Has("result", c)
    <2> DEFINE x == IF worker.op = "batch" /\ ~worker.materialized THEN "queued" ELSE outcome
    <2>1. /\ worker' = [worker EXCEPT !.pc = "tools", !.todo = @ \ {c}, !.batch = {c}]
          /\ task' = [NoTasks EXCEPT ![c] = x]
      BY <1>5 DEF ResumeNext
    <2>2. /\ worker'.pc = "tools" /\ worker'.op = worker.op /\ worker'.todo = worker.todo \ {c} /\ Here' = Here
      BY <1>0, <2>1 DEF Workers, Here
    <2>3. x \notin {"none", "settled"}
      OBVIOUS
    <2> HIDE DEF x
    <2>4. task'[d] # "settled" /\ (Live(d)' <=> d = c)
      BY <2>1, <2>3 DEF NoTasks, Live
    <2>5. HereInv'
      BY <1>0, <2>2, HereKept DEF AtStep
    <2>6. PlaceInv(d)'
      BY <1>0, <1>1, <2>2, <2>4 DEF WorkInv, PlaceInv, TracedInv
    <2>7. LeftInv(d)'
      BY <1>0, <1>2, <1>3, <2>2, <2>4 DEF WorkInv, LeftInv, Same, Open, Behind
    <2> QED BY <1>0, <2>2, <2>4, <2>5, <2>6, <2>7 DEF WorkInv, OwnInv, CloseInv, DoneInv
  <1> QED BY <1>4, <1>5

\* The step of an approved call had a call that asked.
LEMMA WorkApproved ==
  ASSUME ToolTurnAssumption, TurnInv, StepInv, Marks, NEW c \in Calls, ResumeApprovedTool(c), NEW d \in Calls
  PROVE  HereInv' /\ WorkInv(d)'
  <1>0. /\ worker \in Workers /\ TypeOK /\ StartedInv /\ CallInv(c) /\ TracedInv(c) /\ StepCallInv(c)
        /\ worker.pc = "approve" /\ worker.op = "approval" /\ worker.todo = {}
    BY DEF TurnInv, BaseInv, TracesInv, TypeOK, StepInv, ResumeApprovedTool, WorkerInv
  <1>1. CASE Release
    BY <1>1, GoneStep DEF Release
  <1>2. CASE ~Release
    <2> DEFINE x == IF Has("result", c) THEN "none" ELSE IF Approved(c) THEN "queued" ELSE "denied"
    <2>1. /\ worker' = [worker EXCEPT !.pc = IF Has("result", c) THEN "closeStep" ELSE "tools",
                              !.turn = StepOf(c)[1], !.step = StepOf(c)[2], !.batch = {c}]
          /\ task' = [NoTasks EXCEPT ![c] = x]
      BY <1>2 DEF ResumeApprovedTool
    <2>2. StepOf(c) = <<StepOf(c)[1], StepOf(c)[2]>>
      BY DEF StepOf
    <2>3. /\ worker'.pc \in {"tools", "closeStep"} /\ worker'.op = "approval" /\ worker'.todo = {}
          /\ Here' = StepOf(c)
      BY <1>0, <2>1, <2>2 DEF Workers, Here
    <2>4. x # "settled"
      OBVIOUS
    <2> HIDE DEF x
    <2>5. task'[d] # "settled" /\ (Live(d)' => d = c)
      BY <2>1, <2>4 DEF NoTasks, Live
    <2>6. Has("approval_requested", c)
      BY <1>0 DEF CallInv, EventInv, ResumeApprovedTool
    <2>7. Has("tool_call", c) /\ StepOf(c) \in StepsOf("approval_requested")
      BY <1>0, <2>6 DEF TracedInv, EventTypes, StepCallInv, AskStepInv
    <2>8. StepOf(c) \in Started
      BY <1>0, <2>7, CallsStep DEF StartedInv
    <2>9. /\ Started \subseteq Started' /\ StepOf(c)' = StepOf(c)
          /\ StepsOf("approval_requested") \subseteq StepsOf("approval_requested")'
      BY <2>7, MarksGrow DEF Marks
    <2>10. HereInv'
      BY <2>3, <2>7, <2>8, <2>9 DEF HereInv
    <2> QED BY <2>3, <2>5, <2>9, <2>10 DEF WorkInv, PlaceInv, OwnInv, DoneInv, CloseInv, LeftInv
  <1> QED BY <1>1, <1>2

LEMMA WorkStep ==
  ASSUME ToolTurnAssumption, TurnInv, StepInv, [Next]_vars, NEW d \in Calls
  PROVE  HereInv' /\ WorkInv(d)'
  <1>0. TypeOK /\ TracesInv /\ WorkerInv /\ CallInv(d)
    BY DEF TurnInv, BaseInv, TracesInv
  <1>a. /\ worker \in Workers /\ task \in [Calls -> Tasks]
        /\ NoWorker.todo = {} /\ NoWorker.pc = "none"
    BY <1>0 DEF TypeOK, NoWorker
  <1>2. CASE Recover
    BY <1>2, WorkRecover
  <1>m. SUFFICES ASSUME Marks PROVE HereInv' /\ WorkInv(d)'
    BY <1>2, MarksStep
  <1>k. ASSUME worker' = worker, Same(d), task'[d] = task[d] PROVE HereInv' /\ WorkInv(d)'
    BY <1>m, <1>k, WorkKept DEF Same, Here
  <1>l. ASSUME worker' = worker, Live(d), Live(d)' PROVE HereInv' /\ WorkInv(d)'
    BY <1>m, <1>l, WorkLive
  <1>o. ASSUME worker'.pc \notin AtStep \cup {"resume"}, worker'.todo = {}, task' = task,
               worker.pc \notin {"tools", "resuming", "closeStep"}
        PROVE  HereInv' /\ WorkInv(d)'
    BY <1>o, Idle, OffStep
  <1>r. ASSUME Release PROVE HereInv' /\ WorkInv(d)'
    BY <1>r, GoneStep DEF Release
  <1>e. ASSUME log' = log PROVE Same(d)
    BY <1>e, StillSame
  <1>f. ASSUME NEW c \in Calls, d # c,
               \/ Admit(c) \/ Ask(c) \/ Answer(c) \/ ShortCircuit(c) \/ Dispatch(c)
               \/ StartBody(c) \/ ZombieStart(c) \/ Settle(c) \/ ResumeApprovedTool(c)
               \/ \E outcome \in {"error", "aborted"} : Refuse(c, outcome)
               \/ \E outcome \in {"ok", "conclude", "error", "deferred"} :
                    BodyReturns(c, outcome) \/ ResumeNext(c, outcome)
               \/ \E answer \in {"yes", "no"} : Decide(c, answer)
        PROVE  Same(d)
    BY <1>0, <1>f, OthersSteady DEF Steady
  <1>1. ASSUME NEW op \in {"run", "batch", "single", "approval"}, Claim(op) PROVE HereInv' /\ WorkInv(d)'
    <2>1. /\ worker'.pc \notin AtStep \cup {"resume"} /\ worker'.todo = {} /\ task' = task
          /\ worker.pc \notin {"tools", "resuming", "closeStep"}
      BY <1>1, <1>0, <1>a DEF Claim, Workers, AtStep, WorkerInv
    <2> QED BY <1>o, <2>1
  <1>3. CASE BeginTurn
    <2>1. /\ worker'.pc \notin AtStep \cup {"resume"} /\ worker'.todo = {} /\ task' = task
          /\ worker.pc \notin {"tools", "resuming", "closeStep"}
      BY <1>3, <1>0, <1>a DEF BeginTurn, Workers, AtStep, WorkerInv
    <2> QED BY <1>o, <2>1
  <1>4. CASE Cancel
    <2>1. /\ worker'.pc = worker.pc /\ worker'.op = worker.op /\ Here' = Here /\ worker'.batch = worker.batch
          /\ worker'.todo = worker.todo /\ worker'.cont = worker.cont /\ task' = task /\ log' = log
      BY <1>4, <1>a DEF Cancel, Workers, Here
    <2>2. Same(d)
      BY <1>e, <2>1
    <2> QED BY <1>m, <2>1, <2>2, WorkKept DEF Same
  <1>5. CASE Crash
    BY <1>5, <1>r DEF Crash
  <1>6. CASE LoseLease
    <2>1. Release
      BY <1>6 DEF LoseLease
    <2> QED BY <1>r, <2>1
  <1>7. CASE StartStep
    BY <1>7, WorkStart
  <1>8. CASE EndTurn
    BY <1>8, <1>r DEF EndTurn
  <1>9. CASE PolicyWait
    BY <1>9, <1>r DEF PolicyWait
  <1>10. CASE Chunk
    <2>1. Steady(d) /\ worker' = worker /\ task' = task
      BY <1>10, <1>0, SteadySteps DEF Chunk
    <2> QED BY <1>k, <2>1 DEF Steady
  <1>11. CASE ModelReplies
    <2>1. /\ worker'.pc \notin AtStep \cup {"resume"} /\ worker'.todo = {} /\ task' = task
          /\ worker.pc \notin {"tools", "resuming", "closeStep"}
      BY <1>11, <1>0, <1>a DEF ModelReplies, Workers, AtStep, WorkerInv, Goto
    <2> QED BY <1>o, <2>1
  <1>12. CASE StartBatch
    BY <1>12, <1>m, WorkBatch
  <1>13. ASSUME NEW b \in BOOLEAN, ModelFails(b) PROVE HereInv' /\ WorkInv(d)'
    BY <1>13, <1>m, WorkFails
  <1>14. ASSUME NEW b \in BOOLEAN, FailStep(b) PROVE HereInv' /\ WorkInv(d)'
    <2>1. /\ worker'.pc \notin AtStep \cup {"resume"} /\ worker'.todo = {} /\ task' = task
          /\ worker.pc \notin {"tools", "resuming", "closeStep"}
      BY <1>14, <1>0, <1>a DEF FailStep, Workers, AtStep, WorkerInv, Goto
    <2> QED BY <1>o, <2>1
  <1>15. ASSUME NEW n \in 1..MaxBatch, ModelCalls(n) PROVE HereInv' /\ WorkInv(d)'
    BY <1>15, <1>m, WorkCalls
  <1>16. ASSUME NEW c \in Calls, Admit(c) PROVE HereInv' /\ WorkInv(d)'
    <2>1. worker' = worker /\ task' = task /\ worker.pc = "admit" /\ c \in worker.batch
      BY <1>16 DEF Admit, IsFirst
    <2>2. CASE d = c
      <3>1. Emit("tool_call", d, "") /\ ~Has("tool_call", d)
        BY <1>16, <2>2 DEF Admit, IsFirst
      <3>2. "tool_call" \in EventTypes /\ "" \in Infos /\ d \in 0..NumCalls
        BY Bounds DEF EventTypes, Infos
      <3>3. StepOf(d)' = Here /\ Here' = Here
        BY <1>0, <2>1, <3>1, <3>2, MarkEmit DEF Here
      <3>4. HereInv'
        BY <1>m, <2>1, <3>3, HereKept DEF StepInv
      <3>5. task[d] = "none" /\ worker.todo = {}
        BY <1>0, <2>1, Idle DEF WorkerInv
      <3> QED BY <2>1, <2>2, <3>3, <3>4, <3>5 DEF WorkInv, PlaceInv, OwnInv, DoneInv, CloseInv, LeftInv, Live
    <2>3. CASE d # c
      <3>1. Same(d)
        BY <1>16, <1>f, <2>3
      <3> QED BY <1>k, <2>1, <3>1
    <2> QED BY <2>2, <2>3
  <1>17. ASSUME NEW c \in Calls, Ask(c) PROVE HereInv' /\ WorkInv(d)'
    <2>1. worker' = worker /\ \A x \in Calls : x # c => task'[x] = task[x]
      BY <1>17, <1>a DEF Ask, Become
    <2>2. CASE d = c
      <3>1. Live(d) /\ Live(d)'
        BY <1>17, <1>a, <2>2 DEF Ask, Become, Live
      <3> QED BY <1>l, <2>1, <3>1
    <2>3. CASE d # c
      <3>1. Same(d)
        BY <1>17, <1>f, <2>3
      <3> QED BY <1>k, <2>1, <2>3, <3>1
    <2> QED BY <2>2, <2>3
  <1>18. ASSUME NEW c \in Calls, Answer(c) PROVE HereInv' /\ WorkInv(d)'
    <2>1. worker' = worker /\ \A x \in Calls : x # c => task'[x] = task[x]
      BY <1>18, <1>a DEF Answer, Become
    <2>2. CASE d = c
      <3>1. Live(d) /\ Live(d)'
        BY <1>18, <1>a, <2>2 DEF Answer, Become, Live
      <3> QED BY <1>l, <2>1, <3>1
    <2>3. CASE d # c
      <3>1. Same(d)
        BY <1>18, <1>f, <2>3
      <3> QED BY <1>k, <2>1, <2>3, <3>1
    <2> QED BY <2>2, <2>3
  <1>19. ASSUME NEW c \in Calls, ShortCircuit(c) PROVE HereInv' /\ WorkInv(d)'
    <2>1. worker' = worker /\ \A x \in Calls : x # c => task'[x] = task[x]
      BY <1>19, <1>a DEF ShortCircuit, Become
    <2>2. CASE d = c
      <3>1. Live(d) /\ Live(d)'
        BY <1>19, <1>a, <2>2 DEF ShortCircuit, Become, Admitted, Live
      <3> QED BY <1>l, <2>1, <3>1
    <2>3. CASE d # c
      <3>1. Same(d)
        BY <1>19, <1>f, <2>3
      <3> QED BY <1>k, <2>1, <2>3, <3>1
    <2> QED BY <2>2, <2>3
  <1>20. ASSUME NEW c \in Calls, Dispatch(c) PROVE HereInv' /\ WorkInv(d)'
    <2>1. worker' = worker /\ \A x \in Calls : x # c => task'[x] = task[x]
      BY <1>20, <1>a DEF Dispatch, Become
    <2>2. CASE d = c
      <3>1. Live(d) /\ Live(d)'
        BY <1>20, <1>a, <2>2 DEF Dispatch, Become, Admitted, Live
      <3> QED BY <1>l, <2>1, <3>1
    <2>3. CASE d # c
      <3>1. Same(d)
        BY <1>20, <1>f, <2>3
      <3> QED BY <1>k, <2>1, <2>3, <3>1
    <2> QED BY <2>2, <2>3
  <1>21. ASSUME NEW c \in Calls, StartBody(c) PROVE HereInv' /\ WorkInv(d)'
    <2>1. worker' = worker /\ \A x \in Calls : x # c => task'[x] = task[x]
      BY <1>21, <1>a DEF StartBody, Become
    <2>2. CASE d = c
      <3>1. Live(d) /\ Live(d)'
        BY <1>21, <1>a, <2>2 DEF StartBody, Become, Live
      <3> QED BY <1>l, <2>1, <3>1
    <2>3. CASE d # c
      <3>1. Same(d)
        BY <1>21, <1>f, <2>3
      <3> QED BY <1>k, <2>1, <2>3, <3>1
    <2> QED BY <2>2, <2>3
  <1>22. ASSUME NEW c \in Calls, ZombieStart(c) PROVE HereInv' /\ WorkInv(d)'
    <2>1. worker' = worker /\ task' = task /\ log' = log
      BY <1>22 DEF ZombieStart
    <2> QED BY <1>e, <1>k, <2>1
  <1>23. ASSUME NEW c \in Calls, Settle(c) PROVE HereInv' /\ WorkInv(d)'
    <2>1. CASE d = c
      BY <1>23, <1>m, <2>1, WorkSettle
    <2>2. CASE d # c
      <3>1. /\ worker'.pc = worker.pc /\ worker'.op = worker.op /\ Here' = Here /\ worker'.batch = worker.batch
            /\ worker'.todo = worker.todo
        BY <1>23, <1>a DEF Settle, Workers, Here
      <3>2. worker.cont = "deferred" => worker'.cont = "deferred"
        BY <1>23, <1>a DEF Settle, Workers
      <3>3. task'[d] = task[d]
        BY <1>23, <1>a, <2>2 DEF Settle, Become
      <3>4. Same(d)
        BY <1>23, <1>f, <2>2
      <3> QED BY <1>m, <3>1, <3>2, <3>3, <3>4, WorkKept DEF Same
    <2> QED BY <2>1, <2>2
  <1>24. ASSUME NEW c \in Calls, ResumeApprovedTool(c) PROVE HereInv' /\ WorkInv(d)'
    BY <1>24, <1>m, WorkApproved
  <1>25. ASSUME NEW c \in Calls, NEW outcome \in {"error", "aborted"}, Refuse(c, outcome)
        PROVE  HereInv' /\ WorkInv(d)'
    <2>1. worker' = worker /\ \A x \in Calls : x # c => task'[x] = task[x]
      BY <1>25, <1>a DEF Refuse, Become
    <2>2. CASE d = c
      <3>1. Live(d) /\ Live(d)'
        BY <1>25, <1>a, <2>2 DEF Refuse, Become, Live, Undispatched
      <3> QED BY <1>l, <2>1, <3>1
    <2>3. CASE d # c
      <3>1. Same(d)
        BY <1>25, <1>f, <2>3
      <3> QED BY <1>k, <2>1, <2>3, <3>1
    <2> QED BY <2>2, <2>3
  <1>26. ASSUME NEW c \in Calls, NEW outcome \in {"ok", "conclude", "error", "deferred"}, BodyReturns(c, outcome)
        PROVE  HereInv' /\ WorkInv(d)'
    <2>1. worker' = worker /\ \A x \in Calls : x # c => task'[x] = task[x]
      BY <1>26, <1>a DEF BodyReturns, Become
    <2>2. CASE d = c
      <3>1. Live(d) /\ Live(d)'
        BY <1>26, <1>a, <2>2 DEF BodyReturns, Become, Live
      <3> QED BY <1>l, <2>1, <3>1
    <2>3. CASE d # c
      <3>1. Same(d)
        BY <1>26, <1>f, <2>3
      <3> QED BY <1>k, <2>1, <2>3, <3>1
    <2> QED BY <2>2, <2>3
  <1>27. ASSUME NEW c \in Calls, NEW outcome \in {"ok", "conclude", "error", "deferred"}, ResumeNext(c, outcome)
        PROVE  HereInv' /\ WorkInv(d)'
    BY <1>27, <1>m, WorkNext
  <1>28. ASSUME NEW c \in Calls, NEW answer \in {"yes", "no"}, Decide(c, answer) PROVE HereInv' /\ WorkInv(d)'
    <2>1. worker' = worker /\ task' = task
      BY <1>28 DEF Decide
    <2>2. CASE d = c
      <3>1. Wrote(d, "approval_resolved", answer)
        BY <1>0, <1>28, <2>2, DecideLog
      <3>2. LastBarrier(d)' = LastBarrier(d) /\ \A t : t # "approval_resolved" => (Has(t, d)' <=> Has(t, d))
        BY <3>1 DEF Wrote, Barriers
      <3> QED BY <1>m, <2>1, <3>2, WorkKept DEF Here
    <2>3. CASE d # c
      <3>1. Same(d)
        BY <1>28, <1>f, <2>3
      <3> QED BY <1>k, <2>1, <3>1
    <2> QED BY <2>2, <2>3
  <1>29. CASE FinishBatch
    BY <1>29, <1>m, WorkFinish
  <1>30. CASE CloseStep
    <2>1. CASE worker.cont = "deferred"
      BY <1>30, <1>r, <2>1 DEF CloseStep
    <2>2. CASE worker.cont # "deferred"
      <3>1. worker'.pc \notin AtStep \cup {"resume"} /\ task' = NoTasks
        BY <1>30, <1>a, <2>2 DEF CloseStep, Workers, AtStep
      <3>2. worker'.todo = {}
        BY <1>30, <1>0, <1>a, <2>2 DEF CloseStep, Workers, WorkerInv
      <3> QED BY <3>1, <3>2, OffStep DEF NoTasks
    <2> QED BY <2>1, <2>2
  <1>31. ASSUME NEW S \in SUBSET Calls, NEW m \in BOOLEAN, PickRequests(S, m) PROVE HereInv' /\ WorkInv(d)'
    BY <1>31, <1>m, WorkPicked
  <1>32. CASE ResumeNothing
    BY <1>32, <1>r DEF ResumeNothing
  <1>33. CASE FinishResume
    BY <1>33, <1>m, WorkResumed
  <1>34. CASE UNCHANGED vars
    <2>1. Steady(d) /\ worker' = worker /\ task' = task
      BY <1>34, <1>0, SteadySteps DEF vars
    <2> QED BY <1>k, <2>1 DEF Steady
  <1> QED
    BY <1>1, <1>2, <1>3, <1>4, <1>5, <1>6, <1>7, <1>8, <1>9, <1>10,
       <1>11, <1>12, <1>13, <1>14, <1>15, <1>16, <1>17, <1>18, <1>19, <1>20,
       <1>21, <1>22, <1>23, <1>24, <1>25, <1>26, <1>27, <1>28, <1>29, <1>30,
       <1>31, <1>32, <1>33, <1>34
    DEF Next

\* The same of the worker alone, when there are no calls.
LEMMA HereStep ==
  ASSUME ToolTurnAssumption, TurnInv, StepInv, [Next]_vars
  PROVE  HereInv'
  <1>0. TypeOK /\ WorkerInv /\ HereInv /\ worker \in Workers /\ NoWorker.pc = "none"
    BY DEF TurnInv, BaseInv, TracesInv, StepInv, TypeOK, NoWorker
  <1>a. ASSUME worker'.pc \notin AtStep PROVE HereInv'
    BY <1>a DEF AtStep, HereInv
  <1>b. CASE Calls # {}
    BY <1>b, WorkStep
  <1>c. CASE Recover
    BY <1>0, <1>c DEF Recover, Goto, Workers, HereInv
  <1> SUFFICES ASSUME Marks, Calls = {} PROVE HereInv'
    BY <1>b, <1>c, MarksStep
  <1>k. ASSUME Here' = Here, worker'.op = worker.op, worker'.pc = worker.pc PROVE HereInv'
    BY <1>0, <1>k, HereKept
  <1>1. ASSUME NEW op \in {"run", "batch", "single", "approval"}, Claim(op) PROVE HereInv'
    BY <1>1, <1>0, <1>a DEF Claim, Workers, AtStep
  <1>3. CASE BeginTurn
    BY <1>3, <1>0, <1>a DEF BeginTurn, Workers, AtStep
  <1>4. CASE Cancel
    BY <1>4, <1>0, <1>k DEF Cancel, Workers, Here
  <1>5. CASE Crash
    BY <1>5, <1>0, <1>a DEF Crash, Release, Workers, AtStep
  <1>6. CASE LoseLease
    BY <1>6, <1>0, <1>a DEF LoseLease, Release, Workers, AtStep
  <1>7. CASE StartStep
    BY <1>7, HereStart
  <1>8. CASE EndTurn
    BY <1>8, <1>0, <1>a DEF EndTurn, Release, Workers, AtStep
  <1>9. CASE PolicyWait
    BY <1>9, <1>0, <1>a DEF PolicyWait, Release, Workers, AtStep
  <1>10. CASE Chunk
    BY <1>10, <1>0, <1>k DEF Chunk, Workers, Here
  <1>11. CASE ModelReplies
    BY <1>11, <1>0, <1>a DEF ModelReplies, Goto, Workers, AtStep
  <1>12. CASE StartBatch
    <2>1. Here' = Here /\ worker'.op = worker.op
      BY <1>12, <1>0 DEF StartBatch, Goto, Workers, Here
    <2>2. worker'.pc = "tools" /\ worker.pc = "admit" /\ worker.op = "run"
      BY <1>12, <1>0 DEF StartBatch, Goto, Workers, WorkerInv
    <2> QED BY <1>0, <2>1, <2>2, HereKept DEF AtStep
  <1>13. ASSUME NEW b \in BOOLEAN, ModelFails(b) PROVE HereInv'
    <2>1. Here' = Here /\ worker'.op = worker.op
      BY <1>13, <1>0 DEF ModelFails, Goto, Workers, Here
    <2>2. worker'.pc = "failStep" /\ worker.pc = "model"
      BY <1>13, <1>0 DEF ModelFails, Goto, Workers, WorkerInv
    <2> QED BY <1>0, <2>1, <2>2, HereKept DEF AtStep
  <1>14. ASSUME NEW b \in BOOLEAN, FailStep(b) PROVE HereInv'
    BY <1>14, <1>0, <1>a DEF FailStep, Goto, Workers, AtStep
  <1>15. ASSUME NEW n \in 1..MaxBatch, ModelCalls(n) PROVE HereInv'
    <2>1. Here' = Here /\ worker'.op = worker.op
      BY <1>15, <1>0 DEF ModelCalls, Goto, Workers, Here
    <2>2. worker'.pc = "admit" /\ worker.pc = "model"
      BY <1>15, <1>0 DEF ModelCalls, Goto, Workers, WorkerInv
    <2> QED BY <1>0, <2>1, <2>2, HereKept DEF AtStep
  <1>29. CASE FinishBatch
    <2>1. CASE Release
      BY <1>0, <1>a, <2>1 DEF Release, AtStep
    <2>2. CASE ~Release
      <3>1. worker' = [worker EXCEPT !.pc = IF worker.op \in {"batch", "single"} THEN "resuming" ELSE "closeStep"]
        BY <1>29, <2>2 DEF FinishBatch, Goto
      <3>2. /\ worker.pc = "tools" /\ Here' = Here /\ worker'.op = worker.op
            /\ worker'.pc \in {"resuming", "closeStep"}
        BY <1>29, <1>0, <3>1 DEF FinishBatch, Workers, Here
      <3> QED BY <1>0, <3>2, HereKept DEF AtStep
    <2> QED BY <2>1, <2>2
  <1>30. CASE CloseStep
    <2>1. worker'.pc \in {"none", "endTurn", "steps"}
      BY <1>30, <1>0 DEF CloseStep, Release, Workers
    <2> QED BY <1>a, <2>1 DEF AtStep
  <1>31. ASSUME NEW S \in SUBSET Calls, NEW m \in BOOLEAN, PickRequests(S, m) PROVE HereInv'
    BY <1>31 DEF PickRequests
  <1>32. CASE ResumeNothing
    BY <1>32, <1>0, <1>a DEF ResumeNothing, Release, Workers, AtStep
  <1>33. CASE FinishResume
    <2>1. CASE Release
      BY <1>0, <1>a, <2>1 DEF Release, AtStep
    <2>2. CASE ~Release
      <3>1. /\ worker.pc = "resuming" /\ worker.op \in {"batch", "single"}
            /\ Here' = Here /\ worker'.op = worker.op /\ worker'.pc = "closeStep"
        BY <1>33, <1>0, <2>2 DEF FinishResume, WorkerInv, Workers, Here
      <3> QED BY <1>0, <3>1, HereKept DEF AtStep
    <2> QED BY <2>1, <2>2
  <1>34. CASE UNCHANGED vars
    <2>1. worker' = worker
      BY <1>34 DEF vars
    <2> QED BY <1>k, <2>1 DEF Here
  <1> QED
    BY <1>1, <1>3, <1>4, <1>5, <1>6, <1>7, <1>8, <1>9, <1>10, <1>11, <1>12,
       <1>13, <1>14, <1>15, <1>29, <1>30, <1>31, <1>32, <1>33, <1>34, <1>c
    DEF Next

LEMMA StepStep ==
  ASSUME ToolTurnAssumption, TurnInv, StepInv, [Next]_vars
  PROVE  StepInv'
  <1>1. StartedInv' /\ OutcomesBeforeStepEnd'
    BY StartedStep
  <1>2. \A c \in Calls : SideInv(c)' /\ WorkInv(c)'
    BY SideStep, WorkStep
  <1> QED BY <1>1, <1>2, HereStep DEF StepInv, StepCallInv, SideInv, Calls

\* Nothing of a call is stored after the end of its step, whatever crashed, lost
\* its lease, resumed or was approved: unless the step was entered twice, or had a
\* call that asked for an approval.
THEOREM OutcomesFirst == ASSUME Apart PROVE Spec => []OutcomesBeforeStepEnd
  <1>1. Init => StepInv
    <2> SUFFICES ASSUME Init PROVE StepInv
      OBVIOUS
    <2>1. DOMAIN log = {} /\ worker.pc = "none" /\ worker.todo = {} /\ task = NoTasks
      BY DEF Init, NoWorker
    <2>2. \A T, c : Positions(T, c) = {}
      BY <2>1 DEF Positions
    <2>3. \A c : LastBarrier(c).type = "none" /\ \A t : ~Has(t, c)
      BY <2>2 DEF LastBarrier, LastOf, Ev, Has
    <2>4. \A t : StepsOf(t) = {}
      BY <2>1 DEF StepsOf
    <2>5. StartedInv /\ OutcomesBeforeStepEnd /\ HereInv
      BY <2>1, <2>4 DEF StartedInv, Ended, OutcomesBeforeStepEnd, HereInv
    <2>6. ASSUME NEW c \in Calls PROVE StepCallInv(c)
      <3>1. task[c] = "none"
        BY <2>1 DEF NoTasks
      <3> QED BY <2>1, <2>3, <3>1 DEF StepCallInv, AskStepInv, KindInv, ClosedInv, WorkInv, PlaceInv, OwnInv,
                 DoneInv, CloseInv, LeftInv, Live
    <2> QED BY <2>5, <2>6 DEF StepInv
  <1>2. TurnInv /\ StepInv /\ [Next]_vars => StepInv'
    BY ToolTurnAssumption, StepStep
  <1>3. StepInv => OutcomesBeforeStepEnd
    BY DEF StepInv
  <1> QED BY <1>1, <1>2, <1>3, TurnSafe, PTL DEF Spec
=============================================================================

---------------------------- MODULE Handle_proofs ----------------------------
(***************************************************************************)
(* Safety of the handle for any number of follow-ups, steers, host runs,   *)
(* crashes and failed appends.                                             *)
(***************************************************************************)
EXTENDS Handle, TLAPS

\* Who runs: the status is not idle while somebody runs, unless h.mu is stuck.
RunInv ==
    /\ ~h.up => worker.pc = "select" /\ host = "none" /\ ~h.stop /\ discards = <<>>
    /\ worker.pc # "run" => turn["worker"] = NoTurn
    /\ host = "none" => turn["host"] = NoTurn
    /\ worker.pc \in {"claim", "run"} <=> worker.item # 0
    /\ worker.item # 0 => host = "none" /\ h.status # "idle"
    /\ host # "none" /\ ~h.stuck => h.status # "idle"

\* The queue of the log lists the queued items, each once.
OrderInv ==
    /\ \A i \in Items : Queued(i) => \E n \in DOMAIN order : order[n] = i
    /\ \A n \in DOMAIN order : Queued(order[n])
    /\ \A m, n \in DOMAIN order : order[m] = order[n] => m = n

\* What the handle has in memory is in the log.
KnownInv ==
    /\ \A n \in DOMAIN h.inbox : Queued(h.inbox[n])
    /\ \A n \in DOMAIN discards : Queued(discards[n])
    /\ \A n \in DOMAIN taken : Queued(taken[n])
    /\ worker.item # 0 => Queued(worker.item)

\* No follow-up is twice in a sequence of items.
Once(s) == \A m, n \in DOMAIN s : s[m] = s[n] /\ s[n] \in FollowUps => m = n

\* A follow-up is in one place: once in the inbox, or with the worker, or with a sweep.
PlaceInv ==
    /\ Once(h.inbox)
    /\ \A n \in DOMAIN h.inbox : h.inbox[n] # worker.item
    /\ \A n \in DOMAIN discards : /\ discards[n] # worker.item
                                  /\ discards[n] \in FollowUps => ~Waits(discards[n])

\* A disposed handle has its stop channel closed.
StopInv == h.status = "disposed" => h.stop

\* What the fate of an item's input says of its turns.
FateInv ==
    /\ \A i \in Items : ledger[i].input = "ended" => i \in hist.succeeded \/ "policy" \in Failures
    /\ turn["worker"].first /\ turn["worker"].phase \in {"body", "claimed"}
          => ledger[worker.item].input = "open"
    /\ turn["worker"].phase = "ok" => worker.item \in hist.succeeded

\* A consumed item is recognised by restoreInbox, and the live handle has let go of it.
ConsumedInv ==
    \A i \in hist.consumed :
        /\ i \in FollowUps /\ ledger[i].input = "ended" /\ Queued(i)
        /\ ~Requeued(i) => /\ ~Waits(i)
                           /\ worker.item = i => turn["worker"].phase = "ok"

HandleInv ==
    /\ TypeOK /\ RunInv /\ OrderInv /\ KnownInv /\ PlaceInv /\ StopInv /\ FateInv /\ ConsumedInv
    /\ FollowUpsKept /\ CompletedWasConsumed /\ NoReplay

-----------------------------------------------------------------------------
(* The operators of the model. *)

LEMMA ItemKinds ==
  ASSUME HandleAssumption
  PROVE  /\ FollowUps \cap Steers = {} /\ FollowUps \subseteq Items /\ Steers \subseteq Items
         /\ 0 \notin Items /\ Items \subseteq Nat
  BY DEF HandleAssumption, FollowUps, Steers, Items

\* The least position of a follow-up exists.
LEMMA NextWakeableFollowUp ==
  ASSUME NEW box \in Seq(Items), Wakeable(box)
  PROVE  NextWakeable(box) \in DOMAIN box /\ box[NextWakeable(box)] \in FollowUps
  <1> DEFINE at == {n \in DOMAIN box : box[n] \in FollowUps}
             First(n) == box[n] \in FollowUps /\ \A k \in 1..(n - 1) : box[k] \notin FollowUps
  <1>1. Len(box) \in Nat /\ DOMAIN box = 1..Len(box) /\ at # {}
    BY DEF Wakeable
  <1>2. IsFiniteSet(1..Len(box)) /\ at \in SUBSET (1..Len(box)) /\ at \in SUBSET Int
    BY <1>1, FS_Interval
  <1>3. IsFiniteSet(at)
    BY <1>2, FS_Subset
  <1>4. /\ Cardinality(at) \in Nat /\ Sorted(at) \in [1..Cardinality(at) -> at]
        /\ \A i, j \in 1..Cardinality(at) : i < j => Sorted(at)[i] < Sorted(at)[j]
        /\ \A n \in at : \E k \in 1..Cardinality(at) : Sorted(at)[k] = n
    BY <1>2, <1>3, SortedProps
  <1>5. PICK n \in at : n = Sorted(at)[1]
    <2>1. 1 \in 1..Cardinality(at)
      BY <1>1, <1>4
    <2> QED BY <1>4, <2>1
  <1>6. ASSUME NEW m \in at PROVE n <= m
    <2>1. PICK k \in 1..Cardinality(at) : Sorted(at)[k] = m
      BY <1>4
    <2>2. 1 \in 1..Cardinality(at) /\ (k = 1 \/ 1 < k)
      BY <1>4
    <2>3. n = m \/ n < m
      BY <1>4, <1>5, <2>1, <2>2
    <2>4. m \in Int /\ n \in Int
      BY <1>1
    <2> QED BY <2>3, <2>4
  <1>7. n \in DOMAIN box /\ box[n] \in FollowUps
    OBVIOUS
  <1>8. ASSUME NEW k \in 1..(n - 1) PROVE box[k] \notin FollowUps
    <2>1. n \in 1..Len(box)
      BY <1>1, <1>7
    <2>2. k \in 1..Len(box) /\ k < n /\ k \in Int /\ n \in Int
      BY <1>1, <2>1
    <2>3. k \notin at
      BY <1>6, <2>2
    <2> QED BY <1>1, <2>2, <2>3
  <1>9. \E k \in DOMAIN box : First(k)
    BY <1>7, <1>8
  <1> QED BY <1>9 DEF NextWakeable

\* A turn's phase changes, and nothing else of the turns.
LEMMA PhaseChange ==
  ASSUME TypeOK, NEW r \in Runners, NEW p \in Phases, turn' = [turn EXCEPT ![r].phase = p]
  PROVE  /\ turn' \in Turns
         /\ turn'[r].phase = p /\ turn'[r].first = turn[r].first
         /\ \A q \in Runners : q # r => turn'[q] = turn[q]
  <1> USE DEF Turns
  <1>1. turn \in Turns
    BY DEF TypeOK
  <1>2. turn[r] \in [phase : Phases, first : BOOLEAN]
    BY <1>1
  <1>3. turn'[r] = [turn[r] EXCEPT !.phase = p] /\ \A q \in Runners : q # r => turn'[q] = turn[q]
    BY <1>1
  <1>4. turn'[r].phase = p /\ turn'[r].first = turn[r].first
        /\ turn'[r] \in [phase : Phases, first : BOOLEAN]
    BY <1>2, <1>3
  <1>5. DOMAIN turn' = Runners /\ turn' = [q \in Runners |-> turn'[q]]
    BY <1>1
  <1> QED BY <1>1, <1>3, <1>4, <1>5

\* What the log's last inbox events become.
LEMMA RecordProps ==
  ASSUME TypeOK, NEW S, NEW e \in QueueEvents
  PROVE  /\ Record(S, e) \in Ledgers
         /\ \A i \in Items : /\ Record(S, e)[i].input = ledger[i].input
                             /\ i \in S => Record(S, e)[i].queue = e
                             /\ i \notin S => Record(S, e)[i].queue = ledger[i].queue
  <1> USE DEF Ledgers
  <1>1. ASSUME NEW i \in Items
        PROVE  /\ [ledger[i] EXCEPT !.queue = e] \in [queue : QueueEvents, input : Fates]
               /\ [ledger[i] EXCEPT !.queue = e].queue = e
               /\ [ledger[i] EXCEPT !.queue = e].input = ledger[i].input
    <2>1. ledger[i] \in [queue : QueueEvents, input : Fates]
      BY DEF TypeOK
    <2> QED BY <2>1
  <1>2. \A i \in Items : Record(S, e)[i] \in [queue : QueueEvents, input : Fates]
    <2>1. \A i \in Items : ledger[i] \in [queue : QueueEvents, input : Fates]
      BY DEF TypeOK
    <2> QED BY <1>1, <2>1 DEF Record
  <1>3. Record(S, e) \in Ledgers
    BY <1>2 DEF Record
  <1>4. \A i \in Items : Record(S, e)[i] = IF i \in S THEN [ledger[i] EXCEPT !.queue = e] ELSE ledger[i]
    BY DEF Record
  <1> QED BY <1>1, <1>3, <1>4

\* What the end of a turn does to the input it wrote.
LEMMA FateProps ==
  ASSUME TypeOK, NEW r \in Runners, NEW f \in Fates
  PROVE  /\ Fate(r, f) \in Ledgers
         /\ \A i \in Items :
              /\ Fate(r, f)[i].queue = ledger[i].queue
              /\ r = "worker" /\ turn[r].first /\ i = worker.item => Fate(r, f)[i].input = f
              /\ ~(r = "worker" /\ turn[r].first /\ i = worker.item) => Fate(r, f)[i].input = ledger[i].input
  <1> USE DEF Ledgers
  <1>1. ledger \in Ledgers
    BY DEF TypeOK
  <1>2. CASE ~(r = "worker" /\ turn[r].first)
    BY <1>1, <1>2 DEF Fate
  <1>3. CASE r = "worker" /\ turn[r].first
    <2>1. Fate(r, f) = [ledger EXCEPT ![worker.item].input = f]
      BY <1>3 DEF Fate
    <2>2. \A i \in Items : i # worker.item => Fate(r, f)[i] = ledger[i]
      BY <1>1, <2>1
    <2>3. CASE worker.item \in Items
      <3>1. ledger[worker.item] \in [queue : QueueEvents, input : Fates]
        BY <1>1, <2>3
      <3>2. Fate(r, f)[worker.item] = [ledger[worker.item] EXCEPT !.input = f]
        BY <1>1, <2>1, <2>3
      <3>3. /\ Fate(r, f)[worker.item].input = f
            /\ Fate(r, f)[worker.item].queue = ledger[worker.item].queue
            /\ Fate(r, f)[worker.item] \in [queue : QueueEvents, input : Fates]
        BY <3>1, <3>2
      <3>4. DOMAIN Fate(r, f) = Items /\ Fate(r, f) = [i \in Items |-> Fate(r, f)[i]]
        BY <1>1, <2>1
      <3>5. \A i \in Items : Fate(r, f)[i] \in [queue : QueueEvents, input : Fates]
        BY <1>1, <2>2, <3>3
      <3> QED BY <1>1, <1>3, <2>2, <3>3, <3>4, <3>5
    <2>4. CASE worker.item \notin Items
      <3>1. Fate(r, f) = ledger
        BY <1>1, <2>1, <2>4
      <3> QED BY <1>1, <2>4, <3>1
    <2> QED BY <2>3, <2>4
  <1> QED BY <1>2, <1>3

\* Where the elements of two joined sequences are.
LEMMA JoinProps ==
  ASSUME NEW T, NEW a \in Seq(T), NEW b \in Seq(T)
  PROVE  /\ a \o b \in Seq(T) /\ Len(a \o b) = Len(a) + Len(b)
         /\ \A m \in 1..Len(a) : (a \o b)[m] = a[m]
         /\ \A m \in 1..Len(b) : (a \o b)[Len(a) + m] = b[m]
  <1>1. a \o b \in Seq(T) /\ Len(a \o b) = Len(a) + Len(b) /\ Len(a) \in Nat /\ Len(b) \in Nat
    OBVIOUS
  <1>2. ASSUME NEW m \in 1..Len(a) PROVE (a \o b)[m] = a[m]
    BY <1>1
  <1>3. ASSUME NEW m \in 1..Len(b) PROVE (a \o b)[Len(a) + m] = b[m]
    BY <1>1
  <1> QED BY <1>1, <1>2, <1>3

\* Taking one element out of a sequence.
LEMMA RemoveAtProps ==
  ASSUME NEW T, NEW s \in Seq(T), NEW n \in DOMAIN s
  PROVE  /\ RemoveAt(s, n) \in Seq(T) /\ Len(RemoveAt(s, n)) = Len(s) - 1
         /\ \A m \in DOMAIN RemoveAt(s, n) : RemoveAt(s, n)[m] = IF m < n THEN s[m] ELSE s[m + 1]
  <1> DEFINE a == SubSeq(s, 1, n - 1)
             b == SubSeq(s, n + 1, Len(s))
  <1>1. Len(s) \in Nat /\ n \in 1..Len(s)
    OBVIOUS
  <1>2. /\ a \in Seq(T) /\ Len(a) = n - 1
        /\ \A m \in 1..(n - 1) : a[m] = s[m]
    BY <1>1
  <1>3. /\ b \in Seq(T) /\ Len(b) = Len(s) - n
        /\ \A m \in 1..(Len(s) - n) : b[m] = s[m + n]
    BY <1>1
  <1> HIDE DEF a, b
  <1>4. /\ a \o b \in Seq(T) /\ Len(a \o b) = Len(a) + Len(b)
        /\ \A m \in 1..Len(a) : (a \o b)[m] = a[m]
        /\ \A m \in 1..Len(b) : (a \o b)[Len(a) + m] = b[m]
    <2>1. a \in Seq(T) /\ b \in Seq(T)
      BY <1>2, <1>3
    <2> QED BY ONLY <2>1, JoinProps
  <1>5. RemoveAt(s, n) = a \o b
    BY DEF RemoveAt, a, b
  <1>6. Len(a \o b) = Len(s) - 1 /\ DOMAIN (a \o b) = 1..(Len(s) - 1)
    <2>1. Len(a) + Len(b) = Len(s) - 1
      BY <1>1, <1>2, <1>3
    <2>2. DOMAIN (a \o b) = 1..Len(a \o b)
      BY ONLY <1>4
    <2> QED BY <1>4, <2>1, <2>2
  <1>7. ASSUME NEW m \in 1..(Len(s) - 1), m < n PROVE (a \o b)[m] = s[m]
    BY <1>1, <1>2, <1>4, <1>7
  <1>8. ASSUME NEW m \in 1..(Len(s) - 1), ~(m < n) PROVE (a \o b)[m] = s[m + 1]
    <2>1. m - (n - 1) \in 1..(Len(s) - n) /\ m > Len(a) /\ m - (n - 1) + n = m + 1
      BY <1>1, <1>2, <1>8
    <2>2. m - (n - 1) \in 1..Len(b) /\ Len(a) + (m - (n - 1)) = m
      BY <1>1, <1>2, <1>3, <2>1
    <2>3. (a \o b)[m] = b[m - (n - 1)]
      BY <1>4, <2>2
    <2> QED BY <1>3, <2>1, <2>3
  <1> QED BY <1>4, <1>5, <1>6, <1>7, <1>8

\* Putting one in front.
LEMMA PushProps ==
  ASSUME NEW T, NEW s \in Seq(T), NEW x \in T
  PROVE  /\ <<x>> \o s \in Seq(T) /\ Len(<<x>> \o s) = Len(s) + 1
         /\ (<<x>> \o s)[1] = x /\ \A m \in 2..(Len(s) + 1) : (<<x>> \o s)[m] = s[m - 1]
  OBVIOUS

\* One more fault, while the bound allows it.
LEMMA FaultType ==
  ASSUME HandleAssumption, TypeOK, NEW d \in {0, 1}, d = 1 => Fails,
         bounds' = [bounds EXCEPT !.faults = @ + d]
  PROVE  bounds' \in Counters
  <1>1. bounds \in Counters /\ MaxFaults \in Nat
    BY DEF TypeOK, HandleAssumption
  <1>2. bounds.faults + d \in 0..MaxFaults
    BY <1>1 DEF Counters, Fails
  <1> QED BY <1>1, <1>2 DEF Counters

\* The handle when a run has returned.
LEMMA BackProps ==
  ASSUME TypeOK, NEW box \in Seq(Items)
  PROVE  /\ Back(box) \in Handles /\ Back(box).inbox = box
         /\ Back(box).up = h.up /\ Back(box).stop = h.stop /\ Back(box).stuck = h.stuck
         /\ Back(box).status = IF h.status = "disposed" THEN "disposed" ELSE "idle"
  <1>1. h \in Handles
    BY DEF TypeOK
  <1> QED BY <1>1 DEF Back, Handles

\* Steps keep the types.
LEMMA TypeNext ==
  ASSUME HandleAssumption, TypeOK, RunInv, [Next]_vars
  PROVE  TypeOK'
  <1>1. ASSUME NewAgent PROVE TypeOK'
    <2>1. Restored \in Seq(Items)
      BY KeepProps DEF TypeOK, Restored
    <2>2. h' = [up |-> TRUE, status |-> "idle", inbox |-> Restored, wake |-> Wakeable(Restored),
                changed |-> FALSE, stop |-> FALSE, stuck |-> FALSE, cancelled |-> FALSE]
      BY <1>1 DEF NewAgent, NoHandle
    <2>4. h' \in Handles
      BY <2>1, <2>2 DEF Handles, Wakeable
    <2>3. ledger' \in Ledgers
      BY <1>1, RecordProps DEF NewAgent, QueueEvents
    <2> QED BY <1>1, <2>3, <2>4 DEF TypeOK, NewAgent
  <1>2. ASSUME NewAgentFails PROVE TypeOK'
    <2>1. ledger' \in Ledgers
      BY <1>2, RecordProps DEF NewAgentFails, QueueEvents
    <2>2. bounds' \in Counters
      BY <1>2, FaultType DEF NewAgentFails, Failed
    <2> QED BY <1>2, <2>1, <2>2 DEF TypeOK, NewAgentFails
  <1>3. ASSUME Crash PROVE TypeOK'
    <2>1. h' \in Handles /\ worker' \in Workers
      BY <1>3 DEF Handles, Workers, Crash, NoHandle
    <2>2. turn' \in Turns
      BY <1>3 DEF Turns, Crash, NoTurn, Phases
    <2>3. hist' \in Histories
      BY <1>3 DEF TypeOK, Histories, Crash
    <2>4. bounds' \in Counters
      BY <1>3, FaultType DEF Crash, Failed
    <2>5. discards' \in Seq(Items) /\ taken' \in Seq(Steers) /\ refused' \in SUBSET Items
      BY <1>3 DEF Crash
    <2> QED BY <1>3, <2>1, <2>2, <2>3, <2>4, <2>5 DEF TypeOK, Crash
  <1>4. ASSUME NEW i \in Items, Enqueue(i) PROVE TypeOK'
    <2>1. h' \in Handles
      <3>1. h \in Handles /\ Append(h.inbox, i) \in Seq(Items)
        BY DEF TypeOK, Handles
      <3>2. (h.wake \/ i \in FollowUps) \in BOOLEAN
        OBVIOUS
      <3> QED BY <1>4, <3>1, <3>2 DEF Handles, Enqueue
    <2>2. ledger' \in Ledgers
      BY <1>4, RecordProps DEF Enqueue, QueueEvents
    <2>3. order' \in Seq(Items)
      BY <1>4 DEF TypeOK, Enqueue
    <2>4. hist' \in Histories
      BY <1>4 DEF TypeOK, Histories, Enqueue
    <2> QED BY <1>4, <2>1, <2>2, <2>3, <2>4 DEF TypeOK, Enqueue
  <1>5. ASSUME NEW k \in BOOLEAN, Cancel(k) PROVE TypeOK'
    <2>1. h' \in Handles
      BY <1>5 DEF TypeOK, Handles, Cancel
    <2>2. discards' \in Seq(Items)
      BY <1>5 DEF TypeOK, Handles, Cancel
    <2> QED BY <1>5, <2>1, <2>2 DEF TypeOK, Cancel
  <1>6. ASSUME Discard PROVE TypeOK'
    <2>1. PICK lost \in SUBSET ToSet(discards) :
            /\ lost # {} => Fails
            /\ ledger' = Record(ToSet(discards) \ lost, "discarded")
            /\ refused' = refused \cup lost
            /\ bounds' = [bounds EXCEPT !.faults = @ + IF lost = {} THEN 0 ELSE 1]
      BY <1>6 DEF Discard
    <2>2. ledger' \in Ledgers
      BY <2>1, RecordProps DEF QueueEvents
    <2>3. bounds' \in Counters
      <3> DEFINE d == IF lost = {} THEN 0 ELSE 1
      <3>1. d \in {0, 1} /\ (d = 1 => Fails) /\ bounds' = [bounds EXCEPT !.faults = @ + d]
        BY <2>1
      <3> QED BY <3>1, FaultType
    <2>4. refused' \in SUBSET Items
      BY <2>1 DEF TypeOK, ToSet
    <2>5. discards' \in Seq(Items)
      BY <1>6 DEF Discard
    <2> QED BY <1>6, <2>2, <2>3, <2>4, <2>5 DEF TypeOK, Discard
  <1>7. ASSUME Dispose PROVE TypeOK'
    <2>1. h' \in Handles
      BY <1>7 DEF TypeOK, Handles, Dispose
    <2>2. discards' \in Seq(Items)
      BY <1>7 DEF TypeOK, Handles, Dispose
    <2> QED BY <1>7, <2>1, <2>2 DEF TypeOK, Dispose
  <1>8. ASSUME WhenIdle PROVE TypeOK'
    BY <1>8 DEF TypeOK, Handles, Workers, WhenIdle
  <1>9. ASSUME WhenIdleWakes PROVE TypeOK'
    BY <1>9 DEF TypeOK, Handles, Workers, WhenIdleWakes
  <1>10. ASSUME WorkerWakes PROVE TypeOK'
    BY <1>10 DEF TypeOK, Handles, Workers, WorkerWakes
  <1>11. ASSUME WorkerStops PROVE TypeOK'
    BY <1>11 DEF TypeOK, Handles, Workers, WorkerStops
  <1>12. ASSUME WorkerTakes PROVE TypeOK'
    <2> DEFINE n == NextWakeable(h.inbox)
    <2>1. n \in DOMAIN h.inbox /\ h.inbox[n] \in FollowUps /\ h.inbox \in Seq(Items)
      BY <1>12, NextWakeableFollowUp DEF WorkerTakes, TypeOK, Handles
    <2>2. RemoveAt(h.inbox, n) \in Seq(Items)
      BY <2>1, RemoveAtProps
    <2>3. /\ worker' = [pc |-> "claim", item |-> h.inbox[n]]
          /\ h' = [h EXCEPT !.inbox = RemoveAt(@, n), !.status = "running",
                            !.cancelled = FALSE, !.changed = TRUE]
      BY <1>12 DEF WorkerTakes
    <2> HIDE DEF n
    <2>4. worker' \in Workers
      BY <2>1, <2>3 DEF Workers
    <2>5. h' \in Handles
      BY <2>2, <2>3 DEF TypeOK, Handles
    <2> QED BY <1>12, <2>4, <2>5 DEF TypeOK, WorkerTakes
  <1>13. ASSUME WorkerParks PROVE TypeOK'
    <2>1. worker' \in Workers
      BY <1>13 DEF TypeOK, Workers, WorkerParks
    <2>2. hist' \in Histories
      BY <1>13 DEF TypeOK, Histories, WorkerParks
    <2> QED BY <1>13, <2>1, <2>2 DEF TypeOK, WorkerParks
  <1>14. ASSUME WorkerClaimFails PROVE TypeOK'
    <2>1. <<worker.item>> \o h.inbox \in Seq(Items)
      BY <1>14, ItemKinds, PushProps DEF TypeOK, RunInv, WorkerClaimFails, Workers, Handles
    <2>2. h' \in Handles
      BY <1>14, <2>1 DEF TypeOK, Handles, WorkerClaimFails
    <2>3. worker' \in Workers
      BY <1>14 DEF WorkerClaimFails, Workers
    <2>4. bounds' \in Counters
      BY <1>14, FaultType DEF WorkerClaimFails, Failed
    <2> QED BY <1>14, <2>2, <2>3, <2>4 DEF TypeOK, WorkerClaimFails
  <1>15. ASSUME WorkerCompletes PROVE TypeOK'
    <2>1. h' \in Handles
      BY <1>15, BackProps DEF TypeOK, Handles, WorkerCompletes
    <2>2. ledger' \in Ledgers
      BY <1>15, RecordProps DEF WorkerCompletes, QueueEvents
    <2>3. worker' \in Workers
      BY <1>15 DEF WorkerCompletes, Workers
    <2>4. turn' \in Turns
      BY <1>15 DEF TypeOK, Turns, Runners, NoTurn, Phases, WorkerCompletes
    <2> QED BY <1>15, <2>1, <2>2, <2>3, <2>4 DEF TypeOK, WorkerCompletes
  <1>16. ASSUME WorkerRequeues PROVE TypeOK'
    <2>1. worker.item \in Items
      BY <1>16, ItemKinds DEF TypeOK, RunInv, WorkerRequeues, Requeues, Workers
    <2>2. h.inbox \in Seq(Items)
      BY DEF TypeOK, Handles
    <2>3. <<worker.item>> \o h.inbox \in Seq(Items)
      BY <2>1, <2>2, PushProps
    <2>4. (IF h.status = "disposed" THEN h.inbox ELSE <<worker.item>> \o h.inbox) \in Seq(Items)
      BY <2>2, <2>3
    <2>5. h' \in Handles
      BY <1>16, <2>4, BackProps DEF WorkerRequeues
    <2>6. PICK lost \in SUBSET {"completed", "requeued"} :
            /\ lost # {} => Fails
            /\ bounds' = [bounds EXCEPT !.faults = @ + IF lost = {} THEN 0 ELSE 1]
            /\ IF "requeued" \in lost THEN UNCHANGED <<ledger, order>>
               ELSE ledger' = Record({worker.item}, "requeued") /\ order' = Requeue(worker.item)
      BY <1>16 DEF WorkerRequeues, Requeues
    <2>7. bounds' \in Counters
      <3> DEFINE d == IF lost = {} THEN 0 ELSE 1
      <3>1. d \in {0, 1} /\ (d = 1 => Fails) /\ bounds' = [bounds EXCEPT !.faults = @ + d]
        BY <2>6
      <3> QED BY <3>1, FaultType
    <2>8. Requeue(worker.item) \in Seq(Items)
      <3>1. Keep(order, Items \ {worker.item}) \in Seq(Items)
        BY KeepProps DEF TypeOK
      <3> QED BY <2>1, <3>1 DEF Requeue
    <2>9. ledger' \in Ledgers /\ order' \in Seq(Items)
      BY <2>6, <2>8, RecordProps DEF TypeOK, QueueEvents
    <2>10. worker' \in Workers
      BY <1>16 DEF WorkerRequeues, Requeues, Workers
    <2>11. turn' \in Turns
      BY <1>16 DEF TypeOK, Turns, Runners, NoTurn, Phases, WorkerRequeues, Requeues
    <2>12. hist' \in Histories
      BY <1>16 DEF TypeOK, Histories, WorkerRequeues, Requeues
    <2> QED BY <1>16, <2>5, <2>7, <2>9, <2>10, <2>11, <2>12 DEF TypeOK, WorkerRequeues, Requeues
  <1>17. ASSUME NEW op \in Ops, HostStarts(op) PROVE TypeOK'
    <2>1. h' \in Handles
      BY <1>17 DEF TypeOK, Handles, HostStarts
    <2>2. turn' \in Turns
      BY <1>17 DEF TypeOK, Turns, Runners, Phases, HostStarts
    <2>3. bounds' \in Counters
      <3>1. bounds \in Counters /\ MaxHostRuns \in Nat
        BY DEF TypeOK, HandleAssumption
      <3>2. bounds.hostRuns + 1 \in 0..MaxHostRuns
        BY <1>17, <3>1 DEF Counters, HostStarts
      <3> QED BY <1>17, <3>1, <3>2 DEF Counters, HostStarts
    <2> QED BY <1>17, <2>1, <2>2, <2>3 DEF TypeOK, HostStarts
  <1>18. ASSUME HostReturns PROVE TypeOK'
    <2>1. h' \in Handles
      BY <1>18, BackProps DEF TypeOK, Handles, HostReturns
    <2>2. turn' \in Turns
      BY <1>18 DEF TypeOK, Turns, Runners, NoTurn, Phases, HostReturns
    <2> QED BY <1>18, <2>1, <2>2 DEF TypeOK, HostReturns
  <1>19. ASSUME ApprovedReturns PROVE TypeOK'
    <2>1. Back(h.inbox) \in Handles
      BY BackProps DEF TypeOK, Handles
    <2>2. h' \in Handles
      BY <1>19, <2>1 DEF Handles, ApprovedReturns
    <2>3. turn' \in Turns
      BY <1>19 DEF TypeOK, Turns, Runners, NoTurn, Phases, ApprovedReturns
    <2>4. hist' \in Histories
      BY <1>19 DEF TypeOK, Histories, ApprovedReturns
    <2> QED BY <1>19, <2>2, <2>3, <2>4 DEF TypeOK, ApprovedReturns
  <1>20. ASSUME RunReturns PROVE TypeOK'
    <2>1. Back(h.inbox) \in Handles
      BY BackProps DEF TypeOK, Handles
    <2>2. h' \in Handles
      BY <1>20, <2>1 DEF Handles, RunReturns
    <2> QED BY <1>20, <2>2 DEF TypeOK, RunReturns
  <1>21. ASSUME NEW r \in Runners, TurnRefused(r) PROVE TypeOK'
    <2>1. turn' \in Turns
      BY <1>21, PhaseChange DEF TurnRefused, Phases
    <2>2. worker' \in Workers
      BY <1>21 DEF TypeOK, Workers, TurnRefused
    <2>3. bounds' \in Counters
      BY <1>21, FaultType DEF TypeOK, TurnRefused, Failed
    <2> QED BY <1>21, <2>1, <2>2, <2>3 DEF TypeOK, TurnRefused
  <1>22. ASSUME NEW r \in Runners, TurnStart(r) PROVE TypeOK'
    <2> DEFINE first == r = "worker" /\ ledger[worker.item].input = "none"
    <2>1. worker' \in Workers
      BY <1>22 DEF TypeOK, Workers, TurnStart
    <2>2. turn' \in Turns
      BY <1>22 DEF TypeOK, Turns, Phases, TurnStart
    <2>3. ledger' = [j \in Items |->
              IF first /\ j = worker.item THEN [ledger[j] EXCEPT !.input = "open"]
              ELSE IF ledger[j].input = "open" THEN [ledger[j] EXCEPT !.input = "interrupted"]
              ELSE ledger[j]]
      BY <1>22 DEF TurnStart
    <2>4. ASSUME NEW j \in Items
          PROVE  /\ ledger[j] \in [queue : QueueEvents, input : Fates]
                 /\ [ledger[j] EXCEPT !.input = "open"] \in [queue : QueueEvents, input : Fates]
                 /\ [ledger[j] EXCEPT !.input = "interrupted"] \in [queue : QueueEvents, input : Fates]
      BY DEF TypeOK, Ledgers, Fates
    <2>5. ledger' \in Ledgers
      BY <2>3, <2>4 DEF Ledgers
    <2>6. hist' \in Histories
      <3>1. hist' = hist \/ (worker.item \in hist.consumed /\ hist' = [hist EXCEPT !.replayed = @ \cup {worker.item}])
        BY <1>22 DEF TurnStart
      <3> QED BY <3>1 DEF TypeOK, Histories
    <2> QED BY <1>22, <2>1, <2>2, <2>5, <2>6 DEF TypeOK, TurnStart
  <1>23. ASSUME NEW r \in Runners, ClaimNextStepInputs(r) PROVE TypeOK'
    <2>1. h.inbox \in Seq(Items) /\ Keep(h.inbox, FollowUps) \in Seq(Items)
      BY KeepProps DEF TypeOK, Handles
    <2>2. h' \in Handles
      BY <1>23, <2>1 DEF TypeOK, Handles, ClaimNextStepInputs
    <2>3. taken' \in Seq(Steers)
      <3>1. Keep(h.inbox, Steers) \in Seq(Items)
        BY <2>1, KeepProps
      <3>2. \A k \in DOMAIN Keep(h.inbox, Steers) : Keep(h.inbox, Steers)[k] \in Steers
        BY <2>1, KeepProps
      <3>3. taken' = Keep(h.inbox, Steers)
        BY <1>23 DEF ClaimNextStepInputs
      <3> QED BY <3>1, <3>2, <3>3
    <2>4. turn' \in Turns
      BY <1>23, PhaseChange DEF ClaimNextStepInputs, Phases
    <2> QED BY <1>23, <2>2, <2>3, <2>4 DEF TypeOK, ClaimNextStepInputs
  <1>24. ASSUME NEW r \in Runners, AppendStepInputs(r) PROVE TypeOK'
    <2>1. ledger' \in Ledgers
      BY <1>24, RecordProps DEF AppendStepInputs, QueueEvents
    <2>2. turn' \in Turns
      BY <1>24, PhaseChange DEF AppendStepInputs, Phases
    <2>3. taken' \in Seq(Steers)
      BY <1>24 DEF AppendStepInputs
    <2> QED BY <1>24, <2>1, <2>2, <2>3 DEF TypeOK, AppendStepInputs
  <1>25. ASSUME NEW r \in Runners, AppendStepInputsFails(r) PROVE TypeOK'
    <2>1. taken \o h.inbox \in Seq(Items)
      <3>1. taken \in Seq(Items) /\ h.inbox \in Seq(Items)
        BY ItemKinds DEF TypeOK, Handles
      <3> QED BY <3>1
    <2>2. h' \in Handles
      BY <1>25, <2>1 DEF TypeOK, Handles, AppendStepInputsFails
    <2>3. ledger' \in Ledgers
      <3>1. PICK done : ledger' = [i \in Items |-> IF i \in done THEN Record(done, "completed")[i]
                                                  ELSE Fate(r, "failed")[i]]
        BY <1>25 DEF AppendStepInputsFails
      <3>2. Record(done, "completed") \in Ledgers /\ Fate(r, "failed") \in Ledgers
        BY RecordProps, FateProps DEF QueueEvents, Fates
      <3> QED BY <3>1, <3>2 DEF Ledgers
    <2>4. turn' \in Turns
      BY <1>25, PhaseChange DEF AppendStepInputsFails, Phases
    <2>5. bounds' \in Counters
      BY <1>25, FaultType DEF AppendStepInputsFails, Failed
    <2>6. taken' \in Seq(Steers)
      BY <1>25 DEF AppendStepInputsFails
    <2> QED BY <1>25, <2>2, <2>3, <2>4, <2>5, <2>6 DEF TypeOK, AppendStepInputsFails
  <1>26. ASSUME NEW r \in Runners, StepFails(r) PROVE TypeOK'
    <2>1. ledger' \in Ledgers
      BY <1>26, FateProps DEF StepFails, Fates
    <2>2. turn' \in Turns
      BY <1>26, PhaseChange DEF StepFails, Phases
    <2>3. taken' \in Seq(Steers)
      BY <1>26 DEF StepFails
    <2> QED BY <1>26, <2>1, <2>2, <2>3 DEF TypeOK, StepFails
  <1>27. ASSUME NEW r \in Runners, TurnSucceeds(r) PROVE TypeOK'
    <2>1. ledger' \in Ledgers
      BY <1>27, FateProps DEF TurnSucceeds, Fates
    <2>2. turn' \in Turns
      BY <1>27, PhaseChange DEF TurnSucceeds, Phases
    <2>3. hist' \in Histories
      <3>1. CASE r # "worker"
        BY <1>27, <3>1 DEF TurnSucceeds, TypeOK
      <3>2. CASE r = "worker"
        <4>1. worker.pc = "run"
          BY <1>27, <3>2 DEF RunInv, TurnSucceeds, NoTurn
        <4>2. worker.item \in Items
          BY <4>1, ItemKinds DEF RunInv, TypeOK, Workers
        <4>3. hist' = [hist EXCEPT !.succeeded = @ \cup {worker.item},
                                   !.consumed = IF turn[r].first THEN @ \cup {worker.item} ELSE @]
          BY <1>27, <3>2 DEF TurnSucceeds
        <4> QED BY <4>2, <4>3 DEF TypeOK, Histories
      <3> QED BY <3>1, <3>2
    <2> QED BY <1>27, <2>1, <2>2, <2>3 DEF TypeOK, TurnSucceeds
  <1>28. ASSUME NEW r \in Runners, TurnFails(r) PROVE TypeOK'
    <2>1. ledger' \in Ledgers
      BY <1>28, FateProps DEF TurnFails, Fates
    <2>2. turn' \in Turns
      BY <1>28, PhaseChange DEF TurnFails, Phases
    <2> QED BY <1>28, <2>1, <2>2 DEF TypeOK, TurnFails
  <1>29. CASE UNCHANGED vars
    BY <1>29 DEF TypeOK, vars
  <1> QED
    BY <1>1, <1>2, <1>3, <1>4, <1>5, <1>6, <1>7, <1>8, <1>9, <1>10,
       <1>11, <1>12, <1>13, <1>14, <1>15, <1>16, <1>17, <1>18, <1>19, <1>20,
       <1>21, <1>22, <1>23, <1>24, <1>25, <1>26, <1>27, <1>28, <1>29
    DEF Next, WorkerSteps, HostSteps, TurnSteps, Runners

\* Steps keep RunInv: whoever starts a run found the status idle, and sets it.
LEMMA RunNext ==
  ASSUME HandleAssumption, TypeOK, RunInv, [Next]_vars
  PROVE  RunInv'
  <1>1. ASSUME NewAgent PROVE RunInv'
    BY <1>1 DEF TypeOK, Handles, Workers, Turns, RunInv, NoTurn, NoHandle, Lock, Starting, Back, Runners,
       NewAgent
  <1>2. ASSUME NewAgentFails PROVE RunInv'
    BY <1>2 DEF TypeOK, Handles, Workers, Turns, RunInv, NoTurn, NoHandle, Lock, Starting, Back, Runners,
       NewAgentFails
  <1>3. ASSUME Crash PROVE RunInv'
    BY <1>3 DEF TypeOK, Handles, Workers, Turns, RunInv, NoTurn, NoHandle, Lock, Starting, Back, Runners,
       Crash
  <1>4. ASSUME NEW i \in Items, Enqueue(i) PROVE RunInv'
    BY <1>4 DEF TypeOK, Handles, Workers, Turns, RunInv, NoTurn, NoHandle, Lock, Starting, Back, Runners,
       Enqueue
  <1>5. ASSUME NEW k \in BOOLEAN, Cancel(k) PROVE RunInv'
    BY <1>5 DEF TypeOK, Handles, Workers, Turns, RunInv, NoTurn, NoHandle, Lock, Starting, Back, Runners,
       Cancel
  <1>6. ASSUME Discard PROVE RunInv'
    BY <1>6 DEF TypeOK, Handles, Workers, Turns, RunInv, NoTurn, NoHandle, Lock, Starting, Back, Runners,
       Discard
  <1>7. ASSUME Dispose PROVE RunInv'
    BY <1>7 DEF TypeOK, Handles, Workers, Turns, RunInv, NoTurn, NoHandle, Lock, Starting, Back, Runners,
       Dispose
  <1>8. ASSUME WhenIdle PROVE RunInv'
    BY <1>8 DEF TypeOK, Handles, Workers, Turns, RunInv, NoTurn, NoHandle, Lock, Starting, Back, Runners,
       WhenIdle
  <1>9. ASSUME WhenIdleWakes PROVE RunInv'
    BY <1>9 DEF TypeOK, Handles, Workers, Turns, RunInv, NoTurn, NoHandle, Lock, Starting, Back, Runners,
       WhenIdleWakes
  <1>10. ASSUME WorkerWakes PROVE RunInv'
    BY <1>10 DEF TypeOK, Handles, Workers, Turns, RunInv, NoTurn, NoHandle, Lock, Starting, Back,
       Runners, WorkerWakes
  <1>11. ASSUME WorkerStops PROVE RunInv'
    BY <1>11 DEF TypeOK, Handles, Workers, Turns, RunInv, NoTurn, NoHandle, Lock, Starting, Back,
       Runners, WorkerStops
  <1>12. ASSUME WorkerTakes PROVE RunInv'
    <2>1. h.inbox[NextWakeable(h.inbox)] \in FollowUps
      BY <1>12, NextWakeableFollowUp DEF WorkerTakes, TypeOK, Handles
    <2>2. h.inbox[NextWakeable(h.inbox)] # 0
      BY <2>1, ItemKinds
    <2>3. /\ h.up /\ ~h.stuck /\ h.status = "idle" /\ worker.pc = "scan"
          /\ h'.up = h.up /\ h'.status = "running" /\ h'.stop = h.stop
          /\ UNCHANGED <<host, turn, discards>>
      BY <1>12 DEF WorkerTakes, Lock, TypeOK, Handles
    <2>4. worker'.pc = "claim" /\ worker'.item # 0
      BY <1>12, <2>2 DEF WorkerTakes
    <2> QED BY <2>3, <2>4 DEF RunInv
  <1>13. ASSUME WorkerParks PROVE RunInv'
    BY <1>13 DEF TypeOK, Handles, Workers, Turns, RunInv, NoTurn, NoHandle, Lock, Starting, Back,
       Runners, WorkerParks
  <1>14. ASSUME WorkerClaimFails PROVE RunInv'
    BY <1>14 DEF TypeOK, Handles, Workers, Turns, RunInv, NoTurn, NoHandle, Lock, Starting, Back,
       Runners, WorkerClaimFails
  <1>15. ASSUME WorkerCompletes PROVE RunInv'
    BY <1>15 DEF TypeOK, Handles, Workers, Turns, RunInv, NoTurn, NoHandle, Lock, Starting, Back,
       Runners, WorkerCompletes
  <1>16. ASSUME WorkerRequeues PROVE RunInv'
    BY <1>16 DEF TypeOK, Handles, Workers, Turns, RunInv, NoTurn, NoHandle, Lock, Starting, Back,
       Runners, WorkerRequeues, Requeues
  <1>17. ASSUME NEW op \in Ops, HostStarts(op) PROVE RunInv'
    BY <1>17 DEF TypeOK, Handles, Workers, Turns, RunInv, NoTurn, NoHandle, Lock, Starting, Back,
       Runners, HostStarts
  <1>18. ASSUME HostReturns PROVE RunInv'
    BY <1>18 DEF TypeOK, Handles, Workers, Turns, RunInv, NoTurn, NoHandle, Lock, Starting, Back,
       Runners, HostReturns
  <1>19. ASSUME ApprovedReturns PROVE RunInv'
    BY <1>19 DEF TypeOK, Handles, Workers, Turns, RunInv, NoTurn, NoHandle, Lock, Starting, Back,
       Runners, ApprovedReturns
  <1>20. ASSUME RunReturns PROVE RunInv'
    BY <1>20 DEF TypeOK, Handles, Workers, Turns, RunInv, NoTurn, NoHandle, Lock, Starting, Back,
       Runners, RunReturns
  <1>21. ASSUME NEW r \in Runners, TurnRefused(r) PROVE RunInv'
    <2>1. r = "host" \/ worker.pc = "claim"
      BY <1>21 DEF TurnRefused, Starting, Runners
    <2>2. r = "host" => turn["host"].phase = "start"
      BY <1>21 DEF TurnRefused, Starting, Runners
    <2>3. \A q \in Runners : q # r => turn'[q] = turn[q]
      BY <1>21, PhaseChange DEF TurnRefused, Phases
    <2>4. /\ worker'.item = worker.item
          /\ r = "worker" => worker'.pc = "run"
          /\ r = "host" => worker' = worker
      BY <1>21 DEF TurnRefused, TypeOK, Workers
    <2>5. UNCHANGED <<h, host, discards>>
      BY <1>21 DEF TurnRefused
    <2> QED BY <2>1, <2>2, <2>3, <2>4, <2>5 DEF RunInv, NoTurn, Runners
  <1>22. ASSUME NEW r \in Runners, TurnStart(r) PROVE RunInv'
    <2>1. r = "host" \/ worker.pc = "claim"
      BY <1>22 DEF TurnStart, Starting, Runners
    <2>2. r = "host" => turn["host"].phase = "start"
      BY <1>22 DEF TurnStart, Starting, Runners
    <2>3. \A q \in Runners : q # r => turn'[q] = turn[q]
      BY <1>22 DEF TurnStart, TypeOK, Turns
    <2>4. /\ worker'.item = worker.item
          /\ r = "worker" => worker'.pc = "run"
          /\ r = "host" => worker' = worker
      BY <1>22 DEF TurnStart, TypeOK, Workers
    <2>5. UNCHANGED <<h, host, discards>>
      BY <1>22 DEF TurnStart
    <2> QED BY <2>1, <2>2, <2>3, <2>4, <2>5 DEF RunInv, NoTurn, Runners
  <1>23. ASSUME NEW r \in Runners, ClaimNextStepInputs(r) PROVE RunInv'
    <2>1. /\ turn[r].phase = "body" /\ turn'[r].phase = "claimed"
          /\ \A q \in Runners : q # r => turn'[q] = turn[q]
      BY <1>23, PhaseChange DEF ClaimNextStepInputs, Phases
    <2>2. h'.up = h.up /\ h'.status = h.status /\ h'.stop = h.stop /\ h'.stuck = h.stuck
      BY <1>23 DEF ClaimNextStepInputs, TypeOK, Handles
    <2>3. UNCHANGED <<worker, host, discards>>
      BY <1>23 DEF ClaimNextStepInputs
    <2> QED BY <2>1, <2>2, <2>3 DEF RunInv, NoTurn, Runners
  <1>24. ASSUME NEW r \in Runners, AppendStepInputs(r) PROVE RunInv'
    <2>1. /\ turn[r].phase = "claimed" /\ turn'[r].phase = "body"
          /\ \A q \in Runners : q # r => turn'[q] = turn[q]
      BY <1>24, PhaseChange DEF AppendStepInputs, Phases
    <2>2. h'.up = h.up /\ h'.status = h.status /\ h'.stop = h.stop /\ h'.stuck = h.stuck
      BY <1>24 DEF AppendStepInputs, TypeOK, Handles
    <2>3. UNCHANGED <<worker, host, discards>>
      BY <1>24 DEF AppendStepInputs
    <2> QED BY <2>1, <2>2, <2>3 DEF RunInv, NoTurn, Runners
  <1>25. ASSUME NEW r \in Runners, AppendStepInputsFails(r) PROVE RunInv'
    <2>1. /\ turn[r].phase = "claimed" /\ turn'[r].phase = "failed"
          /\ \A q \in Runners : q # r => turn'[q] = turn[q]
      BY <1>25, PhaseChange DEF AppendStepInputsFails, Phases
    <2>2. h'.up = h.up /\ h'.status = h.status /\ h'.stop = h.stop /\ h'.stuck = h.stuck
      BY <1>25 DEF AppendStepInputsFails, TypeOK, Handles
    <2>3. UNCHANGED <<worker, host, discards>>
      BY <1>25 DEF AppendStepInputsFails
    <2> QED BY <2>1, <2>2, <2>3 DEF RunInv, NoTurn, Runners
  <1>26. ASSUME NEW r \in Runners, StepFails(r) PROVE RunInv'
    <2>1. /\ turn[r].phase = "claimed" /\ turn'[r].phase = "failed"
          /\ \A q \in Runners : q # r => turn'[q] = turn[q]
      BY <1>26, PhaseChange DEF StepFails, Phases
    <2>2. h'.up = h.up /\ h'.status = h.status /\ h'.stop = h.stop /\ h'.stuck = h.stuck
      BY <1>26 DEF StepFails, TypeOK, Handles
    <2>3. UNCHANGED <<worker, host, discards>>
      BY <1>26 DEF StepFails
    <2> QED BY <2>1, <2>2, <2>3 DEF RunInv, NoTurn, Runners
  <1>27. ASSUME NEW r \in Runners, TurnSucceeds(r) PROVE RunInv'
    <2>1. /\ turn[r].phase = "body" /\ turn'[r].phase = "ok"
          /\ \A q \in Runners : q # r => turn'[q] = turn[q]
      BY <1>27, PhaseChange DEF TurnSucceeds, Phases
    <2>2. h'.up = h.up /\ h'.status = h.status /\ h'.stop = h.stop /\ h'.stuck = h.stuck
      BY <1>27 DEF TurnSucceeds, TypeOK, Handles
    <2>3. UNCHANGED <<worker, host, discards>>
      BY <1>27 DEF TurnSucceeds
    <2> QED BY <2>1, <2>2, <2>3 DEF RunInv, NoTurn, Runners
  <1>28. ASSUME NEW r \in Runners, TurnFails(r) PROVE RunInv'
    <2>1. /\ turn[r].phase = "body" /\ turn'[r].phase = "failed"
          /\ \A q \in Runners : q # r => turn'[q] = turn[q]
      BY <1>28, PhaseChange DEF TurnFails, Phases
    <2>2. h'.up = h.up /\ h'.status = h.status /\ h'.stop = h.stop /\ h'.stuck = h.stuck
      BY <1>28 DEF TurnFails, TypeOK, Handles
    <2>3. UNCHANGED <<worker, host, discards>>
      BY <1>28 DEF TurnFails
    <2> QED BY <2>1, <2>2, <2>3 DEF RunInv, NoTurn, Runners
  <1>29. CASE UNCHANGED vars
    BY <1>29 DEF RunInv, vars
  <1> QED
    BY <1>1, <1>2, <1>3, <1>4, <1>5, <1>6, <1>7, <1>8, <1>9, <1>10,
       <1>11, <1>12, <1>13, <1>14, <1>15, <1>16, <1>17, <1>18, <1>19, <1>20,
       <1>21, <1>22, <1>23, <1>24, <1>25, <1>26, <1>27, <1>28, <1>29
    DEF Next, WorkerSteps, HostSteps, TurnSteps, Runners


\* A part of a sequence has some of its elements.
LEMMA PrefixSet ==
  ASSUME NEW T, NEW s \in Seq(T), NEW n \in 0..(Len(s) - 1)
  PROVE  ToSet(SubSeq(s, 1, n)) \in SUBSET ToSet(s)
  <1>1. Len(s) \in Nat /\ Len(SubSeq(s, 1, n)) = n
    OBVIOUS
  <1>2. \A k \in 1..n : SubSeq(s, 1, n)[k] = s[k] /\ k \in DOMAIN s
    BY <1>1
  <1>3. DOMAIN SubSeq(s, 1, n) = 1..n
    BY <1>1
  <1> QED BY <1>2, <1>3 DEF ToSet


\* How the last inbox event of an item changes.
QueueChange(i) ==
    \/ ledger'[i].queue = ledger[i].queue
    \/ ledger'[i].queue = "queued" /\ Enqueue(i)
    \/ ledger'[i].queue = "requeued" /\ WorkerRequeues /\ i = worker.item /\ Queued(i)
    \/ ledger'[i].queue = "discarded" /\ Discard /\ Queued(i) /\ \E n \in DOMAIN discards : discards[n] = i
    \/ ledger'[i].queue = "completed" /\ Queued(i) /\ Sealed(i) /\ ~h.up
    \/ ledger'[i].queue = "completed" /\ Queued(i) /\ WorkerCompletes /\ i = worker.item
    \/ ledger'[i].queue = "completed" /\ Queued(i) /\ \E n \in DOMAIN taken : taken[n] = i

\* How the fate of the turn changes that wrote an item's input.
InputChange(i) ==
    \/ ledger'[i].input = ledger[i].input
    \/ ledger[i].input = "none" /\ ledger'[i].input = "open" /\ TurnStart("worker") /\ i = worker.item
    \/ ledger[i].input = "open" /\ ledger'[i].input = "interrupted" /\ \E r \in Runners : TurnStart(r)
    \/ /\ i = worker.item /\ turn["worker"].first /\ turn["worker"].phase \in {"body", "claimed"}
       /\ turn'["worker"].phase \in {"ok", "failed"}
       /\ \/ ledger'[i].input \in {"failed", "deferred"}
          \/ ledger'[i].input = "ended" /\ ("policy" \in Failures \/ TurnSucceeds("worker"))

\* How the log can change.
LEMMA LedgerMoves ==
  ASSUME HandleAssumption, TypeOK, RunInv, KnownInv, [Next]_vars
  PROVE  \A x \in Items : QueueChange(x) /\ InputChange(x)
  <1>1. ASSUME NewAgent PROVE \A x \in Items : QueueChange(x) /\ InputChange(x)
    <2>1. PICK S : S = {i \in Pending : Sealed(i)} /\ ledger' = Record(S, "completed")
      BY <1>1 DEF NewAgent
    <2>2. \A i \in S : i \in Items => Queued(i) /\ Sealed(i) /\ ~h.up
      BY <1>1, <2>1 DEF NewAgent, Pending
    <2>3. \A i \in Items : /\ ledger'[i].input = ledger[i].input
                           /\ i \in S => ledger'[i].queue = "completed"
                           /\ i \notin S => ledger'[i].queue = ledger[i].queue
      BY <2>1, RecordProps DEF QueueEvents
    <2> QED BY <1>1, <2>2, <2>3 DEF QueueChange, InputChange
  <1>2. ASSUME NewAgentFails PROVE \A x \in Items : QueueChange(x) /\ InputChange(x)
    <2>1. PICK S \in SUBSET {i \in Pending : Sealed(i)} : ledger' = Record(S, "completed")
      BY <1>2 DEF NewAgentFails
    <2>2. \A i \in S : i \in Items => Queued(i) /\ Sealed(i) /\ ~h.up
      BY <1>2, <2>1 DEF NewAgentFails, Pending
    <2>3. \A i \in Items : /\ ledger'[i].input = ledger[i].input
                           /\ i \in S => ledger'[i].queue = "completed"
                           /\ i \notin S => ledger'[i].queue = ledger[i].queue
      BY <2>1, RecordProps DEF QueueEvents
    <2> QED BY <1>2, <2>2, <2>3 DEF QueueChange, InputChange
  <1>3. ASSUME Crash PROVE \A x \in Items : QueueChange(x) /\ InputChange(x)
    <2>1. ledger' = ledger
      BY <1>3 DEF Crash
    <2> QED BY <2>1 DEF QueueChange, InputChange
  <1>4. ASSUME NEW i \in Items, Enqueue(i) PROVE \A x \in Items : QueueChange(x) /\ InputChange(x)
    <2>1. ledger' = Record({i}, "queued")
      BY <1>4 DEF Enqueue
    <2>2. \A j \in Items : /\ ledger'[j].input = ledger[j].input
                           /\ j = i => ledger'[j].queue = "queued"
                           /\ j # i => ledger'[j].queue = ledger[j].queue
      BY <2>1, RecordProps DEF QueueEvents
    <2> QED BY <1>4, <2>2 DEF QueueChange, InputChange
  <1>5. ASSUME NEW k \in BOOLEAN, Cancel(k) PROVE \A x \in Items : QueueChange(x) /\ InputChange(x)
    <2>1. ledger' = ledger
      BY <1>5 DEF Cancel
    <2> QED BY <2>1 DEF QueueChange, InputChange
  <1>6. ASSUME Discard PROVE \A x \in Items : QueueChange(x) /\ InputChange(x)
    <2>1. PICK S : S \in SUBSET ToSet(discards) /\ ledger' = Record(S, "discarded")
      BY <1>6 DEF Discard
    <2>2. \A i \in S : i \in Items => Queued(i) /\ \E n \in DOMAIN discards : discards[n] = i
      BY <2>1 DEF KnownInv, ToSet
    <2>3. \A i \in Items : /\ ledger'[i].input = ledger[i].input
                           /\ i \in S => ledger'[i].queue = "discarded"
                           /\ i \notin S => ledger'[i].queue = ledger[i].queue
      BY <2>1, RecordProps DEF QueueEvents
    <2> QED BY <1>6, <2>2, <2>3 DEF QueueChange, InputChange
  <1>7. ASSUME Dispose PROVE \A x \in Items : QueueChange(x) /\ InputChange(x)
    <2>1. ledger' = ledger
      BY <1>7 DEF Dispose
    <2> QED BY <2>1 DEF QueueChange, InputChange
  <1>8. ASSUME WhenIdle PROVE \A x \in Items : QueueChange(x) /\ InputChange(x)
    <2>1. ledger' = ledger
      BY <1>8 DEF WhenIdle
    <2> QED BY <2>1 DEF QueueChange, InputChange
  <1>9. ASSUME WhenIdleWakes PROVE \A x \in Items : QueueChange(x) /\ InputChange(x)
    <2>1. ledger' = ledger
      BY <1>9 DEF WhenIdleWakes
    <2> QED BY <2>1 DEF QueueChange, InputChange
  <1>10. ASSUME WorkerWakes PROVE \A x \in Items : QueueChange(x) /\ InputChange(x)
    <2>1. ledger' = ledger
      BY <1>10 DEF WorkerWakes
    <2> QED BY <2>1 DEF QueueChange, InputChange
  <1>11. ASSUME WorkerStops PROVE \A x \in Items : QueueChange(x) /\ InputChange(x)
    <2>1. ledger' = ledger
      BY <1>11 DEF WorkerStops
    <2> QED BY <2>1 DEF QueueChange, InputChange
  <1>12. ASSUME WorkerTakes PROVE \A x \in Items : QueueChange(x) /\ InputChange(x)
    <2>1. ledger' = ledger
      BY <1>12 DEF WorkerTakes
    <2> QED BY <2>1 DEF QueueChange, InputChange
  <1>13. ASSUME WorkerParks PROVE \A x \in Items : QueueChange(x) /\ InputChange(x)
    <2>1. ledger' = ledger
      BY <1>13 DEF WorkerParks
    <2> QED BY <2>1 DEF QueueChange, InputChange
  <1>14. ASSUME WorkerClaimFails PROVE \A x \in Items : QueueChange(x) /\ InputChange(x)
    <2>1. ledger' = ledger
      BY <1>14 DEF WorkerClaimFails
    <2> QED BY <2>1 DEF QueueChange, InputChange
  <1>15. ASSUME WorkerCompletes PROVE \A x \in Items : QueueChange(x) /\ InputChange(x)
    <2>1. PICK S : S = {worker.item} /\ ledger' = Record(S, "completed")
      BY <1>15 DEF WorkerCompletes
    <2>2. \A i \in S : i \in Items => Queued(i) /\ i = worker.item
      BY <1>15, <2>1 DEF KnownInv, RunInv, WorkerCompletes
    <2>3. \A i \in Items : /\ ledger'[i].input = ledger[i].input
                           /\ i \in S => ledger'[i].queue = "completed"
                           /\ i \notin S => ledger'[i].queue = ledger[i].queue
      BY <2>1, RecordProps DEF QueueEvents
    <2> QED BY <1>15, <2>2, <2>3 DEF QueueChange, InputChange
  <1>16. ASSUME WorkerRequeues PROVE \A x \in Items : QueueChange(x) /\ InputChange(x)
    <2>1. \/ ledger' = ledger
          \/ ledger' = Record({worker.item}, "requeued")
      BY <1>16 DEF WorkerRequeues, Requeues
    <2>2. Queued(worker.item)
      BY <1>16 DEF KnownInv, RunInv, WorkerRequeues, Requeues
    <2>3. CASE ledger' = ledger
      BY <2>3 DEF QueueChange, InputChange
    <2>4. CASE ledger' = Record({worker.item}, "requeued")
      <3>1. \A i \in Items : /\ ledger'[i].input = ledger[i].input
                             /\ i = worker.item => ledger'[i].queue = "requeued"
                             /\ i # worker.item => ledger'[i].queue = ledger[i].queue
        BY <2>4, RecordProps DEF QueueEvents
      <3> QED BY <1>16, <2>2, <3>1 DEF QueueChange, InputChange
    <2> QED BY <2>1, <2>3, <2>4
  <1>17. ASSUME NEW op \in Ops, HostStarts(op) PROVE \A x \in Items : QueueChange(x) /\ InputChange(x)
    <2>1. ledger' = ledger
      BY <1>17 DEF HostStarts
    <2> QED BY <2>1 DEF QueueChange, InputChange
  <1>18. ASSUME HostReturns PROVE \A x \in Items : QueueChange(x) /\ InputChange(x)
    <2>1. ledger' = ledger
      BY <1>18 DEF HostReturns
    <2> QED BY <2>1 DEF QueueChange, InputChange
  <1>19. ASSUME ApprovedReturns PROVE \A x \in Items : QueueChange(x) /\ InputChange(x)
    <2>1. ledger' = ledger
      BY <1>19 DEF ApprovedReturns
    <2> QED BY <2>1 DEF QueueChange, InputChange
  <1>20. ASSUME RunReturns PROVE \A x \in Items : QueueChange(x) /\ InputChange(x)
    <2>1. ledger' = ledger
      BY <1>20 DEF RunReturns
    <2> QED BY <2>1 DEF QueueChange, InputChange
  <1>21. ASSUME NEW r \in Runners, TurnRefused(r) PROVE \A x \in Items : QueueChange(x) /\ InputChange(x)
    <2>1. ledger' = ledger
      BY <1>21 DEF TurnRefused
    <2> QED BY <2>1 DEF QueueChange, InputChange
  <1>22. ASSUME NEW r \in Runners, TurnStart(r) PROVE \A x \in Items : QueueChange(x) /\ InputChange(x)
    <2> SUFFICES ASSUME NEW i \in Items PROVE QueueChange(i) /\ InputChange(i)
      OBVIOUS
    <2>1. ledger[i] \in [queue : QueueEvents, input : Fates]
      BY DEF TypeOK, Ledgers
    <2>2. \/ ledger'[i] = ledger[i]
          \/ r = "worker" /\ i = worker.item /\ ledger[i].input = "none" /\ ledger'[i] = [ledger[i] EXCEPT !.input = "open"]
          \/ ledger[i].input = "open" /\ ledger'[i] = [ledger[i] EXCEPT !.input = "interrupted"]
      BY <1>22 DEF TurnStart
    <2>3. CASE ledger'[i] = ledger[i]
      BY <2>3 DEF QueueChange, InputChange
    <2>4. CASE r = "worker" /\ i = worker.item /\ ledger[i].input = "none" /\ ledger'[i] = [ledger[i] EXCEPT !.input = "open"]
      <3>1. ledger'[i].queue = ledger[i].queue /\ ledger'[i].input = "open"
        BY <2>1, <2>4
      <3> QED BY <1>22, <2>4, <3>1 DEF QueueChange, InputChange
    <2>5. CASE ledger[i].input = "open" /\ ledger'[i] = [ledger[i] EXCEPT !.input = "interrupted"]
      <3>1. ledger'[i].queue = ledger[i].queue /\ ledger'[i].input = "interrupted"
        BY <2>1, <2>5
      <3> QED BY <1>22, <2>5, <3>1 DEF QueueChange, InputChange
    <2> QED BY <2>2, <2>3, <2>4, <2>5
  <1>23. ASSUME NEW r \in Runners, ClaimNextStepInputs(r) PROVE \A x \in Items : QueueChange(x) /\ InputChange(x)
    <2>1. ledger' = ledger
      BY <1>23 DEF ClaimNextStepInputs
    <2> QED BY <2>1 DEF QueueChange, InputChange
  <1>24. ASSUME NEW r \in Runners, AppendStepInputs(r) PROVE \A x \in Items : QueueChange(x) /\ InputChange(x)
    <2>1. PICK S : S = ToSet(taken) /\ ledger' = Record(S, "completed")
      BY <1>24 DEF AppendStepInputs
    <2>2. \A i \in S : i \in Items => Queued(i) /\ \E n \in DOMAIN taken : taken[n] = i
      BY <2>1 DEF KnownInv, ToSet
    <2>3. \A i \in Items : /\ ledger'[i].input = ledger[i].input
                           /\ i \in S => ledger'[i].queue = "completed"
                           /\ i \notin S => ledger'[i].queue = ledger[i].queue
      BY <2>1, RecordProps DEF QueueEvents
    <2> QED BY <1>24, <2>2, <2>3 DEF QueueChange, InputChange
  <1>25. ASSUME NEW r \in Runners, AppendStepInputsFails(r) PROVE \A x \in Items : QueueChange(x) /\ InputChange(x)
    <2>1. PICK done \in SUBSET ToSet(taken) :
            ledger' = [i \in Items |-> IF i \in done THEN Record(done, "completed")[i] ELSE Fate(r, "failed")[i]]
      <3>1. PICK n \in 0..(Len(taken) - 1) :
              ledger' = [i \in Items |-> IF i \in ToSet(SubSeq(taken, 1, n))
                                          THEN Record(ToSet(SubSeq(taken, 1, n)), "completed")[i]
                                          ELSE Fate(r, "failed")[i]]
        BY <1>25 DEF AppendStepInputsFails
      <3>2. taken \in Seq(Steers)
        BY DEF TypeOK
      <3>3. ToSet(SubSeq(taken, 1, n)) \in SUBSET ToSet(taken)
        BY <3>2, PrefixSet
      <3> QED BY <3>1, <3>3
    <2>2. \A i \in done : Queued(i) /\ \E n \in DOMAIN taken : taken[n] = i
      BY <2>1 DEF KnownInv, ToSet
    <2>3. \A i \in Items : i \in done => ledger'[i].queue = "completed" /\ ledger'[i].input = ledger[i].input
      BY <2>1, RecordProps DEF QueueEvents
    <2>4. \A i \in Items : i \notin done =>
            /\ ledger'[i].queue = ledger[i].queue
            /\ \/ ledger'[i].input = ledger[i].input
               \/ r = "worker" /\ turn[r].first /\ i = worker.item /\ ledger'[i].input = "failed"
      BY <2>1, FateProps DEF Fates
    <2>5. turn[r].phase = "claimed"
      BY <1>25 DEF AppendStepInputsFails
    <2>9. turn'[r].phase \in {"ok", "failed"}
      BY <1>25, PhaseChange DEF AppendStepInputsFails, Phases
    <2> QED BY <2>2, <2>3, <2>4, <2>5, <2>9 DEF QueueChange, InputChange
  <1>26. ASSUME NEW r \in Runners, StepFails(r) PROVE \A x \in Items : QueueChange(x) /\ InputChange(x)
    <2>1. ledger' = Fate(r, "failed") /\ turn[r].phase = "claimed"
      BY <1>26 DEF StepFails
    <2>2. \A i \in Items :
            /\ ledger'[i].queue = ledger[i].queue
            /\ \/ ledger'[i].input = ledger[i].input
               \/ r = "worker" /\ turn[r].first /\ i = worker.item /\ ledger'[i].input = "failed"
      BY <2>1, FateProps DEF Fates
    <2>9. turn'[r].phase \in {"ok", "failed"}
      BY <1>26, PhaseChange DEF StepFails, Phases
    <2> QED BY <1>26, <2>1, <2>2, <2>9 DEF QueueChange, InputChange
  <1>27. ASSUME NEW r \in Runners, TurnSucceeds(r) PROVE \A x \in Items : QueueChange(x) /\ InputChange(x)
    <2>1. ledger' = Fate(r, "ended") /\ turn[r].phase = "body"
      BY <1>27 DEF TurnSucceeds
    <2>2. \A i \in Items :
            /\ ledger'[i].queue = ledger[i].queue
            /\ \/ ledger'[i].input = ledger[i].input
               \/ r = "worker" /\ turn[r].first /\ i = worker.item /\ ledger'[i].input = "ended"
      BY <2>1, FateProps DEF Fates
    <2>9. turn'[r].phase \in {"ok", "failed"}
      BY <1>27, PhaseChange DEF TurnSucceeds, Phases
    <2> QED BY <1>27, <2>1, <2>2, <2>9 DEF QueueChange, InputChange
  <1>28. ASSUME NEW r \in Runners, TurnFails(r) PROVE \A x \in Items : QueueChange(x) /\ InputChange(x)
    <2>1. turn[r].phase = "body" /\ \E f \in {"failed", "ended", "deferred"} :
            ledger' = Fate(r, f) /\ (f = "ended" => "policy" \in Failures)
      BY <1>28 DEF TurnFails
    <2>2. PICK f \in {"failed", "ended", "deferred"} : ledger' = Fate(r, f) /\ (f = "ended" => "policy" \in Failures)
      BY <2>1
    <2>3. \A i \in Items :
            /\ ledger'[i].queue = ledger[i].queue
            /\ \/ ledger'[i].input = ledger[i].input
               \/ r = "worker" /\ turn[r].first /\ i = worker.item /\ ledger'[i].input = f
      BY <2>2, FateProps DEF Fates
    <2>9. turn'[r].phase \in {"ok", "failed"}
      BY <1>28, PhaseChange DEF TurnFails, Phases
    <2> QED BY <2>1, <2>2, <2>3, <2>9 DEF QueueChange, InputChange
  <1>29. CASE UNCHANGED vars
    BY <1>29 DEF QueueChange, InputChange, vars
  <1> QED
    BY <1>1, <1>2, <1>3, <1>4, <1>5, <1>6, <1>7, <1>8, <1>9, <1>10,
       <1>11, <1>12, <1>13, <1>14, <1>15, <1>16, <1>17, <1>18, <1>19, <1>20,
       <1>21, <1>22, <1>23, <1>24, <1>25, <1>26, <1>27, <1>28, <1>29
    DEF Next, WorkerSteps, HostSteps, TurnSteps, Runners

\* An item stays queued in the log, and is queued first by Enqueue.
LEMMA QueuedStays ==
  ASSUME HandleAssumption, TypeOK, RunInv, KnownInv, [Next]_vars
  PROVE  \A i \in Items : (Queued(i) => Queued(i)') /\ (Queued(i)' => Queued(i) \/ Enqueue(i))
  <1>1. \A i \in Items : QueueChange(i)
    BY LedgerMoves
  <1> QED BY <1>1 DEF QueueChange, Queued



\* How the queue of the log changes.
OrderChange ==
    \/ order' = order
    \/ \E j \in Items : Enqueue(j)
    \/ WorkerRequeues /\ order' = Requeue(worker.item)

\* Only Enqueue and a requeue write to the queue of the log.
LEMMA OrderMoves ==
  ASSUME TypeOK, [Next]_vars
  PROVE  OrderChange
  <1>1. ASSUME NewAgent PROVE OrderChange
    BY <1>1 DEF OrderChange, NewAgent
  <1>2. ASSUME NewAgentFails PROVE OrderChange
    BY <1>2 DEF OrderChange, NewAgentFails
  <1>3. ASSUME Crash PROVE OrderChange
    BY <1>3 DEF OrderChange, Crash
  <1>4. ASSUME NEW i \in Items, Enqueue(i) PROVE OrderChange
    BY <1>4 DEF OrderChange
  <1>5. ASSUME NEW k \in BOOLEAN, Cancel(k) PROVE OrderChange
    BY <1>5 DEF OrderChange, Cancel
  <1>6. ASSUME Discard PROVE OrderChange
    BY <1>6 DEF OrderChange, Discard
  <1>7. ASSUME Dispose PROVE OrderChange
    BY <1>7 DEF OrderChange, Dispose
  <1>8. ASSUME WhenIdle PROVE OrderChange
    BY <1>8 DEF OrderChange, WhenIdle
  <1>9. ASSUME WhenIdleWakes PROVE OrderChange
    BY <1>9 DEF OrderChange, WhenIdleWakes
  <1>10. ASSUME WorkerWakes PROVE OrderChange
    BY <1>10 DEF OrderChange, WorkerWakes
  <1>11. ASSUME WorkerStops PROVE OrderChange
    BY <1>11 DEF OrderChange, WorkerStops
  <1>12. ASSUME WorkerTakes PROVE OrderChange
    BY <1>12 DEF OrderChange, WorkerTakes
  <1>13. ASSUME WorkerParks PROVE OrderChange
    BY <1>13 DEF OrderChange, WorkerParks
  <1>14. ASSUME WorkerClaimFails PROVE OrderChange
    BY <1>14 DEF OrderChange, WorkerClaimFails
  <1>15. ASSUME WorkerCompletes PROVE OrderChange
    BY <1>15 DEF OrderChange, WorkerCompletes
  <1>16. ASSUME WorkerRequeues PROVE OrderChange
    BY <1>16 DEF OrderChange, WorkerRequeues, Requeues
  <1>17. ASSUME NEW op \in Ops, HostStarts(op) PROVE OrderChange
    BY <1>17 DEF OrderChange, HostStarts
  <1>18. ASSUME HostReturns PROVE OrderChange
    BY <1>18 DEF OrderChange, HostReturns
  <1>19. ASSUME ApprovedReturns PROVE OrderChange
    BY <1>19 DEF OrderChange, ApprovedReturns
  <1>20. ASSUME RunReturns PROVE OrderChange
    BY <1>20 DEF OrderChange, RunReturns
  <1>21. ASSUME NEW r \in Runners, TurnRefused(r) PROVE OrderChange
    BY <1>21 DEF OrderChange, TurnRefused
  <1>22. ASSUME NEW r \in Runners, TurnStart(r) PROVE OrderChange
    BY <1>22 DEF OrderChange, TurnStart
  <1>23. ASSUME NEW r \in Runners, ClaimNextStepInputs(r) PROVE OrderChange
    BY <1>23 DEF OrderChange, ClaimNextStepInputs
  <1>24. ASSUME NEW r \in Runners, AppendStepInputs(r) PROVE OrderChange
    BY <1>24 DEF OrderChange, AppendStepInputs
  <1>25. ASSUME NEW r \in Runners, AppendStepInputsFails(r) PROVE OrderChange
    BY <1>25 DEF OrderChange, AppendStepInputsFails
  <1>26. ASSUME NEW r \in Runners, StepFails(r) PROVE OrderChange
    BY <1>26 DEF OrderChange, StepFails
  <1>27. ASSUME NEW r \in Runners, TurnSucceeds(r) PROVE OrderChange
    BY <1>27 DEF OrderChange, TurnSucceeds
  <1>28. ASSUME NEW r \in Runners, TurnFails(r) PROVE OrderChange
    BY <1>28 DEF OrderChange, TurnFails
  <1>29. CASE UNCHANGED vars
    BY <1>29 DEF OrderChange, vars
  <1> QED
    BY <1>1, <1>2, <1>3, <1>4, <1>5, <1>6, <1>7, <1>8, <1>9, <1>10,
       <1>11, <1>12, <1>13, <1>14, <1>15, <1>16, <1>17, <1>18, <1>19, <1>20,
       <1>21, <1>22, <1>23, <1>24, <1>25, <1>26, <1>27, <1>28, <1>29
    DEF Next, WorkerSteps, HostSteps, TurnSteps, Runners

\* Steps keep OrderInv.
LEMMA OrderNext ==
  ASSUME HandleAssumption, TypeOK, RunInv, OrderInv, KnownInv, [Next]_vars
  PROVE  OrderInv'
  <1>1. \A i \in Items : (Queued(i) => Queued(i)') /\ (Queued(i)' => Queued(i) \/ Enqueue(i))
    BY QueuedStays
  <1>2. order \in Seq(Items) /\ Len(order) \in Nat /\ DOMAIN order = 1..Len(order)
    BY DEF TypeOK
  <1>3. CASE \E j \in Items : Enqueue(j)
    <2>1. PICK j \in Items : Enqueue(j)
      BY <1>3
    <2>2. order' = Append(order, j) /\ ~Queued(j) /\ Queued(j)' /\ \A i \in Items : i # j => (Queued(i)' <=> Queued(i))
      <3>1. order' = Append(order, j) /\ ~Queued(j) /\ ledger' = Record({j}, "queued")
        BY <2>1 DEF Enqueue, Sendable
      <3>2. ledger'[j].queue = "queued" /\ \A i \in Items : i # j => ledger'[i].queue = ledger[i].queue
        BY <3>1, RecordProps DEF QueueEvents
      <3> QED BY <3>1, <3>2 DEF Queued
    <2>3. /\ DOMAIN order' = 1..(Len(order) + 1) /\ order'[Len(order) + 1] = j
          /\ \A n \in 1..Len(order) : order'[n] = order[n] /\ order'[n] \in Items
      BY <1>2, <2>2
    <2>4. \A n \in 1..Len(order) : order'[n] # j
      BY <1>2, <2>2, <2>3 DEF OrderInv
    <2>5. \A i \in Items : Queued(i)' => \E n \in DOMAIN order' : order'[n] = i
      <3> SUFFICES ASSUME NEW i \in Items, Queued(i)' PROVE \E n \in DOMAIN order' : order'[n] = i
        OBVIOUS
      <3>1. CASE i = j
        BY <1>2, <2>3, <3>1
      <3>2. CASE i # j
        <4>1. PICK n \in DOMAIN order : order[n] = i
          BY <2>2, <3>2 DEF OrderInv
        <4> QED BY <1>2, <2>3, <4>1
      <3> QED BY <3>1, <3>2
    <2>6. \A n \in DOMAIN order' : ledger'[order'[n]].queue # "none"
      <3> SUFFICES ASSUME NEW n \in DOMAIN order' PROVE ledger'[order'[n]].queue # "none"
        OBVIOUS
      <3>1. CASE n = Len(order) + 1
        BY <2>2, <2>3, <3>1 DEF Queued
      <3>2. CASE n \in 1..Len(order)
        <4>1. Queued(order'[n]) /\ order'[n] \in Items /\ order'[n] # j
          BY <1>2, <2>3, <2>4, <3>2 DEF OrderInv
        <4> QED BY <2>2, <4>1 DEF Queued
      <3> QED BY <1>2, <2>3, <3>1, <3>2
    <2>7. \A m, n \in DOMAIN order' : order'[m] = order'[n] => m = n
      BY <1>2, <2>3, <2>4 DEF OrderInv
    <2> QED BY <2>5, <2>6, <2>7 DEF OrderInv, Queued
  <1>4. CASE order' = order /\ ~\E j \in Items : Enqueue(j)
    BY <1>1, <1>2, <1>4 DEF OrderInv
  <1>5. CASE WorkerRequeues /\ order' = Requeue(worker.item) /\ ~\E j \in Items : Enqueue(j)
    <2> DEFINE k == Keep(order, Items \ {worker.item})
    <2>1. worker.item \in Items /\ Queued(worker.item)
      BY <1>5, ItemKinds DEF WorkerRequeues, Requeues, RunInv, KnownInv, TypeOK, Workers
    <2>2. /\ k \in Seq(Items)
          /\ \A n \in DOMAIN k : \E m \in DOMAIN order : k[n] = order[m] /\ order[m] \in Items \ {worker.item}
          /\ \A m \in DOMAIN order : order[m] \in Items \ {worker.item} => \E n \in DOMAIN k : k[n] = order[m]
      <3> DEFINE S == Items \ {worker.item}
      <3> HIDE DEF S
      <3>1. /\ Keep(order, S) \in Seq(Items)
            /\ \A n \in DOMAIN Keep(order, S) : \E m \in DOMAIN order : Keep(order, S)[n] = order[m] /\ order[m] \in S
            /\ \A m \in DOMAIN order : order[m] \in S => \E n \in DOMAIN Keep(order, S) : Keep(order, S)[n] = order[m]
        <4>1. order \in Seq(Items)
          BY <1>2
        <4> QED BY ONLY <4>1, KeepProps
      <3> QED BY <3>1 DEF S
    <2>3. \A m, n \in DOMAIN k : k[m] = k[n] => m = n
      <3>1. \A m, n \in DOMAIN order : order[m] = order[n] /\ order[n] \in Items \ {worker.item} => m = n
        BY DEF OrderInv
      <3> QED BY <1>2, <3>1, KeepInjective
    <2>4. order' = Append(k, worker.item)
      BY <1>5 DEF Requeue
    <2> HIDE DEF k
    <2>5. /\ Len(k) \in Nat /\ DOMAIN k = 1..Len(k)
          /\ DOMAIN order' = 1..(Len(k) + 1) /\ order'[Len(k) + 1] = worker.item
          /\ \A n \in 1..Len(k) : order'[n] = k[n]
      BY <2>1, <2>2, <2>4
    <2>6. \A i \in Items : Queued(i)' <=> Queued(i)
      BY <1>1, <1>5
    <2>7. \A n \in DOMAIN order' : ledger'[order'[n]].queue # "none"
      <3> SUFFICES ASSUME NEW n \in DOMAIN order' PROVE ledger'[order'[n]].queue # "none"
        OBVIOUS
      <3>1. CASE n = Len(k) + 1
        BY <2>1, <2>5, <2>6, <3>1 DEF Queued
      <3>2. CASE n \in DOMAIN k
        <4>1. PICK m \in DOMAIN order : k[n] = order[m]
          BY <2>2, <3>2
        <4>2. order'[n] = order[m] /\ order[m] \in Items
          BY <1>2, <2>5, <3>2, <4>1
        <4> QED BY <2>6, <4>2 DEF OrderInv, Queued
      <3> QED BY <2>5, <3>1, <3>2
    <2>8. \A i \in Items : Queued(i)' => \E n \in DOMAIN order' : order'[n] = i
      <3> SUFFICES ASSUME NEW i \in Items, Queued(i)' PROVE \E n \in DOMAIN order' : order'[n] = i
        OBVIOUS
      <3>1. CASE i = worker.item
        BY <2>5, <3>1
      <3>2. CASE i # worker.item
        <4>1. PICK m \in DOMAIN order : order[m] = i
          BY <2>6 DEF OrderInv
        <4>2. PICK n \in DOMAIN k : k[n] = i
          BY <2>2, <3>2, <4>1
        <4> QED BY <2>5, <4>2
      <3> QED BY <3>1, <3>2
    <2>9. \A n \in DOMAIN k : k[n] # worker.item
      BY <2>2
    <2>10. \A m, n \in DOMAIN order' : order'[m] = order'[n] => m = n
      BY <2>3, <2>5, <2>9
    <2> QED BY <2>7, <2>8, <2>10 DEF OrderInv, Queued
  <1> QED BY <1>3, <1>4, <1>5, OrderMoves DEF OrderChange


\* Where the next inbox has its items from: the inbox, a new command, the worker,
\* a turn, or the log.
NewInbox ==
    \A n \in DOMAIN h'.inbox :
        \/ \E k \in DOMAIN h.inbox : h'.inbox[n] = h.inbox[k]
        \/ \E j \in Items : h'.inbox[n] = j /\ Enqueue(j)
        \/ h'.inbox[n] = worker.item /\ worker.item # 0 /\ worker'.item = 0
           /\ (WorkerClaimFails \/ WorkerRequeues)
        \/ \E k \in DOMAIN taken : h'.inbox[n] = taken[k]
        \/ NewAgent /\ h'.inbox[n] \in Pending /\ ~Sealed(h'.inbox[n])

\* Nothing else gets into the inbox.
LEMMA InboxMoves ==
  ASSUME HandleAssumption, TypeOK, RunInv, [Next]_vars
  PROVE  NewInbox
  <1>1. ASSUME NewAgent PROVE NewInbox
    <2>1. h'.inbox = Restored
      BY <1>1 DEF NewAgent, NoHandle
    <2>2. \A n \in DOMAIN Restored : Restored[n] \in {i \in Pending : ~Sealed(i)}
      <3> DEFINE S == {i \in Pending : ~Sealed(i)}
      <3>1. Restored = Keep(order, S)
        BY DEF Restored
      <3> HIDE DEF S
      <3>2. order \in Seq(Items)
        BY DEF TypeOK
      <3>3. \A n \in DOMAIN Keep(order, S) : Keep(order, S)[n] \in S
        BY <3>2, KeepProps
      <3> QED BY <3>1, <3>3 DEF S
    <2> QED BY <1>1, <2>1, <2>2 DEF NewInbox
  <1>2. ASSUME NewAgentFails PROVE NewInbox
    BY <1>2 DEF NewInbox, NewAgentFails
  <1>3. ASSUME Crash PROVE NewInbox
    <2>1. h'.inbox = <<>>
      BY <1>3 DEF Crash, NoHandle
    <2> QED BY <2>1 DEF NewInbox
  <1>4. ASSUME NEW i \in Items, Enqueue(i) PROVE NewInbox
    <2>1. h'.inbox = Append(h.inbox, i) /\ h.inbox \in Seq(Items)
      BY <1>4 DEF Enqueue, TypeOK, Handles
    <2>2. \A n \in DOMAIN h'.inbox : h'.inbox[n] = i \/ \E k \in DOMAIN h.inbox : h'.inbox[n] = h.inbox[k]
      BY <2>1
    <2> QED BY <1>4, <2>2 DEF NewInbox
  <1>5. ASSUME NEW k \in BOOLEAN, Cancel(k) PROVE NewInbox
    <2>1. h'.inbox = <<>> \/ h'.inbox = h.inbox
      BY <1>5 DEF Cancel, TypeOK, Handles
    <2> QED BY <2>1 DEF NewInbox
  <1>6. ASSUME Discard PROVE NewInbox
    BY <1>6 DEF NewInbox, Discard
  <1>7. ASSUME Dispose PROVE NewInbox
    <2>1. h'.inbox = <<>>
      BY <1>7 DEF Dispose, TypeOK, Handles
    <2> QED BY <2>1 DEF NewInbox
  <1>8. ASSUME WhenIdle PROVE NewInbox
    BY <1>8 DEF NewInbox, WhenIdle
  <1>9. ASSUME WhenIdleWakes PROVE NewInbox
    <2>1. h'.inbox = h.inbox
      BY <1>9 DEF WhenIdleWakes, TypeOK, Handles
    <2> QED BY <2>1 DEF NewInbox
  <1>10. ASSUME WorkerWakes PROVE NewInbox
    <2>1. h'.inbox = h.inbox
      BY <1>10 DEF WorkerWakes, TypeOK, Handles
    <2> QED BY <2>1 DEF NewInbox
  <1>11. ASSUME WorkerStops PROVE NewInbox
    BY <1>11 DEF NewInbox, WorkerStops
  <1>12. ASSUME WorkerTakes PROVE NewInbox
    <2> DEFINE n == NextWakeable(h.inbox)
    <2>1. n \in DOMAIN h.inbox /\ h.inbox \in Seq(Items)
      BY <1>12, NextWakeableFollowUp DEF WorkerTakes, TypeOK, Handles
    <2>2. h'.inbox = RemoveAt(h.inbox, n)
      BY <1>12 DEF WorkerTakes, TypeOK, Handles
    <2> HIDE DEF n
    <2>3. \A m \in DOMAIN h'.inbox : \E k \in DOMAIN h.inbox : h'.inbox[m] = h.inbox[k]
      <3>1. /\ RemoveAt(h.inbox, n) \in Seq(Items) /\ Len(RemoveAt(h.inbox, n)) = Len(h.inbox) - 1
            /\ \A m \in DOMAIN RemoveAt(h.inbox, n) :
                 RemoveAt(h.inbox, n)[m] = IF m < n THEN h.inbox[m] ELSE h.inbox[m + 1]
        BY <2>1, RemoveAtProps
      <3>2. DOMAIN h.inbox = 1..Len(h.inbox) /\ Len(h.inbox) \in Nat /\ DOMAIN h'.inbox = 1..(Len(h.inbox) - 1)
        BY <2>1, <2>2, <3>1
      <3> SUFFICES ASSUME NEW m \in DOMAIN h'.inbox PROVE \E k \in DOMAIN h.inbox : h'.inbox[m] = h.inbox[k]
        OBVIOUS
      <3>3. m \in DOMAIN h.inbox /\ m + 1 \in DOMAIN h.inbox
        BY <3>2
      <3> QED BY <2>2, <3>1, <3>3
    <2> QED BY <2>3 DEF NewInbox
  <1>13. ASSUME WorkerParks PROVE NewInbox
    BY <1>13 DEF NewInbox, WorkerParks
  <1>14. ASSUME WorkerClaimFails PROVE NewInbox
    <2>1. h.inbox \in Seq(Items) /\ worker.item \in Items /\ worker.item # 0
      BY <1>14, ItemKinds DEF WorkerClaimFails, RunInv, TypeOK, Handles, Workers
    <2>2. h'.inbox = <<worker.item>> \o h.inbox
      BY <1>14 DEF WorkerClaimFails, TypeOK, Handles
    <2>3. /\ Len(h.inbox) \in Nat /\ DOMAIN h.inbox = 1..Len(h.inbox)
          /\ DOMAIN (<<worker.item>> \o h.inbox) = 1..(Len(h.inbox) + 1)
          /\ (<<worker.item>> \o h.inbox)[1] = worker.item
          /\ \A m \in 2..(Len(h.inbox) + 1) : (<<worker.item>> \o h.inbox)[m] = h.inbox[m - 1]
      BY <2>1, PushProps
    <2>4. \A m \in DOMAIN h'.inbox : h'.inbox[m] = worker.item \/ \E k \in DOMAIN h.inbox : h'.inbox[m] = h.inbox[k]
      <3> SUFFICES ASSUME NEW m \in DOMAIN h'.inbox, h'.inbox # h.inbox, m # 1
                   PROVE  \E k \in DOMAIN h.inbox : h'.inbox[m] = h.inbox[k]
        BY <2>2, <2>3
      <3>1. m \in 2..(Len(h.inbox) + 1) /\ m - 1 \in DOMAIN h.inbox
        BY <2>2, <2>3
      <3> QED BY <2>2, <2>3, <3>1
    <2>5. worker'.item = 0
      BY <1>14 DEF WorkerClaimFails
    <2> QED BY <1>14, <2>1, <2>4, <2>5 DEF NewInbox
  <1>15. ASSUME WorkerCompletes PROVE NewInbox
    <2>1. h'.inbox = h.inbox
      BY <1>15, BackProps DEF WorkerCompletes, TypeOK, Handles
    <2> QED BY <2>1 DEF NewInbox
  <1>16. ASSUME WorkerRequeues PROVE NewInbox
    <2>1. h.inbox \in Seq(Items) /\ worker.item \in Items /\ worker.item # 0
      BY <1>16, ItemKinds DEF WorkerRequeues, Requeues, RunInv, TypeOK, Handles, Workers
    <2>2. h'.inbox = <<worker.item>> \o h.inbox \/ h'.inbox = h.inbox
      <3>1. <<worker.item>> \o h.inbox \in Seq(Items)
        BY <2>1, PushProps
      <3> QED BY <1>16, <2>1, <3>1, BackProps DEF WorkerRequeues
    <2>3. /\ Len(h.inbox) \in Nat /\ DOMAIN h.inbox = 1..Len(h.inbox)
          /\ DOMAIN (<<worker.item>> \o h.inbox) = 1..(Len(h.inbox) + 1)
          /\ (<<worker.item>> \o h.inbox)[1] = worker.item
          /\ \A m \in 2..(Len(h.inbox) + 1) : (<<worker.item>> \o h.inbox)[m] = h.inbox[m - 1]
      BY <2>1, PushProps
    <2>4. \A m \in DOMAIN h'.inbox : h'.inbox[m] = worker.item \/ \E k \in DOMAIN h.inbox : h'.inbox[m] = h.inbox[k]
      <3> SUFFICES ASSUME NEW m \in DOMAIN h'.inbox, h'.inbox # h.inbox, m # 1
                   PROVE  \E k \in DOMAIN h.inbox : h'.inbox[m] = h.inbox[k]
        BY <2>2, <2>3
      <3>1. m \in 2..(Len(h.inbox) + 1) /\ m - 1 \in DOMAIN h.inbox
        BY <2>2, <2>3
      <3> QED BY <2>2, <2>3, <3>1
    <2>5. worker'.item = 0
      BY <1>16 DEF WorkerRequeues, Requeues
    <2> QED BY <1>16, <2>1, <2>4, <2>5 DEF NewInbox
  <1>17. ASSUME NEW op \in Ops, HostStarts(op) PROVE NewInbox
    <2>1. h'.inbox = h.inbox
      BY <1>17 DEF HostStarts, TypeOK, Handles
    <2> QED BY <2>1 DEF NewInbox
  <1>18. ASSUME HostReturns PROVE NewInbox
    <2>1. h'.inbox = h.inbox
      BY <1>18, BackProps DEF HostReturns, TypeOK, Handles
    <2> QED BY <2>1 DEF NewInbox
  <1>19. ASSUME ApprovedReturns PROVE NewInbox
    <2>1. Back(h.inbox) \in Handles /\ Back(h.inbox).inbox = h.inbox
      BY BackProps DEF TypeOK, Handles
    <2>2. h'.inbox = h.inbox
      BY <1>19, <2>1 DEF ApprovedReturns, Handles
    <2> QED BY <2>2 DEF NewInbox
  <1>20. ASSUME RunReturns PROVE NewInbox
    <2>1. Back(h.inbox) \in Handles /\ Back(h.inbox).inbox = h.inbox
      BY BackProps DEF TypeOK, Handles
    <2>2. h'.inbox = h.inbox
      BY <1>20, <2>1 DEF RunReturns, Handles
    <2> QED BY <2>2 DEF NewInbox
  <1>21. ASSUME NEW r \in Runners, TurnRefused(r) PROVE NewInbox
    BY <1>21 DEF NewInbox, TurnRefused
  <1>22. ASSUME NEW r \in Runners, TurnStart(r) PROVE NewInbox
    BY <1>22 DEF NewInbox, TurnStart
  <1>23. ASSUME NEW r \in Runners, ClaimNextStepInputs(r) PROVE NewInbox
    <2>1. h'.inbox = Keep(h.inbox, FollowUps) /\ h.inbox \in Seq(Items)
      BY <1>23 DEF ClaimNextStepInputs, TypeOK, Handles
    <2>2. \A n \in DOMAIN Keep(h.inbox, FollowUps) : \E k \in DOMAIN h.inbox : Keep(h.inbox, FollowUps)[n] = h.inbox[k]
      BY <2>1, KeepProps
    <2> QED BY <2>1, <2>2 DEF NewInbox
  <1>24. ASSUME NEW r \in Runners, AppendStepInputs(r) PROVE NewInbox
    BY <1>24 DEF NewInbox, AppendStepInputs
  <1>25. ASSUME NEW r \in Runners, AppendStepInputsFails(r) PROVE NewInbox
    <2>1. h'.inbox = h.inbox \/ h'.inbox = taken \o h.inbox
      BY <1>25 DEF AppendStepInputsFails, TypeOK, Handles
    <2>2. taken \in Seq(Items) /\ h.inbox \in Seq(Items)
      BY ItemKinds DEF TypeOK, Handles
    <2>3. /\ taken \o h.inbox \in Seq(Items) /\ Len(taken \o h.inbox) = Len(taken) + Len(h.inbox)
          /\ \A m \in 1..Len(taken) : (taken \o h.inbox)[m] = taken[m]
          /\ \A m \in 1..Len(h.inbox) : (taken \o h.inbox)[Len(taken) + m] = h.inbox[m]
      BY <2>2, JoinProps
    <2>4. ASSUME NEW n \in DOMAIN (taken \o h.inbox)
          PROVE  \/ \E k \in DOMAIN h.inbox : (taken \o h.inbox)[n] = h.inbox[k]
                 \/ \E k \in DOMAIN taken : (taken \o h.inbox)[n] = taken[k]
      <3>1. Len(taken) \in Nat /\ Len(h.inbox) \in Nat /\ n \in 1..(Len(taken) + Len(h.inbox))
        BY <2>2, <2>3
      <3>2. CASE n <= Len(taken)
        BY <2>2, <2>3, <3>1, <3>2
      <3>3. CASE ~(n <= Len(taken))
        <4>1. PICK m \in 1..Len(h.inbox) : n = Len(taken) + m
          <5>1. n - Len(taken) \in 1..Len(h.inbox) /\ n = Len(taken) + (n - Len(taken))
            BY <3>1, <3>3
          <5> QED BY <5>1
        <4>2. (taken \o h.inbox)[n] = h.inbox[m] /\ m \in DOMAIN h.inbox
          BY <2>2, <2>3, <4>1
        <4> QED BY <4>2
      <3> QED BY <3>2, <3>3
    <2> QED BY <2>1, <2>4 DEF NewInbox
  <1>26. ASSUME NEW r \in Runners, StepFails(r) PROVE NewInbox
    BY <1>26 DEF NewInbox, StepFails
  <1>27. ASSUME NEW r \in Runners, TurnSucceeds(r) PROVE NewInbox
    BY <1>27 DEF NewInbox, TurnSucceeds
  <1>28. ASSUME NEW r \in Runners, TurnFails(r) PROVE NewInbox
    BY <1>28 DEF NewInbox, TurnFails
  <1>29. CASE UNCHANGED vars
    BY <1>29 DEF NewInbox, vars
  <1> QED
    BY <1>1, <1>2, <1>3, <1>4, <1>5, <1>6, <1>7, <1>8, <1>9, <1>10,
       <1>11, <1>12, <1>13, <1>14, <1>15, <1>16, <1>17, <1>18, <1>19, <1>20,
       <1>21, <1>22, <1>23, <1>24, <1>25, <1>26, <1>27, <1>28, <1>29
    DEF Next, WorkerSteps, HostSteps, TurnSteps, Runners
\* Where a sweep, a turn and the worker have their items from.
NewHands ==
    /\ \/ discards' = discards
       \/ discards' = <<>>
       \/ discards' = h.inbox /\ h'.inbox = <<>> /\ worker' = worker
    /\ \A n \in DOMAIN taken' :
         \/ \E k \in DOMAIN taken : taken'[n] = taken[k]
         \/ \E k \in DOMAIN h.inbox : taken'[n] = h.inbox[k]
    /\ \/ worker'.item = worker.item
       \/ worker'.item = 0
       \/ WorkerTakes /\ \E k \in DOMAIN h.inbox : worker'.item = h.inbox[k]

\* Items leave the inbox for a sweep, a turn or the worker.
LEMMA HandsMove ==
  ASSUME HandleAssumption, TypeOK, [Next]_vars
  PROVE  NewHands
  <1>1. ASSUME NewAgent PROVE NewHands
    BY <1>1 DEF NewHands, NewAgent
  <1>2. ASSUME NewAgentFails PROVE NewHands
    BY <1>2 DEF NewHands, NewAgentFails
  <1>3. ASSUME Crash PROVE NewHands
    BY <1>3 DEF NewHands, Crash
  <1>4. ASSUME NEW i \in Items, Enqueue(i) PROVE NewHands
    BY <1>4 DEF NewHands, Enqueue
  <1>5. ASSUME NEW k \in BOOLEAN, Cancel(k) PROVE NewHands
    <2>1. k \/ (discards' = h.inbox /\ h'.inbox = <<>>)
      BY <1>5 DEF Cancel, TypeOK, Handles
    <2> QED BY <1>5, <2>1 DEF NewHands, Cancel
  <1>6. ASSUME Discard PROVE NewHands
    BY <1>6 DEF NewHands, Discard
  <1>7. ASSUME Dispose PROVE NewHands
    <2>1. discards' = h.inbox /\ h'.inbox = <<>>
      BY <1>7 DEF Dispose, TypeOK, Handles
    <2> QED BY <1>7, <2>1 DEF NewHands, Dispose
  <1>8. ASSUME WhenIdle PROVE NewHands
    BY <1>8 DEF NewHands, WhenIdle
  <1>9. ASSUME WhenIdleWakes PROVE NewHands
    BY <1>9 DEF NewHands, WhenIdleWakes
  <1>10. ASSUME WorkerWakes PROVE NewHands
    <2>1. worker'.item = worker.item
      BY <1>10 DEF WorkerWakes, TypeOK, Workers
    <2> QED BY <1>10, <2>1 DEF NewHands, WorkerWakes
  <1>11. ASSUME WorkerStops PROVE NewHands
    <2>1. worker'.item = worker.item
      BY <1>11 DEF WorkerStops, TypeOK, Workers
    <2> QED BY <1>11, <2>1 DEF NewHands, WorkerStops
  <1>12. ASSUME WorkerTakes PROVE NewHands
    <2> DEFINE n == NextWakeable(h.inbox)
    <2>1. n \in DOMAIN h.inbox
      BY <1>12, NextWakeableFollowUp DEF WorkerTakes, TypeOK, Handles
    <2>2. worker'.item = h.inbox[n] /\ UNCHANGED <<discards, taken>>
      BY <1>12 DEF WorkerTakes
    <2> HIDE DEF n
    <2> QED BY <1>12, <2>1, <2>2 DEF NewHands
  <1>13. ASSUME WorkerParks PROVE NewHands
    <2>1. worker'.item = worker.item
      BY <1>13 DEF WorkerParks, TypeOK, Workers
    <2> QED BY <1>13, <2>1 DEF NewHands, WorkerParks
  <1>14. ASSUME WorkerClaimFails PROVE NewHands
    BY <1>14 DEF NewHands, WorkerClaimFails
  <1>15. ASSUME WorkerCompletes PROVE NewHands
    BY <1>15 DEF NewHands, WorkerCompletes
  <1>16. ASSUME WorkerRequeues PROVE NewHands
    BY <1>16 DEF NewHands, WorkerRequeues, Requeues
  <1>17. ASSUME NEW op \in Ops, HostStarts(op) PROVE NewHands
    BY <1>17 DEF NewHands, HostStarts
  <1>18. ASSUME HostReturns PROVE NewHands
    BY <1>18 DEF NewHands, HostReturns
  <1>19. ASSUME ApprovedReturns PROVE NewHands
    BY <1>19 DEF NewHands, ApprovedReturns
  <1>20. ASSUME RunReturns PROVE NewHands
    BY <1>20 DEF NewHands, RunReturns
  <1>21. ASSUME NEW r \in Runners, TurnRefused(r) PROVE NewHands
    <2>1. worker'.item = worker.item
      BY <1>21 DEF TurnRefused, TypeOK, Workers
    <2> QED BY <1>21, <2>1 DEF NewHands, TurnRefused
  <1>22. ASSUME NEW r \in Runners, TurnStart(r) PROVE NewHands
    <2>1. worker'.item = worker.item
      BY <1>22 DEF TurnStart, TypeOK, Workers
    <2> QED BY <1>22, <2>1 DEF NewHands, TurnStart
  <1>23. ASSUME NEW r \in Runners, ClaimNextStepInputs(r) PROVE NewHands
    <2>1. taken' = Keep(h.inbox, Steers) /\ h.inbox \in Seq(Items)
      BY <1>23 DEF ClaimNextStepInputs, TypeOK, Handles
    <2>2. \A n \in DOMAIN Keep(h.inbox, Steers) : \E k \in DOMAIN h.inbox : Keep(h.inbox, Steers)[n] = h.inbox[k]
      BY <2>1, KeepProps
    <2> QED BY <1>23, <2>1, <2>2 DEF NewHands, ClaimNextStepInputs
  <1>24. ASSUME NEW r \in Runners, AppendStepInputs(r) PROVE NewHands
    BY <1>24 DEF NewHands, AppendStepInputs
  <1>25. ASSUME NEW r \in Runners, AppendStepInputsFails(r) PROVE NewHands
    BY <1>25 DEF NewHands, AppendStepInputsFails
  <1>26. ASSUME NEW r \in Runners, StepFails(r) PROVE NewHands
    BY <1>26 DEF NewHands, StepFails
  <1>27. ASSUME NEW r \in Runners, TurnSucceeds(r) PROVE NewHands
    BY <1>27 DEF NewHands, TurnSucceeds
  <1>28. ASSUME NEW r \in Runners, TurnFails(r) PROVE NewHands
    BY <1>28 DEF NewHands, TurnFails
  <1>29. CASE UNCHANGED vars
    BY <1>29 DEF NewHands, vars
  <1> QED
    BY <1>1, <1>2, <1>3, <1>4, <1>5, <1>6, <1>7, <1>8, <1>9, <1>10,
       <1>11, <1>12, <1>13, <1>14, <1>15, <1>16, <1>17, <1>18, <1>19, <1>20,
       <1>21, <1>22, <1>23, <1>24, <1>25, <1>26, <1>27, <1>28, <1>29
    DEF Next, WorkerSteps, HostSteps, TurnSteps, Runners

\* Steps keep KnownInv.
LEMMA KnownNext ==
  ASSUME HandleAssumption, TypeOK, RunInv, KnownInv, [Next]_vars
  PROVE  KnownInv'
  <1>1. \A i \in Items : (Queued(i) => Queued(i)') /\ (Enqueue(i) => Queued(i)')
    <2>1. \A i \in Items : Queued(i) => Queued(i)'
      BY QueuedStays
    <2>2. ASSUME NEW i \in Items, Enqueue(i) PROVE Queued(i)'
      <3>1. ledger' = Record({i}, "queued")
        BY <2>2 DEF Enqueue
      <3> QED BY <3>1, RecordProps DEF Queued, QueueEvents
    <2> QED BY <2>1, <2>2
  <1>2. NewInbox /\ NewHands
    BY InboxMoves, HandsMove
  <1>3. /\ \A n \in DOMAIN h.inbox : h.inbox[n] \in Items
        /\ \A n \in DOMAIN taken : taken[n] \in Items
        /\ \A n \in DOMAIN discards : discards[n] \in Items
        /\ worker.item # 0 => worker.item \in Items
    BY ItemKinds DEF TypeOK, Handles, Workers
  <1>4. ASSUME NEW n \in DOMAIN h'.inbox PROVE ledger'[h'.inbox[n]].queue # "none"
    <2>1. CASE \E k \in DOMAIN h.inbox : h'.inbox[n] = h.inbox[k]
      BY <1>1, <1>3, <2>1 DEF KnownInv, Queued
    <2>2. CASE \E j \in Items : h'.inbox[n] = j /\ Enqueue(j)
      BY <1>1, <2>2 DEF Queued
    <2>3. CASE h'.inbox[n] = worker.item /\ worker.item # 0
      BY <1>1, <1>3, <2>3 DEF KnownInv, Queued
    <2>4. CASE \E k \in DOMAIN taken : h'.inbox[n] = taken[k]
      BY <1>1, <1>3, <2>4 DEF KnownInv, Queued
    <2>5. CASE h'.inbox[n] \in Pending
      BY <1>1, <2>5 DEF Pending, Queued
    <2> QED BY <1>2, <2>1, <2>2, <2>3, <2>4, <2>5 DEF NewInbox
  <1>5. ASSUME NEW n \in DOMAIN discards' PROVE ledger'[discards'[n]].queue # "none"
    BY <1>1, <1>2, <1>3 DEF NewHands, KnownInv, Queued
  <1>6. ASSUME NEW n \in DOMAIN taken' PROVE ledger'[taken'[n]].queue # "none"
    BY <1>1, <1>2, <1>3 DEF NewHands, KnownInv, Queued
  <1>7. worker'.item # 0 => ledger'[worker'.item].queue # "none"
    BY <1>1, <1>2, <1>3 DEF NewHands, KnownInv, Queued
  <1> QED BY <1>4, <1>5, <1>6, <1>7 DEF KnownInv, Queued


\* A new item in front, behind or steers in front repeat no follow-up, and neither
\* does taking something out.
LEMMA OnceProps ==
  ASSUME HandleAssumption, NEW s \in Seq(Items), Once(s)
  PROVE  /\ \A x \in Items : (\A n \in DOMAIN s : s[n] # x) => Once(<<x>> \o s) /\ Once(Append(s, x))
         /\ \A a \in Seq(Steers) : Once(a \o s)
         /\ \A n \in DOMAIN s : Once(RemoveAt(s, n))
         /\ \A n \in DOMAIN s : s[n] \in FollowUps =>
              \A m \in DOMAIN RemoveAt(s, n) : RemoveAt(s, n)[m] # s[n]
         /\ Once(Keep(s, FollowUps))
  <1>1. Len(s) \in Nat /\ DOMAIN s = 1..Len(s)
    OBVIOUS
  <1>2. ASSUME NEW x \in Items, \A n \in DOMAIN s : s[n] # x PROVE Once(<<x>> \o s)
    <2>1. /\ DOMAIN (<<x>> \o s) = 1..(Len(s) + 1) /\ (<<x>> \o s)[1] = x
          /\ \A m \in 2..(Len(s) + 1) : (<<x>> \o s)[m] = s[m - 1] /\ m - 1 \in DOMAIN s
      BY <1>1, PushProps
    <2> SUFFICES ASSUME NEW m \in DOMAIN (<<x>> \o s), NEW n \in DOMAIN (<<x>> \o s),
                        (<<x>> \o s)[m] = (<<x>> \o s)[n], (<<x>> \o s)[n] \in FollowUps
                 PROVE  m = n
      BY DEF Once
    <2>2. m \in 1..(Len(s) + 1) /\ n \in 1..(Len(s) + 1)
      BY <2>1
    <2>3. CASE m = 1 \/ n = 1
      <3>1. m = 1 /\ n = 1
        BY <1>1, <1>2, <2>1, <2>2, <2>3
      <3> QED BY <3>1
    <2>4. CASE m \in 2..(Len(s) + 1) /\ n \in 2..(Len(s) + 1)
      <3>1. m - 1 = n - 1
        BY <2>1, <2>4 DEF Once
      <3> QED BY <1>1, <2>2, <3>1
    <2> QED BY <1>1, <2>2, <2>3, <2>4
  <1>3. ASSUME NEW x \in Items, \A n \in DOMAIN s : s[n] # x PROVE Once(Append(s, x))
    <2>1. /\ DOMAIN Append(s, x) = 1..(Len(s) + 1) /\ Append(s, x)[Len(s) + 1] = x
          /\ \A m \in 1..Len(s) : Append(s, x)[m] = s[m]
      BY <1>1
    <2> QED BY <1>1, <1>3, <2>1 DEF Once
  <1>4. ASSUME NEW a \in Seq(Steers) PROVE Once(a \o s)
    <2>1. a \in Seq(Items) /\ Len(a) \in Nat /\ \A m \in 1..Len(a) : a[m] \notin FollowUps
      BY ItemKinds
    <2>2. /\ DOMAIN (a \o s) = 1..(Len(a) + Len(s))
          /\ \A m \in 1..Len(a) : (a \o s)[m] = a[m]
          /\ \A m \in 1..Len(s) : (a \o s)[Len(a) + m] = s[m]
      BY <1>1, <2>1, JoinProps
    <2> SUFFICES ASSUME NEW m \in DOMAIN (a \o s), NEW n \in DOMAIN (a \o s),
                        (a \o s)[m] = (a \o s)[n], (a \o s)[n] \in FollowUps
                 PROVE  m = n
      BY DEF Once
    <2>3. m \in 1..(Len(a) + Len(s)) /\ n \in 1..(Len(a) + Len(s)) /\ ~(m <= Len(a)) /\ ~(n <= Len(a))
      BY <1>1, <2>1, <2>2
    <2>4. /\ m - Len(a) \in 1..Len(s) /\ Len(a) + (m - Len(a)) = m
          /\ n - Len(a) \in 1..Len(s) /\ Len(a) + (n - Len(a)) = n
      BY <1>1, <2>1, <2>3
    <2>5. s[m - Len(a)] = s[n - Len(a)] /\ s[n - Len(a)] \in FollowUps
      BY <2>2, <2>4
    <2>6. m - Len(a) = n - Len(a)
      BY <1>1, <2>4, <2>5 DEF Once
    <2> QED BY <2>4, <2>6
  <1>5. ASSUME NEW n \in DOMAIN s
        PROVE  /\ Once(RemoveAt(s, n))
               /\ s[n] \in FollowUps => \A m \in DOMAIN RemoveAt(s, n) : RemoveAt(s, n)[m] # s[n]
    <2> DEFINE t == RemoveAt(s, n)
               P(m) == IF m < n THEN m ELSE m + 1
    <2>1. /\ t \in Seq(Items) /\ Len(t) = Len(s) - 1
          /\ \A m \in DOMAIN t : t[m] = IF m < n THEN s[m] ELSE s[m + 1]
      BY RemoveAtProps
    <2> HIDE DEF t
    <2>2. DOMAIN t = 1..(Len(s) - 1)
      BY <2>1
    <2>3. \A m \in DOMAIN t : t[m] = s[P(m)] /\ P(m) \in DOMAIN s /\ P(m) # n
      BY <1>1, <2>1, <2>2
    <2>4. \A l, m \in DOMAIN t : P(l) = P(m) => l = m
      BY <1>1, <2>2
    <2> HIDE DEF P
    <2>5. Once(t)
      BY <2>3, <2>4 DEF Once
    <2>6. s[n] \in FollowUps => \A m \in DOMAIN t : t[m] # s[n]
      BY <2>3 DEF Once
    <2> QED BY <2>5, <2>6 DEF t
  <1>6. Once(Keep(s, FollowUps))
    <2>1. \A m, n \in DOMAIN s : s[m] = s[n] /\ s[n] \in FollowUps => m = n
      BY DEF Once
    <2>2. \A j, k \in DOMAIN Keep(s, FollowUps) : Keep(s, FollowUps)[j] = Keep(s, FollowUps)[k] => j = k
      BY <2>1, KeepInjective
    <2> QED BY <2>2 DEF Once
  <1> QED BY <1>2, <1>3, <1>4, <1>5, <1>6

\* Steps put no follow-up into the inbox twice.
LEMMA OnceNext ==
  ASSUME HandleAssumption, TypeOK, RunInv, OrderInv, KnownInv, PlaceInv, [Next]_vars
  PROVE  Once(h'.inbox)
  <1>0. h.inbox \in Seq(Items) /\ Once(h.inbox)
    BY DEF TypeOK, Handles, PlaceInv
  <1>1. ASSUME NewAgent PROVE Once(h'.inbox)
    <2> DEFINE S == {i \in Pending : ~Sealed(i)}
    <2>1. h'.inbox = Keep(order, S)
      BY <1>1 DEF NewAgent, NoHandle, Restored
    <2> HIDE DEF S
    <2>2. order \in Seq(Items) /\ \A m, n \in DOMAIN order : order[m] = order[n] /\ order[n] \in S => m = n
      BY DEF TypeOK, OrderInv
    <2>3. \A j, k \in DOMAIN Keep(order, S) : Keep(order, S)[j] = Keep(order, S)[k] => j = k
      BY <2>2, KeepInjective
    <2> QED BY <2>1, <2>3 DEF Once
  <1>2. ASSUME NewAgentFails PROVE Once(h'.inbox)
    BY <1>2 DEF PlaceInv, Once, NewAgentFails
  <1>3. ASSUME Crash PROVE Once(h'.inbox)
    BY <1>3 DEF Crash, NoHandle, Once
  <1>4. ASSUME NEW i \in Items, Enqueue(i) PROVE Once(h'.inbox)
    <2>1. h'.inbox = Append(h.inbox, i) /\ ~Queued(i)
      BY <1>4 DEF Enqueue, Sendable, TypeOK, Handles
    <2>2. \A n \in DOMAIN h.inbox : h.inbox[n] # i
      BY <2>1 DEF KnownInv
    <2> QED BY <1>0, <2>1, <2>2, OnceProps
  <1>5. ASSUME NEW k \in BOOLEAN, Cancel(k) PROVE Once(h'.inbox)
    <2>1. h'.inbox = <<>> \/ h'.inbox = h.inbox
      BY <1>5 DEF Cancel, TypeOK, Handles
    <2> QED BY <2>1 DEF PlaceInv, Once
  <1>6. ASSUME Discard PROVE Once(h'.inbox)
    BY <1>6 DEF PlaceInv, Once, Discard
  <1>7. ASSUME Dispose PROVE Once(h'.inbox)
    BY <1>7 DEF Dispose, TypeOK, Handles, Once
  <1>8. ASSUME WhenIdle PROVE Once(h'.inbox)
    BY <1>8 DEF PlaceInv, Once, WhenIdle
  <1>9. ASSUME WhenIdleWakes PROVE Once(h'.inbox)
    <2>1. h'.inbox = h.inbox
      BY <1>9 DEF WhenIdleWakes, TypeOK, Handles
    <2> QED BY <2>1 DEF PlaceInv
  <1>10. ASSUME WorkerWakes PROVE Once(h'.inbox)
    <2>1. h'.inbox = h.inbox
      BY <1>10 DEF WorkerWakes, TypeOK, Handles
    <2> QED BY <2>1 DEF PlaceInv
  <1>11. ASSUME WorkerStops PROVE Once(h'.inbox)
    BY <1>11 DEF PlaceInv, Once, WorkerStops
  <1>12. ASSUME WorkerTakes PROVE Once(h'.inbox)
    <2>1. NextWakeable(h.inbox) \in DOMAIN h.inbox
      BY <1>12, NextWakeableFollowUp DEF WorkerTakes, TypeOK, Handles
    <2>2. h'.inbox = RemoveAt(h.inbox, NextWakeable(h.inbox))
      BY <1>12 DEF WorkerTakes, TypeOK, Handles
    <2> QED BY <1>0, <2>1, <2>2, OnceProps
  <1>13. ASSUME WorkerParks PROVE Once(h'.inbox)
    BY <1>13 DEF PlaceInv, Once, WorkerParks
  <1>14. ASSUME WorkerClaimFails PROVE Once(h'.inbox)
    <2>1. worker.item \in Items /\ \A n \in DOMAIN h.inbox : h.inbox[n] # worker.item
      BY <1>14, ItemKinds DEF WorkerClaimFails, RunInv, PlaceInv, TypeOK, Workers
    <2>2. h'.inbox = <<worker.item>> \o h.inbox
      BY <1>14 DEF WorkerClaimFails, TypeOK, Handles
    <2> QED BY <1>0, <2>1, <2>2, OnceProps
  <1>15. ASSUME WorkerCompletes PROVE Once(h'.inbox)
    <2>1. h'.inbox = h.inbox
      BY <1>15, BackProps DEF WorkerCompletes, TypeOK, Handles
    <2> QED BY <2>1 DEF PlaceInv
  <1>16. ASSUME WorkerRequeues PROVE Once(h'.inbox)
    <2>1. worker.item \in Items /\ \A n \in DOMAIN h.inbox : h.inbox[n] # worker.item
      BY <1>16, ItemKinds DEF WorkerRequeues, Requeues, RunInv, PlaceInv, TypeOK, Workers
    <2>2. h'.inbox = <<worker.item>> \o h.inbox \/ h'.inbox = h.inbox
      <3>1. <<worker.item>> \o h.inbox \in Seq(Items)
        BY <1>0, <2>1, PushProps
      <3> QED BY <1>16, <1>0, <3>1, BackProps DEF WorkerRequeues
    <2> QED BY <1>0, <2>1, <2>2, OnceProps
  <1>17. ASSUME NEW op \in Ops, HostStarts(op) PROVE Once(h'.inbox)
    <2>1. h'.inbox = h.inbox
      BY <1>17 DEF HostStarts, TypeOK, Handles
    <2> QED BY <2>1 DEF PlaceInv
  <1>18. ASSUME HostReturns PROVE Once(h'.inbox)
    <2>1. h'.inbox = h.inbox
      BY <1>18, BackProps DEF HostReturns, TypeOK, Handles
    <2> QED BY <2>1 DEF PlaceInv
  <1>19. ASSUME ApprovedReturns PROVE Once(h'.inbox)
    <2>1. Back(h.inbox) \in Handles /\ Back(h.inbox).inbox = h.inbox
      BY BackProps DEF TypeOK, Handles
    <2>2. h'.inbox = h.inbox
      BY <1>19, <2>1 DEF ApprovedReturns, Handles
    <2> QED BY <2>2 DEF PlaceInv
  <1>20. ASSUME RunReturns PROVE Once(h'.inbox)
    <2>1. Back(h.inbox) \in Handles /\ Back(h.inbox).inbox = h.inbox
      BY BackProps DEF TypeOK, Handles
    <2>2. h'.inbox = h.inbox
      BY <1>20, <2>1 DEF RunReturns, Handles
    <2> QED BY <2>2 DEF PlaceInv
  <1>21. ASSUME NEW r \in Runners, TurnRefused(r) PROVE Once(h'.inbox)
    BY <1>21 DEF PlaceInv, Once, TurnRefused
  <1>22. ASSUME NEW r \in Runners, TurnStart(r) PROVE Once(h'.inbox)
    BY <1>22 DEF PlaceInv, Once, TurnStart
  <1>23. ASSUME NEW r \in Runners, ClaimNextStepInputs(r) PROVE Once(h'.inbox)
    <2>1. h'.inbox = Keep(h.inbox, FollowUps)
      BY <1>23 DEF ClaimNextStepInputs, TypeOK, Handles
    <2> QED BY <1>0, <2>1, OnceProps
  <1>24. ASSUME NEW r \in Runners, AppendStepInputs(r) PROVE Once(h'.inbox)
    BY <1>24 DEF PlaceInv, Once, AppendStepInputs
  <1>25. ASSUME NEW r \in Runners, AppendStepInputsFails(r) PROVE Once(h'.inbox)
    <2>1. h'.inbox = h.inbox \/ h'.inbox = taken \o h.inbox
      BY <1>25 DEF AppendStepInputsFails, TypeOK, Handles
    <2>2. taken \in Seq(Steers)
      BY DEF TypeOK
    <2> QED BY <1>0, <2>1, <2>2, OnceProps
  <1>26. ASSUME NEW r \in Runners, StepFails(r) PROVE Once(h'.inbox)
    BY <1>26 DEF PlaceInv, Once, StepFails
  <1>27. ASSUME NEW r \in Runners, TurnSucceeds(r) PROVE Once(h'.inbox)
    BY <1>27 DEF PlaceInv, Once, TurnSucceeds
  <1>28. ASSUME NEW r \in Runners, TurnFails(r) PROVE Once(h'.inbox)
    BY <1>28 DEF PlaceInv, Once, TurnFails
  <1>29. CASE UNCHANGED vars
    BY <1>29, <1>0 DEF vars
  <1> QED
    BY <1>1, <1>2, <1>3, <1>4, <1>5, <1>6, <1>7, <1>8, <1>9, <1>10,
       <1>11, <1>12, <1>13, <1>14, <1>15, <1>16, <1>17, <1>18, <1>19, <1>20,
       <1>21, <1>22, <1>23, <1>24, <1>25, <1>26, <1>27, <1>28, <1>29
    DEF Next, WorkerSteps, HostSteps, TurnSteps, Runners

\* Steps keep PlaceInv.
LEMMA PlaceNext ==
  ASSUME HandleAssumption, TypeOK, TypeOK', RunInv, OrderInv, KnownInv, PlaceInv, [Next]_vars
  PROVE  PlaceInv'
  <1>1. Once(h'.inbox) /\ NewInbox /\ NewHands
    BY OnceNext, InboxMoves, HandsMove
  <1>2. /\ \A n \in DOMAIN h.inbox : h.inbox[n] \in Items
        /\ \A n \in DOMAIN h'.inbox : h'.inbox[n] \in Items
        /\ \A n \in DOMAIN taken : taken[n] \in Steers
        /\ \A n \in DOMAIN discards : discards[n] \in Items
        /\ worker.item # 0 => worker.item \in FollowUps
    BY DEF TypeOK, Handles, Workers
  <1>3. ASSUME NEW j \in Items, Enqueue(j)
        PROVE  ~Queued(j)
    BY <1>3 DEF Enqueue, Sendable
  <1>4. NewAgent => worker.item = 0 /\ discards = <<>> /\ discards' = <<>>
    BY DEF NewAgent, RunInv
  <1>5. ASSUME NEW x \in Items, ~Waits(x), x \notin Steers, Queued(x), discards # <<>>,
               NEW n \in DOMAIN h'.inbox, h'.inbox[n] = x
        PROVE  x = worker.item
    BY <1>1, <1>2, <1>3, <1>4, <1>5 DEF NewInbox, Waits
  <1>6. ASSUME NEW n \in DOMAIN h'.inbox PROVE h'.inbox[n] # worker'.item
    <2>1. CASE worker'.item = 0
      BY <1>2, <2>1, ItemKinds
    <2>2. CASE worker'.item = worker.item /\ worker.item # 0
      BY <1>1, <1>2, <1>3, <1>4, <2>2, ItemKinds DEF NewInbox, PlaceInv, KnownInv
    <2>3. CASE WorkerTakes
      <3> DEFINE k == NextWakeable(h.inbox)
      <3>1. h.inbox \in Seq(Items) /\ Once(h.inbox)
        BY DEF TypeOK, Handles, PlaceInv
      <3>2. k \in DOMAIN h.inbox /\ h.inbox[k] \in FollowUps
        BY <2>3, <3>1, NextWakeableFollowUp DEF WorkerTakes
      <3>3. worker'.item = h.inbox[k] /\ h'.inbox = RemoveAt(h.inbox, k)
        BY <2>3 DEF WorkerTakes, TypeOK, Handles
      <3> HIDE DEF k
      <3> QED BY <3>1, <3>2, <3>3, OnceProps
    <2> QED BY <1>1, <2>1, <2>2, <2>3 DEF NewHands
  <1>7. ASSUME NEW n \in DOMAIN discards' PROVE discards'[n] # worker'.item
    <2>1. CASE discards' = h.inbox /\ worker' = worker
      BY <2>1 DEF PlaceInv
    <2>2. CASE discards' = discards
      <3>1. CASE worker'.item = worker.item
        BY <2>2, <3>1 DEF PlaceInv
      <3>2. CASE worker'.item = 0
        BY <1>2, <2>2, <3>2, ItemKinds
      <3>3. CASE WorkerTakes
        <4>1. worker'.item \in FollowUps /\ Waits(worker'.item)
          BY <3>3, NextWakeableFollowUp DEF WorkerTakes, TypeOK, Handles, Waits
        <4> QED BY <2>2, <4>1 DEF PlaceInv
      <3> QED BY <1>1, <3>1, <3>2, <3>3 DEF NewHands
    <2> QED BY <1>1, <2>1, <2>2 DEF NewHands
  <1>8. ASSUME NEW n \in DOMAIN discards', discards'[n] \in FollowUps, NEW m \in DOMAIN h'.inbox
        PROVE  h'.inbox[m] # discards'[n]
    <2>1. CASE h'.inbox = <<>>
      BY <2>1
    <2>2. CASE discards' = discards
      <3> DEFINE x == discards[n]
      <3>1. x \in FollowUps /\ x \in Items /\ x \notin Steers /\ ~Waits(x) /\ Queued(x) /\ discards # <<>>
        BY <1>2, <1>8, <2>2, ItemKinds DEF PlaceInv, KnownInv
      <3>2. x # worker.item
        BY <2>2 DEF PlaceInv
      <3> QED BY <1>5, <2>2, <3>1, <3>2
    <2> QED BY <1>1, <2>1, <2>2 DEF NewHands
  <1> QED BY <1>1, <1>6, <1>7, <1>8 DEF PlaceInv, Waits, Once

\* Steps keep StopInv.
LEMMA StopNext ==
  ASSUME HandleAssumption, TypeOK, RunInv, StopInv, [Next]_vars
  PROVE  StopInv'
  <1>1. ASSUME NewAgent PROVE StopInv'
    BY <1>1 DEF StopInv, TypeOK, Handles, NoHandle, RunInv, Back, NewAgent
  <1>2. ASSUME NewAgentFails PROVE StopInv'
    BY <1>2 DEF StopInv, TypeOK, Handles, NoHandle, RunInv, Back, NewAgentFails
  <1>3. ASSUME Crash PROVE StopInv'
    BY <1>3 DEF StopInv, TypeOK, Handles, NoHandle, RunInv, Back, Crash
  <1>4. ASSUME NEW i \in Items, Enqueue(i) PROVE StopInv'
    BY <1>4 DEF StopInv, TypeOK, Handles, NoHandle, RunInv, Back, Enqueue
  <1>5. ASSUME NEW k \in BOOLEAN, Cancel(k) PROVE StopInv'
    BY <1>5 DEF StopInv, TypeOK, Handles, NoHandle, RunInv, Back, Cancel
  <1>6. ASSUME Discard PROVE StopInv'
    BY <1>6 DEF StopInv, TypeOK, Handles, NoHandle, RunInv, Back, Discard
  <1>7. ASSUME Dispose PROVE StopInv'
    BY <1>7 DEF StopInv, TypeOK, Handles, NoHandle, RunInv, Back, Dispose
  <1>8. ASSUME WhenIdle PROVE StopInv'
    BY <1>8 DEF StopInv, TypeOK, Handles, NoHandle, RunInv, Back, WhenIdle
  <1>9. ASSUME WhenIdleWakes PROVE StopInv'
    BY <1>9 DEF StopInv, TypeOK, Handles, NoHandle, RunInv, Back, WhenIdleWakes
  <1>10. ASSUME WorkerWakes PROVE StopInv'
    BY <1>10 DEF StopInv, TypeOK, Handles, NoHandle, RunInv, Back, WorkerWakes
  <1>11. ASSUME WorkerStops PROVE StopInv'
    BY <1>11 DEF StopInv, TypeOK, Handles, NoHandle, RunInv, Back, WorkerStops
  <1>12. ASSUME WorkerTakes PROVE StopInv'
    BY <1>12 DEF StopInv, TypeOK, Handles, NoHandle, RunInv, Back, WorkerTakes
  <1>13. ASSUME WorkerParks PROVE StopInv'
    BY <1>13 DEF StopInv, TypeOK, Handles, NoHandle, RunInv, Back, WorkerParks
  <1>14. ASSUME WorkerClaimFails PROVE StopInv'
    BY <1>14 DEF StopInv, TypeOK, Handles, NoHandle, RunInv, Back, WorkerClaimFails
  <1>15. ASSUME WorkerCompletes PROVE StopInv'
    BY <1>15 DEF StopInv, TypeOK, Handles, NoHandle, RunInv, Back, WorkerCompletes
  <1>16. ASSUME WorkerRequeues PROVE StopInv'
    BY <1>16 DEF StopInv, TypeOK, Handles, NoHandle, RunInv, Back, WorkerRequeues, Requeues
  <1>17. ASSUME NEW op \in Ops, HostStarts(op) PROVE StopInv'
    BY <1>17 DEF StopInv, TypeOK, Handles, NoHandle, RunInv, Back, HostStarts
  <1>18. ASSUME HostReturns PROVE StopInv'
    BY <1>18 DEF StopInv, TypeOK, Handles, NoHandle, RunInv, Back, HostReturns
  <1>19. ASSUME ApprovedReturns PROVE StopInv'
    BY <1>19 DEF StopInv, TypeOK, Handles, NoHandle, RunInv, Back, ApprovedReturns
  <1>20. ASSUME RunReturns PROVE StopInv'
    BY <1>20 DEF StopInv, TypeOK, Handles, NoHandle, RunInv, Back, RunReturns
  <1>21. ASSUME NEW r \in Runners, TurnRefused(r) PROVE StopInv'
    BY <1>21 DEF StopInv, TypeOK, Handles, NoHandle, RunInv, Back, TurnRefused
  <1>22. ASSUME NEW r \in Runners, TurnStart(r) PROVE StopInv'
    BY <1>22 DEF StopInv, TypeOK, Handles, NoHandle, RunInv, Back, TurnStart
  <1>23. ASSUME NEW r \in Runners, ClaimNextStepInputs(r) PROVE StopInv'
    BY <1>23 DEF StopInv, TypeOK, Handles, NoHandle, RunInv, Back, ClaimNextStepInputs
  <1>24. ASSUME NEW r \in Runners, AppendStepInputs(r) PROVE StopInv'
    BY <1>24 DEF StopInv, TypeOK, Handles, NoHandle, RunInv, Back, AppendStepInputs
  <1>25. ASSUME NEW r \in Runners, AppendStepInputsFails(r) PROVE StopInv'
    BY <1>25 DEF StopInv, TypeOK, Handles, NoHandle, RunInv, Back, AppendStepInputsFails
  <1>26. ASSUME NEW r \in Runners, StepFails(r) PROVE StopInv'
    BY <1>26 DEF StopInv, TypeOK, Handles, NoHandle, RunInv, Back, StepFails
  <1>27. ASSUME NEW r \in Runners, TurnSucceeds(r) PROVE StopInv'
    BY <1>27 DEF StopInv, TypeOK, Handles, NoHandle, RunInv, Back, TurnSucceeds
  <1>28. ASSUME NEW r \in Runners, TurnFails(r) PROVE StopInv'
    BY <1>28 DEF StopInv, TypeOK, Handles, NoHandle, RunInv, Back, TurnFails
  <1>29. CASE UNCHANGED vars
    BY <1>29 DEF StopInv, vars
  <1> QED
    BY <1>1, <1>2, <1>3, <1>4, <1>5, <1>6, <1>7, <1>8, <1>9, <1>10,
       <1>11, <1>12, <1>13, <1>14, <1>15, <1>16, <1>17, <1>18, <1>19, <1>20,
       <1>21, <1>22, <1>23, <1>24, <1>25, <1>26, <1>27, <1>28, <1>29
    DEF Next, WorkerSteps, HostSteps, TurnSteps, Runners

\* A follow-up in the live handle's hands.
Held(i) ==
    \/ Waits(i)
    \/ \E n \in DOMAIN discards : discards[n] = i
    \/ worker.item = i \/ i \in refused

\* It stays there, unless the log settles it or the handle goes.
StaysHeld(i) == ~h'.up \/ h'.stop \/ Terminal(i)' \/ Held(i)'

\* Steps of a live handle lose no follow-up it holds.
LEMMA HeldStays ==
  ASSUME HandleAssumption, TypeOK, RunInv, StopInv, NEW x \in FollowUps, h.up, Held(x), [Next]_vars
  PROVE  StaysHeld(x)
  <1>0. h.inbox \in Seq(Items) /\ x \in Items
    BY ItemKinds DEF TypeOK, Handles
  <1>1. ASSUME NewAgent PROVE StaysHeld(x)
    BY <1>1 DEF NewAgent
  <1>2. ASSUME NewAgentFails PROVE StaysHeld(x)
    BY <1>2 DEF NewAgentFails
  <1>3. ASSUME Crash PROVE StaysHeld(x)
    BY <1>3 DEF Crash, NoHandle, StaysHeld
  <1>4. ASSUME NEW i \in Items, Enqueue(i) PROVE StaysHeld(x)
    <2>1. h'.inbox = Append(h.inbox, i) /\ UNCHANGED <<worker, discards, refused>>
      BY <1>4 DEF Enqueue, TypeOK, Handles
    <2>2. \A n \in DOMAIN h.inbox : n \in DOMAIN h'.inbox /\ h'.inbox[n] = h.inbox[n]
      BY <1>0, <2>1
    <2> QED BY <2>1, <2>2 DEF StaysHeld, Held, Waits
  <1>5. ASSUME NEW k \in BOOLEAN, Cancel(k) PROVE StaysHeld(x)
    <2>1. \/ h'.inbox = h.inbox
          \/ discards' = h.inbox
      BY <1>5 DEF Cancel, TypeOK, Handles
    <2>2. discards = <<>> /\ UNCHANGED <<worker, refused>>
      BY <1>5 DEF Cancel
    <2>3. ~\E n \in DOMAIN discards : discards[n] = x
      BY <2>2
    <2> QED BY <2>1, <2>2, <2>3 DEF StaysHeld, Held, Waits
  <1>6. ASSUME Discard PROVE StaysHeld(x)
    <2>1. PICK lost \in SUBSET ToSet(discards) :
             ledger' = Record(ToSet(discards) \ lost, "discarded") /\ refused' = refused \cup lost
      BY <1>6 DEF Discard
    <2>2. UNCHANGED <<h, worker>>
      BY <1>6 DEF Discard
    <2>3. CASE x \in ToSet(discards) \ lost
      <3>1. ledger'[x].queue = "discarded"
        BY <1>0, <2>1, <2>3, RecordProps DEF QueueEvents
      <3> QED BY <3>1 DEF StaysHeld, Terminal
    <2>4. CASE x \notin ToSet(discards) \ lost
      BY <2>1, <2>2, <2>4 DEF StaysHeld, Held, Waits, ToSet
    <2> QED BY <2>3, <2>4
  <1>7. ASSUME Dispose PROVE StaysHeld(x)
    BY <1>7 DEF Dispose, TypeOK, Handles, StaysHeld
  <1>8. ASSUME WhenIdle PROVE StaysHeld(x)
    <2>1. h'.inbox = h.inbox /\ worker'.item = worker.item /\ discards' = discards /\ refused' = refused
      BY <1>8 DEF WhenIdle, TypeOK, Handles, Workers
    <2> QED BY <2>1 DEF StaysHeld, Held, Waits
  <1>9. ASSUME WhenIdleWakes PROVE StaysHeld(x)
    <2>1. h'.inbox = h.inbox /\ worker'.item = worker.item /\ discards' = discards /\ refused' = refused
      BY <1>9 DEF WhenIdleWakes, TypeOK, Handles, Workers
    <2> QED BY <2>1 DEF StaysHeld, Held, Waits
  <1>10. ASSUME WorkerWakes PROVE StaysHeld(x)
    <2>1. h'.inbox = h.inbox /\ worker'.item = worker.item /\ discards' = discards /\ refused' = refused
      BY <1>10 DEF WorkerWakes, TypeOK, Handles, Workers
    <2> QED BY <2>1 DEF StaysHeld, Held, Waits
  <1>11. ASSUME WorkerStops PROVE StaysHeld(x)
    <2>1. h'.inbox = h.inbox /\ worker'.item = worker.item /\ discards' = discards /\ refused' = refused
      BY <1>11 DEF WorkerStops, TypeOK, Handles, Workers
    <2> QED BY <2>1 DEF StaysHeld, Held, Waits
  <1>12. ASSUME WorkerTakes PROVE StaysHeld(x)
    <2> DEFINE n == NextWakeable(h.inbox)
    <2>1. n \in DOMAIN h.inbox
      BY <1>12, <1>0, NextWakeableFollowUp DEF WorkerTakes
    <2>2. worker'.item = h.inbox[n] /\ h'.inbox = RemoveAt(h.inbox, n) /\ UNCHANGED <<discards, refused>>
      BY <1>12 DEF WorkerTakes, TypeOK, Handles
    <2>3. worker.item = 0
      BY <1>12 DEF WorkerTakes, RunInv
    <2> HIDE DEF n
    <2>4. ASSUME NEW k \in DOMAIN h.inbox, k # n
          PROVE  \E m \in DOMAIN RemoveAt(h.inbox, n) : RemoveAt(h.inbox, n)[m] = h.inbox[k]
      <3> DEFINE t == RemoveAt(h.inbox, n)
      <3>1. /\ t \in Seq(Items) /\ Len(t) = Len(h.inbox) - 1
            /\ \A m \in DOMAIN t : t[m] = IF m < n THEN h.inbox[m] ELSE h.inbox[m + 1]
        BY <1>0, <2>1, RemoveAtProps
      <3> HIDE DEF t
      <3>2. Len(h.inbox) \in Nat /\ k \in 1..Len(h.inbox) /\ n \in 1..Len(h.inbox) /\ DOMAIN t = 1..(Len(h.inbox) - 1)
        BY <1>0, <2>1, <3>1
      <3>3. CASE k < n
        <4>1. k \in DOMAIN t
          BY <3>2, <3>3
        <4> QED BY <3>1, <3>3, <4>1 DEF t
      <3>4. CASE n < k
        <4>1. k - 1 \in DOMAIN t /\ ~(k - 1 < n) /\ (k - 1) + 1 = k
          BY <3>2, <3>4
        <4>2. t[k - 1] = h.inbox[k]
          BY <3>1, <4>1
        <4> QED BY <4>1, <4>2 DEF t
      <3> QED BY <2>4, <3>2, <3>3, <3>4
    <2> QED BY <1>0, <2>2, <2>3, <2>4, ItemKinds DEF StaysHeld, Held, Waits
  <1>13. ASSUME WorkerParks PROVE StaysHeld(x)
    <2>1. h'.inbox = h.inbox /\ worker'.item = worker.item /\ discards' = discards /\ refused' = refused
      BY <1>13 DEF WorkerParks, TypeOK, Handles, Workers
    <2> QED BY <2>1 DEF StaysHeld, Held, Waits
  <1>14. ASSUME WorkerClaimFails PROVE StaysHeld(x)
    <2> DEFINE t == <<worker.item>> \o h.inbox
    <2>1. worker.item \in Items
      BY <1>14, ItemKinds DEF WorkerClaimFails, RunInv, TypeOK, Workers
    <2>2. /\ t \in Seq(Items) /\ Len(t) = Len(h.inbox) + 1 /\ t[1] = worker.item
          /\ \A m \in 2..(Len(h.inbox) + 1) : t[m] = h.inbox[m - 1]
      BY <1>0, <2>1, PushProps
    <2>3. h'.inbox = t
      BY <1>14 DEF WorkerClaimFails, TypeOK, Handles
    <2>4. UNCHANGED <<discards, refused>>
      BY <1>14 DEF WorkerClaimFails
    <2> HIDE DEF t
    <2>5. \A k \in DOMAIN h.inbox : k + 1 \in 2..(Len(h.inbox) + 1) /\ (k + 1) - 1 = k
      BY <1>0
    <2>6. DOMAIN t = 1..(Len(h.inbox) + 1) /\ 1 \in DOMAIN t /\ 2..(Len(h.inbox) + 1) \subseteq DOMAIN t
      BY <1>0, <2>2
    <2>7. \A k \in DOMAIN h.inbox : k + 1 \in DOMAIN t /\ t[k + 1] = h.inbox[k]
      BY <2>2, <2>5, <2>6
    <2>8. CASE h'.inbox = t
      <3>1. CASE Waits(x) \/ worker.item = x
        <4>1. \E m \in DOMAIN t : t[m] = x
          BY <2>2, <2>6, <2>7, <3>1 DEF Waits
        <4> QED BY <2>8, <4>1 DEF StaysHeld, Held, Waits
      <3>2. CASE ~Waits(x) /\ worker.item # x
        BY <2>4, <3>2 DEF StaysHeld, Held
      <3> QED BY <3>1, <3>2
    <2> QED BY <2>3, <2>8 DEF StaysHeld
  <1>15. ASSUME WorkerCompletes PROVE StaysHeld(x)
    <2>1. h'.inbox = h.inbox /\ discards' = discards /\ refused' = refused
      BY <1>15, BackProps DEF WorkerCompletes, TypeOK, Handles
    <2>2. CASE x = worker.item
      <3>1. PICK S : S = {worker.item} /\ ledger' = Record(S, "completed")
        BY <1>15 DEF WorkerCompletes
      <3>2. \A i \in Items : i \in S => ledger'[i].queue = "completed"
        BY <3>1, RecordProps DEF QueueEvents
      <3> QED BY <1>0, <2>2, <3>1, <3>2 DEF StaysHeld, Terminal
    <2>3. CASE x # worker.item
      BY <2>1, <2>3 DEF StaysHeld, Held, Waits
    <2> QED BY <2>2, <2>3
  <1>16. ASSUME WorkerRequeues PROVE StaysHeld(x)
    <2> DEFINE t == <<worker.item>> \o h.inbox
    <2>1. worker.item \in Items
      BY <1>16, ItemKinds DEF WorkerRequeues, Requeues, RunInv, TypeOK, Workers
    <2>2. /\ t \in Seq(Items) /\ Len(t) = Len(h.inbox) + 1 /\ t[1] = worker.item
          /\ \A m \in 2..(Len(h.inbox) + 1) : t[m] = h.inbox[m - 1]
      BY <1>0, <2>1, PushProps
    <2>3. h'.inbox = t \/ h'.stop
      <3>1. CASE h.status = "disposed"
        <4>1. h.stop
          BY <3>1 DEF StopInv
        <4> QED BY <1>16, <1>0, <3>1, <4>1, BackProps DEF WorkerRequeues
      <3>2. CASE h.status # "disposed"
        BY <1>16, <2>2, <3>2, BackProps DEF WorkerRequeues
      <3> QED BY <3>1, <3>2
    <2>4. UNCHANGED <<discards, refused>>
      BY <1>16 DEF WorkerRequeues, Requeues
    <2> HIDE DEF t
    <2>5. \A k \in DOMAIN h.inbox : k + 1 \in 2..(Len(h.inbox) + 1) /\ (k + 1) - 1 = k
      BY <1>0
    <2>6. DOMAIN t = 1..(Len(h.inbox) + 1) /\ 1 \in DOMAIN t /\ 2..(Len(h.inbox) + 1) \subseteq DOMAIN t
      BY <1>0, <2>2
    <2>7. \A k \in DOMAIN h.inbox : k + 1 \in DOMAIN t /\ t[k + 1] = h.inbox[k]
      BY <2>2, <2>5, <2>6
    <2>8. CASE h'.inbox = t
      <3>1. CASE Waits(x) \/ worker.item = x
        <4>1. \E m \in DOMAIN t : t[m] = x
          BY <2>2, <2>6, <2>7, <3>1 DEF Waits
        <4> QED BY <2>8, <4>1 DEF StaysHeld, Held, Waits
      <3>2. CASE ~Waits(x) /\ worker.item # x
        BY <2>4, <3>2 DEF StaysHeld, Held
      <3> QED BY <3>1, <3>2
    <2> QED BY <2>3, <2>8 DEF StaysHeld
  <1>17. ASSUME NEW op \in Ops, HostStarts(op) PROVE StaysHeld(x)
    <2>1. h'.inbox = h.inbox /\ worker'.item = worker.item /\ discards' = discards /\ refused' = refused
      BY <1>17 DEF HostStarts, TypeOK, Handles, Workers
    <2> QED BY <2>1 DEF StaysHeld, Held, Waits
  <1>18. ASSUME HostReturns PROVE StaysHeld(x)
    <2>1. h'.inbox = h.inbox /\ worker'.item = worker.item /\ discards' = discards /\ refused' = refused
      BY <1>18, BackProps DEF HostReturns, TypeOK, Handles, Workers
    <2> QED BY <2>1 DEF StaysHeld, Held, Waits
  <1>19. ASSUME ApprovedReturns PROVE StaysHeld(x)
    <2>1. Back(h.inbox) \in Handles /\ Back(h.inbox).inbox = h.inbox
      BY BackProps DEF TypeOK, Handles
    <2>2. h'.inbox = h.inbox
      BY <1>19, <2>1 DEF ApprovedReturns, Handles
    <2> QED BY <1>19, <2>2 DEF StaysHeld, Held, Waits, ApprovedReturns
  <1>20. ASSUME RunReturns PROVE StaysHeld(x)
    <2>1. Back(h.inbox) \in Handles /\ Back(h.inbox).inbox = h.inbox
      BY BackProps DEF TypeOK, Handles
    <2>2. h'.inbox = h.inbox
      BY <1>20, <2>1 DEF RunReturns, Handles
    <2> QED BY <1>20, <2>2 DEF StaysHeld, Held, Waits, RunReturns
  <1>21. ASSUME NEW r \in Runners, TurnRefused(r) PROVE StaysHeld(x)
    <2>1. h'.inbox = h.inbox /\ worker'.item = worker.item /\ discards' = discards /\ refused' = refused
      BY <1>21 DEF TurnRefused, TypeOK, Handles, Workers
    <2> QED BY <2>1 DEF StaysHeld, Held, Waits
  <1>22. ASSUME NEW r \in Runners, TurnStart(r) PROVE StaysHeld(x)
    <2>1. h'.inbox = h.inbox /\ worker'.item = worker.item /\ discards' = discards /\ refused' = refused
      BY <1>22 DEF TurnStart, TypeOK, Handles, Workers
    <2> QED BY <2>1 DEF StaysHeld, Held, Waits
  <1>23. ASSUME NEW r \in Runners, ClaimNextStepInputs(r) PROVE StaysHeld(x)
    <2>1. h'.inbox = Keep(h.inbox, FollowUps) /\ UNCHANGED <<worker, discards, refused>>
      BY <1>23 DEF ClaimNextStepInputs, TypeOK, Handles
    <2>2. \A n \in DOMAIN h.inbox : h.inbox[n] \in FollowUps =>
             \E k \in DOMAIN Keep(h.inbox, FollowUps) : Keep(h.inbox, FollowUps)[k] = h.inbox[n]
      <3>1. h.inbox \in Seq(Items)
        BY <1>0
      <3>2. /\ Keep(h.inbox, FollowUps) \in Seq(Items)
            /\ \A n \in DOMAIN h.inbox : h.inbox[n] \in FollowUps =>
                 \E k \in DOMAIN Keep(h.inbox, FollowUps) : Keep(h.inbox, FollowUps)[k] = h.inbox[n]
        BY ONLY <3>1, KeepProps
      <3> QED BY <3>2
    <2> QED BY <2>1, <2>2 DEF StaysHeld, Held, Waits
  <1>24. ASSUME NEW r \in Runners, AppendStepInputs(r) PROVE StaysHeld(x)
    <2>1. h'.inbox = h.inbox /\ worker'.item = worker.item /\ discards' = discards /\ refused' = refused
      BY <1>24 DEF AppendStepInputs, TypeOK, Handles, Workers
    <2> QED BY <2>1 DEF StaysHeld, Held, Waits
  <1>25. ASSUME NEW r \in Runners, AppendStepInputsFails(r) PROVE StaysHeld(x)
    <2>1. h'.inbox = h.inbox \/ h'.inbox = taken \o h.inbox
      BY <1>25 DEF AppendStepInputsFails, TypeOK, Handles
    <2>2. UNCHANGED <<worker, discards, refused>>
      BY <1>25 DEF AppendStepInputsFails
    <2>3. taken \in Seq(Items)
      BY ItemKinds DEF TypeOK
    <2>4. /\ taken \o h.inbox \in Seq(Items) /\ Len(taken \o h.inbox) = Len(taken) + Len(h.inbox)
          /\ \A m \in 1..Len(h.inbox) : (taken \o h.inbox)[Len(taken) + m] = h.inbox[m]
      BY <1>0, <2>3, JoinProps
    <2>5. \A m \in DOMAIN h.inbox : m \in 1..Len(h.inbox) /\ Len(taken) + m \in DOMAIN (taken \o h.inbox)
      BY <1>0, <2>3, <2>4
    <2> QED BY <2>1, <2>2, <2>4, <2>5 DEF StaysHeld, Held, Waits
  <1>26. ASSUME NEW r \in Runners, StepFails(r) PROVE StaysHeld(x)
    <2>1. h'.inbox = h.inbox /\ worker'.item = worker.item /\ discards' = discards /\ refused' = refused
      BY <1>26 DEF StepFails, TypeOK, Handles, Workers
    <2> QED BY <2>1 DEF StaysHeld, Held, Waits
  <1>27. ASSUME NEW r \in Runners, TurnSucceeds(r) PROVE StaysHeld(x)
    <2>1. h'.inbox = h.inbox /\ worker'.item = worker.item /\ discards' = discards /\ refused' = refused
      BY <1>27 DEF TurnSucceeds, TypeOK, Handles, Workers
    <2> QED BY <2>1 DEF StaysHeld, Held, Waits
  <1>28. ASSUME NEW r \in Runners, TurnFails(r) PROVE StaysHeld(x)
    <2>1. h'.inbox = h.inbox /\ worker'.item = worker.item /\ discards' = discards /\ refused' = refused
      BY <1>28 DEF TurnFails, TypeOK, Handles, Workers
    <2> QED BY <2>1 DEF StaysHeld, Held, Waits
  <1>29. CASE UNCHANGED vars
    BY <1>29 DEF vars, StaysHeld, Held, Waits
  <1> QED
    BY <1>1, <1>2, <1>3, <1>4, <1>5, <1>6, <1>7, <1>8, <1>9, <1>10,
       <1>11, <1>12, <1>13, <1>14, <1>15, <1>16, <1>17, <1>18, <1>19, <1>20,
       <1>21, <1>22, <1>23, <1>24, <1>25, <1>26, <1>27, <1>28, <1>29
    DEF Next, WorkerSteps, HostSteps, TurnSteps, Runners

\* The handle comes with NewAgent, and stays stopped when it is.
Lives == /\ h'.up => h.up \/ NewAgent
         /\ h.up /\ h.stop => ~h'.up \/ h'.stop

\* Only a crash takes it away.
LEMMA UpMoves ==
  ASSUME HandleAssumption, TypeOK, [Next]_vars
  PROVE  Lives
  <1>1. ASSUME NewAgent PROVE Lives
    BY <1>1 DEF Lives, NewAgent
  <1>2. ASSUME NewAgentFails PROVE Lives
    BY <1>2 DEF Lives, TypeOK, Handles, NewAgentFails
  <1>3. ASSUME Crash PROVE Lives
    BY <1>3 DEF Lives, TypeOK, Handles, Crash, NoHandle
  <1>4. ASSUME NEW i \in Items, Enqueue(i) PROVE Lives
    BY <1>4 DEF Lives, TypeOK, Handles, Enqueue
  <1>5. ASSUME NEW k \in BOOLEAN, Cancel(k) PROVE Lives
    BY <1>5 DEF Lives, TypeOK, Handles, Cancel
  <1>6. ASSUME Discard PROVE Lives
    BY <1>6 DEF Lives, TypeOK, Handles, Discard
  <1>7. ASSUME Dispose PROVE Lives
    BY <1>7 DEF Lives, TypeOK, Handles, Dispose
  <1>8. ASSUME WhenIdle PROVE Lives
    BY <1>8 DEF Lives, TypeOK, Handles, WhenIdle
  <1>9. ASSUME WhenIdleWakes PROVE Lives
    BY <1>9 DEF Lives, TypeOK, Handles, WhenIdleWakes
  <1>10. ASSUME WorkerWakes PROVE Lives
    BY <1>10 DEF Lives, TypeOK, Handles, WorkerWakes
  <1>11. ASSUME WorkerStops PROVE Lives
    BY <1>11 DEF Lives, TypeOK, Handles, WorkerStops
  <1>12. ASSUME WorkerTakes PROVE Lives
    BY <1>12 DEF Lives, TypeOK, Handles, WorkerTakes
  <1>13. ASSUME WorkerParks PROVE Lives
    BY <1>13 DEF Lives, TypeOK, Handles, WorkerParks
  <1>14. ASSUME WorkerClaimFails PROVE Lives
    BY <1>14 DEF Lives, TypeOK, Handles, WorkerClaimFails
  <1>15. ASSUME WorkerCompletes PROVE Lives
    BY <1>15 DEF Lives, TypeOK, Handles, WorkerCompletes, Back
  <1>16. ASSUME WorkerRequeues PROVE Lives
    BY <1>16 DEF Lives, TypeOK, Handles, WorkerRequeues, Requeues, Back
  <1>17. ASSUME NEW op \in Ops, HostStarts(op) PROVE Lives
    BY <1>17 DEF Lives, TypeOK, Handles, HostStarts
  <1>18. ASSUME HostReturns PROVE Lives
    BY <1>18 DEF Lives, TypeOK, Handles, HostReturns, Back
  <1>19. ASSUME ApprovedReturns PROVE Lives
    BY <1>19 DEF Lives, TypeOK, Handles, ApprovedReturns, Back
  <1>20. ASSUME RunReturns PROVE Lives
    BY <1>20 DEF Lives, TypeOK, Handles, RunReturns, Back
  <1>21. ASSUME NEW r \in Runners, TurnRefused(r) PROVE Lives
    BY <1>21 DEF Lives, TypeOK, Handles, TurnRefused
  <1>22. ASSUME NEW r \in Runners, TurnStart(r) PROVE Lives
    BY <1>22 DEF Lives, TypeOK, Handles, TurnStart
  <1>23. ASSUME NEW r \in Runners, ClaimNextStepInputs(r) PROVE Lives
    BY <1>23 DEF Lives, TypeOK, Handles, ClaimNextStepInputs
  <1>24. ASSUME NEW r \in Runners, AppendStepInputs(r) PROVE Lives
    BY <1>24 DEF Lives, TypeOK, Handles, AppendStepInputs
  <1>25. ASSUME NEW r \in Runners, AppendStepInputsFails(r) PROVE Lives
    BY <1>25 DEF Lives, TypeOK, Handles, AppendStepInputsFails
  <1>26. ASSUME NEW r \in Runners, StepFails(r) PROVE Lives
    BY <1>26 DEF Lives, TypeOK, Handles, StepFails
  <1>27. ASSUME NEW r \in Runners, TurnSucceeds(r) PROVE Lives
    BY <1>27 DEF Lives, TypeOK, Handles, TurnSucceeds
  <1>28. ASSUME NEW r \in Runners, TurnFails(r) PROVE Lives
    BY <1>28 DEF Lives, TypeOK, Handles, TurnFails
  <1>29. CASE UNCHANGED vars
    BY <1>29 DEF Lives, vars
  <1> QED
    BY <1>1, <1>2, <1>3, <1>4, <1>5, <1>6, <1>7, <1>8, <1>9, <1>10,
       <1>11, <1>12, <1>13, <1>14, <1>15, <1>16, <1>17, <1>18, <1>19, <1>20,
       <1>21, <1>22, <1>23, <1>24, <1>25, <1>26, <1>27, <1>28, <1>29
    DEF Next, WorkerSteps, HostSteps, TurnSteps, Runners

\* Steps keep FollowUpsKept: what the log calls pending is held by a live handle.
LEMMA KeptNext ==
  ASSUME HandleAssumption, TypeOK, RunInv, OrderInv, KnownInv, StopInv, FollowUpsKept, [Next]_vars
  PROVE  FollowUpsKept'
  <1>1. SUFFICES ASSUME h'.up, ~h'.stop, NEW x \in FollowUps, ledger'[x].queue # "none", ~Terminal(x)'
                 PROVE  Held(x)'
    BY DEF FollowUpsKept, Pending, Queued, Held
  <1>2. x \in Items /\ QueueChange(x) /\ Lives /\ h.inbox \in Seq(Items)
    BY ItemKinds, LedgerMoves, UpMoves DEF TypeOK, Handles
  <1>3. CASE NewAgent
    <2> DEFINE S == {i \in Pending : ~Sealed(i)}
    <2>1. h'.inbox = Keep(order, S)
      BY <1>3 DEF NewAgent, NoHandle, Restored
    <2>2. x \in S
      <3>1. x \in Pending
        BY <1>1, <1>2, <1>3 DEF QueueChange, Pending, Queued, Terminal, NewAgent, Enqueue, Lock,
              WorkerRequeues, Requeues
      <3>2. ASSUME Sealed(x) PROVE FALSE
        <4>1. ledger' = Record({i \in Pending : Sealed(i)}, "completed")
          BY <1>3 DEF NewAgent
        <4>2. ledger'[x].queue = "completed"
          BY <1>2, <3>1, <3>2, <4>1, RecordProps DEF QueueEvents
        <4> QED BY <1>1, <4>2 DEF Terminal
      <3> QED BY <3>1, <3>2
    <2>3. \E n \in DOMAIN order : order[n] = x
      BY <1>2, <2>2 DEF OrderInv, Pending
    <2> HIDE DEF S
    <2>4. order \in Seq(Items)
      BY DEF TypeOK
    <2>5. \A n \in DOMAIN order : order[n] \in S => \E k \in DOMAIN Keep(order, S) : Keep(order, S)[k] = order[n]
      BY ONLY <2>4, KeepProps
    <2> QED BY <2>1, <2>2, <2>3, <2>5 DEF Held, Waits
  <1>4. CASE Enqueue(x)
    <2>1. h'.inbox = Append(h.inbox, x)
      BY <1>4 DEF Enqueue, TypeOK, Handles
    <2>2. Len(h.inbox) + 1 \in DOMAIN h'.inbox /\ h'.inbox[Len(h.inbox) + 1] = x
      BY <1>2, <2>1
    <2> QED BY <2>2 DEF Held, Waits
  <1>5. CASE ~NewAgent /\ ~Enqueue(x)
    <2>1. h.up /\ ~h.stop
      BY <1>1, <1>2, <1>5 DEF Lives
    <2>2. x \in Pending \/ worker.item = x
      BY <1>1, <1>2, <1>5 DEF QueueChange, Pending, Queued, Terminal
    <2>3. Held(x)
      BY <2>1, <2>2 DEF FollowUpsKept, Held
    <2>4. StaysHeld(x)
      BY <2>1, <2>3, HeldStays
    <2> QED BY <1>1, <2>4 DEF StaysHeld
  <1> QED BY <1>3, <1>4, <1>5


\* How the history changes.
HistPart ==
    /\ \/ hist'.succeeded = hist.succeeded
       \/ TurnSucceeds("worker") /\ hist'.succeeded = hist.succeeded \cup {worker.item}
    /\ \A i \in hist'.consumed :
         \/ i \in hist.consumed
         \/ TurnSucceeds("worker") /\ turn["worker"].first /\ i = worker.item
    /\ \/ hist'.replayed = hist.replayed
       \/ TurnStart("worker") /\ worker.item \in hist.consumed /\ ~Requeued(worker.item)

\* Only turns of the worker add to the history.
LEMMA HistMoves ==
  ASSUME HandleAssumption, TypeOK, [Next]_vars
  PROVE  HistPart
  <1>1. ASSUME NewAgent PROVE HistPart
    <2>1. hist' = hist
      BY <1>1 DEF NewAgent
    <2> QED BY <2>1 DEF HistPart
  <1>2. ASSUME NewAgentFails PROVE HistPart
    <2>1. hist' = hist
      BY <1>2 DEF NewAgentFails
    <2> QED BY <2>1 DEF HistPart
  <1>3. ASSUME Crash PROVE HistPart
    <2>1. hist'.succeeded = hist.succeeded /\ hist'.replayed = hist.replayed /\ hist'.consumed = hist.consumed
      BY <1>3 DEF Crash, TypeOK, Histories
    <2> QED BY <2>1 DEF HistPart
  <1>4. ASSUME NEW i \in Items, Enqueue(i) PROVE HistPart
    <2>1. hist'.succeeded = hist.succeeded /\ hist'.replayed = hist.replayed /\ hist'.consumed = hist.consumed
      BY <1>4 DEF Enqueue, TypeOK, Histories
    <2> QED BY <2>1 DEF HistPart
  <1>5. ASSUME NEW k \in BOOLEAN, Cancel(k) PROVE HistPart
    <2>1. hist' = hist
      BY <1>5 DEF Cancel
    <2> QED BY <2>1 DEF HistPart
  <1>6. ASSUME Discard PROVE HistPart
    <2>1. hist' = hist
      BY <1>6 DEF Discard
    <2> QED BY <2>1 DEF HistPart
  <1>7. ASSUME Dispose PROVE HistPart
    <2>1. hist' = hist
      BY <1>7 DEF Dispose
    <2> QED BY <2>1 DEF HistPart
  <1>8. ASSUME WhenIdle PROVE HistPart
    <2>1. hist' = hist
      BY <1>8 DEF WhenIdle
    <2> QED BY <2>1 DEF HistPart
  <1>9. ASSUME WhenIdleWakes PROVE HistPart
    <2>1. hist' = hist
      BY <1>9 DEF WhenIdleWakes
    <2> QED BY <2>1 DEF HistPart
  <1>10. ASSUME WorkerWakes PROVE HistPart
    <2>1. hist' = hist
      BY <1>10 DEF WorkerWakes
    <2> QED BY <2>1 DEF HistPart
  <1>11. ASSUME WorkerStops PROVE HistPart
    <2>1. hist' = hist
      BY <1>11 DEF WorkerStops
    <2> QED BY <2>1 DEF HistPart
  <1>12. ASSUME WorkerTakes PROVE HistPart
    <2>1. hist' = hist
      BY <1>12 DEF WorkerTakes
    <2> QED BY <2>1 DEF HistPart
  <1>13. ASSUME WorkerParks PROVE HistPart
    <2>1. hist'.succeeded = hist.succeeded /\ hist'.replayed = hist.replayed /\ hist'.consumed = hist.consumed
      BY <1>13 DEF WorkerParks, TypeOK, Histories
    <2> QED BY <2>1 DEF HistPart
  <1>14. ASSUME WorkerClaimFails PROVE HistPart
    <2>1. hist' = hist
      BY <1>14 DEF WorkerClaimFails
    <2> QED BY <2>1 DEF HistPart
  <1>15. ASSUME WorkerCompletes PROVE HistPart
    <2>1. hist' = hist
      BY <1>15 DEF WorkerCompletes
    <2> QED BY <2>1 DEF HistPart
  <1>16. ASSUME WorkerRequeues PROVE HistPart
    <2>1. /\ hist'.succeeded = hist.succeeded /\ hist'.replayed = hist.replayed
          /\ hist'.consumed = hist.consumed \ {worker.item}
      BY <1>16 DEF WorkerRequeues, Requeues, TypeOK, Histories
    <2> QED BY <2>1 DEF HistPart
  <1>17. ASSUME NEW op \in Ops, HostStarts(op) PROVE HistPart
    <2>1. hist' = hist
      BY <1>17 DEF HostStarts
    <2> QED BY <2>1 DEF HistPart
  <1>18. ASSUME HostReturns PROVE HistPart
    <2>1. hist' = hist
      BY <1>18 DEF HostReturns
    <2> QED BY <2>1 DEF HistPart
  <1>19. ASSUME ApprovedReturns PROVE HistPart
    <2>1. hist'.succeeded = hist.succeeded /\ hist'.replayed = hist.replayed /\ hist'.consumed = hist.consumed
      BY <1>19 DEF ApprovedReturns, TypeOK, Histories
    <2> QED BY <2>1 DEF HistPart
  <1>20. ASSUME RunReturns PROVE HistPart
    <2>1. hist' = hist
      BY <1>20 DEF RunReturns
    <2> QED BY <2>1 DEF HistPart
  <1>21. ASSUME NEW r \in Runners, TurnRefused(r) PROVE HistPart
    <2>1. hist' = hist
      BY <1>21 DEF TurnRefused
    <2> QED BY <2>1 DEF HistPart
  <1>22. ASSUME NEW r \in Runners, TurnStart(r) PROVE HistPart
    <2>1. hist'.succeeded = hist.succeeded /\ hist'.consumed = hist.consumed
      BY <1>22 DEF TurnStart, TypeOK, Histories
    <2>2. \/ hist'.replayed = hist.replayed
          \/ r = "worker" /\ worker.item \in hist.consumed /\ ~Requeued(worker.item)
      BY <1>22 DEF TurnStart
    <2> QED BY <1>22, <2>1, <2>2 DEF HistPart
  <1>23. ASSUME NEW r \in Runners, ClaimNextStepInputs(r) PROVE HistPart
    <2>1. hist' = hist
      BY <1>23 DEF ClaimNextStepInputs
    <2> QED BY <2>1 DEF HistPart
  <1>24. ASSUME NEW r \in Runners, AppendStepInputs(r) PROVE HistPart
    <2>1. hist' = hist
      BY <1>24 DEF AppendStepInputs
    <2> QED BY <2>1 DEF HistPart
  <1>25. ASSUME NEW r \in Runners, AppendStepInputsFails(r) PROVE HistPart
    <2>1. hist' = hist
      BY <1>25 DEF AppendStepInputsFails
    <2> QED BY <2>1 DEF HistPart
  <1>26. ASSUME NEW r \in Runners, StepFails(r) PROVE HistPart
    <2>1. hist' = hist
      BY <1>26 DEF StepFails
    <2> QED BY <2>1 DEF HistPart
  <1>27. ASSUME NEW r \in Runners, TurnSucceeds(r) PROVE HistPart
    <2>1. hist'.replayed = hist.replayed
      BY <1>27 DEF TurnSucceeds, TypeOK, Histories
    <2>2. \/ hist' = hist
          \/ r = "worker" /\ hist'.succeeded = hist.succeeded \cup {worker.item}
      BY <1>27 DEF TurnSucceeds, TypeOK, Histories
    <2>3. \/ hist'.consumed = hist.consumed
          \/ r = "worker" /\ turn[r].first /\ hist'.consumed = hist.consumed \cup {worker.item}
      BY <1>27 DEF TurnSucceeds, TypeOK, Histories
    <2> QED BY <1>27, <2>1, <2>2, <2>3 DEF HistPart
  <1>28. ASSUME NEW r \in Runners, TurnFails(r) PROVE HistPart
    <2>1. hist' = hist
      BY <1>28 DEF TurnFails
    <2> QED BY <2>1 DEF HistPart
  <1>29. CASE UNCHANGED vars
    BY <1>29 DEF HistPart, vars
  <1> QED
    BY <1>1, <1>2, <1>3, <1>4, <1>5, <1>6, <1>7, <1>8, <1>9, <1>10,
       <1>11, <1>12, <1>13, <1>14, <1>15, <1>16, <1>17, <1>18, <1>19, <1>20,
       <1>21, <1>22, <1>23, <1>24, <1>25, <1>26, <1>27, <1>28, <1>29
    DEF Next, WorkerSteps, HostSteps, TurnSteps, Runners

\* How the worker's turn changes.
TurnPart ==
    \/ turn'["worker"] = turn["worker"] /\ worker'.item = worker.item
    \/ turn'["worker"] = NoTurn /\ (worker'.item = 0 \/ WorkerTakes)
    \/ /\ worker'.item = worker.item /\ turn["worker"].phase # "ok"
       /\ \/ turn'["worker"].phase = "failed"
          \/ /\ TurnStart("worker")
             /\ turn'["worker"] = [phase |-> "body", first |-> ledger[worker.item].input = "none"]
          \/ /\ turn["worker"].phase \in {"body", "claimed"}
             /\ turn'["worker"].first = turn["worker"].first
             /\ turn'["worker"].phase \in {"body", "claimed"}
          \/ TurnSucceeds("worker") /\ turn'["worker"].phase = "ok"

\* Phase by phase.
LEMMA TurnMoves ==
  ASSUME HandleAssumption, TypeOK, RunInv, [Next]_vars
  PROVE  TurnPart
  <1>1. ASSUME NewAgent PROVE TurnPart
    <2>1. turn' = turn /\ worker'.item = worker.item
      BY <1>1 DEF NewAgent, TypeOK, Workers
    <2> QED BY <2>1 DEF TurnPart
  <1>2. ASSUME NewAgentFails PROVE TurnPart
    <2>1. turn' = turn /\ worker'.item = worker.item
      BY <1>2 DEF NewAgentFails, TypeOK, Workers
    <2> QED BY <2>1 DEF TurnPart
  <1>3. ASSUME Crash PROVE TurnPart
    BY <1>3 DEF TurnPart, Crash, Runners
  <1>4. ASSUME NEW i \in Items, Enqueue(i) PROVE TurnPart
    <2>1. turn' = turn /\ worker'.item = worker.item
      BY <1>4 DEF Enqueue, TypeOK, Workers
    <2> QED BY <2>1 DEF TurnPart
  <1>5. ASSUME NEW k \in BOOLEAN, Cancel(k) PROVE TurnPart
    <2>1. turn' = turn /\ worker'.item = worker.item
      BY <1>5 DEF Cancel, TypeOK, Workers
    <2> QED BY <2>1 DEF TurnPart
  <1>6. ASSUME Discard PROVE TurnPart
    <2>1. turn' = turn /\ worker'.item = worker.item
      BY <1>6 DEF Discard, TypeOK, Workers
    <2> QED BY <2>1 DEF TurnPart
  <1>7. ASSUME Dispose PROVE TurnPart
    <2>1. turn' = turn /\ worker'.item = worker.item
      BY <1>7 DEF Dispose, TypeOK, Workers
    <2> QED BY <2>1 DEF TurnPart
  <1>8. ASSUME WhenIdle PROVE TurnPart
    <2>1. turn' = turn /\ worker'.item = worker.item
      BY <1>8 DEF WhenIdle, TypeOK, Workers
    <2> QED BY <2>1 DEF TurnPart
  <1>9. ASSUME WhenIdleWakes PROVE TurnPart
    <2>1. turn' = turn /\ worker'.item = worker.item
      BY <1>9 DEF WhenIdleWakes, TypeOK, Workers
    <2> QED BY <2>1 DEF TurnPart
  <1>10. ASSUME WorkerWakes PROVE TurnPart
    <2>1. turn' = turn /\ worker'.item = worker.item
      BY <1>10 DEF WorkerWakes, TypeOK, Workers
    <2> QED BY <2>1 DEF TurnPart
  <1>11. ASSUME WorkerStops PROVE TurnPart
    <2>1. turn' = turn /\ worker'.item = worker.item
      BY <1>11 DEF WorkerStops, TypeOK, Workers
    <2> QED BY <2>1 DEF TurnPart
  <1>12. ASSUME WorkerTakes PROVE TurnPart
    <2>1. turn'["worker"] = NoTurn
      BY <1>12 DEF WorkerTakes, RunInv
    <2> QED BY <1>12, <2>1 DEF TurnPart, WorkerTakes
  <1>13. ASSUME WorkerParks PROVE TurnPart
    <2>1. turn' = turn /\ worker'.item = worker.item
      BY <1>13 DEF WorkerParks, TypeOK, Workers
    <2> QED BY <2>1 DEF TurnPart
  <1>14. ASSUME WorkerClaimFails PROVE TurnPart
    <2>1. turn'["worker"] = NoTurn
      BY <1>14 DEF WorkerClaimFails, RunInv
    <2> QED BY <1>14, <2>1 DEF TurnPart, WorkerClaimFails
  <1>15. ASSUME WorkerCompletes PROVE TurnPart
    <2>1. turn'["worker"] = NoTurn /\ worker'.item = 0
      BY <1>15 DEF WorkerCompletes, TypeOK, Turns, Runners
    <2> QED BY <2>1 DEF TurnPart
  <1>16. ASSUME WorkerRequeues PROVE TurnPart
    <2>1. turn'["worker"] = NoTurn /\ worker'.item = 0
      BY <1>16 DEF WorkerRequeues, Requeues, TypeOK, Turns, Runners
    <2> QED BY <2>1 DEF TurnPart
  <1>17. ASSUME NEW op \in Ops, HostStarts(op) PROVE TurnPart
    <2>1. turn'["worker"] = turn["worker"] /\ worker' = worker
      BY <1>17 DEF HostStarts, TypeOK, Turns
    <2> QED BY <2>1 DEF TurnPart
  <1>18. ASSUME HostReturns PROVE TurnPart
    <2>1. turn'["worker"] = turn["worker"] /\ worker' = worker
      BY <1>18 DEF HostReturns, TypeOK, Turns
    <2> QED BY <2>1 DEF TurnPart
  <1>19. ASSUME ApprovedReturns PROVE TurnPart
    <2>1. turn'["worker"] = turn["worker"] /\ worker' = worker
      BY <1>19 DEF ApprovedReturns, TypeOK, Turns
    <2> QED BY <2>1 DEF TurnPart
  <1>20. ASSUME RunReturns PROVE TurnPart
    <2>1. turn' = turn /\ worker'.item = worker.item
      BY <1>20 DEF RunReturns, TypeOK, Workers
    <2> QED BY <2>1 DEF TurnPart
  <1>21. ASSUME NEW r \in Runners, TurnRefused(r) PROVE TurnPart
    <2>1. turn'[r].phase = "failed" /\ turn'[r].first = turn[r].first /\ \A q \in Runners : q # r => turn'[q] = turn[q]
      BY <1>21, PhaseChange DEF TurnRefused, Phases
    <2>2. worker'.item = worker.item /\ (r = "worker" => turn[r].phase = "none")
      BY <1>21 DEF TurnRefused, TypeOK, Workers, Starting, RunInv, NoTurn
    <2>3. CASE r = "worker"
      BY <1>21, <2>1, <2>2, <2>3 DEF TurnPart
    <2>4. CASE r # "worker"
      BY <2>1, <2>2, <2>4 DEF TurnPart, Runners
    <2> QED BY <2>3, <2>4
  <1>22. ASSUME NEW r \in Runners, TurnStart(r) PROVE TurnPart
    <2>1. /\ turn'[r] = [phase |-> "body", first |-> r = "worker" /\ ledger[worker.item].input = "none"]
          /\ \A q \in Runners : q # r => turn'[q] = turn[q]
      BY <1>22 DEF TurnStart, TypeOK, Turns
    <2>2. worker'.item = worker.item /\ (r = "worker" => turn[r].phase = "none")
      BY <1>22 DEF TurnStart, TypeOK, Workers, Starting, RunInv, NoTurn
    <2>3. CASE r = "worker"
      BY <1>22, <2>1, <2>2, <2>3 DEF TurnPart
    <2>4. CASE r # "worker"
      BY <2>1, <2>2, <2>4 DEF TurnPart, Runners
    <2> QED BY <2>3, <2>4
  <1>23. ASSUME NEW r \in Runners, ClaimNextStepInputs(r) PROVE TurnPart
    <2>1. turn'[r].phase = "claimed" /\ turn'[r].first = turn[r].first /\ \A q \in Runners : q # r => turn'[q] = turn[q]
      BY <1>23, PhaseChange DEF ClaimNextStepInputs, Phases
    <2>2. worker'.item = worker.item /\ (r = "worker" => turn[r].phase = "body")
      BY <1>23 DEF ClaimNextStepInputs, TypeOK, Workers, Starting, RunInv, NoTurn
    <2>3. CASE r = "worker"
      BY <1>23, <2>1, <2>2, <2>3 DEF TurnPart
    <2>4. CASE r # "worker"
      BY <2>1, <2>2, <2>4 DEF TurnPart, Runners
    <2> QED BY <2>3, <2>4
  <1>24. ASSUME NEW r \in Runners, AppendStepInputs(r) PROVE TurnPart
    <2>1. turn'[r].phase = "body" /\ turn'[r].first = turn[r].first /\ \A q \in Runners : q # r => turn'[q] = turn[q]
      BY <1>24, PhaseChange DEF AppendStepInputs, Phases
    <2>2. worker'.item = worker.item /\ (r = "worker" => turn[r].phase = "claimed")
      BY <1>24 DEF AppendStepInputs, TypeOK, Workers, Starting, RunInv, NoTurn
    <2>3. CASE r = "worker"
      BY <1>24, <2>1, <2>2, <2>3 DEF TurnPart
    <2>4. CASE r # "worker"
      BY <2>1, <2>2, <2>4 DEF TurnPart, Runners
    <2> QED BY <2>3, <2>4
  <1>25. ASSUME NEW r \in Runners, AppendStepInputsFails(r) PROVE TurnPart
    <2>1. turn'[r].phase = "failed" /\ turn'[r].first = turn[r].first /\ \A q \in Runners : q # r => turn'[q] = turn[q]
      BY <1>25, PhaseChange DEF AppendStepInputsFails, Phases
    <2>2. worker'.item = worker.item /\ (r = "worker" => turn[r].phase = "claimed")
      BY <1>25 DEF AppendStepInputsFails, TypeOK, Workers, Starting, RunInv, NoTurn
    <2>3. CASE r = "worker"
      BY <1>25, <2>1, <2>2, <2>3 DEF TurnPart
    <2>4. CASE r # "worker"
      BY <2>1, <2>2, <2>4 DEF TurnPart, Runners
    <2> QED BY <2>3, <2>4
  <1>26. ASSUME NEW r \in Runners, StepFails(r) PROVE TurnPart
    <2>1. turn'[r].phase = "failed" /\ turn'[r].first = turn[r].first /\ \A q \in Runners : q # r => turn'[q] = turn[q]
      BY <1>26, PhaseChange DEF StepFails, Phases
    <2>2. worker'.item = worker.item /\ (r = "worker" => turn[r].phase = "claimed")
      BY <1>26 DEF StepFails, TypeOK, Workers, Starting, RunInv, NoTurn
    <2>3. CASE r = "worker"
      BY <1>26, <2>1, <2>2, <2>3 DEF TurnPart
    <2>4. CASE r # "worker"
      BY <2>1, <2>2, <2>4 DEF TurnPart, Runners
    <2> QED BY <2>3, <2>4
  <1>27. ASSUME NEW r \in Runners, TurnSucceeds(r) PROVE TurnPart
    <2>1. turn'[r].phase = "ok" /\ turn'[r].first = turn[r].first /\ \A q \in Runners : q # r => turn'[q] = turn[q]
      BY <1>27, PhaseChange DEF TurnSucceeds, Phases
    <2>2. worker'.item = worker.item /\ (r = "worker" => turn[r].phase = "body")
      BY <1>27 DEF TurnSucceeds, TypeOK, Workers, Starting, RunInv, NoTurn
    <2>3. CASE r = "worker"
      BY <1>27, <2>1, <2>2, <2>3 DEF TurnPart
    <2>4. CASE r # "worker"
      BY <2>1, <2>2, <2>4 DEF TurnPart, Runners
    <2> QED BY <2>3, <2>4
  <1>28. ASSUME NEW r \in Runners, TurnFails(r) PROVE TurnPart
    <2>1. turn'[r].phase = "failed" /\ turn'[r].first = turn[r].first /\ \A q \in Runners : q # r => turn'[q] = turn[q]
      BY <1>28, PhaseChange DEF TurnFails, Phases
    <2>2. worker'.item = worker.item /\ (r = "worker" => turn[r].phase = "body")
      BY <1>28 DEF TurnFails, TypeOK, Workers, Starting, RunInv, NoTurn
    <2>3. CASE r = "worker"
      BY <1>28, <2>1, <2>2, <2>3 DEF TurnPart
    <2>4. CASE r # "worker"
      BY <2>1, <2>2, <2>4 DEF TurnPart, Runners
    <2> QED BY <2>3, <2>4
  <1>29. CASE UNCHANGED vars
    BY <1>29 DEF TurnPart, vars
  <1> QED
    BY <1>1, <1>2, <1>3, <1>4, <1>5, <1>6, <1>7, <1>8, <1>9, <1>10,
       <1>11, <1>12, <1>13, <1>14, <1>15, <1>16, <1>17, <1>18, <1>19, <1>20,
       <1>21, <1>22, <1>23, <1>24, <1>25, <1>26, <1>27, <1>28, <1>29
    DEF Next, WorkerSteps, HostSteps, TurnSteps, Runners

\* Nobody starts a turn while the worker has one.
LEMMA NoSecondStart ==
  ASSUME TypeOK, RunInv, NEW r \in Runners, TurnStart(r)
  PROVE  turn["worker"] = NoTurn
  <1>1. CASE r = "worker"
    BY <1>1 DEF TurnStart, Starting, RunInv
  <1>2. CASE r = "host"
    <2>1. turn["host"].phase = "start"
      BY <1>2 DEF TurnStart, Starting
    <2>2. host # "none"
      BY <2>1 DEF RunInv, NoTurn
    <2> QED BY <2>2 DEF RunInv
  <1> QED BY <1>1, <1>2 DEF Runners

\* The fate of an ended or interrupted turn is final.
LEMMA FateIsFinal ==
  ASSUME HandleAssumption, TypeOK, RunInv, KnownInv, FateInv, [Next]_vars,
         NEW i \in Items, ledger[i].input \in {"ended", "interrupted"}
  PROVE  ledger'[i].input = ledger[i].input
  <1>1. InputChange(i)
    BY LedgerMoves
  <1> QED BY <1>1 DEF InputChange, FateInv

\* Steps keep FateInv.
LEMMA FateNext ==
  ASSUME HandleAssumption, TypeOK, RunInv, KnownInv, FateInv, [Next]_vars
  PROVE  FateInv'
  <1>1. HistPart /\ TurnPart /\ \A i \in Items : InputChange(i)
    BY HistMoves, TurnMoves, LedgerMoves
  <1>2. hist.succeeded \subseteq hist'.succeeded
    BY <1>1 DEF HistPart
  <1>3. ASSUME TurnSucceeds("worker") PROVE worker.item \in hist'.succeeded
    BY <1>3 DEF TurnSucceeds, TypeOK, Histories
  <1>4. ASSUME NEW i \in Items, ledger'[i].input = "ended"
        PROVE  i \in hist'.succeeded \/ "policy" \in Failures
    BY <1>1, <1>2, <1>3, <1>4 DEF InputChange, FateInv
  <1>5. turn'["worker"].phase = "ok" => worker'.item \in hist'.succeeded
    <2>1. CASE turn'["worker"] = turn["worker"] /\ worker'.item = worker.item
      BY <1>2, <2>1 DEF FateInv
    <2>2. CASE turn'["worker"] = NoTurn
      BY <2>2 DEF NoTurn
    <2>3. CASE worker'.item = worker.item /\ TurnSucceeds("worker")
      BY <1>3, <2>3
    <2> QED BY <1>1, <2>1, <2>2, <2>3 DEF TurnPart
  <1>6. ASSUME turn'["worker"].first, turn'["worker"].phase \in {"body", "claimed"}
        PROVE  ledger'[worker'.item].input = "open"
    <2>1. CASE /\ worker'.item = worker.item /\ turn'["worker"].first = turn["worker"].first
               /\ turn["worker"].phase \in {"body", "claimed"}
      <3>1. ledger[worker.item].input = "open" /\ worker.item \in Items
        BY <1>6, <2>1, ItemKinds DEF FateInv, RunInv, NoTurn, TypeOK, Workers
      <3>2. ~TurnStart("worker") /\ ~TurnStart("host")
        BY <2>1, NoSecondStart DEF NoTurn, Runners
      <3>3. InputChange(worker.item)
        BY <1>1, <3>1
      <3> QED BY <1>6, <2>1, <3>1, <3>2, <3>3 DEF InputChange, Runners
    <2>2. CASE turn'["worker"] = NoTurn
      BY <1>6, <2>2 DEF NoTurn
    <2>3. CASE /\ TurnStart("worker") /\ worker'.item = worker.item
               /\ turn'["worker"] = [phase |-> "body", first |-> ledger[worker.item].input = "none"]
      <3>0. turn'["worker"].first = (ledger[worker.item].input = "none")
        BY <2>3
      <3>1. ledger[worker.item].input = "none"
        BY <1>6, <3>0
      <3>2. worker.item \in Items /\ ledger[worker.item] \in [queue : QueueEvents, input : Fates]
        BY <2>3, ItemKinds DEF TurnStart, Starting, RunInv, TypeOK, Workers, Ledgers
      <3>3. ledger'[worker.item] = [ledger[worker.item] EXCEPT !.input = "open"]
        BY <2>3, <3>1, <3>2 DEF TurnStart
      <3> QED BY <2>3, <3>2, <3>3
    <2> QED BY <1>1, <1>6, <2>1, <2>2, <2>3 DEF TurnPart
  <1> QED BY <1>4, <1>5, <1>6 DEF FateInv

\* Steps keep CompletedWasConsumed.
LEMMA CompletedNext ==
  ASSUME HandleAssumption, TypeOK, RunInv, KnownInv, FateInv, CompletedWasConsumed, [Next]_vars
  PROVE  CompletedWasConsumed'
  <1> SUFFICES ASSUME NEW i \in FollowUps, ledger'[i].queue = "completed"
               PROVE  \/ i \in hist'.succeeded
                      \/ ledger'[i].input = "interrupted"
                      \/ ledger'[i].input = "ended" /\ "policy" \in Failures
    BY DEF CompletedWasConsumed
  <1>1. i \in Items /\ i \notin Steers
    BY ItemKinds
  <1>2. HistPart /\ QueueChange(i)
    BY <1>1, HistMoves, LedgerMoves
  <1>3. hist.succeeded \subseteq hist'.succeeded
    BY <1>2 DEF HistPart
  <1>4. ledger[i].input \in {"ended", "interrupted"} => ledger'[i].input = ledger[i].input
    BY <1>1, FateIsFinal
  <1>5. CASE ledger'[i].queue = ledger[i].queue
    BY <1>3, <1>4, <1>5 DEF CompletedWasConsumed
  <1>6. CASE Sealed(i)
    BY <1>1, <1>3, <1>4, <1>6 DEF Sealed, FateInv
  <1>7. CASE WorkerCompletes /\ i = worker.item
    BY <1>3, <1>7 DEF WorkerCompletes, FateInv
  <1>8. CASE \E n \in DOMAIN taken : taken[n] = i
    BY <1>1, <1>8 DEF TypeOK
  <1> QED BY <1>2, <1>5, <1>6, <1>7, <1>8 DEF QueueChange

\* Steps keep ConsumedInv.
LEMMA ConsumedNext ==
  ASSUME HandleAssumption, TypeOK, RunInv, OrderInv, KnownInv, PlaceInv, FateInv, ConsumedInv, [Next]_vars
  PROVE  ConsumedInv'
  <1> SUFFICES ASSUME NEW i \in hist'.consumed
               PROVE  /\ i \in FollowUps /\ ledger'[i].input = "ended" /\ ledger'[i].queue # "none"
                      /\ ledger'[i].queue # "requeued" =>
                            /\ ~\E n \in DOMAIN h'.inbox : h'.inbox[n] = i
                            /\ worker'.item = i => turn'["worker"].phase = "ok"
    BY DEF ConsumedInv, Queued, Requeued, Waits
  <1>1. HistPart /\ TurnPart /\ NewInbox /\ NewHands
    BY HistMoves, TurnMoves, InboxMoves, HandsMove
  <1>2. CASE i \in hist.consumed
    <2>1. i \in FollowUps /\ i \in Items /\ i \notin Steers /\ i # 0
          /\ ledger[i].input = "ended" /\ Queued(i)
      BY <1>2, ItemKinds DEF ConsumedInv
    <2>2. ledger'[i].input = "ended" /\ ledger'[i].queue # "none" /\ QueueChange(i)
      BY <2>1, FateIsFinal, QueuedStays, LedgerMoves DEF Queued
    <2>3. \A k \in DOMAIN taken : taken[k] # i
      BY <2>1 DEF TypeOK
    <2>4. ~Enqueue(i)
      BY <2>1 DEF Enqueue, Sendable
    <2>5. ASSUME ledger'[i].queue # "requeued"
          PROVE  /\ ~\E n \in DOMAIN h'.inbox : h'.inbox[n] = i
                 /\ worker'.item = i => turn'["worker"].phase = "ok"
      <3>1. CASE ~Requeued(i)
        <4>1. ~Waits(i) /\ (worker.item = i => turn["worker"].phase = "ok")
          BY <1>2, <3>1 DEF ConsumedInv
        <4>2. ASSUME NEW n \in DOMAIN h'.inbox, h'.inbox[n] = i PROVE FALSE
          <5>1. CASE h'.inbox[n] = worker.item /\ (WorkerClaimFails \/ WorkerRequeues)
            <6>1. turn["worker"].phase = "ok"
              BY <4>1, <4>2, <5>1
            <6>2. ~WorkerClaimFails
              BY <6>1 DEF WorkerClaimFails, RunInv, NoTurn
            <6>3. worker.item \notin hist'.consumed
              <7>1. WorkerRequeues
                BY <5>1, <6>2
              <7>2. hist \in Histories
                BY DEF TypeOK
              <7> QED BY <7>1, <7>2 DEF WorkerRequeues, Requeues, Histories
            <6> QED BY <4>2, <5>1, <6>3
          <5>2. CASE NewAgent /\ ~Sealed(h'.inbox[n])
            BY <2>1, <3>1, <4>2, <5>2 DEF Sealed
          <5>3. ~\E k \in DOMAIN h.inbox : h'.inbox[n] = h.inbox[k]
            BY <4>1, <4>2 DEF Waits
          <5> QED BY <1>1, <2>3, <2>4, <4>2, <5>1, <5>2, <5>3 DEF NewInbox
        <4>3. ASSUME worker'.item = i PROVE turn'["worker"].phase = "ok"
          <5>1. worker.item = i
            BY <1>1, <2>1, <4>1, <4>3 DEF NewHands, Waits
          <5>2. turn["worker"].phase = "ok"
            BY <4>1, <5>1
          <5>3. ~WorkerTakes
            BY <5>2 DEF WorkerTakes, RunInv, NoTurn
          <5> QED BY <1>1, <2>1, <4>3, <5>2, <5>3 DEF TurnPart
        <4> QED BY <4>2, <4>3
      <3>2. CASE WorkerCompletes /\ i = worker.item
        <4>1. worker'.item = 0 /\ h'.inbox = h.inbox
          BY <3>2, BackProps DEF WorkerCompletes, TypeOK, Handles
        <4> QED BY <2>1, <3>2, <4>1 DEF PlaceInv
      <3>3. CASE Discard /\ \E n \in DOMAIN discards : discards[n] = i
        <4>1. UNCHANGED <<h, worker>>
          BY <3>3 DEF Discard
        <4> QED BY <2>1, <3>3, <4>1 DEF PlaceInv, Waits
      <3> QED BY <2>2, <2>3, <2>4, <2>5, <3>1, <3>2, <3>3 DEF QueueChange, Sealed, Requeued
    <2> QED BY <2>1, <2>2, <2>5
  <1>3. CASE TurnSucceeds("worker") /\ turn["worker"].first /\ i = worker.item
    <2>1. i \in FollowUps /\ i \in Items /\ Queued(i)
      BY <1>3, ItemKinds DEF TurnSucceeds, RunInv, NoTurn, TypeOK, Workers, KnownInv
    <2>2. ledger' = Fate("worker", "ended") /\ h' = h
      BY <1>3 DEF TurnSucceeds
    <2>3. ledger'[i].input = "ended" /\ ledger'[i].queue = ledger[i].queue
      BY <1>3, <2>1, <2>2, FateProps DEF Runners, Fates
    <2>4. turn'["worker"].phase = "ok"
      BY <1>3, PhaseChange DEF TurnSucceeds, Runners, Phases
    <2> QED BY <1>3, <2>1, <2>2, <2>3, <2>4 DEF Queued, PlaceInv
  <1> QED BY <1>1, <1>2, <1>3 DEF HistPart

\* Steps keep NoReplay: the worker does not start a turn for a consumed item.
LEMMA ReplayNext ==
  ASSUME HandleAssumption, TypeOK, RunInv, ConsumedInv, NoReplay, [Next]_vars
  PROVE  NoReplay'
  <1>1. HistPart
    BY HistMoves
  <1>2. ASSUME TurnStart("worker"), worker.item \in hist.consumed, ~Requeued(worker.item) PROVE FALSE
    <2>1. turn["worker"] = NoTurn
      BY <1>2, NoSecondStart DEF Runners
    <2> QED BY <1>2, <2>1 DEF ConsumedInv, NoTurn
  <1> QED BY <1>1, <1>2 DEF HistPart, NoReplay

-----------------------------------------------------------------------------
(* The theorems. *)

LEMMA HandleInit ==
  ASSUME HandleAssumption, Init
  PROVE  HandleInv
  <1>1. ledger \in Ledgers /\ \A i \in Items : ledger[i] = [queue |-> "none", input |-> "none"]
    BY DEF Init, Ledgers, QueueEvents, Fates
  <1>2. h \in Handles /\ worker \in Workers /\ hist \in Histories
    BY DEF Init, NoHandle, Handles, Workers, Histories
  <1>3. turn \in Turns /\ turn["worker"] = NoTurn /\ turn["host"] = NoTurn
    BY DEF Init, Turns, Runners, NoTurn, Phases
  <1>4. bounds \in Counters
    BY DEF Init, Counters, HandleAssumption
  <1>5. TypeOK
    <2>1. order \in Seq(Items) /\ taken \in Seq(Steers) /\ discards \in Seq(Items)
      BY DEF Init
    <2>2. host = "none" /\ refused = {} /\ waiter = FALSE
      BY DEF Init
    <2> QED BY <1>1, <1>2, <1>3, <1>4, <2>1, <2>2 DEF TypeOK
  <1>6. RunInv /\ StopInv
    BY <1>3 DEF Init, RunInv, StopInv, NoHandle
  <1>7. OrderInv
    BY <1>1 DEF Init, OrderInv, Queued
  <1>8. KnownInv /\ PlaceInv
    BY DEF Init, KnownInv, PlaceInv, Once, NoHandle
  <1>9. FateInv /\ ConsumedInv /\ NoReplay
    BY <1>1, <1>3 DEF Init, FateInv, ConsumedInv, NoTurn, NoReplay
  <1>10. FollowUpsKept
    BY DEF Init, FollowUpsKept, NoHandle
  <1>11. CompletedWasConsumed
    BY <1>1, ItemKinds DEF CompletedWasConsumed
  <1> QED BY <1>5, <1>6, <1>7, <1>8, <1>9, <1>10, <1>11 DEF HandleInv

LEMMA HandleNext ==
  ASSUME HandleAssumption, HandleInv, [Next]_vars
  PROVE  HandleInv'
  <1> USE DEF HandleInv
  <1>1. TypeOK'
    BY TypeNext
  <1>2. RunInv' /\ OrderInv' /\ KnownInv'
    BY RunNext, OrderNext, KnownNext
  <1>3. PlaceInv' /\ StopInv'
    BY <1>1, PlaceNext, StopNext
  <1>4. FateInv' /\ ConsumedInv'
    BY FateNext, ConsumedNext
  <1>5. FollowUpsKept' /\ CompletedWasConsumed' /\ NoReplay'
    BY KeptNext, CompletedNext, ReplayNext
  <1> QED BY <1>1, <1>2, <1>3, <1>4, <1>5

\* The invariant holds of every behaviour of the handle, whatever the number of
\* commands, host runs, crashes and failed appends.
THEOREM HandleSafe == Spec => []HandleInv
  <1>1. Init => HandleInv
    BY HandleInit, HandleAssumption
  <1>2. HandleInv /\ [Next]_vars => HandleInv'
    BY HandleNext, HandleAssumption
  <1> QED BY <1>1, <1>2, PTL DEF Spec

\* The worker's turn and a host's exclude each other (worker, Submit, Run and the
\* resumes test and set the status under h.mu), even when the handle is disposed in the middle,
\* when a claim cannot be recorded and when Run is stuck on h.mu.
THEOREM OneRun == Spec => []OneRunAtATime
  <1>1. HandleInv => OneRunAtATime
    BY DEF HandleInv, RunInv, OneRunAtATime
  <1> QED BY <1>1, HandleSafe, PTL

\* No follow-up that was reported as queued disappears from a live handle before
\* the log calls it settled: through every order of claims, failed claims, failed
\* turns, cancellations, crashes and restarts.
THEOREM FollowUpsStay == Spec => []FollowUpsKept
  <1>1. HandleInv => FollowUpsKept
    BY DEF HandleInv
  <1> QED BY <1>1, HandleSafe, PTL

\* inbox/completed is written only for what a successful turn consumed, or what
\* restoreInbox takes for consumed: an interrupted turn, or one a policy stopped.
THEOREM CompletedConsumed == Spec => []CompletedWasConsumed
  <1>1. HandleInv => CompletedWasConsumed
    BY DEF HandleInv
  <1> QED BY <1>1, HandleSafe, PTL

\* The turn that consumed a follow-up is not repeated, whenever the process dies
\* between its end and inbox/completed.
THEOREM NeverReplayed == Spec => []NoReplay
  <1>1. HandleInv => NoReplay
    BY DEF HandleInv
  <1> QED BY <1>1, HandleSafe, PTL

=============================================================================

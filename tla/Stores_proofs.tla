--------------------------- MODULE Stores_proofs ---------------------------
(***************************************************************************)
(* The two stores that agents share.  The session store keeps its contract *)
(* for every set of workers and events, every batch length and every lease *)
(* duration; the file system loses no update, for any set of agents and    *)
(* any bounds.                                                             *)
(***************************************************************************)
EXTENDS FencedLog, LocalFS, TLAPS

-----------------------------------------------------------------------------
(* The session store. *)

\* What one append does to the log: the new events are numbered on from next,
\* carry the writer's fence, and their IDs are new to the log and distinct.
AppendsFresh(wf) ==
    \E n \in 0..MaxBatch : \E ids \in [1..n -> EventIDs \ Stored] :
        /\ \A i, j \in 1..n : ids[i] = ids[j] => i = j
        /\ events' = events \o [i \in 1..n |-> [seq |-> next + i, id |-> ids[i], fence |-> wf]]
        /\ next' = next + n

\* Read off the definition of Store, whose events are of the batch.
LEMMA StoreAppends ==
    ASSUME TypeOK, NEW batch \in Batches, NEW within \in BOOLEAN, NEW wf \in Nat,
           within \/ \A i, j \in DOMAIN batch : batch[i] = batch[j] => i = j,
           Store(batch, within, wf)
    PROVE  AppendsFresh(wf)
<1>1. PICK m \in 1..MaxBatch : batch \in [1..m -> EventIDs]
  BY DEF Batches
<1>2. Len(batch) = m /\ DOMAIN batch = 1..m
  BY <1>1, FencedLogAssumption
<1>a. PICK n \in 0..m : \E f \in [1..n -> 1..m] :
        /\ Selects(f, n, batch, within)
        /\ events' = events \o [i \in 1..n |-> [seq |-> next + i, id |-> batch[f[i]], fence |-> wf]]
        /\ next' = next + n
  BY <1>2 DEF Store
<1>3. PICK f \in [1..n -> 1..m] :
        /\ Selects(f, n, batch, within)
        /\ events' = events \o [i \in 1..n |-> [seq |-> next + i, id |-> batch[f[i]], fence |-> wf]]
        /\ next' = next + n
  BY <1>a
<1> DEFINE ids == [i \in 1..n |-> batch[f[i]]]
<1>4. n \in 0..MaxBatch
  BY FencedLogAssumption
<1>5. \A i \in 1..n : f[i] \in 1..m /\ batch[f[i]] \notin Stored
                      /\ (within => \A j \in 1..(f[i] - 1) : batch[j] # batch[f[i]])
  BY <1>2, <1>3 DEF Selects
<1>6. ids \in [1..n -> EventIDs \ Stored]
  BY <1>1, <1>5
<1>7. \A i, j \in 1..n : i < j => ids[i] # ids[j]
  <2> SUFFICES ASSUME NEW i \in 1..n, NEW j \in 1..n, i < j PROVE batch[f[i]] # batch[f[j]]
    OBVIOUS
  <2>1. f[i] < f[j] /\ f[i] \in 1..m /\ f[j] \in 1..m
    BY <1>3, <1>5 DEF Selects
  <2>2. CASE within
    BY <2>1, <2>2, <1>5
  <2>3. CASE ~within
    BY <2>1, <2>3, <1>2
  <2> QED BY <2>2, <2>3
<1>8. \A i, j \in 1..n : ids[i] = ids[j] => i = j
  BY <1>7
<1>9. events' = events \o [i \in 1..n |-> [seq |-> next + i, id |-> ids[i], fence |-> wf]]
  BY <1>3
<1> QED BY <1>3, <1>4, <1>6, <1>8, <1>9 DEF AppendsFresh

\* A batch of fresh events keeps the log well formed: exactly once, gap-free,
\* and with fences in order when the writer's fence is 0 or the newest.
LEMMA FreshKeepsLog ==
    ASSUME TypeOK, ExactlyOnce, FencesNeverRegress,
           \A i \in DOMAIN events : events[i].fence <= fence,
           NEW n \in Nat, NEW wf \in {0, fence},
           NEW ids \in [1..n -> EventIDs \ Stored],
           \A i, j \in 1..n : ids[i] = ids[j] => i = j,
           events' = events \o [i \in 1..n |-> [seq |-> next + i, id |-> ids[i], fence |-> wf]],
           next' = next + n
    PROVE  /\ events' \in Seq(Event)
           /\ next' \in Nat
           /\ ExactlyOnce'
           /\ FencesNeverRegress'
           /\ \A i \in DOMAIN events' : events'[i].fence <= fence
<1> DEFINE new == [i \in 1..n |-> [seq |-> next + i, id |-> ids[i], fence |-> wf]]
           len == Len(events)
<1>1. events \in Seq(Event) /\ next \in Nat /\ fence \in Nat /\ wf \in Nat /\ len \in Nat
  BY DEF TypeOK
<1>2. new \in Seq(Event) /\ Len(new) = n
  BY <1>1 DEF Event
<1>3. /\ events' \in Seq(Event) /\ Len(events') = len + n
      /\ DOMAIN events' = 1..(len + n) /\ DOMAIN events = 1..len
  BY <1>1, <1>2
<1>4. \A i \in 1..len : events'[i] = events[i]
  BY <1>1, <1>2
<1>5. \A i \in 1..(len + n) : i > len => (i - len) \in 1..n /\ events'[i] = new[i - len]
  BY <1>1, <1>2
<1>6. \A i \in 1..(len + n) : i > len =>
        /\ events'[i].seq = next + (i - len)
        /\ events'[i].id = ids[i - len]
        /\ events'[i].id \notin Stored
        /\ events'[i].fence = wf
  BY <1>1, <1>5
<1>7. \A i \in 1..len : events[i].id \in Stored
  BY <1>3 DEF Stored
<1>8. next = len /\ (\A i \in 1..len : events[i].seq = i)
      /\ \A i, j \in 1..len : events[i].id = events[j].id => i = j
  BY <1>3 DEF ExactlyOnce
<1>9. ExactlyOnce'
  <2>1. \A i, j \in 1..(len + n) : events'[i].id = events'[j].id => i = j
    <3> SUFFICES ASSUME NEW i \in 1..(len + n), NEW j \in 1..(len + n),
                        events'[i].id = events'[j].id
                 PROVE  i = j
      OBVIOUS
    <3>1. CASE i <= len /\ j <= len
      BY <3>1, <1>1, <1>4, <1>8
    <3>2. CASE i <= len /\ j > len
      BY <3>2, <1>1, <1>4, <1>6, <1>7
    <3>3. CASE i > len /\ j <= len
      BY <3>3, <1>1, <1>4, <1>6, <1>7
    <3>4. CASE i > len /\ j > len
      <4>1. ids[i - len] = ids[j - len] /\ i - len \in 1..n /\ j - len \in 1..n
        BY <3>4, <1>5, <1>6
      <4>2. i - len = j - len
        BY <4>1
      <4> QED BY <4>2, <1>1
    <3> QED BY <3>1, <3>2, <3>3, <3>4, <1>1
  <2>2. next' = Len(events')
    BY <1>3, <1>8
  <2>3. \A i \in 1..(len + n) : events'[i].seq = i
    BY <1>1, <1>4, <1>6, <1>8
  <2> QED BY <2>1, <2>2, <2>3, <1>3 DEF ExactlyOnce
<1>10. \A i \in DOMAIN events' : events'[i].fence <= fence
  BY <1>1, <1>3, <1>4, <1>6
<1>11. FencesNeverRegress'
  <2> SUFFICES ASSUME NEW i \in 1..(len + n), NEW j \in 1..(len + n),
                      i < j, events'[i].fence > 0, events'[j].fence > 0
               PROVE  events'[i].fence <= events'[j].fence
    BY <1>3 DEF FencesNeverRegress
  <2>1. CASE j <= len
    <3>1. i \in DOMAIN events /\ j \in DOMAIN events
      BY <2>1, <1>1, <1>3
    <3>2. events'[i] = events[i] /\ events'[j] = events[j]
      BY <3>1, <1>3, <1>4
    <3>3. events[i].fence > 0 /\ events[j].fence > 0
      BY <3>2
    <3>4. events[i].fence <= events[j].fence
      BY <3>1, <3>3 DEF FencesNeverRegress
    <3> QED BY <3>2, <3>4
  <2>2. CASE j > len
    <3>1. events'[j].fence = wf /\ wf = fence
      BY <2>2, <1>1, <1>6
    <3>2. events'[i].fence <= fence
      BY <1>3, <1>10
    <3> QED BY <3>1, <3>2
  <2> QED BY <2>1, <2>2, <1>1
<1> QED BY <1>1, <1>3, <1>9, <1>10, <1>11

\* One append, fenced or not, keeps the log part of the invariant and touches
\* nothing else.
LEMMA StoreKeepsLog ==
    ASSUME TypeOK, ExactlyOnce, FencesNeverRegress,
           \A i \in DOMAIN events : events[i].fence <= fence,
           NEW batch \in Batches, NEW within \in BOOLEAN, NEW wf \in {0, fence},
           within \/ \A i, j \in DOMAIN batch : batch[i] = batch[j] => i = j,
           Store(batch, within, wf)
    PROVE  /\ events' \in Seq(Event)
           /\ next' \in Nat
           /\ ExactlyOnce'
           /\ FencesNeverRegress'
           /\ \A i \in DOMAIN events' : events'[i].fence <= fence
<1>1. wf \in Nat
  BY DEF TypeOK
<1>2. PICK n \in 0..MaxBatch : \E ids \in [1..n -> EventIDs \ Stored] :
        /\ \A i, j \in 1..n : ids[i] = ids[j] => i = j
        /\ events' = events \o [i \in 1..n |-> [seq |-> next + i, id |-> ids[i], fence |-> wf]]
        /\ next' = next + n
  <2>1. AppendsFresh(wf)
    BY <1>1, StoreAppends
  <2> QED BY <2>1 DEF AppendsFresh
<1>3. n \in Nat
  BY FencedLogAssumption
<1> QED BY <1>2, <1>3, FreshKeepsLog

\* The inductive invariant of the store.
StoreInv == TypeOK /\ ExactlyOnce /\ FencesNeverRegress /\ LeaseInv

LEMMA StoreInvInit == Init => StoreInv
<1> SUFFICES ASSUME Init PROVE StoreInv
  OBVIOUS
<1> USE DEF Init, NoLease, NoCredentials, NoCall
<1>1. TypeOK
  BY DEF TypeOK, Lease, Credentials, Call
<1>2. ExactlyOnce /\ FencesNeverRegress
  BY DEF ExactlyOnce, FencesNeverRegress
<1>3. LeaseInv
  BY DEF LeaseInv
<1> QED BY <1>1, <1>2, <1>3 DEF StoreInv

\* A step that leaves the log alone keeps its part of the invariant.
LEMMA LogUnchanged ==
    ASSUME StoreInv, UNCHANGED <<events, next>>
    PROVE  /\ events' \in Seq(Event) /\ next' \in Nat /\ ExactlyOnce' /\ FencesNeverRegress'
           /\ \A i \in DOMAIN events' : events'[i].fence <= fence
BY DEF StoreInv, TypeOK, ExactlyOnce, FencesNeverRegress, LeaseInv

\* The whole fenced-append step of a worker.
LEMMA FencedAppendStep ==
    ASSUME StoreInv, NEW w \in Workers, AppendFenced(w) \/ AppendFencedCommitted(w)
    PROVE  StoreInv'
<1>1. /\ TypeOK /\ ExactlyOnce /\ FencesNeverRegress /\ LeaseInv
      /\ Owns(w) /\ UNCHANGED <<lease, fence, tokens, checkpoints, held>>
      /\ call' = [call EXCEPT ![w] = NoCall]
      /\ call[w].op \in {"append", "committed"}
  BY DEF StoreInv, AppendFenced, AppendFencedCommitted
<1>2. lease # NoLease
  BY <1>1 DEF Owns, Unexpired, NoLease
<1>3. held[w].fence = fence
  BY <1>1, <1>2 DEF Owns, LeaseInv
<1>4. call[w].batch \in Batches
  BY <1>1 DEF TypeOK, Call, LeaseInv
<1>5. \A i \in DOMAIN events : events[i].fence <= fence
  BY <1>1 DEF LeaseInv
<1>6. /\ events' \in Seq(Event) /\ next' \in Nat /\ ExactlyOnce' /\ FencesNeverRegress'
      /\ \A i \in DOMAIN events' : events'[i].fence <= fence
  <2>1. CASE AppendFenced(w)
    <3>1. Store(call[w].batch, FALSE, held[w].fence) /\ call[w].op = "append"
      BY <2>1 DEF AppendFenced
    <3>2. \A i, j \in DOMAIN call[w].batch : call[w].batch[i] = call[w].batch[j] => i = j
      BY <3>1, <1>1 DEF LeaseInv
    <3> QED BY <3>1, <3>2, <1>1, <1>3, <1>4, <1>5, StoreKeepsLog
  <2>2. CASE AppendFencedCommitted(w)
    <3>1. Store(call[w].batch, TRUE, held[w].fence)
      BY <2>2 DEF AppendFencedCommitted
    <3> QED BY <3>1, <1>1, <1>3, <1>4, <1>5, StoreKeepsLog
  <2> QED BY <2>1, <2>2
<1>7. TypeOK'
  BY <1>1, <1>6 DEF TypeOK, NoCall, Call
<1>8. LeaseInv'
  BY <1>1, <1>6 DEF LeaseInv, NoCall, TypeOK
<1> QED BY <1>6, <1>7, <1>8 DEF StoreInv

LEMMA StoreInvNext == StoreInv /\ [Next]_vars => StoreInv'
<1> SUFFICES ASSUME StoreInv, [Next]_vars PROVE StoreInv'
  OBVIOUS
<1>0. TypeOK /\ ExactlyOnce /\ FencesNeverRegress /\ LeaseInv
  BY DEF StoreInv
<1>1. ASSUME NEW w \in Workers, ClaimLease(w) PROVE StoreInv'
  <2>1. /\ events' \in Seq(Event) /\ next' \in Nat /\ ExactlyOnce' /\ FencesNeverRegress'
        /\ \A i \in DOMAIN events' : events'[i].fence <= fence
    BY <1>1, LogUnchanged DEF ClaimLease
  <2>2. TypeOK'
    BY <1>0, <1>1, <2>1, FencedLogAssumption DEF ClaimLease, TypeOK, Lease, Credentials
  <2>3. LeaseInv'
    <3>1. /\ fence' = fence + 1 /\ tokens' = tokens + 1 /\ fence \in Nat /\ tokens \in Nat
          /\ lease' = [token |-> tokens + 1, fence |-> fence + 1, left |-> ClaimTTL]
          /\ held' = [held EXCEPT ![w] = [token |-> tokens + 1, fence |-> fence + 1]]
          /\ held \in [Workers -> Credentials] /\ UNCHANGED call /\ held[w] = NoCredentials
      BY <1>0, <1>1 DEF ClaimLease, TypeOK
    <3>2. /\ lease'.token <= tokens' /\ lease'.token = tokens' /\ lease'.fence = fence'
          /\ tokens' = fence'
      BY <3>1, <1>0 DEF LeaseInv
    <3>3. \A i \in DOMAIN events' : events'[i].fence <= fence'
      <4>1. \A i \in DOMAIN events' : events'[i] \in Event
        BY <2>1
      <4> QED BY <2>1, <3>1, <4>1 DEF Event
    <3>4. ASSUME NEW v \in Workers
          PROVE  /\ held'[v].token <= tokens'
                 /\ held'[v].token = held'[v].fence
                 /\ held'[v] = NoCredentials => call'[v] = NoCall
                 /\ held'[v] # NoCredentials => held'[v].token > 0
                 /\ call'[v].op \in {"append", "committed"} => call'[v].batch # <<>>
                 /\ call'[v].op = "append" =>
                      \A i, j \in DOMAIN call'[v].batch : call'[v].batch[i] = call'[v].batch[j] => i = j
      BY <3>1, <1>0 DEF LeaseInv, Credentials, NoCredentials
    <3>5. ASSUME NEW u \in Workers, NEW v \in Workers,
                 held'[u].token = held'[v].token, held'[u].token > 0
          PROVE  u = v
      BY <3>1, <3>5, <1>0 DEF LeaseInv, Credentials, NoCredentials
    <3> QED BY <3>2, <3>3, <3>4, <3>5 DEF LeaseInv
  <2> QED BY <2>1, <2>2, <2>3 DEF StoreInv
<1>2. ASSUME NEW w \in Workers, RenewLease(w) PROVE StoreInv'
  <2>1. /\ events' \in Seq(Event) /\ next' \in Nat /\ ExactlyOnce' /\ FencesNeverRegress'
    BY <1>2, LogUnchanged DEF RenewLease
  <2>2. TypeOK'
    BY <1>0, <1>2, FencedLogAssumption DEF RenewLease, TypeOK, Lease
  <2>3. LeaseInv'
    BY <1>0, <1>2 DEF RenewLease, Owns, Unexpired, LeaseInv, TypeOK, Lease, NoLease
  <2> QED BY <2>1, <2>2, <2>3 DEF StoreInv
<1>3. ASSUME NEW w \in Workers, ReleaseLease(w) PROVE StoreInv'
  <2>1. /\ events' \in Seq(Event) /\ next' \in Nat /\ ExactlyOnce' /\ FencesNeverRegress'
    BY <1>3, LogUnchanged DEF ReleaseLease
  <2>2. TypeOK'
    BY <1>0, <1>3 DEF ReleaseLease, TypeOK, Lease, NoLease, Credentials, NoCredentials
  <2>3. LeaseInv'
    BY <1>0, <1>3 DEF ReleaseLease, LeaseInv, TypeOK, Lease, NoLease, Credentials, NoCredentials
  <2> QED BY <2>1, <2>2, <2>3 DEF StoreInv
<1>4. ASSUME NEW w \in Workers, NEW form \in {"append", "committed", "checkpoint"},
             NEW batch \in Batches \cup {<<>>}, CheckFence(w, form, batch)
      PROVE  StoreInv'
  <2>1. /\ events' \in Seq(Event) /\ next' \in Nat /\ ExactlyOnce' /\ FencesNeverRegress'
    BY <1>4, LogUnchanged DEF CheckFence, storeVars
  <2>2. TypeOK'
    BY <1>0, <1>4 DEF CheckFence, storeVars, TypeOK, Call
  <2>3. LeaseInv'
    BY <1>0, <1>4 DEF CheckFence, storeVars, LeaseInv, TypeOK
  <2> QED BY <2>1, <2>2, <2>3 DEF StoreInv
<1>5. ASSUME NEW w \in Workers, AppendFenced(w) \/ AppendFencedCommitted(w) PROVE StoreInv'
  BY <1>5, FencedAppendStep
<1>6. ASSUME NEW w \in Workers, LoseLease(w) PROVE StoreInv'
  <2>1. /\ events' \in Seq(Event) /\ next' \in Nat /\ ExactlyOnce' /\ FencesNeverRegress'
    BY <1>6, LogUnchanged DEF LoseLease, storeVars
  <2>2. TypeOK'
    BY <1>0, <1>6 DEF LoseLease, storeVars, TypeOK, Call, NoCall
  <2>3. LeaseInv'
    BY <1>0, <1>6 DEF LoseLease, storeVars, LeaseInv, TypeOK, NoCall
  <2> QED BY <2>1, <2>2, <2>3 DEF StoreInv
<1>7. ASSUME NEW w \in Workers, SaveCompactionCheckpoint(w) PROVE StoreInv'
  <2>1. /\ events' \in Seq(Event) /\ next' \in Nat /\ ExactlyOnce' /\ FencesNeverRegress'
    BY <1>7, LogUnchanged DEF SaveCompactionCheckpoint
  <2>2. TypeOK'
    BY <1>0, <1>7 DEF SaveCompactionCheckpoint, TypeOK, Call, NoCall, Credentials
  <2>3. LeaseInv'
    BY <1>0, <1>7 DEF SaveCompactionCheckpoint, LeaseInv, TypeOK, NoCall
  <2> QED BY <2>1, <2>2, <2>3 DEF StoreInv
<1>8. ASSUME NEW w \in Workers, Crash(w) PROVE StoreInv'
  <2>1. /\ events' \in Seq(Event) /\ next' \in Nat /\ ExactlyOnce' /\ FencesNeverRegress'
    BY <1>8, LogUnchanged DEF Crash, storeVars
  <2>2. TypeOK'
    BY <1>0, <1>8 DEF Crash, storeVars, TypeOK, Call, NoCall, Credentials, NoCredentials
  <2>3. LeaseInv'
    BY <1>0, <1>8 DEF Crash, storeVars, LeaseInv, TypeOK, NoCall, Credentials, NoCredentials
  <2> QED BY <2>1, <2>2, <2>3 DEF StoreInv
<1>9. ASSUME NEW id \in EventIDs, AppendCommitted(id) PROVE StoreInv'
  <2>1. <<id>> \in Batches
    <3>1. <<id>> \in [1..1 -> EventIDs] /\ 1 \in 1..MaxBatch
      BY FencedLogAssumption
    <3> QED BY <3>1 DEF Batches
  <2>2. /\ events' \in Seq(Event) /\ next' \in Nat /\ ExactlyOnce' /\ FencesNeverRegress'
        /\ \A i \in DOMAIN events' : events'[i].fence <= fence
    BY <1>0, <1>9, <2>1, StoreKeepsLog DEF AppendCommitted, LeaseInv
  <2>3. TypeOK'
    BY <1>0, <1>9, <2>2 DEF AppendCommitted, TypeOK
  <2>4. LeaseInv'
    BY <1>0, <1>9, <2>2 DEF AppendCommitted, LeaseInv
  <2> QED BY <2>2, <2>3, <2>4 DEF StoreInv
<1>10. ASSUME Tick PROVE StoreInv'
  <2>1. /\ events' \in Seq(Event) /\ next' \in Nat /\ ExactlyOnce' /\ FencesNeverRegress'
    BY <1>10, LogUnchanged DEF Tick
  <2>2. TypeOK'
    <3>1. lease \in Lease /\ lease.left > 0 /\ lease' = [lease EXCEPT !.left = lease.left - 1]
      BY <1>0, <1>10 DEF Tick, Unexpired, TypeOK
    <3>2. lease.left - 1 \in Nat
      BY <3>1 DEF Lease
    <3>3. lease' \in Lease
      BY <3>1, <3>2 DEF Lease
    <3> QED BY <3>3, <1>0, <1>10 DEF Tick, TypeOK
  <2>3. LeaseInv'
    BY <1>0, <1>10 DEF Tick, Unexpired, LeaseInv, TypeOK, Lease, NoLease
  <2> QED BY <2>1, <2>2, <2>3 DEF StoreInv
<1>11. ASSUME UNCHANGED vars PROVE StoreInv'
  BY <1>0, <1>11 DEF vars, StoreInv, TypeOK, ExactlyOnce, FencesNeverRegress, LeaseInv
<1> QED
  BY <1>1, <1>2, <1>3, <1>4, <1>5, <1>6, <1>7, <1>8, <1>9, <1>10, <1>11 DEF Next

\* However many workers and retries, the log holds each ID once, without gaps,
\* with fences in order, and the lease bookkeeping stays consistent.
THEOREM StoreSafe == Spec => [](TypeOK /\ ExactlyOnce /\ FencesNeverRegress /\ LeaseInv)
<1>1. Spec => []StoreInv
  BY StoreInvInit, StoreInvNext, PTL DEF Spec
<1> QED BY <1>1, PTL DEF StoreInv

\* No two workers ever both pass the lease test of the store.
THEOREM OneWriter == Spec => []SingleWriter
<1>1. StoreInv => SingleWriter
  <2> SUFFICES ASSUME StoreInv, NEW v \in Workers, NEW w \in Workers,
                      held[v] # NoCredentials, Owns(v), Owns(w)
               PROVE  v = w
    BY DEF SingleWriter
  <2>1. held[v].token = held[w].token /\ held[v].token > 0
    BY DEF StoreInv, LeaseInv, Owns
  <2> QED BY <2>1 DEF StoreInv, LeaseInv
<1>2. Spec => []StoreInv
  BY StoreInvInit, StoreInvNext, PTL DEF Spec
<1> QED BY <1>1, <1>2, PTL

\* An append that may take place is a Write of the epoch log.
LEMMA StoreIsWrite ==
    ASSUME StoreInv, NEW batch \in Batches, NEW within \in BOOLEAN, NEW wf \in {0, fence},
           within \/ \A i, j \in DOMAIN batch : batch[i] = batch[j] => i = j,
           Store(batch, within, wf), UNCHANGED fence
    PROVE  Contract!Write
<1>1. wf \in Nat /\ next = Len(events) /\ TypeOK
  BY DEF StoreInv, TypeOK, ExactlyOnce
<1>2. PICK n \in 0..MaxBatch : \E ids \in [1..n -> EventIDs \ Stored] :
        /\ \A i, j \in 1..n : ids[i] = ids[j] => i = j
        /\ events' = events \o [i \in 1..n |-> [seq |-> next + i, id |-> ids[i], fence |-> wf]]
  <2>1. AppendsFresh(wf)
    BY <1>1, StoreAppends
  <2> QED BY <2>1 DEF AppendsFresh
<1>3. PICK ids \in [1..n -> EventIDs \ Stored] :
        /\ \A i, j \in 1..n : ids[i] = ids[j] => i = j
        /\ events' = events \o [i \in 1..n |-> [seq |-> next + i, id |-> ids[i], fence |-> wf]]
  BY <1>2
<1>4. ids \in Contract!FreshBatches
  BY <1>3 DEF Contract!FreshBatches, Stored
<1>5. DOMAIN ids = 1..n
  OBVIOUS
<1>6. events' = events \o [i \in DOMAIN ids |-> [seq |-> Len(events) + i, id |-> ids[i], fence |-> wf]]
  BY <1>1, <1>3, <1>5
<1> QED BY <1>3, <1>4, <1>5, <1>6 DEF Contract!Write

\* The store implements the epoch log: claims open epochs, appends are writes
\* of fresh events under epoch 0 or the newest one, and nothing else is visible.
THEOREM StoreImplementsEpochLog == Spec => ImplementsEpochLog
<1>1. Init => Contract!EpochInit
  BY DEF Init, Contract!EpochInit
<1>2. StoreInv /\ [Next]_vars => [Contract!EpochNext]_<<events, fence>>
  <2> SUFFICES ASSUME StoreInv, [Next]_vars, ~UNCHANGED <<events, fence>>
               PROVE  Contract!EpochNext
    OBVIOUS
  <2>1. ASSUME NEW w \in Workers, ClaimLease(w) PROVE Contract!EpochNext
    BY <2>1 DEF ClaimLease, Contract!EpochNext, Contract!NewEpoch
  <2>2. ASSUME NEW w \in Workers, AppendFenced(w) \/ AppendFencedCommitted(w)
        PROVE  Contract!EpochNext
    <3>1. /\ Owns(w) /\ UNCHANGED fence /\ call[w].op \in {"append", "committed"}
          /\ TypeOK /\ LeaseInv
      BY <2>2 DEF StoreInv, AppendFenced, AppendFencedCommitted
    <3>2. held[w].fence = fence
      BY <3>1 DEF Owns, Unexpired, NoLease, LeaseInv
    <3>3. call[w].batch \in Batches
      BY <3>1 DEF TypeOK, Call, LeaseInv
    <3>4. CASE AppendFenced(w)
      <4>1. Store(call[w].batch, FALSE, held[w].fence) /\ call[w].op = "append"
        BY <3>4 DEF AppendFenced
      <4>2. \A i, j \in DOMAIN call[w].batch : call[w].batch[i] = call[w].batch[j] => i = j
        BY <4>1, <3>1 DEF LeaseInv
      <4> QED BY <3>1, <3>2, <3>3, <4>1, <4>2, StoreIsWrite DEF Contract!EpochNext
    <3>5. CASE AppendFencedCommitted(w)
      <4>1. Store(call[w].batch, TRUE, held[w].fence)
        BY <3>5 DEF AppendFencedCommitted
      <4> QED BY <3>1, <3>2, <3>3, <4>1, StoreIsWrite DEF Contract!EpochNext
    <3> QED BY <2>2, <3>4, <3>5
  <2>3. ASSUME NEW id \in EventIDs, AppendCommitted(id) PROVE Contract!EpochNext
    <3>1. <<id>> \in [1..1 -> EventIDs] /\ 1 \in 1..MaxBatch
      BY FencedLogAssumption
    <3>2. <<id>> \in Batches
      BY <3>1 DEF Batches
    <3> QED BY <2>3, <3>2, StoreIsWrite DEF AppendCommitted, Contract!EpochNext
  <2>4. ASSUME NEW w \in Workers,
               \/ RenewLease(w) \/ ReleaseLease(w) \/ LoseLease(w)
               \/ SaveCompactionCheckpoint(w) \/ Crash(w)
        PROVE  FALSE
    BY <2>4 DEF RenewLease, ReleaseLease, LoseLease, SaveCompactionCheckpoint, Crash, storeVars
  <2>5. ASSUME NEW w \in Workers, NEW form, NEW batch, CheckFence(w, form, batch) PROVE FALSE
    BY <2>5 DEF CheckFence, storeVars
  <2>6. ~Tick /\ ~UNCHANGED vars
    BY DEF Tick, vars
  <2> QED BY <2>1, <2>2, <2>3, <2>4, <2>5, <2>6 DEF Next
<1>3. Spec => []StoreInv
  BY StoreInvInit, StoreInvNext, PTL DEF Spec
<1> QED
  BY <1>1, <1>2, <1>3, PTL DEF Spec, ImplementsEpochLog, Contract!EpochSpec, Contract!epochLogVars

-----------------------------------------------------------------------------
(* The file system. *)


\* The markers of a missing and of an unread file are no contents (fs.go tells
\* a missing file from an empty one by fs.ErrNotExist).
LEMMA MarkersApart ==
    /\ \A m \in Marks : m \notin Absent
    /\ Absent \notin SUBSET Marks
    /\ Unseen \notin Contents
  BY LocalFSAssumption DEF Marks, Authors, Absent, Unseen, Contents

\* A mutation that changes nothing of another one's view leaves its knowledge.
LEMMA KnowledgeKept ==
  ASSUME NEW b \in Agents, MutationKnows(b),
         pc'[b] = pc[b], op'[b] = op[b], staged'[b] = staged[b], count'[b] = count[b],
         pc[b] \in {"stage", "publish"} =>
            (hist'.raced = hist.raced /\ disk' = disk) \/ hist'.raced \/ op[b].kind = "create"
  PROVE  MutationKnows(b)'
  BY DEF MutationKnows, Active, Mark

\* An error return releases the lock and leaves the file as it is.
LEMMA FailStep ==
  ASSUME FSInv, NEW a \in Agents, pc[a] \in Locked, Fail(a)
  PROVE  FSInv'
  <1>1. FSTypeOK'
    BY LocalFSAssumption DEF FSInv, FSTypeOK, Fail, NoOp, Contents, Locked
  <1>2. NoLostUpdate'
    BY DEF FSInv, NoLostUpdate, Fail
  <1>3. ASSUME NEW b \in Agents PROVE MutationKnows(b)'
    <2>1. CASE b = a
      BY <2>1 DEF FSInv, FSTypeOK, Fail, MutationKnows, NoOp, Active, Mark, Locked
    <2>2. CASE b # a
      <3>1. pc'[b] = pc[b] /\ op'[b] = op[b] /\ staged'[b] = staged[b] /\ count'[b] = count[b]
        BY <2>2 DEF FSInv, FSTypeOK, Fail
      <3>2. MutationKnows(b) /\ hist' = hist /\ disk' = disk
        BY DEF FSInv, Fail
      <3> QED BY <3>1, <3>2, KnowledgeKept
    <2> QED BY <2>1, <2>2
  <1> QED BY <1>1, <1>2, <1>3 DEF FSInv

\* Only the holder of the lock is past the comparison.
LEMMA OthersWait ==
  ASSUME FSInv, NEW a \in Agents, pc[a] \in Locked, NEW b \in Agents, b # a
  PROVE  pc[b] \notin Locked
  BY DEF FSInv, FSTypeOK

\* A call starts: the version it expects is one of a file.
LEMMA MutateStep ==
  ASSUME FSInv, NEW a \in Agents, NEW kind \in Kinds, Mutate(a, kind)
  PROVE  FSInv'
  <1>1. FSTypeOK'
    BY LocalFSAssumption DEF FSInv, FSTypeOK, Mutate, Active, Authors, Locked, Kinds
  <1>2. NoLostUpdate'
    BY DEF FSInv, NoLostUpdate, Mutate
  <1>3. ASSUME NEW b \in Agents PROVE MutationKnows(b)'
    <2>1. CASE b = a
      <3>1. pc'[a] = "lock" /\ op'[a] = [kind |-> kind, expected |-> obs[a]]
        BY DEF FSInv, FSTypeOK, Mutate
      <3>2. kind \in {"replace", "edit", "delete"} => obs[a] \in SUBSET Marks
        BY DEF FSInv, FSTypeOK, Mutate, Contents
      <3> QED BY <2>1, <3>1, <3>2 DEF MutationKnows, Active, Kinds, Mark
    <2>2. CASE b # a
      <3>1. pc'[b] = pc[b] /\ op'[b] = op[b] /\ staged'[b] = staged[b] /\ count'[b] = count[b]
        BY <2>2, LocalFSAssumption DEF FSInv, FSTypeOK, Mutate, Authors
      <3>2. MutationKnows(b) /\ hist' = hist /\ disk' = disk
        BY DEF FSInv, Mutate
      <3> QED BY <3>1, <3>2, KnowledgeKept
    <2> QED BY <2>1, <2>2
  <1> QED BY <1>1, <1>2, <1>3 DEF FSInv

\* The steps of a mutation up to its publication leave the file alone and
\* build what will be published from what was compared.
LEMMA PrepareStep ==
  ASSUME FSInv, NEW a \in Agents, Lock(a) \/ Check(a) \/ ReadForEdit(a) \/ Stage(a)
  PROVE  FSInv'
  <1>1. CASE Fail(a) /\ pc[a] \in Locked
    BY <1>1, FailStep
  <1>2. CASE ~(Fail(a) /\ pc[a] \in Locked)
    <2>1. /\ disk' = disk /\ hist' = hist /\ count' = count /\ op' = op /\ obs' = obs
          /\ pc' = [pc EXCEPT ![a] = pc'[a]] /\ staged' = [staged EXCEPT ![a] = staged'[a]]
      BY <1>2 DEF FSInv, FSTypeOK, Lock, Check, ReadForEdit, Stage, Locked
    <2>2. MutationKnows(a)'
      <3>1. CASE Lock(a)
        BY <3>1, <2>1 DEF Lock, FSInv, FSTypeOK, MutationKnows, Active, Mark
      <3>2. CASE Check(a)
        BY <3>2, <2>1, <1>2, MarkersApart
        DEF Check, Acceptable, FSInv, FSTypeOK, MutationKnows, Active, Mark, Locked, Kinds, Exists
      <3>3. CASE ReadForEdit(a)
        BY <3>3, <2>1, <1>2 DEF ReadForEdit, FSInv, FSTypeOK, MutationKnows, Active, Mark, Locked
      <3>4. CASE Stage(a)
        BY <3>4, <2>1, <1>2 DEF Stage, FSInv, FSTypeOK, MutationKnows, Active, Mark, Locked, Kinds
      <3> QED BY <3>1, <3>2, <3>3, <3>4
    <2>3. Mark(a) \in Marks
      BY DEF FSInv, FSTypeOK, Mark, Marks, Authors
    <2>4. staged'[a] \in Contents
      <3>1. CASE Lock(a) \/ Check(a)
        BY <3>1, <1>2 DEF Lock, Check, FSInv, FSTypeOK, Locked
      <3>2. CASE ReadForEdit(a)
        BY <3>2, <1>2, <2>3 DEF ReadForEdit, FSInv, FSTypeOK, Locked, Contents, Exists
      <3>3. CASE Stage(a)
        BY <3>3, <1>2, <2>3 DEF Stage, FSInv, FSTypeOK, Locked, Contents, MutationKnows
      <3> QED BY <3>1, <3>2, <3>3
    <2>5. pc'[a] \in Locked /\ lock' = a
      BY <1>2 DEF FSInv, FSTypeOK, Lock, Check, ReadForEdit, Stage, Locked
    <2>6. \A b \in Agents : b # a => pc[b] \notin Locked
      BY LocalFSAssumption DEF FSInv, FSTypeOK, Lock, Check, ReadForEdit, Stage, Locked
    <2>7. FSTypeOK'
      BY <2>1, <2>4, <2>5, <2>6 DEF FSInv, FSTypeOK
    <2>8. NoLostUpdate'
      BY <2>1 DEF FSInv, NoLostUpdate
    <2>9. ASSUME NEW b \in Agents, b # a PROVE MutationKnows(b)'
      BY <2>1, <2>9, KnowledgeKept DEF FSInv, FSTypeOK
    <2> QED BY <2>2, <2>7, <2>8, <2>9 DEF FSInv
  <1> QED BY <1>1, <1>2

\* The file changes: to what was compared with the change added, or to nothing
\* of a version that is removed.
LEMMA PublishedStep ==
  ASSUME FSInv, NEW a \in Agents, pc[a] = "publish",
         op[a].kind = "create" => disk = Absent, Published(a)
  PROVE  FSInv'
  <1>1. Mark(a) \in Marks
    BY DEF FSInv, FSTypeOK, Mark, Marks, Authors
  <1>2. op[a].kind \in Kinds /\ MutationKnows(a) /\ pc[a] \in Locked
    BY DEF FSInv, MutationKnows, Active, Locked
  <1>3. FSTypeOK'
    <2>1. disk' \in Contents
      BY DEF Published, FSInv, FSTypeOK, Contents
    <2>2. hist' \in [written : SUBSET Marks, removed : SUBSET Marks, raced : BOOLEAN]
      BY <1>1, <1>2 DEF Published, FSInv, FSTypeOK, MutationKnows
    <2> QED BY <2>1, <2>2, <1>2 DEF Published, FSInv, FSTypeOK, Locked
  <1>4. NoLostUpdate'
    <2> SUFFICES ASSUME ~hist.raced PROVE hist'.written \subseteq (disk' \cup hist'.removed)
      BY DEF Published, NoLostUpdate, FSInv, FSTypeOK
    <2>1. hist.written \subseteq (disk \cup hist.removed) /\ hist.written \subseteq Marks
      BY DEF FSInv, NoLostUpdate, FSTypeOK
    <2>2. CASE op[a].kind = "delete"
      BY <2>1, <2>2, <1>2 DEF Published, MutationKnows, FSInv, FSTypeOK
    <2>3. CASE op[a].kind = "create"
      BY <2>1, <2>3, <1>2, MarkersApart DEF Published, MutationKnows, FSInv, FSTypeOK
    <2>4. CASE op[a].kind \in {"replace", "edit", "edit_any"}
      BY <2>1, <2>4, <1>2 DEF Published, MutationKnows, FSInv, FSTypeOK
    <2> QED BY <2>2, <2>3, <2>4, <1>2 DEF Kinds
  <1>5. ASSUME NEW b \in Agents PROVE MutationKnows(b)'
    <2>1. CASE b = a
      BY <2>1, <1>2 DEF Published, FSInv, FSTypeOK, MutationKnows, Active, Mark
    <2>2. CASE b # a
      <3>1. pc[b] \notin Locked
        BY <2>2, <1>2, OthersWait
      <3>2. pc'[b] = pc[b] /\ op'[b] = op[b] /\ staged'[b] = staged[b] /\ count'[b] = count[b]
        BY <2>2 DEF FSInv, FSTypeOK, Published
      <3> QED BY <3>1, <3>2, KnowledgeKept DEF FSInv, Locked
    <2> QED BY <2>1, <2>2
  <1> QED BY <1>3, <1>4, <1>5 DEF FSInv

\* Publication, its failures and the return.
LEMMA FinishStep ==
  ASSUME FSInv, NEW a \in Agents,
         Publish(a) \/ PublishFails(a) \/ Return(a) \/ SyncFails(a)
  PROVE  FSInv'
  <1>1. CASE Publish(a)
    <2>1. CASE Fail(a)
      BY <1>1, <2>1, FailStep DEF Publish, Locked
    <2>2. CASE Published(a) /\ ~(op[a].kind = "create" /\ Exists(disk))
      BY <1>1, <2>2, PublishedStep DEF Publish, Exists
    <2> QED BY <1>1, <2>1, <2>2 DEF Publish
  <1>2. CASE PublishFails(a)
    BY <1>2, FailStep DEF PublishFails, Locked
  <1>3. CASE SyncFails(a)
    BY <1>3, FailStep DEF SyncFails, Locked
  <1>4. CASE Return(a)
    <2>1. FSTypeOK'
      BY <1>4, LocalFSAssumption DEF FSInv, FSTypeOK, Return, NoOp, Contents, Locked
    <2>2. NoLostUpdate'
      BY <1>4 DEF FSInv, NoLostUpdate, Return
    <2>3. ASSUME NEW b \in Agents PROVE MutationKnows(b)'
      <3>1. CASE b = a
        BY <1>4, <3>1 DEF FSInv, FSTypeOK, Return, MutationKnows, NoOp, Active, Mark
      <3>2. CASE b # a
        <4>1. pc'[b] = pc[b] /\ op'[b] = op[b] /\ staged'[b] = staged[b] /\ count'[b] = count[b]
          BY <1>4, <3>2 DEF FSInv, FSTypeOK, Return
        <4>2. MutationKnows(b) /\ hist' = hist /\ disk' = disk
          BY <1>4 DEF FSInv, Return
        <4> QED BY <4>1, <4>2, KnowledgeKept
      <3> QED BY <3>1, <3>2
    <2> QED BY <2>1, <2>2, <2>3 DEF FSInv
  <1> QED BY <1>1, <1>2, <1>3, <1>4

\* A change from outside either comes before a comparison or is marked as a
\* race.
LEMMA OutsideStep ==
  ASSUME FSInv, Outside
  PROVE  FSInv'
  <1>1. Mark("outside") \in Marks
    BY DEF FSInv, FSTypeOK, Mark, Marks, Authors
  <1>2. count' \in [Authors -> 0..(MaxOps + MaxOutside)] /\ \A b \in Agents : count'[b] = count[b]
    BY LocalFSAssumption DEF FSInv, FSTypeOK, Outside, Authors
  <1>3. FSTypeOK' /\ NoLostUpdate'
    <2>1. CASE disk' = (disk \ Absent) \cup {Mark("outside")} /\
               hist' = [written |-> hist.written \cup {Mark("outside")}, removed |-> hist.removed,
                        raced |-> hist.raced \/ Racing # {}]
      <3>1. disk' \in SUBSET Marks
        BY <2>1, <1>1 DEF FSInv, FSTypeOK, Contents
      <3>2. hist' \in [written : SUBSET Marks, removed : SUBSET Marks, raced : BOOLEAN]
        BY <2>1, <1>1 DEF FSInv, FSTypeOK
      <3>3. hist.written \subseteq Marks
        BY DEF FSInv, FSTypeOK
      <3>4. hist'.raced \/ hist'.written \subseteq (disk' \cup hist'.removed)
        BY <2>1, <3>3, MarkersApart DEF FSInv, FSTypeOK, NoLostUpdate
      <3> QED BY <3>1, <3>2, <3>4, <1>2 DEF FSInv, FSTypeOK, Outside, NoLostUpdate, Contents
    <2>2. CASE Exists(disk) /\ disk' = Absent /\
               hist' = [written |-> hist.written, removed |-> hist.removed \cup disk,
                        raced |-> hist.raced \/ Racing # {}]
      <3>1. disk \in SUBSET Marks
        BY <2>2 DEF FSInv, FSTypeOK, Contents, Exists
      <3>2. hist' \in [written : SUBSET Marks, removed : SUBSET Marks, raced : BOOLEAN]
        BY <2>2, <3>1 DEF FSInv, FSTypeOK
      <3>3. hist'.raced \/ hist'.written \subseteq (disk' \cup hist'.removed)
        BY <2>2 DEF FSInv, FSTypeOK, NoLostUpdate
      <3> QED BY <2>2, <3>2, <3>3, <1>2 DEF FSInv, FSTypeOK, Outside, NoLostUpdate, Contents
    <2> QED BY <2>1, <2>2 DEF Outside
  <1>4. ASSUME NEW b \in Agents PROVE MutationKnows(b)'
    <2>1. pc[b] \in {"stage", "publish"} => hist'.raced \/ op[b].kind = "create"
      <3>1. hist'.raced = (hist.raced \/ Racing # {})
        BY DEF Outside
      <3>2. pc[b] \in {"stage", "publish"} /\ op[b].kind # "create" => b \in Racing
        BY DEF Racing
      <3> QED BY <3>1, <3>2
    <2>2. MutationKnows(b) /\ pc' = pc /\ op' = op /\ staged' = staged
      BY DEF FSInv, Outside
    <2> QED BY <2>1, <2>2, <1>2, KnowledgeKept
  <1> QED BY <1>3, <1>4 DEF FSInv

\* The file system of one instance always keeps FSInv: types, one mutation
\* under the lock, and no update lost outside the window of fs.go:270.
THEOREM FilesSafe == FSSpec => []FSInv
  <1>1. FSInit => FSInv
    <2> SUFFICES ASSUME FSInit PROVE FSInv
      OBVIOUS
    <2>1. FSTypeOK
      BY LocalFSAssumption DEF FSInit, FSTypeOK, NoOp, Contents, Locked, Authors
    <2>2. NoLostUpdate
      BY DEF FSInit, NoLostUpdate
    <2>3. \A a \in Agents : MutationKnows(a)
      BY DEF FSInit, MutationKnows, Active, NoOp
    <2> QED BY <2>1, <2>2, <2>3 DEF FSInv
  <1>2. FSInv /\ [FSNext]_fsVars => FSInv'
    <2> SUFFICES ASSUME FSInv, [FSNext]_fsVars PROVE FSInv'
      OBVIOUS
    <2>1. ASSUME NEW a \in Agents, ReadTextVersioned(a) PROVE FSInv'
      <3>1. FSTypeOK'
        BY <2>1 DEF ReadTextVersioned, FSInv, FSTypeOK
      <3>2. NoLostUpdate' /\ \A b \in Agents : MutationKnows(b)'
        BY <2>1 DEF ReadTextVersioned, FSInv, NoLostUpdate, MutationKnows, Active, Mark
      <3> QED BY <3>1, <3>2 DEF FSInv
    <2>2. ASSUME NEW a \in Agents, Lock(a) \/ Proceed(a) PROVE FSInv'
      BY <2>2, PrepareStep, FinishStep DEF Proceed
    <2>3. ASSUME NEW a \in Agents, NEW kind \in Kinds, Mutate(a, kind) PROVE FSInv'
      BY <2>3, MutateStep
    <2>4. CASE Outside
      BY <2>4, OutsideStep
    <2>5. CASE UNCHANGED fsVars
      BY <2>5 DEF fsVars, FSInv, FSTypeOK, NoLostUpdate, MutationKnows, Active, Mark
    <2> QED BY <2>1, <2>2, <2>3, <2>4, <2>5 DEF FSNext
  <1> QED BY <1>1, <1>2, PTL DEF FSSpec

\* No update of an agent or of somebody outside is lost, whatever the number of
\* agents and changes: the compare-and-swap of WriteText, EditText and Delete.
THEOREM UpdatesKept == FSSpec => []NoLostUpdate
  <1>1. FSInv => NoLostUpdate
    BY DEF FSInv
  <1> QED BY <1>1, FilesSafe, PTL
=============================================================================

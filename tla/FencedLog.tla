----------------------------- MODULE FencedLog -----------------------------
(***************************************************************************)
(* session.MemoryStore: the event log of one session and its single-writer *)
(* lease.  Workers (agent loops) claim the lease, renew it from a          *)
(* heartbeat goroutine and append under it; inboxes and approval brokers   *)
(* append without it.                                                      *)
(*                                                                         *)
(* Every exported method takes the store mutex, so each is one action,     *)
(* except the fenced writes: they run checkFence under a read lock, drop   *)
(* it, and take the write lock, so another worker can act in between.      *)
(* Time is the number of ticks the lease has left: the code only ever      *)
(* compares time.Now() with ExpiresAt.                                     *)
(***************************************************************************)
EXTENDS Integers, Sequences

CONSTANTS Workers,        \* agent loops, of any process
          EventIDs,       \* the IDs the callers give to their events
          ClaimTTL,       \* Config.LeaseTTL, in ticks
          RenewTTL,       \* the 30 seconds RenewLease grants, in ticks
          MaxBatch,       \* bound: events in one append
          MaxFence,       \* bound: leases granted in one behaviour
          MaxCheckpoints  \* bound: checkpoints saved in one behaviour

ASSUME FencedLogAssumption ==
    /\ ClaimTTL \in Nat \ {0}
    /\ RenewTTL \in Nat \ {0}
    /\ MaxBatch \in Nat \ {0}
    /\ MaxFence \in Nat
    /\ MaxCheckpoints \in Nat

VARIABLES events,       \* s.events[session]
          next,         \* s.next[session]: the last sequence assigned
          lease,        \* s.leases[session]; the zero Lease when there is none
          fence,        \* s.fences[session]
          tokens,       \* how many random tokens have been drawn
          checkpoints,  \* s.checkpoints[session]: the fence each was saved under
          held,         \* worker -> the credentials ClaimLease gave it
          call          \* worker -> the fenced write between its two critical sections

storeVars == <<events, next, lease, fence, tokens, checkpoints>>
vars == <<events, next, lease, fence, tokens, checkpoints, held, call>>

NoLease == [token |-> 0, fence |-> 0, left |-> 0]
NoCredentials == [token |-> 0, fence |-> 0]
NoCall == [op |-> "none", batch |-> <<>>]

Event == [seq : Nat, id : EventIDs, fence : Nat]
Lease == [token : Nat, fence : Nat, left : Nat]
Credentials == [token : Nat, fence : Nat]
Batches == UNION {[1..n -> EventIDs] : n \in 1..MaxBatch}
Call == [op : {"none", "append", "committed", "checkpoint"}, batch : Batches \cup {<<>>}]

Stored == {events[i].id : i \in DOMAIN events}

Init ==
    /\ events = <<>>
    /\ next = 0
    /\ lease = NoLease
    /\ fence = 0
    /\ tokens = 0
    /\ checkpoints = <<>>
    /\ held = [w \in Workers |-> NoCredentials]
    /\ call = [w \in Workers |-> NoCall]

-----------------------------------------------------------------------------
(* Leases. *)

\* time.Now().Before(ExpiresAt); the zero Lease has expired.
Unexpired == lease.left > 0

\* The token, fence and expiry tests every renewal and fenced write repeats.
Owns(w) ==
    /\ lease.token = held[w].token
    /\ lease.fence = held[w].fence
    /\ Unexpired

\* Mutant: an expired lease is handed to the next claimer as it is.
ClaimLease_ReusesExpired(w) ==
    /\ held[w] = NoCredentials
    /\ fence < MaxFence
    /\ ~Unexpired
    /\ IF lease = NoLease
         THEN /\ fence' = fence + 1 /\ tokens' = tokens + 1
              /\ lease' = [token |-> tokens + 1, fence |-> fence + 1, left |-> ClaimTTL]
         ELSE lease' = [lease EXCEPT !.left = ClaimTTL] /\ UNCHANGED <<fence, tokens>>
    /\ held' = [held EXCEPT ![w] = [token |-> lease'.token, fence |-> lease'.fence]]
    /\ UNCHANGED <<events, next, checkpoints, call>>

\* ErrLeaseHeld (no change) while another claim is unexpired.
ClaimLease(w) ==
    /\ held[w] = NoCredentials
    /\ fence < MaxFence
    /\ ~Unexpired
    /\ fence' = fence + 1
    /\ tokens' = tokens + 1
    /\ lease' = [token |-> tokens + 1, fence |-> fence + 1, left |-> ClaimTTL]
    /\ held' = [held EXCEPT ![w] = [token |-> tokens + 1, fence |-> fence + 1]]
    /\ UNCHANGED <<events, next, checkpoints, call>>

\* Mutant: any heartbeat renews whatever lease is stored.
RenewLease_AnyToken(w) ==
    /\ held[w] # NoCredentials
    /\ Unexpired
    /\ lease' = [lease EXCEPT !.left = RenewTTL]
    /\ UNCHANGED <<events, next, fence, tokens, checkpoints, held, call>>

\* Runs in the heartbeat goroutine, also while the worker is inside a call.
\* A failed renewal changes nothing in the store.
RenewLease(w) ==
    /\ held[w] # NoCredentials
    /\ Owns(w)
    /\ lease' = [lease EXCEPT !.left = RenewTTL]
    /\ UNCHANGED <<events, next, fence, tokens, checkpoints, held, call>>

\* The worker forgets its credentials; the store drops the lease only when
\* its token is still the caller's.
ReleaseLease(w) ==
    /\ held[w] # NoCredentials
    /\ call[w] = NoCall
    /\ lease' = IF lease.token = held[w].token THEN NoLease ELSE lease
    /\ held' = [held EXCEPT ![w] = NoCredentials]
    /\ UNCHANGED <<events, next, fence, tokens, checkpoints, call>>

-----------------------------------------------------------------------------
(* Fenced writes: check under the read lock, then check again and write.   *)

\* checkFence, the first critical section of all three fenced writes.  Only
\* Recover uses AppendFenced, and it builds batches of distinct IDs.
CheckFence(w, op, batch) ==
    /\ held[w] # NoCredentials
    /\ call[w] = NoCall
    /\ op = "append" => \A i, j \in DOMAIN batch : batch[i] = batch[j] => i = j
    /\ op = "checkpoint" <=> batch = <<>>
    /\ fence = held[w].fence
    /\ Owns(w)
    /\ call' = [call EXCEPT ![w] = [op |-> op, batch |-> batch]]
    /\ UNCHANGED <<storeVars, held>>

\* f enumerates, in batch order, the positions of the batch that are stored:
\* those whose ID is not in the log and, where the code remembers the IDs of
\* the batch itself (within), that no earlier position carries.
Selects(f, n, batch, within) ==
    LET kept == {i \in DOMAIN batch :
                    /\ batch[i] \notin Stored
                    /\ within => \A j \in 1..(i - 1) : batch[j] # batch[i]}
    IN  /\ f \in [1..n -> kept]
        /\ \A i, j \in 1..n : i < j => f[i] < f[j]
        /\ kept \subseteq {f[i] : i \in 1..n}

\* The new events, numbered on from s.next, reach the log in one step.
Store(batch, within, writerFence) ==
    \E n \in 0..Len(batch) : \E f \in [1..n -> DOMAIN batch] :
        /\ Selects(f, n, batch, within)
        /\ events' = events \o [i \in 1..n |->
                        [seq |-> next + i, id |-> batch[f[i]], fence |-> writerFence]]
        /\ next' = next + n

\* The second critical section of AppendFenced.
AppendFenced(w) ==
    /\ call[w].op = "append"
    /\ Owns(w)
    /\ Store(call[w].batch, FALSE, held[w].fence)
    /\ call' = [call EXCEPT ![w] = NoCall]
    /\ UNCHANGED <<lease, fence, tokens, checkpoints, held>>

\* Mutant: an ID repeated inside the batch is not recognised.
AppendFencedCommitted_NoBatchDedup(w) ==
    /\ call[w].op = "committed"
    /\ Owns(w)
    /\ Store(call[w].batch, FALSE, held[w].fence)
    /\ call' = [call EXCEPT ![w] = NoCall]
    /\ UNCHANGED <<lease, fence, tokens, checkpoints, held>>

\* Mutant: the first check is trusted.
AppendFencedCommitted_NoRecheck(w) ==
    /\ call[w].op = "committed"
    /\ Store(call[w].batch, TRUE, held[w].fence)
    /\ call' = [call EXCEPT ![w] = NoCall]
    /\ UNCHANGED <<lease, fence, tokens, checkpoints, held>>

\* The second critical section of AppendFencedCommitted.
AppendFencedCommitted(w) ==
    /\ call[w].op = "committed"
    /\ Owns(w)
    /\ Store(call[w].batch, TRUE, held[w].fence)
    /\ call' = [call EXCEPT ![w] = NoCall]
    /\ UNCHANGED <<lease, fence, tokens, checkpoints, held>>

\* ErrLeaseLost from the second check of either append.
LoseLease(w) ==
    /\ call[w].op \in {"append", "committed"}
    /\ ~Owns(w)
    /\ call' = [call EXCEPT ![w] = NoCall]
    /\ UNCHANGED <<storeVars, held>>

\* SaveCompactionCheckpoint does not look at the lease again.
SaveCompactionCheckpoint(w) ==
    /\ call[w].op = "checkpoint"
    /\ Len(checkpoints) < MaxCheckpoints
    /\ checkpoints' = Append(checkpoints, held[w].fence)
    /\ call' = [call EXCEPT ![w] = NoCall]
    /\ UNCHANGED <<events, next, lease, fence, tokens, held>>

-----------------------------------------------------------------------------
(* The other actors. *)

\* MemoryStore.AppendCommitted, through agent.appendDurable: one event, no lease.
AppendCommitted(id) ==
    /\ Store(<<id>>, TRUE, 0)
    /\ UNCHANGED <<lease, fence, tokens, checkpoints, held, call>>

\* A tick of the clock brings the lease closer to its expiry.
Tick ==
    /\ Unexpired
    /\ lease' = [lease EXCEPT !.left = @ - 1]
    /\ UNCHANGED <<events, next, fence, tokens, checkpoints, held, call>>

\* The worker dies without releasing; a call it had under way never returns.
Crash(w) ==
    /\ held[w] # NoCredentials
    /\ held' = [held EXCEPT ![w] = NoCredentials]
    /\ call' = [call EXCEPT ![w] = NoCall]
    /\ UNCHANGED storeVars

Next ==
    \/ \E w \in Workers :
        \/ ClaimLease(w)
        \/ RenewLease(w)
        \/ ReleaseLease(w)
        \/ \E batch \in Batches : \E op \in {"append", "committed"} : CheckFence(w, op, batch)
        \/ CheckFence(w, "checkpoint", <<>>)
        \/ AppendFenced(w)
        \/ AppendFencedCommitted(w)
        \/ LoseLease(w)
        \/ SaveCompactionCheckpoint(w)
        \/ Crash(w)
    \/ \E id \in EventIDs : AppendCommitted(id)
    \/ Tick

Spec == Init /\ [][Next]_vars

\* Real time passes whatever the workers do.
FairSpec == Spec /\ WF_vars(Tick)

-----------------------------------------------------------------------------
(* Properties. *)

TypeOK ==
    /\ events \in Seq(Event)
    /\ next \in Nat
    /\ lease \in Lease
    /\ fence \in Nat
    /\ tokens \in Nat
    /\ checkpoints \in Seq(Nat)
    /\ held \in [Workers -> Credentials]
    /\ call \in [Workers -> Call]

\* However often a batch is sent, by whichever worker, with or without the
\* lease, an event ID is stored once ("idempotent per event ID", fenced.go:70),
\* and the sequence numbers are the positions in the log (store.go:30).
ExactlyOnce ==
    /\ \A i, j \in DOMAIN events : events[i].id = events[j].id => i = j
    /\ next = Len(events)
    /\ \A i \in DOMAIN events : events[i].seq = i

\* In log order the fences of fenced events never go down: once a replacement
\* has written, nothing of the worker it replaced follows (fenced.go:31).
FencesNeverRegress ==
    \A i, j \in DOMAIN events :
        i < j /\ events[i].fence > 0 /\ events[j].fence > 0
            => events[i].fence <= events[j].fence

\* Two workers never both pass the store's lease test.
SingleWriter ==
    \A v, w \in Workers :
        held[v] # NoCredentials /\ held[w] # NoCredentials /\ Owns(v) /\ Owns(w) => v = w

\* The strengthening that makes the invariants above inductive: tokens are
\* fresh, so a worker's credentials name one claim, and the fence of a lease
\* that can still be used is the newest one; a write under way belongs to a
\* worker that holds credentials and carries a proper batch.
LeaseInv ==
    /\ lease.token <= tokens
    /\ lease # NoLease => lease.token = tokens /\ lease.fence = fence
    /\ tokens = fence
    /\ \A i \in DOMAIN events : events[i].fence <= fence
    /\ \A w \in Workers :
        /\ held[w].token <= tokens
        /\ held[w].token = held[w].fence
        /\ held[w] = NoCredentials => call[w] = NoCall
        /\ held[w] # NoCredentials => held[w].token > 0
        /\ call[w].op \in {"append", "committed"} => call[w].batch # <<>>
        /\ call[w].op = "append" =>
             \A i, j \in DOMAIN call[w].batch : call[w].batch[i] = call[w].batch[j] => i = j
    /\ \A v, w \in Workers : held[v].token = held[w].token /\ held[v].token > 0 => v = w

\* The store implements the epoch log.
Contract == INSTANCE EpochLog WITH epoch <- fence
ImplementsEpochLog == Contract!EpochSpec

\* A lease whose holder is gone runs out: no stale heartbeat keeps it alive, so
\* another worker can take the session over.
Orphaned == Unexpired /\ \A w \in Workers : held[w].token # lease.token
OrphanExpires == Orphaned ~> ~Unexpired

=============================================================================

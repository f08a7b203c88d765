------------------------------ MODULE EpochLog ------------------------------
(***************************************************************************)
(* What a fenced session store promises its callers: one append-only event *)
(* log per session in which                                                *)
(*   - sequence numbers are the positions, without gaps;                   *)
(*   - an event ID is stored at most once, however often it is sent;       *)
(*   - an event written under a lease carries the newest fence handed out, *)
(*     never the fence of a worker that has been replaced (fence 0 marks   *)
(*     the unfenced writes of inboxes and approvals).                      *)
(* FencedLog, the model of session/fenced.go, implements this module.      *)
(***************************************************************************)
EXTENDS Naturals, Sequences

CONSTANTS EventIDs,   \* the IDs callers give to their events
          MaxBatch    \* the longest batch one append carries

VARIABLES events,     \* the log: Seq([seq, id, fence])
          epoch       \* the newest fence handed out

epochLogVars == <<events, epoch>>

EpochInit == events = <<>> /\ epoch = 0

NewEpoch == epoch' = epoch + 1 /\ UNCHANGED events

\* The IDs of one append that are new to the log, in the order they were sent.
FreshBatches ==
    UNION {[1..n -> EventIDs \ {events[i].id : i \in DOMAIN events}] : n \in 0..MaxBatch}

Write ==
    \E ids \in FreshBatches, e \in {0, epoch} :
        /\ \A i, j \in DOMAIN ids : ids[i] = ids[j] => i = j
        /\ events' = events \o [i \in DOMAIN ids |->
                         [seq |-> Len(events) + i, id |-> ids[i], fence |-> e]]
        /\ UNCHANGED epoch

EpochNext == NewEpoch \/ Write

EpochSpec == EpochInit /\ [][EpochNext]_epochLogVars
=============================================================================

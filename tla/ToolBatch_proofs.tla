-------------------------- MODULE ToolBatch_proofs --------------------------
(***************************************************************************)
(* Proofs about ToolScope and ToolBatch, for any tools, masks, number of   *)
(* calls and limits: the masks are what the live handles say, an exclusive *)
(* call runs alone, a call that starts after the cancellation never runs   *)
(* and neither does a hidden tool.                                         *)
(***************************************************************************)
EXTENDS ToolBatch, TLAPS

Phases == {"unstarted", "launched", "via_local", "sem", "body", "nested", "nested_body", "done",
           "drained"}
Underway == {"launched", "via_local", "sem", "body", "nested", "nested_body", "done"}
InPipeline == {"sem", "body", "nested", "nested_body"}
Handles == [kind : {"local", "allow", "deny"}, names : SUBSET Names, previous : SUBSET Names,
            live : BOOLEAN]

ScopeTypeOK ==
    /\ root \in [Names -> Int] /\ local \in [Names -> Int]
    /\ allow \in SUBSET Names /\ deny \in SUBSET Names
    /\ handles \in Seq(Handles)
    /\ strays \in [names : SUBSET Names, order : BOOLEAN]

\* The names denied by the live handles before k.
DenyAt(mask, k) ==
    \A n \in Names : n \in mask <=> \E j \in LiveMasks("deny") : j < k /\ n \in handles[j].names
\* The names allowed by the last live handle before k.
AllowAt(mask, k) ==
    \A n \in Names : n \in mask <=>
        \E j \in LiveMasks("allow") :
            /\ j < k /\ n \in handles[j].names
            /\ \A i \in LiveMasks("allow") : i < k => i <= j

\* What a handle remembers is what its taking back has to restore.
MasksInv ==
    ~strays.order =>
        /\ DenyAt(deny, Len(handles) + 1) /\ AllowAt(allow, Len(handles) + 1)
        /\ \A k \in LiveMasks("deny") : DenyAt(handles[k].previous, k)
        /\ \A k \in LiveMasks("allow") : AllowAt(handles[k].previous, k)

ScopeInv == ScopeTypeOK /\ MasksInv

TypeOK ==
    /\ tool \in [Calls -> Callable]
    /\ pc \in {"top", "launch", "check", "drain_one", "barrier", "drain", "inline", "returned"}
    /\ next \in 1..(NumCalls + 1)
    /\ terminal \in BOOLEAN /\ cancelled \in BOOLEAN
    /\ phase \in [Calls -> Phases]
    /\ outcome \in [Calls -> {"none", "answered", "terminal", "aborted", "not_found"}]
    /\ foreign \in Nat
    /\ hist \in [ran : SUBSET Calls, late : SUBSET Calls, private : SUBSET Calls,
                 hidden : SUBSET Calls]

\* Calls start in order, and behind the barrier only the exclusive one is there.
BarrierInv ==
    /\ \A c \in Calls : c >= next => phase[c] = "unstarted" \/ (c = next /\ pc = "inline")
    /\ pc = "barrier" => next \in Calls
    /\ pc = "inline" => /\ next \in Calls /\ phase[next] \in Underway
                        /\ \A c \in Calls : c # next => phase[c] \notin Underway

\* A call that was unstarted at the cancellation never gets to the semaphore.
LateInv ==
    /\ hist.late # {} => cancelled
    /\ \A c \in hist.late : phase[c] \notin InPipeline /\ c \notin hist.ran
    /\ \A c \in hist.ran : phase[c] \in {"body", "nested", "nested_body", "done", "drained"}

\* A call that goes by a local definition has it, or it was withdrawn meanwhile.
HiddenInv ==
    /\ \A c \in Calls : phase[c] = "via_local" => Known(local, tool[c]) \/ tool[c] \in Withdrawn
    /\ \A c \in hist.hidden : /\ phase[c] \in InPipeline \cup {"done", "drained"}
                              /\ phase[c] \in InPipeline \/ c \in hist.ran => tool[c] \in Withdrawn

BatchInv == ScopeInv /\ TypeOK /\ BarrierInv /\ LateInv /\ HiddenInv

-----------------------------------------------------------------------------
(* The scope. *)

\* A handle is added at the end, live; the earlier ones stay as they are.
LEMMA GiveAppends ==
  ASSUME ScopeTypeOK, NEW kind \in {"local", "allow", "deny"}, NEW names \in SUBSET Names,
         NEW previous \in SUBSET Names, Give(kind, names, previous)
  PROVE  /\ handles' \in Seq(Handles)
         /\ Len(handles') = Len(handles) + 1
         /\ \A j \in DOMAIN handles : j \in DOMAIN handles' /\ handles'[j] = handles[j]
         /\ \A j \in DOMAIN handles' : j \in DOMAIN handles \/ j = Len(handles) + 1
         /\ Len(handles) + 1 \in DOMAIN handles'
         /\ handles'[Len(handles) + 1].kind = kind
         /\ handles'[Len(handles) + 1].names = names
         /\ handles'[Len(handles) + 1].previous = previous
         /\ handles'[Len(handles) + 1].live
  <1> DEFINE h == [kind |-> kind, names |-> names, previous |-> previous, live |-> TRUE]
  <1>1. h \in Handles
    BY DEF Handles
  <1>0. h.kind = kind /\ h.names = names /\ h.previous = previous /\ h.live
    OBVIOUS
  <1>2. handles \in Seq(Handles) /\ handles' = Append(handles, h)
    BY DEF ScopeTypeOK, Give
  <1> HIDE DEF h
  <1>3. /\ handles' \in Seq(Handles)
        /\ Len(handles') = Len(handles) + 1
        /\ \A j \in DOMAIN handles : j \in DOMAIN handles' /\ handles'[j] = handles[j]
        /\ \A j \in DOMAIN handles' : j \in DOMAIN handles \/ j = Len(handles) + 1
        /\ Len(handles) + 1 \in DOMAIN handles' /\ handles'[Len(handles) + 1] = h
    BY <1>1, <1>2
  <1> QED BY <1>0, <1>3

\* It remembers what it was given.
LEMMA GiveLast ==
  ASSUME ScopeTypeOK, NEW kind, NEW names, NEW previous, Give(kind, names, previous)
  PROVE  handles'[Len(handles) + 1].previous = previous
  <1> DEFINE h == [kind |-> kind, names |-> names, previous |-> previous, live |-> TRUE]
  <1>1. handles' = Append(handles, h) /\ handles \in Seq(Handles) /\ h.previous = previous
    BY DEF ScopeTypeOK, Give
  <1> HIDE DEF h
  <1> QED BY <1>1

\* Taking a handle back changes nothing of it but that it is live.
LEMMA UnregisterKeeps ==
  ASSUME ScopeTypeOK, NEW k \in DOMAIN handles, Unregister(k)
  PROVE  /\ handles' \in Seq(Handles) /\ DOMAIN handles' = DOMAIN handles
         /\ Len(handles') = Len(handles)
         /\ ~handles'[k].live
         /\ \A j \in DOMAIN handles :
              /\ handles'[j].kind = handles[j].kind
              /\ handles'[j].names = handles[j].names
              /\ handles'[j].previous = handles[j].previous
              /\ j # k => handles'[j] = handles[j]
  <1>1. handles \in Seq(Handles) /\ handles' = [handles EXCEPT ![k].live = FALSE]
    BY DEF ScopeTypeOK, Unregister
  <1>2. handles[k] \in Handles
    BY <1>1
  <1>3. [handles[k] EXCEPT !.live = FALSE] \in Handles
    BY <1>2 DEF Handles
  <1> QED BY <1>1, <1>2, <1>3, SMTT(30) DEF Handles

LEMMA ScopeTypeStep == ScopeTypeOK /\ ScopeNext => ScopeTypeOK'
  <1> SUFFICES ASSUME ScopeTypeOK, ScopeNext PROVE ScopeTypeOK'
    OBVIOUS
  <1>1. ASSUME NEW n \in Names, RegisterTool(n) PROVE ScopeTypeOK'
    <2> {n} \in SUBSET Names /\ {} \in SUBSET Names /\ Give("local", {n}, {})
      BY <1>1 DEF RegisterTool
    <2>1. handles' \in Seq(Handles)
      BY GiveAppends
    <2> QED BY <1>1, <2>1 DEF RegisterTool, ScopeTypeOK
  <1>2. ASSUME NEW n \in Names, UnregisterName(n) PROVE ScopeTypeOK'
    <2>1. strays' \in [names : SUBSET Names, order : BOOLEAN]
      BY <1>2 DEF UnregisterName, ScopeTypeOK
    <2>2. root' \in [Names -> Int] /\ local' \in [Names -> Int]
      BY <1>2 DEF UnregisterName, ScopeTypeOK
    <2> QED BY <1>2, <2>1, <2>2 DEF UnregisterName, ScopeTypeOK
  <1>3. ASSUME NEW names \in MaskSets, RestrictHandle(names) PROVE ScopeTypeOK'
    <2>1. names \in SUBSET Names
      BY ToolScopeAssumption
    <2>2. handles' \in Seq(Handles)
      BY <1>3, <2>1, GiveAppends DEF RestrictHandle, ScopeTypeOK
    <2> QED BY <1>3, <2>1, <2>2 DEF RestrictHandle, ScopeTypeOK
  <1>4. ASSUME NEW names \in MaskSets, DenyHandle(names) PROVE ScopeTypeOK'
    <2>1. names \in SUBSET Names
      BY ToolScopeAssumption
    <2>2. handles' \in Seq(Handles)
      BY <1>4, <2>1, GiveAppends DEF DenyHandle, ScopeTypeOK
    <2> QED BY <1>4, <2>1, <2>2 DEF DenyHandle, ScopeTypeOK
  <1>5. ASSUME NEW k \in DOMAIN handles, Unregister(k) PROVE ScopeTypeOK'
    <2>1. handles' \in Seq(Handles)
      BY <1>5, UnregisterKeeps
    <2>2. handles[k] \in Handles
      BY DEF ScopeTypeOK
    <2>3. strays' \in [names : SUBSET Names, order : BOOLEAN]
      BY <1>5 DEF Unregister, ScopeTypeOK, OutOfOrder
    <2>4. local' \in [Names -> Int] /\ root' \in [Names -> Int]
      BY <1>5 DEF Unregister, ScopeTypeOK
    <2>5. allow' \in SUBSET Names /\ deny' \in SUBSET Names
      BY <1>5, <2>2 DEF Unregister, ScopeTypeOK, Handles
    <2> QED BY <2>1, <2>3, <2>4, <2>5 DEF ScopeTypeOK
  <1> QED BY <1>1, <1>2, <1>3, <1>4, <1>5 DEF ScopeNext

\* What the model counts as withdrawn stays withdrawn, and a local definition
\* goes only by being withdrawn.
LEMMA WithdrawnGrows ==
  ASSUME ScopeTypeOK, ScopeNext
  PROVE  /\ \A n \in Withdrawn : n \in Withdrawn'
         /\ \A n \in Names : Known(local, n) => Known(local', n) \/ n \in Withdrawn'
  <1> DEFINE Dead(n) == \E k \in DOMAIN handles : ~handles[k].live /\ n \in handles[k].names
  <1> DEFINE Grew == /\ \A n : n \in strays.names \/ Dead(n) => n \in strays'.names \/ Dead(n)'
                     /\ \A n \in Names : Known(local, n) =>
                            Known(local', n) \/ n \in strays'.names \/ Dead(n)'
  <1>0. \A n : n \in Withdrawn <=> n \in strays.names \/ Dead(n)
    BY DEF Withdrawn
  <1>1. ASSUME NEW n \in Names, RegisterTool(n) PROVE Grew
    <2> {n} \in SUBSET Names /\ {} \in SUBSET Names /\ Give("local", {n}, {})
      BY <1>1 DEF RegisterTool
    <2>1. \A j \in DOMAIN handles : j \in DOMAIN handles' /\ handles'[j] = handles[j]
      BY GiveAppends
    <2>2. \A m \in Names : Known(local, m) => Known(local', m)
      BY <1>1 DEF RegisterTool, ScopeTypeOK, Known
    <2> QED BY <1>1, <2>1, <2>2 DEF RegisterTool
  <1>2. ASSUME NEW n \in Names, UnregisterName(n) PROVE Grew
    BY <1>2 DEF UnregisterName, ScopeTypeOK, Known
  <1>3. ASSUME NEW names \in MaskSets, RestrictHandle(names) PROVE Grew
    BY <1>3, GiveAppends, ToolScopeAssumption DEF RestrictHandle, ScopeTypeOK, Known
  <1>4. ASSUME NEW names \in MaskSets, DenyHandle(names) PROVE Grew
    BY <1>4, GiveAppends, ToolScopeAssumption DEF DenyHandle, ScopeTypeOK, Known
  <1>5. ASSUME NEW k \in DOMAIN handles, Unregister(k) PROVE Grew
    BY <1>5, UnregisterKeeps DEF Unregister, ScopeTypeOK, Known
  <1>6. Grew
    BY <1>1, <1>2, <1>3, <1>4, <1>5 DEF ScopeNext
  <1>7. \A n : n \in Withdrawn' <=> n \in strays'.names \/ Dead(n)'
    BY DEF Withdrawn
  <1> QED BY <1>0, <1>6, <1>7

\* A new handle is a live mask of its kind, behind all others.
LEMMA GiveMask ==
  ASSUME ScopeTypeOK, NEW kind \in {"local", "allow", "deny"}, NEW names \in SUBSET Names,
         NEW previous \in SUBSET Names, Give(kind, names, previous)
  PROVE  /\ LiveMasks("deny")' = LiveMasks("deny") \cup
                                 (IF kind = "deny" THEN {Len(handles) + 1} ELSE {})
         /\ LiveMasks("allow")' = LiveMasks("allow") \cup
                                  (IF kind = "allow" THEN {Len(handles) + 1} ELSE {})
         /\ \A j \in LiveMasks("deny") \cup LiveMasks("allow") :
               j \in DOMAIN handles /\ j \in 1..Len(handles) /\ handles'[j] = handles[j]
  <1>1. handles \in Seq(Handles) /\ DOMAIN handles = 1..Len(handles) /\ Len(handles) \in Nat
    BY DEF ScopeTypeOK
  <1>2. Len(handles) + 1 \notin DOMAIN handles
    BY <1>1
  <1>3. /\ \A j \in DOMAIN handles : j \in DOMAIN handles' /\ handles'[j] = handles[j]
        /\ \A j \in DOMAIN handles' : j \in DOMAIN handles \/ j = Len(handles) + 1
        /\ Len(handles) + 1 \in DOMAIN handles'
        /\ handles'[Len(handles) + 1].kind = kind /\ handles'[Len(handles) + 1].live
    BY GiveAppends
  <1> QED BY <1>1, <1>2, <1>3 DEF LiveMasks

\* Giving out a handle that is no deny mask leaves the deny masks as they are.
LEMMA DenyKept ==
  ASSUME ScopeTypeOK, MasksInv, ~strays.order, Len(handles') \in Nat, Len(handles') >= Len(handles),
         LiveMasks("deny")' = LiveMasks("deny"), UNCHANGED deny,
         \A j \in LiveMasks("deny") : j \in 1..Len(handles) /\ handles'[j] = handles[j]
  PROVE  /\ DenyAt(deny, Len(handles) + 1)'
         /\ \A k \in LiveMasks("deny")' : DenyAt(handles[k].previous, k)'
  <1>1. DenyAt(deny, Len(handles) + 1) /\ \A k \in LiveMasks("deny") : DenyAt(handles[k].previous, k)
    BY DEF MasksInv
  <1>2. Len(handles) \in Nat
    BY DEF ScopeTypeOK
  <1> QED BY <1>1, <1>2 DEF DenyAt

LEMMA AllowKept ==
  ASSUME ScopeTypeOK, MasksInv, ~strays.order, Len(handles') \in Nat, Len(handles') >= Len(handles),
         LiveMasks("allow")' = LiveMasks("allow"), UNCHANGED allow,
         \A j \in LiveMasks("allow") : j \in 1..Len(handles) /\ handles'[j] = handles[j]
  PROVE  /\ AllowAt(allow, Len(handles) + 1)'
         /\ \A k \in LiveMasks("allow")' : AllowAt(handles[k].previous, k)'
  <1>1. AllowAt(allow, Len(handles) + 1) /\ \A k \in LiveMasks("allow") : AllowAt(handles[k].previous, k)
    BY DEF MasksInv
  <1>2. Len(handles) \in Nat
    BY DEF ScopeTypeOK
  <1> QED BY <1>1, <1>2 DEF AllowAt

\* A new deny mask adds its names and remembers the rest.
LEMMA DenyHandleStep ==
  ASSUME ScopeInv, ~strays.order, NEW names \in MaskSets, DenyHandle(names)
  PROVE  MasksInv'
  <1> DEFINE N == Len(handles) + 1
  <1>0. ScopeTypeOK /\ names \in SUBSET Names /\ deny \in SUBSET Names
    BY ToolScopeAssumption DEF ScopeInv, ScopeTypeOK
  <1>1. Give("deny", names, deny) /\ deny' = deny \cup names /\ UNCHANGED <<allow, strays>>
    BY DEF DenyHandle
  <1>2. /\ LiveMasks("deny")' = LiveMasks("deny") \cup {N}
        /\ LiveMasks("allow")' = LiveMasks("allow")
        /\ \A j \in LiveMasks("deny") \cup LiveMasks("allow") :
               j \in 1..Len(handles) /\ handles'[j] = handles[j]
    BY <1>0, <1>1, GiveMask
  <1>3. handles'[N].names = names /\ handles'[N].previous = deny /\ Len(handles') = N /\ N \in Nat
    <2>1. Len(handles) \in Nat
      BY <1>0 DEF ScopeTypeOK
    <2>2. Len(handles') = N /\ handles'[N].names = names
      BY <1>0, <1>1, GiveAppends
    <2>3. handles'[N].previous = deny
      BY <1>0, <1>1, GiveLast
    <2> QED BY <2>1, <2>2, <2>3
  <1>4. /\ AllowAt(allow, Len(handles) + 1)'
        /\ \A k \in LiveMasks("allow")' : AllowAt(handles[k].previous, k)'
    BY <1>0, <1>1, <1>2, <1>3, AllowKept DEF ScopeInv
  <1>5. DenyAt(deny, N) /\ \A k \in LiveMasks("deny") : DenyAt(handles[k].previous, k)
    BY DEF ScopeInv, MasksInv
  <1> HIDE DEF N
  <1>6. DenyAt(deny, Len(handles) + 1)'
    BY <1>0, <1>1, <1>2, <1>3, <1>5 DEF DenyAt
  <1>7. ASSUME NEW k \in LiveMasks("deny")' PROVE DenyAt(handles[k].previous, k)'
    <2>1. CASE k = N
      BY <1>0, <1>2, <1>3, <1>5, <2>1 DEF DenyAt, N
    <2>2. CASE k \in LiveMasks("deny")
      BY <1>2, <1>3, <1>5, <2>2 DEF DenyAt, N
    <2> QED BY <1>2, <2>1, <2>2
  <1> QED BY <1>4, <1>6, <1>7 DEF MasksInv

\* A new allow mask replaces the last one and remembers it.
LEMMA RestrictHandleStep ==
  ASSUME ScopeInv, ~strays.order, NEW names \in MaskSets, RestrictHandle(names)
  PROVE  MasksInv'
  <1> DEFINE N == Len(handles) + 1
  <1>0. ScopeTypeOK /\ names \in SUBSET Names /\ allow \in SUBSET Names
    BY ToolScopeAssumption DEF ScopeInv, ScopeTypeOK
  <1>1. Give("allow", names, allow) /\ allow' = names /\ UNCHANGED <<deny, strays>>
    BY DEF RestrictHandle
  <1>2. /\ LiveMasks("allow")' = LiveMasks("allow") \cup {N}
        /\ LiveMasks("deny")' = LiveMasks("deny")
        /\ \A j \in LiveMasks("deny") \cup LiveMasks("allow") :
               j \in 1..Len(handles) /\ handles'[j] = handles[j]
    BY <1>0, <1>1, GiveMask
  <1>3. handles'[N].names = names /\ handles'[N].previous = allow /\ Len(handles') = N /\ N \in Nat
    <2>1. Len(handles) \in Nat
      BY <1>0 DEF ScopeTypeOK
    <2>2. Len(handles') = N /\ handles'[N].names = names
      BY <1>0, <1>1, GiveAppends
    <2>3. handles'[N].previous = allow
      BY <1>0, <1>1, GiveLast
    <2> QED BY <2>1, <2>2, <2>3
  <1>4. /\ DenyAt(deny, Len(handles) + 1)'
        /\ \A k \in LiveMasks("deny")' : DenyAt(handles[k].previous, k)'
    BY <1>0, <1>1, <1>2, <1>3, DenyKept DEF ScopeInv
  <1>5. AllowAt(allow, N) /\ \A k \in LiveMasks("allow") : AllowAt(handles[k].previous, k)
    BY DEF ScopeInv, MasksInv
  <1>6. AllowAt(allow, Len(handles) + 1)'
    BY <1>0, <1>1, <1>2, <1>3 DEF AllowAt
  <1>7. ASSUME NEW k \in LiveMasks("allow")' PROVE AllowAt(handles[k].previous, k)'
    <2>1. CASE k = N
      BY <1>0, <1>2, <1>3, <1>5, <2>1 DEF AllowAt
    <2>2. CASE k \in LiveMasks("allow")
      BY <1>2, <1>3, <1>5, <2>2 DEF AllowAt
    <2> QED BY <1>2, <2>1, <2>2
  <1> QED BY <1>4, <1>6, <1>7 DEF MasksInv

\* Taking back the last live mask of its kind restores what the earlier ones say.
LEMMA UnregisterStep ==
  ASSUME ScopeInv, ~strays.order, NEW k \in DOMAIN handles, Unregister(k), ~OutOfOrder(k)
  PROVE  MasksInv'
  <1>0. ScopeTypeOK /\ handles \in Seq(Handles) /\ handles[k] \in Handles
        /\ DOMAIN handles = 1..Len(handles) /\ Len(handles) \in Nat /\ handles[k].live
    BY DEF ScopeInv, ScopeTypeOK, Unregister
  <1>1. /\ DenyAt(deny, Len(handles) + 1) /\ AllowAt(allow, Len(handles) + 1)
        /\ \A j \in LiveMasks("deny") : DenyAt(handles[j].previous, j)
        /\ \A j \in LiveMasks("allow") : AllowAt(handles[j].previous, j)
    BY DEF ScopeInv, MasksInv
  <1>2. /\ Len(handles') = Len(handles)
        /\ LiveMasks("deny")' = LiveMasks("deny") \ {k}
        /\ LiveMasks("allow")' = LiveMasks("allow") \ {k}
        /\ \A j \in LiveMasks("deny") \cup LiveMasks("allow") :
              j \in DOMAIN handles /\ (j # k => handles'[j] = handles[j])
    BY <1>0, UnregisterKeeps DEF LiveMasks
  <1>3. CASE handles[k].kind = "deny"
    <2>1. deny' = handles[k].previous /\ UNCHANGED allow
      BY <1>3 DEF Unregister
    <2>2. k \in LiveMasks("deny") /\ k \notin LiveMasks("allow")
          /\ \A j \in LiveMasks("deny") : j <= k
      BY <1>0, <1>3 DEF LiveMasks, OutOfOrder
    <2>3. /\ AllowAt(allow, Len(handles) + 1)'
          /\ \A j \in LiveMasks("allow")' : AllowAt(handles[j].previous, j)'
      BY <1>0, <1>1, <1>2, <2>1, <2>2 DEF AllowAt
    <2>4. DenyAt(deny, Len(handles) + 1)'
      BY <1>0, <1>1, <1>2, <2>1, <2>2 DEF DenyAt
    <2>5. \A j \in LiveMasks("deny")' : DenyAt(handles[j].previous, j)'
      BY <1>0, <1>1, <1>2, <2>1, <2>2 DEF DenyAt
    <2> QED BY <2>3, <2>4, <2>5 DEF MasksInv
  <1>4. CASE handles[k].kind = "allow"
    <2>1. allow' = handles[k].previous /\ UNCHANGED deny
      BY <1>4 DEF Unregister
    <2>2. k \in LiveMasks("allow") /\ k \notin LiveMasks("deny")
          /\ \A j \in LiveMasks("allow") : j <= k
      BY <1>0, <1>4 DEF LiveMasks, OutOfOrder
    <2>3. /\ DenyAt(deny, Len(handles) + 1)'
          /\ \A j \in LiveMasks("deny")' : DenyAt(handles[j].previous, j)'
      BY <1>0, <1>1, <1>2, <2>1, <2>2 DEF DenyAt
    <2>4. AllowAt(allow, Len(handles) + 1)'
      BY <1>0, <1>1, <1>2, <2>1, <2>2 DEF AllowAt
    <2>5. \A j \in LiveMasks("allow")' : AllowAt(handles[j].previous, j)'
      BY <1>0, <1>1, <1>2, <2>1, <2>2 DEF AllowAt
    <2> QED BY <2>3, <2>4, <2>5 DEF MasksInv
  <1>5. CASE handles[k].kind = "local"
    <2>1. UNCHANGED <<allow, deny>>
      BY <1>5 DEF Unregister
    <2>2. k \notin LiveMasks("allow") /\ k \notin LiveMasks("deny")
      BY <1>5 DEF LiveMasks
    <2>3. /\ DenyAt(deny, Len(handles) + 1)'
          /\ \A j \in LiveMasks("deny")' : DenyAt(handles[j].previous, j)'
      BY <1>0, <1>1, <1>2, <2>1, <2>2 DEF DenyAt
    <2>4. /\ AllowAt(allow, Len(handles) + 1)'
          /\ \A j \in LiveMasks("allow")' : AllowAt(handles[j].previous, j)'
      BY <1>0, <1>1, <1>2, <2>1, <2>2 DEF AllowAt
    <2> QED BY <2>3, <2>4 DEF MasksInv
  <1> QED BY <1>0, <1>3, <1>4, <1>5 DEF Handles

\* Every change of the scope keeps its invariant.
LEMMA ScopeStep == ScopeInv /\ ScopeNext => ScopeInv'
  <1> SUFFICES ASSUME ScopeInv, ScopeNext PROVE ScopeInv'
    OBVIOUS
  <1>0. ScopeTypeOK'
    BY ScopeTypeStep DEF ScopeInv
  <1>1. ASSUME NEW n \in Names, RegisterTool(n) PROVE MasksInv'
    <2> {n} \in SUBSET Names /\ {} \in SUBSET Names /\ Give("local", {n}, {})
      BY <1>1 DEF RegisterTool
    <2>1. /\ LiveMasks("deny")' = LiveMasks("deny") /\ LiveMasks("allow")' = LiveMasks("allow")
          /\ \A j \in LiveMasks("deny") \cup LiveMasks("allow") :
                j \in 1..Len(handles) /\ handles'[j] = handles[j]
      BY GiveMask DEF ScopeInv
    <2>2. Len(handles) \in Nat /\ Len(handles') = Len(handles) + 1
      <3>1. Len(handles) \in Nat
        BY DEF ScopeInv, ScopeTypeOK
      <3>2. Len(handles') = Len(handles) + 1
        BY GiveAppends DEF ScopeInv
      <3> QED BY <3>1, <3>2
    <2>3. CASE ~strays.order
      BY <1>1, <2>1, <2>2, <2>3, DenyKept, AllowKept DEF RegisterTool, MasksInv, ScopeInv
    <2> QED BY <1>1, <2>3 DEF RegisterTool, MasksInv
  <1>2. ASSUME NEW n \in Names, UnregisterName(n) PROVE MasksInv'
    BY <1>2 DEF UnregisterName, ScopeInv, ScopeTypeOK, MasksInv, DenyAt, AllowAt, LiveMasks
  <1>3. ASSUME NEW names \in MaskSets, RestrictHandle(names) PROVE MasksInv'
    BY <1>3, RestrictHandleStep DEF RestrictHandle, MasksInv
  <1>4. ASSUME NEW names \in MaskSets, DenyHandle(names) PROVE MasksInv'
    BY <1>4, DenyHandleStep DEF DenyHandle, MasksInv
  <1>5. ASSUME NEW k \in DOMAIN handles, Unregister(k) PROVE MasksInv'
    <2>1. strays'.order <=> strays.order \/ OutOfOrder(k)
      <3>1. strays' = [strays EXCEPT !.order = strays.order \/ OutOfOrder(k)]
        BY <1>5 DEF Unregister
      <3>2. strays \in [names : SUBSET Names, order : BOOLEAN]
        BY DEF ScopeInv, ScopeTypeOK
      <3>3. OutOfOrder(k) \in BOOLEAN
        BY DEF OutOfOrder
      <3>4. CASE OutOfOrder(k) \/ strays.order
        <4>1. strays' = [strays EXCEPT !.order = TRUE]
          BY <3>1, <3>2, <3>3, <3>4
        <4> QED BY <3>2, <3>4, <4>1
      <3>5. CASE ~OutOfOrder(k) /\ ~strays.order
        <4>1. strays' = [strays EXCEPT !.order = FALSE]
          BY <3>1, <3>2, <3>3, <3>5
        <4> QED BY <3>2, <3>5, <4>1
      <3> QED BY <3>4, <3>5
    <2> QED BY <1>5, <2>1, UnregisterStep DEF MasksInv
  <1> QED BY <1>0, <1>1, <1>2, <1>3, <1>4, <1>5 DEF ScopeNext, ScopeInv
-----------------------------------------------------------------------------
(* The batch. *)

\* Every step keeps the types.
LEMMA TypeStep == BatchInv /\ [Next]_vars => TypeOK'
  <1> SUFFICES ASSUME BatchInv, [Next]_vars PROVE TypeOK'
    OBVIOUS
  <1> USE ToolBatchAssumption DEF BatchInv, Calls, Phases, TypeOK
  <1>1. CASE Top
    BY <1>1 DEF Top, MarkRest
  <1>2. CASE Launch
    BY <1>2 DEF Launch
  <1>3. CASE Check
    BY <1>3 DEF Check
  <1>4. CASE DrainOne
    BY <1>4 DEF DrainOne, Drain
  <1>5. CASE DrainBarrier
    BY <1>5 DEF DrainBarrier, Drain
  <1>6. CASE DrainRest
    BY <1>6 DEF DrainRest, Drain
  <1>7. CASE Drained
    BY <1>7 DEF Drained
  <1>8. CASE Exclusive
    BY <1>8 DEF Exclusive, MarkRest, Active, Underway
  <1>9. CASE Inline
    <2>1. terminal' \in BOOLEAN
      BY <1>9 DEF Inline
    <2>2. next' \in 1..(NumCalls + 1)
      BY <1>9 DEF Inline, BarrierInv
    <2> QED BY <1>9, <2>1, <2>2 DEF Inline
  <1>10. ASSUME NEW c \in Calls, Resolve(c) PROVE TypeOK'
    BY <1>10 DEF Resolve, Go, Reached
  <1>11. ASSUME NEW c \in Calls, ResolveLocal(c) PROVE TypeOK'
    BY <1>11 DEF ResolveLocal, Go, Reached
  <1>12. ASSUME NEW c \in Calls, Dispatch(c) PROVE TypeOK'
    BY <1>12 DEF Dispatch, CanAcquire
  <1>13. ASSUME NEW c \in Calls, Refused(c) PROVE TypeOK'
    BY <1>13 DEF Refused, CanAcquire, Finish
  <1>14. ASSUME NEW c \in Calls, WaitAborted(c) PROVE TypeOK'
    BY <1>14 DEF WaitAborted, Finish
  <1>15. ASSUME NEW c \in Calls, NestedCall(c) PROVE TypeOK'
    BY <1>15 DEF NestedCall
  <1>16. ASSUME NEW c \in Calls, NestedAcquire(c) PROVE TypeOK'
    BY <1>16 DEF NestedAcquire
  <1>17. ASSUME NEW c \in Calls, NestedReturns(c) PROVE TypeOK'
    BY <1>17 DEF NestedReturns
  <1>18. ASSUME NEW c \in Calls, BodyReturns(c) PROVE TypeOK'
    BY <1>18 DEF BodyReturns, Finish
  <1>19. CASE Cancel
    BY <1>19 DEF Cancel
  <1>20. CASE ForeignAcquire
    BY <1>20 DEF ForeignAcquire
  <1>21. CASE ForeignRelease
    BY <1>21 DEF ForeignRelease
  <1>22. CASE ChangeScope
    BY <1>22 DEF ChangeScope, batchVars
  <1>23. CASE UNCHANGED vars
    BY <1>23 DEF vars, batchVars
  <1> QED BY <1>1, <1>2, <1>3, <1>4, <1>5, <1>6, <1>7, <1>8, <1>9, <1>10, <1>11, <1>12,
         <1>13, <1>14, <1>15, <1>16, <1>17, <1>18, <1>19, <1>20, <1>21, <1>22, <1>23
         DEF Next, Scheduler, CallStep

\* Calls start in order; only the exclusive call starts behind the barrier.
LEMMA BarrierStep == BatchInv /\ [Next]_vars => BarrierInv'
  <1> SUFFICES ASSUME BatchInv, [Next]_vars PROVE BarrierInv'
    OBVIOUS
  <1> USE ToolBatchAssumption DEF BatchInv, Calls, Phases, TypeOK, BarrierInv, Underway
  <1>1. CASE Top
    BY <1>1 DEF Top, MarkRest
  <1>2. CASE Launch
    BY <1>2 DEF Launch
  <1>3. CASE Check
    BY <1>3 DEF Check
  <1>4. CASE DrainOne
    BY <1>4 DEF DrainOne, Drain
  <1>5. CASE DrainBarrier
    BY <1>5 DEF DrainBarrier, Drain
  <1>6. CASE DrainRest
    BY <1>6 DEF DrainRest, Drain
  <1>7. CASE Drained
    BY <1>7 DEF Drained
  <1>8. CASE Exclusive
    BY <1>8, SMTT(30) DEF Exclusive, MarkRest, Active, Underway
  <1>9. CASE Inline
    BY <1>9 DEF Inline
  <1>10. ASSUME NEW c \in Calls, Resolve(c) PROVE BarrierInv'
    BY <1>10 DEF Resolve, Go, Reached
  <1>11. ASSUME NEW c \in Calls, ResolveLocal(c) PROVE BarrierInv'
    BY <1>11 DEF ResolveLocal, Go, Reached
  <1>12. ASSUME NEW c \in Calls, Dispatch(c) PROVE BarrierInv'
    BY <1>12 DEF Dispatch, CanAcquire
  <1>13. ASSUME NEW c \in Calls, Refused(c) PROVE BarrierInv'
    BY <1>13 DEF Refused, CanAcquire, Finish
  <1>14. ASSUME NEW c \in Calls, WaitAborted(c) PROVE BarrierInv'
    BY <1>14 DEF WaitAborted, Finish
  <1>15. ASSUME NEW c \in Calls, NestedCall(c) PROVE BarrierInv'
    BY <1>15 DEF NestedCall
  <1>16. ASSUME NEW c \in Calls, NestedAcquire(c) PROVE BarrierInv'
    BY <1>16 DEF NestedAcquire
  <1>17. ASSUME NEW c \in Calls, NestedReturns(c) PROVE BarrierInv'
    BY <1>17 DEF NestedReturns
  <1>18. ASSUME NEW c \in Calls, BodyReturns(c) PROVE BarrierInv'
    BY <1>18 DEF BodyReturns, Finish
  <1>19. CASE Cancel
    BY <1>19 DEF Cancel
  <1>20. CASE ForeignAcquire
    BY <1>20 DEF ForeignAcquire
  <1>21. CASE ForeignRelease
    BY <1>21 DEF ForeignRelease
  <1>22. CASE ChangeScope
    BY <1>22 DEF ChangeScope, batchVars
  <1>23. CASE UNCHANGED vars
    BY <1>23 DEF vars, batchVars
  <1> QED BY <1>1, <1>2, <1>3, <1>4, <1>5, <1>6, <1>7, <1>8, <1>9, <1>10, <1>11, <1>12,
         <1>13, <1>14, <1>15, <1>16, <1>17, <1>18, <1>19, <1>20, <1>21, <1>22, <1>23
         DEF Next, Scheduler, CallStep

\* Registry.run looks at the context before the semaphore.
LEMMA LateStep == BatchInv /\ [Next]_vars => LateInv'
  <1> SUFFICES ASSUME BatchInv, [Next]_vars PROVE LateInv'
    OBVIOUS
  <1> USE ToolBatchAssumption DEF BatchInv, Calls, Phases, TypeOK, BarrierInv, LateInv, InPipeline
  <1>1. CASE Top
    BY <1>1 DEF Top, MarkRest
  <1>2. CASE Launch
    BY <1>2 DEF Launch
  <1>3. CASE Check
    BY <1>3 DEF Check
  <1>4. CASE DrainOne
    BY <1>4 DEF DrainOne, Drain
  <1>5. CASE DrainBarrier
    BY <1>5 DEF DrainBarrier, Drain
  <1>6. CASE DrainRest
    BY <1>6 DEF DrainRest, Drain
  <1>7. CASE Drained
    BY <1>7 DEF Drained
  <1>8. CASE Exclusive
    BY <1>8 DEF Exclusive, MarkRest, Active, Underway
  <1>9. CASE Inline
    BY <1>9 DEF Inline
  <1>10. ASSUME NEW c \in Calls, Resolve(c) PROVE LateInv'
    BY <1>10, SMTT(30) DEF Resolve, Go, Reached
  <1>11. ASSUME NEW c \in Calls, ResolveLocal(c) PROVE LateInv'
    BY <1>11 DEF ResolveLocal, Go, Reached
  <1>12. ASSUME NEW c \in Calls, Dispatch(c) PROVE LateInv'
    BY <1>12 DEF Dispatch, CanAcquire
  <1>13. ASSUME NEW c \in Calls, Refused(c) PROVE LateInv'
    BY <1>13 DEF Refused, CanAcquire, Finish
  <1>14. ASSUME NEW c \in Calls, WaitAborted(c) PROVE LateInv'
    BY <1>14 DEF WaitAborted, Finish
  <1>15. ASSUME NEW c \in Calls, NestedCall(c) PROVE LateInv'
    BY <1>15 DEF NestedCall
  <1>16. ASSUME NEW c \in Calls, NestedAcquire(c) PROVE LateInv'
    BY <1>16 DEF NestedAcquire
  <1>17. ASSUME NEW c \in Calls, NestedReturns(c) PROVE LateInv'
    BY <1>17 DEF NestedReturns
  <1>18. ASSUME NEW c \in Calls, BodyReturns(c) PROVE LateInv'
    BY <1>18 DEF BodyReturns, Finish
  <1>19. CASE Cancel
    BY <1>19 DEF Cancel
  <1>20. CASE ForeignAcquire
    BY <1>20 DEF ForeignAcquire
  <1>21. CASE ForeignRelease
    BY <1>21 DEF ForeignRelease
  <1>22. CASE ChangeScope
    BY <1>22 DEF ChangeScope, batchVars
  <1>23. CASE UNCHANGED vars
    BY <1>23 DEF vars, batchVars
  <1> QED BY <1>1, <1>2, <1>3, <1>4, <1>5, <1>6, <1>7, <1>8, <1>9, <1>10, <1>11, <1>12,
         <1>13, <1>14, <1>15, <1>16, <1>17, <1>18, <1>19, <1>20, <1>21, <1>22, <1>23
         DEF Next, Scheduler, CallStep

\* What was withdrawn does not change while the scope does not.
LEMMA SameScope ==
  ASSUME UNCHANGED scopeVars
  PROVE  Withdrawn' = Withdrawn /\ local' = local
  BY DEF scopeVars, Withdrawn

\* A hidden name is answered with not found, or its shadow was withdrawn.
LEMMA HiddenStep == BatchInv /\ [Next]_vars => HiddenInv'
  <1> SUFFICES ASSUME BatchInv, [Next]_vars PROVE HiddenInv'
    OBVIOUS
  <1> USE ToolBatchAssumption DEF BatchInv, Calls, Phases, TypeOK, LateInv, HiddenInv, InPipeline
  <1>1. CASE Top
    BY <1>1, SameScope DEF Top, MarkRest
  <1>2. CASE Launch
    <2>1. next <= NumCalls => next \in Calls /\ phase[next] = "unstarted"
      BY <1>2 DEF Launch, BarrierInv
    <2> QED BY <1>2, <2>1, SameScope DEF Launch
  <1>3. CASE Check
    BY <1>3, SameScope DEF Check
  <1>4. CASE DrainOne
    BY <1>4, SameScope DEF DrainOne, Drain
  <1>5. CASE DrainBarrier
    BY <1>5, SameScope DEF DrainBarrier, Drain
  <1>6. CASE DrainRest
    BY <1>6, SameScope DEF DrainRest, Drain
  <1>7. CASE Drained
    BY <1>7, SameScope DEF Drained
  <1>8. CASE Exclusive
    <2>1. next \in Calls /\ phase[next] = "unstarted"
      BY <1>8 DEF Exclusive, BarrierInv
    <2> QED BY <1>8, <2>1, SameScope DEF Exclusive, MarkRest
  <1>9. CASE Inline
    BY <1>9, SameScope DEF Inline
  <1>10. ASSUME NEW c \in Calls, Resolve(c) PROVE HiddenInv'
    BY <1>10, SameScope, SMTT(30) DEF Resolve, Go, Reached
  <1>11. ASSUME NEW c \in Calls, ResolveLocal(c) PROVE HiddenInv'
    BY <1>11, SameScope DEF ResolveLocal, Go, Reached
  <1>12. ASSUME NEW c \in Calls, Dispatch(c) PROVE HiddenInv'
    BY <1>12, SameScope DEF Dispatch, CanAcquire
  <1>13. ASSUME NEW c \in Calls, Refused(c) PROVE HiddenInv'
    BY <1>13, SameScope DEF Refused, CanAcquire, Finish
  <1>14. ASSUME NEW c \in Calls, WaitAborted(c) PROVE HiddenInv'
    BY <1>14, SameScope DEF WaitAborted, Finish
  <1>15. ASSUME NEW c \in Calls, NestedCall(c) PROVE HiddenInv'
    BY <1>15, SameScope DEF NestedCall
  <1>16. ASSUME NEW c \in Calls, NestedAcquire(c) PROVE HiddenInv'
    BY <1>16, SameScope DEF NestedAcquire
  <1>17. ASSUME NEW c \in Calls, NestedReturns(c) PROVE HiddenInv'
    BY <1>17, SameScope DEF NestedReturns
  <1>18. ASSUME NEW c \in Calls, BodyReturns(c) PROVE HiddenInv'
    BY <1>18, SameScope DEF BodyReturns, Finish
  <1>19. CASE Cancel
    BY <1>19, SameScope DEF Cancel
  <1>20. CASE ForeignAcquire
    BY <1>20, SameScope DEF ForeignAcquire
  <1>21. CASE ForeignRelease
    BY <1>21, SameScope DEF ForeignRelease
  <1>22. CASE ChangeScope
    <2>1. ScopeNext /\ UNCHANGED <<tool, phase, hist>>
      BY <1>22 DEF ChangeScope, batchVars
    <2>2. ScopeTypeOK
      BY DEF ScopeInv
    <2>3. /\ \A n \in Withdrawn : n \in Withdrawn'
          /\ \A n \in Names : Known(local, n) => Known(local', n) \/ n \in Withdrawn'
      BY <2>1, <2>2, WithdrawnGrows
    <2>4. ASSUME NEW c \in Calls, phase[c] = "via_local"
          PROVE  Known(local', tool[c]) \/ tool[c] \in Withdrawn'
      BY <2>3, <2>4 DEF Known
    <2> QED BY <2>1, <2>3, <2>4
  <1>23. CASE UNCHANGED vars
    BY <1>23, SameScope DEF vars, batchVars
  <1> QED BY <1>1, <1>2, <1>3, <1>4, <1>5, <1>6, <1>7, <1>8, <1>9, <1>10, <1>11, <1>12,
         <1>13, <1>14, <1>15, <1>16, <1>17, <1>18, <1>19, <1>20, <1>21, <1>22, <1>23
         DEF Next, Scheduler, CallStep

-----------------------------------------------------------------------------
(* The theorems. *)

\* A batch keeps BatchInv in every behaviour.
THEOREM BatchSafe == Spec => []BatchInv
  <1>1. Init => BatchInv
    <2> SUFFICES ASSUME Init PROVE BatchInv
      OBVIOUS
    <2>1. ScopeTypeOK
      BY DEF Init, ScopeInit, ScopeTypeOK, Handles
    <2>2. handles = <<>> /\ deny = {} /\ allow = {} /\ LiveMasks("deny") = {} /\ LiveMasks("allow") = {}
      BY DEF Init, ScopeInit, LiveMasks
    <2>3. MasksInv
      BY <2>2 DEF MasksInv, DenyAt, AllowAt
    <2>4. TypeOK
      <3>1. hist \in [ran : SUBSET Calls, late : SUBSET Calls, private : SUBSET Calls,
                      hidden : SUBSET Calls]
        BY DEF Init
      <3>2. phase \in [Calls -> Phases] /\ outcome \in [Calls -> {"none"}] /\ tool \in [Calls -> Callable]
        BY DEF Init, Phases
      <3>3. terminal \in BOOLEAN /\ cancelled \in BOOLEAN /\ foreign \in Nat
        BY DEF Init
      <3>4. next \in 1..(NumCalls + 1) /\ pc = "top"
        BY ToolBatchAssumption DEF Init
      <3> QED BY <3>1, <3>2, <3>3, <3>4 DEF TypeOK
    <2>5. BarrierInv /\ LateInv /\ HiddenInv
      BY ToolBatchAssumption DEF Init, BarrierInv, LateInv, HiddenInv, Calls
    <2> QED BY <2>1, <2>3, <2>4, <2>5 DEF BatchInv, ScopeInv
  <1>2. BatchInv /\ [Next]_vars => ScopeInv'
    <2> SUFFICES ASSUME BatchInv, [Next]_vars PROVE ScopeInv'
      OBVIOUS
    <2>1. CASE ScopeNext
      BY <2>1, ScopeStep DEF BatchInv
    <2>2. CASE UNCHANGED scopeVars
      BY <2>2 DEF BatchInv, ScopeInv, ScopeTypeOK, MasksInv, DenyAt, AllowAt, LiveMasks, scopeVars
    <2>3. ScopeNext \/ UNCHANGED scopeVars
      BY DEF Next, vars, Scheduler, CallStep, ChangeScope, Top, Launch, Check, DrainOne, DrainBarrier,
             DrainRest, Drain, Drained, Exclusive, Inline, Resolve, ResolveLocal, Go, Dispatch,
             Refused, Finish, WaitAborted, NestedCall, NestedAcquire, NestedReturns, BodyReturns,
             Cancel, ForeignAcquire, ForeignRelease
    <2> QED BY <2>1, <2>2, <2>3
  <1>3. BatchInv /\ [Next]_vars => BatchInv'
    BY <1>2, TypeStep, BarrierStep, LateStep, HiddenStep DEF BatchInv
  <1> QED BY <1>1, <1>3, PTL DEF Spec

\* An exclusive call is a barrier for the rest of its batch.
THEOREM ExclusiveRunsAlone == Spec => []ExclusiveAlone
  <1>1. BatchInv => ExclusiveAlone
    BY DEF BatchInv, BarrierInv, ExclusiveAlone, Active, Underway, Calls
  <1> QED BY <1>1, BatchSafe, PTL

\* What had not started when the context ended never reaches its body.
THEOREM LateCallsNeverRun == Spec => []LateNeverDispatched
  <1>1. BatchInv => LateNeverDispatched
    BY DEF BatchInv, LateInv, LateNeverDispatched
  <1> QED BY <1>1, BatchSafe, PTL

\* The masks hold against every interleaving of the host's changes with the calls.
THEOREM HiddenToolsNeverRun == Spec => []HiddenNeverRuns
  <1>1. BatchInv => HiddenNeverRuns
    BY DEF BatchInv, HiddenInv, HiddenNeverRuns
  <1> QED BY <1>1, BatchSafe, PTL

\* Handles taken back in reverse order leave the masks the live ones describe.
THEOREM MasksRestored == Spec => []MasksMatchHandles
  <1>1. BatchInv => MasksMatchHandles
    <2> SUFFICES ASSUME BatchInv, ~strays.order PROVE
                 /\ deny = UNION {handles[k].names : k \in LiveMasks("deny")}
                 /\ allow = UNION {handles[k].names : k \in
                          {j \in LiveMasks("allow") : \A i \in LiveMasks("allow") : i <= j}}
      BY DEF MasksMatchHandles
    <2>1. DenyAt(deny, Len(handles) + 1) /\ AllowAt(allow, Len(handles) + 1)
      BY DEF BatchInv, ScopeInv, MasksInv
    <2>2. /\ deny \in SUBSET Names /\ allow \in SUBSET Names /\ Len(handles) \in Nat
          /\ \A k \in DOMAIN handles : k \in Nat /\ k < Len(handles) + 1 /\ handles[k].names \in SUBSET Names
      <3>1. handles \in Seq(Handles) /\ deny \in SUBSET Names /\ allow \in SUBSET Names
        BY DEF BatchInv, ScopeInv, ScopeTypeOK
      <3>2. DOMAIN handles = 1..Len(handles) /\ Len(handles) \in Nat
            /\ \A k \in DOMAIN handles : handles[k] \in Handles
        BY <3>1
      <3>3. \A h \in Handles : h.names \in SUBSET Names
        BY DEF Handles
      <3> QED BY <3>1, <3>2, <3>3
    <2>3. deny = UNION {handles[k].names : k \in LiveMasks("deny")}
      BY <2>1, <2>2 DEF DenyAt, LiveMasks
    <2>4. allow = UNION {handles[k].names : k \in
                          {j \in LiveMasks("allow") : \A i \in LiveMasks("allow") : i <= j}}
      BY <2>1, <2>2 DEF AllowAt, LiveMasks
    <2> QED BY <2>3, <2>4
  <1> QED BY <1>1, BatchSafe, PTL
=============================================================================

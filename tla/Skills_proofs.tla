---------------------------- MODULE Skills_proofs ----------------------------
(***************************************************************************)
(* The cache of the skill registry is current and a pin is stable, for any *)
(* providers, scopes, agents and bounds.                                   *)
(***************************************************************************)
EXTENDS Skills

-----------------------------------------------------------------------------
(* Types. *)

Entry == [name : Names, provider : Providers \cup {"runtime"}, version : Nat, scope : Nat,
          rank : Nat, order : Nat]
Snapshot == [has : BOOLEAN, entries : SUBSET Entry]
Given == [name : Names, provider : Providers \cup {"runtime"}, version : Nat]
Collection == [pc : {"idle", "lookup", "layer", "list", "store", "load"}, attempt : Nat,
               revision : Nat, scope : Nat, todo : Seq(Providers \X Nat),
               found : SUBSET Entry, complete : BOOLEAN]

RegTyped ==
    /\ bound \in [Providers -> Nat] /\ active \in [Providers -> BOOLEAN]
    /\ content \in [Providers -> Nat] /\ dirty \in SUBSET Providers
    /\ runtime \in [RuntimeNames -> Nat]
    /\ reg \in [revision : Nat, nextOrder : Nat, cache : Snapshot, keys : Nat]
AgentsTyped ==
    /\ col \in [Agents -> Collection] /\ snap \in [Agents -> Snapshot]
    /\ got \in [Agents -> SUBSET Given]
    /\ count \in [changes : Nat, faults : Nat, loads : [Agents -> Nat]]
TypeOK == RegTyped /\ AgentsTyped

-----------------------------------------------------------------------------
(* The invariants. *)

\* A catalog has one entry for a name.
OneEach(entries) == \A e, f \in entries : e.name = f.name => e = f

\* Every catalog has one entry for a name; an agent loads an entry of its
\* snapshot, and a pinned one collects no more once it has a snapshot; what it
\* was given is in that snapshot.
PinnedInv(a) ==
    /\ OneEach(snap[a].entries)
    /\ col[a].pc = "load" =>
          snap[a].has /\ \E e \in snap[a].entries : col[a].found = {e}
    /\ a \in PinnedAgents =>
          /\ snap[a].has => col[a].pc \in {"idle", "load"}
          /\ \A g \in got[a] : snap[a].has /\ \E e \in snap[a].entries :
                g.name = e.name /\ g.provider = e.provider /\ g.version = e.version
PinInv == OneEach(reg.cache.entries) /\ \A a \in Agents : PinnedInv(a)

\* What a complete collection has found when it is done with the first scopes.
Before(s) ==
    (IF s > 1 THEN RuntimeEntries ELSE {}) \cup
    UNION {Listed(p, bound[p]) : p \in {q \in Providers : bound[q] # 0 /\ ScopeOf[q] < s}}

\* What the rest of a layer will give it.
Due(todo) == UNION {Listed(todo[i][1], todo[i][2]) : i \in DOMAIN todo}

Collects(c) == c.pc \in {"layer", "list", "store"}
Reached(c) == IF c.pc = "layer" THEN c.scope ELSE c.scope + 1

\* A collection that nothing overtook has found what is there, up to where it
\* is: the providers it will still ask are registered as it read them, and,
\* unless one of them failed or has a change to report, nothing is missing.
Fits(c) ==
    /\ c.revision <= reg.revision
    /\ c.pc = "lookup" => c.found = {} /\ c.todo = <<>>
    /\ Collects(c) => c.scope \in 1..NumScopes
    /\ c.pc = "store" => c.scope = NumScopes
    /\ Collects(c) => (c.pc = "list" <=> c.todo # <<>>)
    /\ Collects(c) /\ c.revision = reg.revision =>
          /\ \A i \in DOMAIN c.todo : c.todo[i][2] = bound[c.todo[i][1]] /\ c.todo[i][2] # 0
          /\ c.complete /\ dirty = {} => c.found \cup Due(c.todo) = Before(Reached(c))
CollectInv(a) == Fits(col[a])

\* Registrations have numbers of their own.
BoundInv ==
    /\ \A p \in Providers : bound[p] <= reg.nextOrder
    /\ \A p, q \in Providers : bound[p] = bound[q] /\ bound[p] # 0 => p = q
CatalogInv == BoundInv /\ CacheIsCurrent /\ \A a \in Agents : CollectInv(a)

SkillsInv == TypeOK /\ PinInv /\ CatalogInv

-----------------------------------------------------------------------------
(* Operators. *)

\* Listings are sets of entries.
LEMMA ListedType ==
  ASSUME RegTyped
  PROVE  /\ RuntimeEntries \in SUBSET Entry
         /\ \A p \in Providers, order \in Nat : Listed(p, order) \in SUBSET Entry
  <1>1. RuntimeEntries \in SUBSET Entry
    <2>1. \A n \in RuntimeNames : n \in Names /\ runtime[n] \in Nat /\ RankOf["runtime"] \in Nat /\ 1 \in Nat
      BY SkillsAssumption DEF RegTyped
    <2> QED BY <2>1 DEF RuntimeEntries, Entry
  <1>2. ASSUME NEW p \in Providers, NEW order \in Nat PROVE Listed(p, order) \in SUBSET Entry
    <2>1. Offers[p] \subseteq Names /\ content[p] \in Nat /\ ScopeOf[p] \in Nat /\ RankOf[p] \in Nat
      BY SkillsAssumption DEF RegTyped
    <2> QED BY <2>1 DEF Listed, Entry
  <1> QED BY <1>1, <1>2

\* Of two entries with one name at most one beats the other, so that merging
\* leaves one entry for a name.
LEMMA WinnersProps ==
  ASSUME NEW found \in SUBSET Entry
  PROVE  Winners(found) \in SUBSET Entry /\ OneEach(Winners(found))
  <1>1. Winners(found) \in SUBSET Entry
    BY DEF Winners
  <1>2. ASSUME NEW e \in Winners(found), NEW f \in Winners(found), e.name = f.name, e # f
        PROVE  FALSE
    <2>1. Beats(e, f) /\ Beats(f, e)
      BY <1>2 DEF Winners
    <2>2. /\ e.scope \in Nat /\ e.rank \in Nat /\ e.order \in Nat
          /\ f.scope \in Nat /\ f.rank \in Nat /\ f.order \in Nat
      BY <1>1 DEF Entry
    <2> QED BY <2>1, <2>2 DEF Beats
  <1> QED BY <1>1, <1>2 DEF OneEach

\* InOrder lists every binding with the number it is registered under.
LEMMA InOrderProps ==
  ASSUME RegTyped, BoundInv, NEW here \in SUBSET Providers
  PROVE  /\ InOrder(here) \in Seq(Providers \X Nat)
         /\ \A i \in DOMAIN InOrder(here) :
               InOrder(here)[i][1] \in here /\ InOrder(here)[i][2] = bound[InOrder(here)[i][1]]
         /\ (\A p \in here : bound[p] # 0) =>
               \A p \in here : \E i \in DOMAIN InOrder(here) : InOrder(here)[i][1] = p
  <1> DEFINE S == {bound[p] : p \in here}
             at == Sorted(S)
             q(o) == CHOOSE p \in here : bound[p] = o
  <1>1. IsFiniteSet(here)
    BY SkillsAssumption, FS_Subset
  <1>2. S \in SUBSET Nat /\ S \in SUBSET Int
    BY DEF RegTyped
  <1>3. IsFiniteSet(S)
    <2> DEFINE f == [p \in here |-> bound[p]]
    <2>1. f \in Surjection(here, S)
      BY DEF Surjection
    <2> QED BY <1>1, <2>1, FS_Surjection
  <1>4. /\ Cardinality(S) \in Nat /\ at \in [1..Cardinality(S) -> S]
        /\ \A n \in S : \E k \in 1..Cardinality(S) : at[k] = n
    BY <1>2, <1>3, SortedProps
  <1>5. InOrder(here) = [i \in DOMAIN at |-> <<q(at[i]), at[i]>>]
    BY DEF InOrder
  <1>6. \A o \in S : q(o) \in here /\ bound[q(o)] = o /\ o \in Nat
    BY <1>2
  <1>7. \A p \in here : bound[p] \in S
    OBVIOUS
  <1>8. \A p \in here : bound[p] # 0 => q(bound[p]) = p
    BY <1>6, <1>7 DEF BoundInv
  <1> HIDE DEF S, at, q
  <1>9. DOMAIN at = 1..Cardinality(S) /\ \A i \in DOMAIN at : at[i] \in S
    BY <1>4
  <1>10. InOrder(here) \in [1..Cardinality(S) -> Providers \X Nat]
    BY <1>5, <1>6, <1>9
  <1>11. InOrder(here) \in Seq(Providers \X Nat) /\ DOMAIN InOrder(here) = DOMAIN at
    <2>1. \A n \in Nat : \A T : \A s \in [1..n -> T] : s \in Seq(T)
      OBVIOUS
    <2> QED BY <1>4, <1>5, <1>10, <2>1
  <1>12. \A i \in DOMAIN at :
            InOrder(here)[i] = <<q(at[i]), at[i]>> /\ q(at[i]) \in here /\ bound[q(at[i])] = at[i]
    BY <1>5, <1>6, <1>9
  <1>13. ASSUME NEW p \in here, bound[p] # 0
         PROVE  \E i \in DOMAIN InOrder(here) : InOrder(here)[i][1] = p
    <2>1. PICK k \in DOMAIN at : at[k] = bound[p]
      BY <1>4, <1>7, <1>9
    <2> QED BY <1>8, <1>11, <1>12, <1>13, <2>1
  <1> QED BY <1>11, <1>12, <1>13

\* Onward changes pc and scope only: it lists while a provider is left, and
\* the scope moves within the request.
LEMMA OnwardProps ==
  ASSUME NEW c \in Collection, c.scope \in 1..NumScopes
  PROVE  /\ Onward(c) \in Collection /\ Collects(Onward(c))
         /\ Onward(c).attempt = c.attempt /\ Onward(c).revision = c.revision
         /\ Onward(c).todo = c.todo /\ Onward(c).found = c.found /\ Onward(c).complete = c.complete
         /\ Onward(c).pc = "list" <=> c.todo # <<>>
         /\ Onward(c).scope \in 1..NumScopes
         /\ Onward(c).pc = "store" => Onward(c).scope = NumScopes
         /\ Reached(Onward(c)) = c.scope + 1
  <1>0. NumScopes \in Nat \ {0}
    BY SkillsAssumption
  <1>1. CASE c.todo # <<>>
    <2>1. Onward(c) = [c EXCEPT !.pc = "list"]
      BY <1>1 DEF Onward
    <2> QED BY <1>1, <2>1 DEF Collection, Collects, Reached
  <1>2. CASE c.todo = <<>> /\ c.scope < NumScopes
    <2>1. Onward(c) = [c EXCEPT !.pc = "layer", !.scope = c.scope + 1]
      BY <1>2 DEF Onward
    <2>2. c.scope + 1 \in 1..NumScopes /\ c.scope + 1 \in Nat
      BY <1>0, <1>2
    <2> QED BY <1>2, <2>1, <2>2 DEF Collection, Collects, Reached
  <1>3. CASE c.todo = <<>> /\ ~(c.scope < NumScopes)
    <2>1. Onward(c) = [c EXCEPT !.pc = "store"]
      BY <1>3 DEF Onward
    <2>2. c.scope = NumScopes
      BY <1>0, <1>3
    <2> QED BY <1>3, <2>1, <2>2 DEF Collection, Collects, Reached
  <1> QED BY <1>1, <1>2, <1>3

\* The scopes one after the other: nothing before the first, and behind the
\* last what the catalog is merged from.
LEMMA BeforeProps ==
         /\ Before(1) = {}
         /\ \A s \in 1..NumScopes :
               Before(s + 1) = Before(s) \cup (IF s = 1 THEN RuntimeEntries ELSE {})
                    \cup UNION {Listed(p, bound[p]) : p \in {q \in Providers : bound[q] # 0 /\ ScopeOf[q] = s}}
         /\ Truth = Winners(Before(NumScopes + 1))
  <1> DEFINE L(p) == Listed(p, bound[p])
             At(s) == {q \in Providers : bound[q] # 0 /\ ScopeOf[q] = s}
             To(s) == {q \in Providers : bound[q] # 0 /\ ScopeOf[q] < s}
  <1>0. NumScopes \in Nat \ {0} /\ \A q \in Providers : ScopeOf[q] \in 1..NumScopes
    BY SkillsAssumption
  <1>1. \A s : Before(s) = (IF s > 1 THEN RuntimeEntries ELSE {}) \cup UNION {L(p) : p \in To(s)}
    BY DEF Before
  <1>2. To(1) = {}
    BY <1>0
  <1>3. Before(1) = {}
    BY <1>1, <1>2
  <1>4. ASSUME NEW s \in 1..NumScopes
        PROVE  Before(s + 1) = Before(s) \cup (IF s = 1 THEN RuntimeEntries ELSE {})
                    \cup UNION {L(p) : p \in At(s)}
    <2>1. s \in Nat /\ s + 1 > 1 /\ (s > 1 <=> s # 1)
      BY <1>0
    <2>2. To(s + 1) = To(s) \cup At(s)
      BY <1>0, <2>1
    <2>3. UNION {L(p) : p \in To(s + 1)} =
             (UNION {L(p) : p \in To(s)}) \cup (UNION {L(p) : p \in At(s)})
      <3> HIDE DEF L, At, To
      <3> QED BY <2>2
    <2>4. Before(s + 1) = RuntimeEntries \cup UNION {L(p) : p \in To(s + 1)}
      BY <1>1, <2>1, Zenon
    <2>5. Before(s) = (IF s # 1 THEN RuntimeEntries ELSE {}) \cup UNION {L(p) : p \in To(s)}
      BY <1>1, <2>1
    <2> HIDE DEF L, At, To
    <2> QED BY <2>3, <2>4, <2>5
  <1>5. Truth = Winners(Before(NumScopes + 1))
    <2>1. NumScopes + 1 > 1 /\ To(NumScopes + 1) = {q \in Providers : bound[q] # 0}
      BY <1>0
    <2>2. Before(NumScopes + 1) = RuntimeEntries \cup UNION {L(p) : p \in {q \in Providers : bound[q] # 0}}
      BY <1>1, <2>1
    <2> QED BY <2>2 DEF Truth
  <1> QED BY <1>3, <1>4, <1>5

\* What is due is what the next provider lists and what is due behind it.
LEMMA DueProps ==
  /\ Due(<<>>) = {}
  /\ \A todo \in Seq(Providers \X Nat) : todo # <<>> =>
        /\ Head(todo) = todo[1] /\ 1 \in DOMAIN todo /\ todo[1] \in Providers \X Nat
        /\ Tail(todo) \in Seq(Providers \X Nat)
        /\ \A i \in DOMAIN Tail(todo) : i + 1 \in DOMAIN todo /\ Tail(todo)[i] = todo[i + 1]
        /\ Due(todo) = Listed(todo[1][1], todo[1][2]) \cup Due(Tail(todo))
  <1>1. Due(<<>>) = {}
    BY DEF Due
  <1>2. ASSUME NEW todo \in Seq(Providers \X Nat), todo # <<>>
        PROVE  /\ Head(todo) = todo[1] /\ 1 \in DOMAIN todo /\ todo[1] \in Providers \X Nat
               /\ Tail(todo) \in Seq(Providers \X Nat)
               /\ \A i \in DOMAIN Tail(todo) : i + 1 \in DOMAIN todo /\ Tail(todo)[i] = todo[i + 1]
               /\ Due(todo) = Listed(todo[1][1], todo[1][2]) \cup Due(Tail(todo))
    <2> DEFINE L(x) == Listed(x[1], x[2])
    <2>1. Head(todo) = todo[1] /\ 1 \in DOMAIN todo /\ todo[1] \in Providers \X Nat
      BY <1>2
    <2>2. Tail(todo) \in Seq(Providers \X Nat)
      BY <1>2
    <2>3. \A i \in DOMAIN Tail(todo) : i + 1 \in DOMAIN todo /\ Tail(todo)[i] = todo[i + 1]
      BY <1>2
    <2>4. \A i \in DOMAIN todo : i = 1 \/ (i - 1 \in DOMAIN Tail(todo) /\ Tail(todo)[i - 1] = todo[i])
      BY <1>2
    <2>5. Due(todo) = UNION {L(todo[i]) : i \in DOMAIN todo}
          /\ Due(Tail(todo)) = UNION {L(Tail(todo)[i]) : i \in DOMAIN Tail(todo)}
      BY DEF Due
    <2> HIDE DEF L
    <2>6. Due(todo) = L(todo[1]) \cup Due(Tail(todo))
      <3>1. ASSUME NEW x \in Due(todo) PROVE x \in L(todo[1]) \cup Due(Tail(todo))
        <4>1. PICK i \in DOMAIN todo : x \in L(todo[i])
          BY <2>5, <3>1
        <4> QED BY <2>4, <2>5, <4>1
      <3>2. ASSUME NEW x \in L(todo[1]) \cup Due(Tail(todo)) PROVE x \in Due(todo)
        <4>1. CASE x \in L(todo[1])
          BY <2>1, <2>5, <4>1
        <4>2. CASE x \in Due(Tail(todo))
          <5>1. PICK i \in DOMAIN Tail(todo) : x \in L(Tail(todo)[i])
            BY <2>5, <4>2
          <5> QED BY <2>3, <2>5, <5>1
        <4> QED BY <3>2, <4>1, <4>2
      <3> QED BY <3>1, <3>2
    <2> QED BY <2>1, <2>2, <2>3, <2>6 DEF L
  <1> QED BY <1>1, <1>2

\* A layer's list is due for every binding of its scope.
LEMMA DueInOrder ==
  ASSUME RegTyped, BoundInv, NEW here \in SUBSET Providers, \A p \in here : bound[p] # 0
  PROVE  Due(InOrder(here)) = UNION {Listed(p, bound[p]) : p \in here}
  <1> DEFINE L(x) == Listed(x[1], x[2])
             M(p) == Listed(p, bound[p])
             s == InOrder(here)
  <1>1. /\ \A i \in DOMAIN s : s[i][1] \in here /\ s[i][2] = bound[s[i][1]]
        /\ \A p \in here : \E i \in DOMAIN s : s[i][1] = p
    BY InOrderProps
  <1>2. \A i \in DOMAIN s : s[i][1] \in here /\ L(s[i]) = M(s[i][1])
    BY <1>1
  <1>3. Due(s) = UNION {L(s[i]) : i \in DOMAIN s}
    BY DEF Due
  <1> HIDE DEF L, M, s
  <1>4. Due(s) = UNION {M(p) : p \in here}
    BY <1>1, <1>2, <1>3
  <1> QED BY <1>4 DEF M, s

LEMMA IdleTyped == Idle \in Collection /\ None \in Snapshot /\ OneEach(None.entries)
  <1>1. <<>> \in Seq(Providers \X Nat)
    OBVIOUS
  <1> QED BY <1>1 DEF Idle, None, Collection, Snapshot, OneEach

-----------------------------------------------------------------------------
(* Registrations. *)

\* Whatever empties the cache under a new revision leaves nothing to say of
\* the cache, and of no collection under way.
LEMMA NewRevision ==
  ASSUME SkillsInv, RegTyped', BoundInv', UNCHANGED agentVars, AgentsTyped',
         reg'.revision = reg.revision + 1, reg'.cache = None
  PROVE  SkillsInv'
  <1>1. PinInv'
    <2>1. OneEach(reg'.cache.entries)
      BY IdleTyped
    <2>2. \A a \in Agents : PinnedInv(a)'
      BY DEF SkillsInv, PinInv, PinnedInv, agentVars
    <2> QED BY <2>1, <2>2 DEF PinInv
  <1>2. CacheIsCurrent'
    BY DEF CacheIsCurrent, None
  <1>3. ASSUME NEW a \in Agents PROVE CollectInv(a)'
    <2>1. col' = col /\ col[a].revision \in Nat /\ reg.revision \in Nat /\ CollectInv(a)
      BY DEF SkillsInv, TypeOK, RegTyped, AgentsTyped, Collection, agentVars, CatalogInv
    <2>2. col[a].revision <= reg.revision
      BY <2>1 DEF CollectInv, Fits
    <2>3. col'[a].revision <= reg'.revision /\ col'[a].revision # reg'.revision
      BY <2>1, <2>2
    <2> QED BY <2>1, <2>3 DEF CollectInv, Fits, Collects
  <1> QED BY <1>1, <1>2, <1>3 DEF SkillsInv, TypeOK, CatalogInv

LEMMA InvalidatedProps ==
  ASSUME NEW r \in [revision : Nat, nextOrder : Nat, cache : Snapshot, keys : Nat]
  PROVE  /\ Invalidated(r) \in [revision : Nat, nextOrder : Nat, cache : Snapshot, keys : Nat]
         /\ Invalidated(r).revision = r.revision + 1
         /\ Invalidated(r).nextOrder = r.nextOrder /\ Invalidated(r).cache = None
  <1>1. r.revision + 1 \in Nat /\ r.nextOrder \in Nat /\ None \in Snapshot
    BY IdleTyped
  <1> QED BY <1>1 DEF Invalidated

\* A new binding gets the next number.
LEMMA RegisterStep ==
  ASSUME SkillsInv, NEW p \in Providers, RegisterProvider(p)
  PROVE  SkillsInv'
  <1> DEFINE r == [reg EXCEPT !.nextOrder = @ + 1]
  <1>1. r \in [revision : Nat, nextOrder : Nat, cache : Snapshot, keys : Nat]
        /\ r.revision = reg.revision /\ r.nextOrder = reg.nextOrder + 1
    BY DEF SkillsInv, TypeOK, RegTyped
  <1> HIDE DEF r
  <1>2. reg' = Invalidated(r)
    BY DEF RegisterProvider, r
  <1>3. /\ bound' = [bound EXCEPT ![p] = reg.nextOrder + 1] /\ active' = [active EXCEPT ![p] = TRUE]
        /\ UNCHANGED <<content, dirty, runtime>> /\ UNCHANGED agentVars
        /\ count' = [count EXCEPT !.changes = @ + 1]
    BY DEF RegisterProvider, Changing
  <1>4. /\ reg' \in [revision : Nat, nextOrder : Nat, cache : Snapshot, keys : Nat]
        /\ reg'.revision = reg.revision + 1 /\ reg'.nextOrder = reg.nextOrder + 1 /\ reg'.cache = None
    BY <1>1, <1>2, InvalidatedProps
  <1>5. reg.nextOrder \in Nat /\ bound \in [Providers -> Nat]
    BY DEF SkillsInv, TypeOK, RegTyped
  <1>6. RegTyped'
    BY <1>3, <1>4, <1>5 DEF SkillsInv, TypeOK, RegTyped
  <1>7. AgentsTyped'
    BY <1>3 DEF SkillsInv, TypeOK, AgentsTyped, agentVars
  <1>8. BoundInv'
    <2>1. \A q \in Providers : bound[q] <= reg.nextOrder /\ bound[q] \in Nat
      BY <1>5 DEF SkillsInv, CatalogInv, BoundInv
    <2>2. \A q \in Providers : bound'[q] = IF q = p THEN reg.nextOrder + 1 ELSE bound[q]
      BY <1>3, <1>5
    <2>3. \A q \in Providers : bound'[q] <= reg'.nextOrder
      BY <1>4, <1>5, <2>1, <2>2
    <2>4. \A q, s \in Providers : bound'[q] = bound'[s] /\ bound'[q] # 0 => q = s
      <3>1. \A q \in Providers : bound[q] # reg.nextOrder + 1
        BY <1>5, <2>1
      <3> QED BY <2>2, <3>1 DEF SkillsInv, CatalogInv, BoundInv
    <2> QED BY <2>3, <2>4 DEF BoundInv
  <1> QED BY <1>3, <1>4, <1>6, <1>7, <1>8, NewRevision

\* The end of a closing, a reported change and what the host registers or
\* takes back are new revisions.
LEMMA InvalidatingStep ==
  ASSUME SkillsInv,
         \/ \E p \in Providers : CloseEnds(p) \/ Invalidate(p)
         \/ \E n \in RuntimeNames : Register(n) \/ DisposeRuntime(n)
  PROVE  SkillsInv'
  <1>1. /\ reg \in [revision : Nat, nextOrder : Nat, cache : Snapshot, keys : Nat]
        /\ bound \in [Providers -> Nat] /\ active \in [Providers -> BOOLEAN]
        /\ content \in [Providers -> Nat] /\ dirty \in SUBSET Providers
        /\ runtime \in [RuntimeNames -> Nat] /\ AgentsTyped /\ count.changes \in Nat
    BY DEF SkillsInv, TypeOK, RegTyped, AgentsTyped
  <1>2. UNCHANGED <<content, active, agentVars>> /\ reg' = Invalidated(reg)
    BY DEF CloseEnds, Invalidate, Register, DisposeRuntime
  <1>3. /\ reg' \in [revision : Nat, nextOrder : Nat, cache : Snapshot, keys : Nat]
        /\ reg'.revision = reg.revision + 1 /\ reg'.nextOrder = reg.nextOrder /\ reg'.cache = None
    BY <1>1, <1>2, InvalidatedProps
  <1>4. /\ \A p \in Providers : bound'[p] \in {0, bound[p]}
        /\ bound' \in [Providers -> Nat] /\ dirty' \in SUBSET Providers
    BY <1>1 DEF CloseEnds, Invalidate, Register, DisposeRuntime
  <1>5. runtime' \in [RuntimeNames -> Nat]
    BY <1>1 DEF CloseEnds, Invalidate, Register, DisposeRuntime
  <1>6. count' = count \/ count' = [count EXCEPT !.changes = @ + 1]
    BY DEF CloseEnds, Invalidate, Register, DisposeRuntime, Changing
  <1>7. RegTyped'
    BY <1>1, <1>2, <1>3, <1>4, <1>5 DEF RegTyped
  <1>8. AgentsTyped'
    BY <1>1, <1>2, <1>6 DEF AgentsTyped, agentVars
  <1>9. BoundInv'
    <2>1. BoundInv /\ 0 <= reg.nextOrder
      BY <1>1 DEF SkillsInv, CatalogInv
    <2> QED BY <1>3, <1>4, <2>1 DEF BoundInv
  <1> QED BY <1>2, <1>3, <1>7, <1>8, <1>9, NewRevision

\* A closing that starts, or a change not reported yet, is no revision; a
\* change of a registered provider is one to report.
LEMMA QuietStep ==
  ASSUME SkillsInv, NEW p \in Providers, CloseStarts(p) \/ ContentChanges(p)
  PROVE  SkillsInv'
  <1>1. /\ reg' = reg /\ bound' = bound /\ runtime' = runtime /\ UNCHANGED agentVars
        /\ count' = [count EXCEPT !.changes = @ + 1]
    BY DEF CloseStarts, ContentChanges, Changing
  <1>2. TypeOK'
    <2>1. RegTyped'
      <3>1. RegTyped
        BY DEF SkillsInv, TypeOK
      <3>2. CASE CloseStarts(p)
        <4>1. UNCHANGED <<content, dirty>> /\ active' = [active EXCEPT ![p] = FALSE]
          BY <3>2 DEF CloseStarts
        <4> QED BY <1>1, <3>1, <4>1 DEF RegTyped
      <3>3. CASE ContentChanges(p)
        <4>1. UNCHANGED active /\ content' = [content EXCEPT ![p] = @ + 1] /\ dirty' \subseteq dirty \cup {p}
          BY <3>3 DEF ContentChanges
        <4> QED BY <1>1, <3>1, <4>1 DEF RegTyped
      <3> QED BY <3>2, <3>3
    <2>2. AgentsTyped'
      BY <1>1 DEF SkillsInv, TypeOK, AgentsTyped, agentVars
    <2> QED BY <2>1, <2>2 DEF TypeOK
  <1>3. PinInv'
    BY <1>1 DEF SkillsInv, PinInv, PinnedInv, agentVars
  <1>4. dirty' = {} => dirty = {} /\ \A q \in Providers : bound[q] # 0 => content'[q] = content[q]
    BY DEF SkillsInv, TypeOK, RegTyped, CloseStarts, ContentChanges
  <1>5. dirty' = {} => \A q \in Providers : bound[q] # 0 => Listed(q, bound[q])' = Listed(q, bound[q])
    BY <1>1, <1>4 DEF Listed
  <1>6. RuntimeEntries' = RuntimeEntries
    BY <1>1 DEF RuntimeEntries
  <1>7. BoundInv'
    BY <1>1 DEF SkillsInv, CatalogInv, BoundInv
  <1>8. dirty' = {} => \A s \in Nat : Before(s)' = Before(s)
    <2> SUFFICES ASSUME dirty' = {}, NEW s \in Nat PROVE Before(s)' = Before(s)
      OBVIOUS
    <2> DEFINE T == {q \in Providers : bound[q] # 0 /\ ScopeOf[q] < s}
    <2>1. {Listed(q, bound[q])' : q \in T} = {Listed(q, bound[q]) : q \in T}
      BY <1>5
    <2>2. Before(s)' = (IF s > 1 THEN RuntimeEntries ELSE {}) \cup UNION {Listed(q, bound[q])' : q \in T}
      BY <1>1, <1>6 DEF Before
    <2> QED BY <2>1, <2>2 DEF Before
  <1>9. CacheIsCurrent'
    <2> SUFFICES ASSUME reg'.cache.has, dirty' = {} PROVE reg'.cache.entries = Truth'
      BY DEF CacheIsCurrent
    <2>1. reg.cache.entries = Truth
      BY <1>1, <1>4 DEF SkillsInv, CatalogInv, CacheIsCurrent
    <2> DEFINE T == {q \in Providers : bound[q] # 0}
    <2>2. {Listed(q, bound[q])' : q \in T} = {Listed(q, bound[q]) : q \in T}
      BY <1>5
    <2>3. Truth' = Winners(RuntimeEntries \cup UNION {Listed(q, bound[q])' : q \in T})
      BY <1>1, <1>6 DEF Truth, Winners, Beats
    <2>4. Truth' = Truth
      BY <2>2, <2>3 DEF Truth
    <2> QED BY <1>1, <2>1, <2>4
  <1>10. ASSUME NEW a \in Agents PROVE CollectInv(a)'
    <2> DEFINE c == col[a]
    <2>1. col'[a] = c /\ c \in Collection /\ CollectInv(a)
      BY <1>1 DEF SkillsInv, TypeOK, AgentsTyped, agentVars, CatalogInv
    <2>2. c.todo \in Seq(Providers \X Nat) /\ c.scope \in Nat /\ Reached(c) \in Nat
      BY <2>1 DEF Collection, Reached
    <2> SUFFICES ASSUME Collects(c), c.revision = reg.revision, c.complete, dirty' = {}
                 PROVE  c.found \cup Due(c.todo)' = Before(Reached(c))'
      BY <1>1, <2>1 DEF CollectInv, Fits, Collects, Reached
    <2>3. /\ \A i \in DOMAIN c.todo : c.todo[i][2] = bound[c.todo[i][1]] /\ c.todo[i][2] # 0
          /\ c.found \cup Due(c.todo) = Before(Reached(c))
      BY <1>4, <2>1 DEF CollectInv, Fits
    <2>4. \A i \in DOMAIN c.todo : c.todo[i] \in Providers \X Nat
      BY <2>2
    <2>5. \A i \in DOMAIN c.todo : Listed(c.todo[i][1], c.todo[i][2])' = Listed(c.todo[i][1], c.todo[i][2])
      BY <1>4, <2>1, <2>3, <2>4 DEF Listed
    <2>6. Due(c.todo)' = Due(c.todo)
      BY <2>1, <2>5 DEF Due
    <2>7. Before(Reached(c))' = Before(Reached(c))
      BY <1>8, <2>1, <2>2
    <2> QED BY <2>3, <2>6, <2>7
  <1> QED BY <1>2, <1>3, <1>7, <1>9, <1>10 DEF SkillsInv, CatalogInv

-----------------------------------------------------------------------------
(* Agents. *)

\* A step of one agent is one of its collection, its snapshot and what it was
\* given; the registrations stay, and at most the cache of the registry changes.
AgentStep(a) ==
    /\ UNCHANGED <<bound, active, content, dirty, runtime>>
    /\ reg'.revision = reg.revision /\ reg'.nextOrder = reg.nextOrder
    /\ \A b \in Agents : b # a => col'[b] = col[b] /\ snap'[b] = snap[b] /\ got'[b] = got[b]

\* The other agents know what they knew, and what a collection should find is
\* what it was.
LEMMA AgentStepKeeps ==
  ASSUME SkillsInv, NEW a \in Agents, AgentStep(a), TypeOK',
         OneEach(reg'.cache.entries), PinnedInv(a)', CollectInv(a)', CacheIsCurrent'
  PROVE  SkillsInv'
  <1>1. ASSUME NEW b \in Agents PROVE PinnedInv(b)'
    <2>1. CASE b = a
      BY <2>1
    <2>2. CASE b # a
      <3>1. PinnedInv(b)
        BY DEF SkillsInv, PinInv
      <3>2. col'[b] = col[b] /\ snap'[b] = snap[b] /\ got'[b] = got[b]
        BY <2>2 DEF AgentStep
      <3> QED BY <3>1, <3>2 DEF PinnedInv
    <2> QED BY <2>1, <2>2
  <1>2. RuntimeEntries' = RuntimeEntries
    BY DEF AgentStep, RuntimeEntries
  <1>3. ASSUME NEW b \in Agents PROVE CollectInv(b)'
    <2>1. CASE b = a
      BY <2>1
    <2>2. CASE b # a
      <3>1. CollectInv(b)
        BY DEF SkillsInv, CatalogInv
      <3>2. col'[b] = col[b] /\ reg'.revision = reg.revision /\ UNCHANGED <<bound, content, dirty, runtime>>
        BY <2>2 DEF AgentStep
      <3>3. Due(col[b].todo)' = Due(col[b].todo)
        BY <3>2 DEF Due, Listed
      <3>4. Before(Reached(col[b]))' = Before(Reached(col[b]))
        BY <1>2, <3>2 DEF Before, Listed, Reached
      <3> QED BY <3>1, <3>2, <3>3, <3>4 DEF CollectInv, Fits, Collects
    <2> QED BY <2>1, <2>2
  <1>4. BoundInv'
    BY DEF SkillsInv, CatalogInv, BoundInv, AgentStep
  <1> QED BY <1>1, <1>3, <1>4 DEF SkillsInv, PinInv, CatalogInv

\* An agent that has no collection under way has nothing to show for it.
LEMMA IdleCollects ==
  ASSUME SkillsInv, NEW a \in Agents, AgentStep(a),
         col'[a].revision = 0, col'[a].pc \in {"idle", "lookup", "load"},
         col'[a].pc = "lookup" => col'[a].found = {} /\ col'[a].todo = <<>>
  PROVE  CollectInv(a)'
  <1>1. reg'.revision \in Nat
    BY DEF SkillsInv, TypeOK, RegTyped, AgentStep
  <1> QED BY <1>1 DEF CollectInv, Fits, Collects

\* While the registry is left alone its cache stays current.
LEMMA CacheKept ==
  ASSUME SkillsInv, reg' = reg, UNCHANGED <<bound, content, dirty, runtime>>
  PROVE  CacheIsCurrent'
  <1>1. Truth' = Truth
    BY DEF Truth, Winners, Beats, RuntimeEntries, Listed
  <1> QED BY <1>1 DEF SkillsInv, CatalogInv, CacheIsCurrent

\* A run that starts to collect, is cancelled, or loads an entry of its
\* snapshot.
LEMMA StartStep ==
  ASSUME SkillsInv, NEW a \in Agents, PrepareSkills(a) \/ Cancelled(a)
  PROVE  SkillsInv'
  <1>1. UNCHANGED <<regVars, snap, got>>
        /\ col' = [col EXCEPT ![a] = IF PrepareSkills(a) THEN [Idle EXCEPT !.pc = "lookup"] ELSE Idle]
    BY DEF PrepareSkills, Cancelled
  <1>2. [Idle EXCEPT !.pc = "lookup"] \in Collection /\ Idle \in Collection
    BY IdleTyped DEF Collection
  <1>3. TypeOK
    BY DEF SkillsInv
  <1>4. count' = count \/ count' = [count EXCEPT !.faults = @ + 1]
    BY DEF PrepareSkills, Cancelled
  <1>5. count' \in [changes : Nat, faults : Nat, loads : [Agents -> Nat]]
    BY <1>3, <1>4 DEF TypeOK, AgentsTyped
  <1>6. TypeOK'
    BY <1>1, <1>2, <1>3, <1>5 DEF TypeOK, RegTyped, AgentsTyped, regVars
  <1>7. AgentStep(a)
    BY <1>1, <1>3 DEF AgentStep, regVars, TypeOK, AgentsTyped
  <1>8. col'[a] = IF PrepareSkills(a) THEN [Idle EXCEPT !.pc = "lookup"] ELSE Idle
    BY <1>1, <1>3 DEF TypeOK, AgentsTyped
  <1>9. CollectInv(a)'
    BY <1>7, <1>8, IdleCollects DEF Idle
  <1>10. PinnedInv(a)'
    <2>1. PinnedInv(a) /\ snap' = snap /\ got' = got
      BY <1>1 DEF SkillsInv, PinInv
    <2>2. col'[a].pc # "load" /\ (a \in PinnedAgents /\ snap[a].has => col'[a].pc = "idle")
      BY <1>8 DEF PrepareSkills, Idle
    <2> QED BY <2>1, <2>2 DEF PinnedInv
  <1>11. OneEach(reg'.cache.entries) /\ CacheIsCurrent'
    BY <1>1, CacheKept DEF SkillsInv, PinInv, regVars
  <1> QED BY <1>6, <1>7, <1>9, <1>10, <1>11, AgentStepKeeps

LEMMA GetStep ==
  ASSUME SkillsInv, NEW a \in Agents, NEW n \in Names, Get(a, n)
  PROVE  SkillsInv'
  <1>1. UNCHANGED <<regVars, snap, got>> /\ snap[a].has /\ count' = [count EXCEPT !.loads[a] = @ + 1]
    BY DEF Get
  <1>2. PICK e \in snap[a].entries :
          col' = [col EXCEPT ![a] =
                    [Idle EXCEPT !.pc = "load", !.found = {e},
                                 !.todo = IF e.provider \in Providers THEN << <<e.provider, bound[e.provider]>> >> ELSE <<>>]]
    BY DEF Get
  <1> DEFINE todo == IF e.provider \in Providers THEN << <<e.provider, bound[e.provider]>> >> ELSE <<>>
             c == [Idle EXCEPT !.pc = "load", !.found = {e}, !.todo = todo]
  <1>3. TypeOK
    BY DEF SkillsInv
  <1>4. e \in Entry
    BY <1>3 DEF TypeOK, AgentsTyped, Snapshot
  <1>5. todo \in Seq(Providers \X Nat)
    <2>1. CASE e.provider \in Providers
      <3>1. <<e.provider, bound[e.provider]>> \in Providers \X Nat
        BY <1>3, <2>1 DEF TypeOK, RegTyped
      <3>2. \A x \in Providers \X Nat : <<x>> \in Seq(Providers \X Nat)
        OBVIOUS
      <3> QED BY <2>1, <3>1, <3>2
    <2>2. CASE e.provider \notin Providers
      BY <2>2
    <2> QED BY <2>1, <2>2
  <1> HIDE DEF todo
  <1>6. {e} \in SUBSET Entry
    BY <1>4
  <1>7. c \in Collection
    BY <1>5, <1>6, IdleTyped DEF Collection
  <1>8. col' = [col EXCEPT ![a] = c]
    BY <1>2 DEF todo
  <1>9. c.pc = "load" /\ c.revision = 0 /\ c.found = {e}
    BY DEF Idle
  <1> HIDE DEF c
  <1>10. count' \in [changes : Nat, faults : Nat, loads : [Agents -> Nat]]
    BY <1>1, <1>3 DEF TypeOK, AgentsTyped
  <1>11. TypeOK'
    BY <1>1, <1>3, <1>7, <1>8, <1>10 DEF TypeOK, RegTyped, AgentsTyped, regVars
  <1>12. AgentStep(a) /\ col'[a] = c
    BY <1>1, <1>3, <1>8 DEF AgentStep, regVars, TypeOK, AgentsTyped
  <1>13. CollectInv(a)'
    BY <1>9, <1>12, IdleCollects
  <1>14. PinnedInv(a)'
    <2>1. PinnedInv(a) /\ snap' = snap /\ got' = got
      BY <1>1 DEF SkillsInv, PinInv
    <2> QED BY <1>1, <1>9, <1>12, <2>1 DEF PinnedInv
  <1>15. OneEach(reg'.cache.entries) /\ CacheIsCurrent'
    BY <1>1, CacheKept DEF SkillsInv, PinInv, regVars
  <1> QED BY <1>11, <1>12, <1>13, <1>14, <1>15, AgentStepKeeps

\* What verifyPinned lets through is the entry of the snapshot.
LEMMA LoadStep ==
  ASSUME SkillsInv, NEW a \in Agents, Load(a)
  PROVE  SkillsInv'
  <1> DEFINE e == CHOOSE x \in col[a].found : TRUE
             g(v) == [name |-> e.name, provider |-> e.provider, version |-> v]
  <1>1. UNCHANGED <<regVars, snap, count>> /\ col' = [col EXCEPT ![a] = Idle] /\ col[a].pc = "load"
    BY DEF Load
  <1>2. got' = got \/ got' = [got EXCEPT ![a] = @ \cup {g(e.version)}]
    BY DEF Load, VerifyPinned
  <1>3. TypeOK /\ PinnedInv(a)
    BY DEF SkillsInv, PinInv
  <1>4. snap[a].has /\ \E x \in snap[a].entries : col[a].found = {x}
    BY <1>1, <1>3 DEF PinnedInv
  <1>5. e \in snap[a].entries
    BY <1>4
  <1> HIDE DEF e
  <1>6. e \in Entry
    BY <1>3, <1>5 DEF TypeOK, AgentsTyped, Snapshot
  <1>7. g(e.version) \in Given
    BY <1>6 DEF Entry, Given
  <1>8. TypeOK'
    <2>1. RegTyped'
      BY <1>1, <1>3 DEF TypeOK, RegTyped, regVars
    <2>2. got' \in [Agents -> SUBSET Given]
      BY <1>2, <1>3, <1>7 DEF TypeOK, AgentsTyped
    <2>3. col' \in [Agents -> Collection]
      BY <1>1, <1>3, IdleTyped DEF TypeOK, AgentsTyped
    <2> QED BY <1>1, <1>3, <2>1, <2>2, <2>3 DEF TypeOK, AgentsTyped
  <1>9. AgentStep(a) /\ col'[a] = Idle
    BY <1>1, <1>2, <1>3 DEF AgentStep, regVars, TypeOK, AgentsTyped
  <1>10. CollectInv(a)'
    BY <1>9, IdleCollects DEF Idle
  <1>11. \A h \in got'[a] : h \in got[a] \/ h = g(e.version)
    BY <1>2, <1>3 DEF TypeOK, AgentsTyped
  <1>12. PinnedInv(a)'
    <2>1. snap' = snap /\ col'[a].pc = "idle"
      BY <1>1, <1>9 DEF Idle
    <2>2. \A h \in got'[a] : a \in PinnedAgents => \E f \in snap[a].entries :
             h.name = f.name /\ h.provider = f.provider /\ h.version = f.version
      BY <1>3, <1>5, <1>11 DEF PinnedInv
    <2> QED BY <1>3, <1>4, <2>1, <2>2 DEF PinnedInv
  <1>13. OneEach(reg'.cache.entries) /\ CacheIsCurrent'
    BY <1>1, CacheKept DEF SkillsInv, PinInv, regVars
  <1> QED BY <1>8, <1>9, <1>10, <1>12, <1>13, AgentStepKeeps

\* The end of a refresh: the snapshot is a catalog, or what it was.
LEMMA RefreshedStep ==
  ASSUME SkillsInv, NEW a \in Agents, NEW entries \in SUBSET Entry, NEW complete \in BOOLEAN,
         Refreshed(a, entries, complete), OneEach(entries), Collects(col[a]) \/ col[a].pc = "lookup",
         UNCHANGED <<bound, active, content, dirty, runtime, got, count>>,
         reg' \in [revision : Nat, nextOrder : Nat, cache : Snapshot, keys : Nat],
         reg'.revision = reg.revision, reg'.nextOrder = reg.nextOrder,
         OneEach(reg'.cache.entries), CacheIsCurrent'
  PROVE  SkillsInv'
  <1>1. TypeOK /\ PinnedInv(a)
    BY DEF SkillsInv, PinInv
  <1>2. col' = [col EXCEPT ![a] = Idle]
        /\ snap' = IF complete THEN [snap EXCEPT ![a] = [has |-> TRUE, entries |-> entries]] ELSE snap
    BY DEF Refreshed
  <1>3. [has |-> TRUE, entries |-> entries] \in Snapshot
    BY DEF Snapshot
  <1>4. TypeOK'
    <2>1. RegTyped'
      BY <1>1 DEF TypeOK, RegTyped
    <2>2. snap' \in [Agents -> Snapshot] /\ col' \in [Agents -> Collection]
      BY <1>1, <1>2, <1>3, IdleTyped DEF TypeOK, AgentsTyped
    <2> QED BY <1>1, <2>1, <2>2 DEF TypeOK, AgentsTyped
  <1>5. AgentStep(a) /\ col'[a] = Idle
        /\ snap'[a] \in {snap[a], [has |-> TRUE, entries |-> entries]}
    BY <1>1, <1>2 DEF AgentStep, TypeOK, AgentsTyped
  <1>6. CollectInv(a)'
    BY <1>5, IdleCollects DEF Idle
  <1>7. PinnedInv(a)'
    <2>1. OneEach(snap'[a].entries)
      BY <1>1, <1>5 DEF PinnedInv
    <2>2. a \in PinnedAgents => ~snap[a].has
      BY <1>1 DEF PinnedInv, Collects
    <2>3. a \in PinnedAgents => \A g \in got[a] : FALSE
      BY <1>1, <2>2 DEF PinnedInv
    <2>4. col'[a].pc = "idle" /\ got' = got
      BY <1>5 DEF Idle
    <2> QED BY <2>1, <2>3, <2>4 DEF PinnedInv
  <1> QED BY <1>4, <1>5, <1>6, <1>7, AgentStepKeeps

\* A step of a collection that is not its end.
LEMMA CollectingStep ==
  ASSUME SkillsInv, NEW a \in Agents, NEW c \in Collection, col' = [col EXCEPT ![a] = c],
         Collects(col[a]) \/ col[a].pc = "lookup", Collects(c) \/ c.pc = "lookup",
         UNCHANGED <<regVars, snap, got>>,
         count' \in [changes : Nat, faults : Nat, loads : [Agents -> Nat]],
         Fits(c)
  PROVE  SkillsInv'
  <1>1. TypeOK /\ PinnedInv(a)
    BY DEF SkillsInv, PinInv
  <1>2. TypeOK'
    BY <1>1 DEF TypeOK, RegTyped, AgentsTyped, regVars
  <1>3. AgentStep(a) /\ col'[a] = c
    BY <1>1 DEF AgentStep, regVars, TypeOK, AgentsTyped
  <1>4. PinnedInv(a)'
    <2>1. snap' = snap /\ got' = got /\ (a \in PinnedAgents => ~snap[a].has)
      BY <1>1 DEF PinnedInv, Collects
    <2>2. col'[a].pc # "load"
      BY <1>3 DEF Collects
    <2> QED BY <1>1, <2>1, <2>2 DEF PinnedInv
  <1>5. OneEach(reg'.cache.entries) /\ CacheIsCurrent'
    BY CacheKept DEF SkillsInv, PinInv, regVars
  <1>6. CollectInv(a)'
    <2>1. Before(Reached(c))' = Before(Reached(c)) /\ Due(c.todo)' = Due(c.todo)
      BY DEF Before, RuntimeEntries, Listed, Due, regVars
    <2>2. Fits(c)'
      BY <2>1 DEF Fits, Collects, regVars, Reached
    <2> QED BY <1>3, <2>2 DEF CollectInv, Fits, Before, RuntimeEntries, Listed, Due, Reached, Collects
  <1> QED BY <1>2, <1>3, <1>4, <1>5, <1>6, AgentStepKeeps

\* The look into the cache, which holds a catalog or sends the agent to ask.
LEMMA LookupStep ==
  ASSUME SkillsInv, NEW a \in Agents, Lookup(a)
  PROVE  SkillsInv'
  <1>1. TypeOK /\ CollectInv(a) /\ col[a].pc = "lookup" /\ OneEach(reg.cache.entries)
    BY DEF SkillsInv, PinInv, CatalogInv, Lookup
  <1>2. reg \in [revision : Nat, nextOrder : Nat, cache : Snapshot, keys : Nat]
        /\ reg.cache.entries \in SUBSET Entry /\ col[a] \in Collection
    BY <1>1 DEF TypeOK, RegTyped, AgentsTyped, Snapshot
  <1>3. UNCHANGED <<regVars, got, count>>
    BY DEF Lookup
  <1>4. CASE reg.cache.has
    <2>1. Refreshed(a, reg.cache.entries, TRUE)
      BY <1>4 DEF Lookup
    <2>2. CacheIsCurrent'
      BY <1>3, CacheKept DEF regVars
    <2> QED BY <1>1, <1>2, <1>3, <2>1, <2>2, RefreshedStep DEF regVars
  <1>5. CASE ~reg.cache.has
    <2> DEFINE c == [col[a] EXCEPT !.pc = "layer", !.revision = reg.revision, !.scope = 1]
    <2>1. col' = [col EXCEPT ![a] = c] /\ snap' = snap
      BY <1>5 DEF Lookup
    <2>2. /\ c.pc = "layer" /\ c.revision = reg.revision /\ c.scope = 1
          /\ c.found = {} /\ c.todo = <<>>
      BY <1>1, <1>2 DEF CollectInv, Fits, Collection
    <2>3. c \in Collection
      BY <1>2 DEF Collection
    <2> HIDE DEF c
    <2>5. 1 \in 1..NumScopes /\ reg.revision <= reg.revision
      BY <1>2, SkillsAssumption
    <2>6. c.found \cup Due(c.todo) = Before(Reached(c))
      BY <2>2, BeforeProps, DueProps DEF Reached
    <2>7. Fits(c)
      BY <2>2, <2>5, <2>6 DEF Fits, Collects
    <2> QED BY <1>1, <1>3, <2>1, <2>2, <2>3, <2>7, CollectingStep DEF Collects, TypeOK, AgentsTyped
  <1> QED BY <1>4, <1>5

\* collectLayer adds what the host registered and has a list of who to ask.
LEMMA LayerStep ==
  ASSUME SkillsInv, NEW a \in Agents, Layer(a)
  PROVE  SkillsInv'
  <1> DEFINE c == col[a]
             here == {p \in Providers : bound[p] # 0 /\ ScopeOf[p] = c.scope}
             todo == InOrder(here)
             found == IF c.scope = 1 THEN c.found \cup RuntimeEntries ELSE c.found
             d == [c EXCEPT !.todo = todo, !.found = found]
  <1>1. TypeOK /\ Fits(c) /\ c.pc = "layer" /\ BoundInv
    BY DEF SkillsInv, CatalogInv, CollectInv, Layer
  <1>2. c \in Collection /\ RegTyped
    BY <1>1 DEF TypeOK, AgentsTyped
  <1>3. UNCHANGED <<regVars, snap, got, count>> /\ col' = [col EXCEPT ![a] = Onward(d)]
    BY DEF Layer
  <1>4. c.scope \in 1..NumScopes /\ c.todo = <<>> /\ c.revision <= reg.revision
    BY <1>1 DEF Fits, Collects
  <1>5. here \in SUBSET Providers /\ \A p \in here : bound[p] # 0
    OBVIOUS
  <1>6. /\ todo \in Seq(Providers \X Nat)
        /\ \A i \in DOMAIN todo : todo[i][1] \in here /\ todo[i][2] = bound[todo[i][1]]
        /\ Due(todo) = UNION {Listed(p, bound[p]) : p \in here}
    BY <1>1, <1>2, <1>5, InOrderProps, DueInOrder
  <1>7. found \in SUBSET Entry
    BY <1>2, ListedType DEF Collection
  <1>8. c.complete /\ c.revision = reg.revision /\ dirty = {} => found \cup Due(todo) = Before(c.scope + 1)
    <2> SUFFICES ASSUME c.complete, c.revision = reg.revision, dirty = {}
                 PROVE  found \cup Due(todo) = Before(c.scope + 1)
      OBVIOUS
    <2>1. c.found = Before(c.scope)
      <3>1. Collects(c) /\ Reached(c) = c.scope
        BY <1>1 DEF Collects, Reached
      <3>2. c.found \cup Due(c.todo) = Before(Reached(c))
        BY <1>1, <3>1 DEF Fits
      <3>3. Due(c.todo) = {}
        BY <1>4, DueProps
      <3> QED BY <3>1, <3>2, <3>3
    <2>2. Before(c.scope + 1) = Before(c.scope) \cup (IF c.scope = 1 THEN RuntimeEntries ELSE {})
             \cup UNION {Listed(p, bound[p]) : p \in here}
      BY <1>4, BeforeProps
    <2>3. found = Before(c.scope) \cup (IF c.scope = 1 THEN RuntimeEntries ELSE {})
      BY <2>1
    <2> QED BY <1>6, <2>2, <2>3
  <1> HIDE DEF todo, found, here
  <1>9. d.todo = todo /\ d.found = found /\ d.scope = c.scope /\ d.revision = c.revision
        /\ d.complete = c.complete /\ d \in Collection
    BY <1>2, <1>6, <1>7 DEF Collection
  <1>10. bound \in [Providers -> Nat] /\ \A p \in here : bound[p] # 0
    BY <1>2 DEF RegTyped, here
  <1> HIDE DEF d, c
  <1>11. /\ Onward(d) \in Collection /\ Collects(Onward(d))
         /\ Onward(d).revision = c.revision /\ Onward(d).todo = todo /\ Onward(d).found = found
         /\ Onward(d).complete = c.complete
         /\ Onward(d).pc = "list" <=> todo # <<>>
         /\ Onward(d).scope \in 1..NumScopes /\ (Onward(d).pc = "store" => Onward(d).scope = NumScopes)
         /\ Reached(Onward(d)) = c.scope + 1
    BY <1>4, <1>9, OnwardProps
  <1>12. Fits(Onward(d))
    BY <1>4, <1>6, <1>8, <1>10, <1>11 DEF Fits, Collects
  <1> QED BY <1>1, <1>2, <1>3, <1>11, <1>12, CollectingStep DEF TypeOK, AgentsTyped, Collects, c

\* A provider that answers gives what was due of it; one that was closed or
\* fails leaves the collection incomplete.
LEMMA ListStep ==
  ASSUME SkillsInv, NEW a \in Agents, List(a)
  PROVE  SkillsInv'
  <1> DEFINE c == col[a]
             p == Head(c.todo)[1]
             order == Head(c.todo)[2]
             next == [c EXCEPT !.todo = Tail(@)]
             d1 == [next EXCEPT !.found = @ \cup Listed(p, order)]
             d2 == [next EXCEPT !.complete = FALSE]
  <1>1. TypeOK /\ Fits(c) /\ c.pc = "list"
    BY DEF SkillsInv, CatalogInv, CollectInv, List
  <1>2. c \in Collection /\ RegTyped
    BY <1>1 DEF TypeOK, AgentsTyped
  <1>3. UNCHANGED <<regVars, snap, got>> /\ (count' = count \/ count' = [count EXCEPT !.faults = @ + 1])
        /\ (col' = [col EXCEPT ![a] = Onward(d1)] \/ col' = [col EXCEPT ![a] = Onward(d2)])
    BY DEF List
  <1>4. /\ c.scope \in 1..NumScopes /\ c.todo # <<>> /\ c.revision <= reg.revision
        /\ c.todo \in Seq(Providers \X Nat)
    BY <1>1, <1>2 DEF Fits, Collects, Collection
  <1>5. /\ p \in Providers /\ order \in Nat
        /\ Tail(c.todo) \in Seq(Providers \X Nat)
        /\ \A i \in DOMAIN Tail(c.todo) : i + 1 \in DOMAIN c.todo /\ Tail(c.todo)[i] = c.todo[i + 1]
        /\ Due(c.todo) = Listed(p, order) \cup Due(Tail(c.todo))
    BY <1>4, DueProps
  <1>6. Listed(p, order) \in SUBSET Entry
    BY <1>2, <1>5, ListedType
  <1> HIDE DEF p, order
  <1>7. /\ d1 \in Collection /\ d1.scope = c.scope /\ d1.revision = c.revision /\ d1.todo = Tail(c.todo)
        /\ d1.found = c.found \cup Listed(p, order) /\ d1.complete = c.complete
    BY <1>2, <1>5, <1>6 DEF Collection
  <1>8. /\ d2 \in Collection /\ d2.scope = c.scope /\ d2.revision = c.revision /\ d2.todo = Tail(c.todo)
        /\ d2.complete = FALSE
    BY <1>2, <1>5 DEF Collection
  <1>9. /\ c.revision = reg.revision =>
              \A i \in DOMAIN Tail(c.todo) :
                 Tail(c.todo)[i][2] = bound[Tail(c.todo)[i][1]] /\ Tail(c.todo)[i][2] # 0
        /\ c.complete /\ c.revision = reg.revision /\ dirty = {} =>
              c.found \cup Due(c.todo) = Before(c.scope + 1)
    BY <1>1, <1>5 DEF Fits, Collects, Reached
  <1> HIDE DEF c, d1, d2, next
  <1>10. ASSUME NEW d \in Collection, d.scope = c.scope, d.revision = c.revision, d.todo = Tail(c.todo),
                d.complete => c.complete /\ d.found = c.found \cup Listed(p, order)
         PROVE  Onward(d) \in Collection /\ Collects(Onward(d)) /\ Fits(Onward(d))
    <2>1. /\ Onward(d) \in Collection /\ Collects(Onward(d))
          /\ Onward(d).revision = c.revision /\ Onward(d).todo = Tail(c.todo) /\ Onward(d).found = d.found
          /\ Onward(d).complete = d.complete
          /\ Onward(d).pc = "list" <=> Tail(c.todo) # <<>>
          /\ Onward(d).scope \in 1..NumScopes /\ (Onward(d).pc = "store" => Onward(d).scope = NumScopes)
          /\ Reached(Onward(d)) = c.scope + 1
      BY <1>4, <1>10, OnwardProps
    <2>2. d.complete /\ c.revision = reg.revision /\ dirty = {} =>
             d.found \cup Due(Tail(c.todo)) = Before(c.scope + 1)
      BY <1>5, <1>9, <1>10
    <2> QED BY <1>4, <1>9, <2>1, <2>2 DEF Fits, Collects
  <1>11. count' \in [changes : Nat, faults : Nat, loads : [Agents -> Nat]]
    BY <1>1, <1>3 DEF TypeOK, AgentsTyped
  <1>12. Collects(col[a])
    BY <1>1 DEF Collects, c
  <1>13. CASE col' = [col EXCEPT ![a] = Onward(d1)]
    BY <1>3, <1>7, <1>10, <1>11, <1>12, <1>13, CollectingStep
  <1>14. CASE col' = [col EXCEPT ![a] = Onward(d2)]
    BY <1>3, <1>8, <1>10, <1>11, <1>12, <1>14, CollectingStep
  <1> QED BY <1>3, <1>13, <1>14

\* The end of an attempt caches what a complete collection under the revision
\* of the registry has found.
LEMMA StoreStep ==
  ASSUME SkillsInv, NEW a \in Agents, Store(a)
  PROVE  SkillsInv'
  <1> DEFINE c == col[a]
             entries == Winners(c.found)
  <1>1. TypeOK /\ Fits(c) /\ c.pc = "store" /\ OneEach(reg.cache.entries) /\ CacheIsCurrent
    BY DEF SkillsInv, CatalogInv, CollectInv, PinInv, Store
  <1>2. c \in Collection /\ RegTyped /\ Collects(c)
    BY <1>1 DEF TypeOK, AgentsTyped, Collects
  <1>3. entries \in SUBSET Entry /\ OneEach(entries)
    BY <1>2, WinnersProps DEF Collection
  <1>4. UNCHANGED <<bound, active, content, dirty, runtime, got, count>>
    BY DEF Store
  <1>5. CASE c.revision # reg.revision /\ c.attempt + 1 < MaxCollectAttempts
    <2> DEFINE d == [Idle EXCEPT !.pc = "lookup", !.attempt = c.attempt + 1]
    <2>1. col' = [col EXCEPT ![a] = d] /\ reg' = reg /\ snap' = snap
      <3>1. c.attempt + 1 # MaxCollectAttempts
        BY <1>2, <1>5 DEF MaxCollectAttempts, Collection
      <3> QED BY <1>5, <3>1 DEF Store
    <2>2. d \in Collection /\ d.pc = "lookup" /\ d.found = {} /\ d.todo = <<>> /\ d.revision = 0
      <3>1. c.attempt + 1 \in Nat
        BY <1>2 DEF Collection
      <3>2. d \in Collection
        BY <3>1, IdleTyped DEF Collection
      <3> QED BY <3>2 DEF Idle
    <2> HIDE DEF d
    <2>3. Fits(d)
      BY <1>2, <2>2 DEF Fits, Collects, RegTyped
    <2> QED BY <1>1, <1>2, <1>4, <2>1, <2>2, <2>3, CollectingStep DEF regVars, TypeOK, AgentsTyped
  <1>6. CASE c.revision # reg.revision /\ ~(c.attempt + 1 < MaxCollectAttempts)
    <2>1. Refreshed(a, entries, FALSE) /\ reg' = reg
      BY <1>6 DEF Store, MaxCollectAttempts
    <2>2. CacheIsCurrent'
      BY <1>4, <2>1, CacheKept
    <2> QED BY <1>1, <1>2, <1>3, <1>4, <2>1, <2>2, RefreshedStep DEF RegTyped
  <1>7. CASE c.revision = reg.revision
    <2>1. Refreshed(a, entries, c.complete) /\ c.complete \in BOOLEAN
      BY <1>2, <1>7 DEF Store, Collection
    <2>2. \/ reg' = reg
          \/ c.complete /\ reg' = [reg EXCEPT !.cache = [has |-> TRUE, entries |-> entries], !.keys = @ + 1]
          \/ reg' = [reg EXCEPT !.cache = None]
      BY <1>7 DEF Store
    <2>3. Truth' = Truth
      BY <1>4 DEF Truth, Winners, Beats, RuntimeEntries, Listed
    <2>4. c.complete /\ dirty = {} => entries = Truth
      <3>1. c.todo = <<>> /\ c.scope = NumScopes /\ Reached(c) = NumScopes + 1
        BY <1>1, <1>2 DEF Fits, Collects, Reached
      <3>2. c.complete /\ dirty = {} => c.found = Before(NumScopes + 1)
        BY <1>1, <1>2, <1>7, <3>1, DueProps DEF Fits
      <3> QED BY <3>2, BeforeProps
    <2>5. [has |-> TRUE, entries |-> entries] \in Snapshot
      BY <1>3 DEF Snapshot
    <2> HIDE DEF c, entries
    <2>6. CASE reg' = reg
      <3>1. CacheIsCurrent'
        BY <1>4, <2>6, CacheKept
      <3> QED BY <1>1, <1>2, <1>3, <1>4, <2>1, <2>6, <3>1, RefreshedStep DEF RegTyped, c
    <2>7. CASE c.complete /\ reg' = [reg EXCEPT !.cache = [has |-> TRUE, entries |-> entries], !.keys = @ + 1]
      <3>1. /\ reg' \in [revision : Nat, nextOrder : Nat, cache : Snapshot, keys : Nat]
            /\ reg'.revision = reg.revision /\ reg'.nextOrder = reg.nextOrder
            /\ reg'.cache = [has |-> TRUE, entries |-> entries]
        <4>1. reg \in [revision : Nat, nextOrder : Nat, cache : Snapshot, keys : Nat]
          BY <1>2 DEF RegTyped
        <4>2. ASSUME NEW s \in Snapshot, NEW r \in [revision : Nat, nextOrder : Nat, cache : Snapshot, keys : Nat]
              PROVE  LET q == [r EXCEPT !.cache = s, !.keys = @ + 1]
                     IN  /\ q \in [revision : Nat, nextOrder : Nat, cache : Snapshot, keys : Nat]
                         /\ q.revision = r.revision /\ q.nextOrder = r.nextOrder /\ q.cache = s
          <5>1. r.keys + 1 \in Nat
            OBVIOUS
          <5> QED BY <5>1
        <4> QED BY <2>5, <2>7, <4>1, <4>2
      <3>2. CacheIsCurrent'
        BY <1>4, <2>3, <2>4, <2>7, <3>1 DEF CacheIsCurrent
      <3>3. OneEach(reg'.cache.entries)
        BY <1>3, <3>1
      <3> QED BY <1>2, <1>3, <1>4, <2>1, <3>1, <3>2, <3>3, RefreshedStep DEF c
    <2>8. CASE reg' = [reg EXCEPT !.cache = None]
      <3>1. /\ reg' \in [revision : Nat, nextOrder : Nat, cache : Snapshot, keys : Nat]
            /\ reg'.revision = reg.revision /\ reg'.nextOrder = reg.nextOrder /\ reg'.cache = None
        BY <1>2, <2>8, IdleTyped DEF RegTyped
      <3>2. CacheIsCurrent' /\ OneEach(reg'.cache.entries)
        BY <3>1, IdleTyped DEF CacheIsCurrent, None
      <3> QED BY <1>2, <1>3, <1>4, <2>1, <3>1, <3>2, RefreshedStep DEF c
    <2> QED BY <2>2, <2>6, <2>7, <2>8
  <1> QED BY <1>5, <1>6, <1>7

-----------------------------------------------------------------------------
(* The theorems. *)

LEMMA SkillsInvInit == Init => SkillsInv
  <1> SUFFICES ASSUME Init PROVE SkillsInv
    OBVIOUS
  <1>1. TypeOK
    BY IdleTyped DEF Init, TypeOK, RegTyped, AgentsTyped
  <1>2. PinInv
    BY IdleTyped DEF Init, PinInv, PinnedInv, Idle, None
  <1>3. BoundInv /\ CacheIsCurrent
    BY DEF Init, BoundInv, CacheIsCurrent, None
  <1>4. \A a \in Agents : CollectInv(a)
    BY DEF Init, CollectInv, Fits, Collects, Idle
  <1> QED BY <1>1, <1>2, <1>3, <1>4 DEF SkillsInv, CatalogInv

\* Registry and runtimes keep SkillsInv: one entry for a name in every
\* catalog, a pinned agent that was given entries of its snapshot only, and
\* collections that found what is there unless something overtook them.
THEOREM SkillsSafe == Spec => []SkillsInv
  <1>1. SkillsInv /\ [Next]_vars => SkillsInv'
    <2> SUFFICES ASSUME SkillsInv, [Next]_vars PROVE SkillsInv'
      OBVIOUS
    <2>1. ASSUME NEW p \in Providers,
                 RegisterProvider(p) \/ CloseStarts(p) \/ CloseEnds(p) \/ ContentChanges(p) \/ Invalidate(p)
          PROVE  SkillsInv'
      BY <2>1, RegisterStep, InvalidatingStep, QuietStep
    <2>2. ASSUME NEW n \in RuntimeNames, Register(n) \/ DisposeRuntime(n) PROVE SkillsInv'
      BY <2>2, InvalidatingStep
    <2>3. ASSUME NEW a \in Agents, PrepareSkills(a) \/ Collecting(a) \/ Cancelled(a) PROVE SkillsInv'
      BY <2>3, StartStep, LookupStep, LayerStep, ListStep, StoreStep, LoadStep DEF Collecting
    <2>4. ASSUME NEW a \in Agents, NEW n \in Names, Get(a, n) PROVE SkillsInv'
      BY <2>4, GetStep
    <2>5. CASE UNCHANGED vars
      <3>1. UNCHANGED <<bound, active, content, dirty, runtime, reg, col, snap, got, count>>
        BY <2>5 DEF vars, regVars, agentVars
      <3>2. TypeOK' /\ PinInv'
        BY <3>1 DEF SkillsInv, TypeOK, RegTyped, AgentsTyped, PinInv, PinnedInv
      <3>3. CacheIsCurrent'
        BY <3>1, CacheKept
      <3>4. BoundInv'
        BY <3>1 DEF SkillsInv, CatalogInv, BoundInv
      <3>5. \A a \in Agents : CollectInv(a)'
        BY <3>1 DEF SkillsInv, CatalogInv, CollectInv, Fits, Collects, Reached, Before, Due, Listed, RuntimeEntries
      <3> QED BY <3>2, <3>3, <3>4, <3>5 DEF SkillsInv, CatalogInv
    <2> QED BY <2>1, <2>2, <2>3, <2>4, <2>5 DEF Next
  <1> QED BY <1>1, SkillsInvInit, PTL DEF Spec

\* The cache of the registry is what a fresh collection would return once all
\* changes are reported, for any providers, scopes and agents, and however
\* their collections meet registrations, changes and closings (collect,
\* registry.go:328).
THEOREM CacheCurrent == Spec => []CacheIsCurrent
  <1>1. SkillsInv => CacheIsCurrent
    BY DEF SkillsInv, CatalogInv
  <1> QED BY <1>1, SkillsSafe, PTL

\* A pinned agent is given one content under a name, whatever is registered
\* under the provider's name when it loads (LoadPinned, registry.go:284).
THEOREM PinStable == Spec => []PinIsStable
  <1>1. SkillsInv => PinIsStable
    <2> SUFFICES ASSUME SkillsInv, NEW a \in PinnedAgents, NEW e \in got[a], NEW f \in got[a], e.name = f.name
                 PROVE  e = f
      BY DEF PinIsStable
    <2>1. a \in Agents /\ PinnedInv(a) /\ got[a] \in SUBSET Given
      BY SkillsAssumption DEF SkillsInv, PinInv, TypeOK, AgentsTyped
    <2>2. PICK x \in snap[a].entries : e.name = x.name /\ e.provider = x.provider /\ e.version = x.version
      BY <2>1 DEF PinnedInv
    <2>3. PICK y \in snap[a].entries : f.name = y.name /\ f.provider = y.provider /\ f.version = y.version
      BY <2>1 DEF PinnedInv
    <2>4. x = y
      BY <2>1, <2>2, <2>3 DEF PinnedInv, OneEach
    <2> QED BY <2>1, <2>2, <2>3, <2>4 DEF Given
  <1> QED BY <1>1, SkillsSafe, PTL
=============================================================================

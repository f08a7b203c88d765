------------------------------- MODULE Skills -------------------------------
(***************************************************************************)
(* skill.Registry, which merges the skills that providers and the host     *)
(* register into a catalog behind a cache, and skill.Runtime, the view an  *)
(* agent has of it: a snapshot refreshed before a step, or pinned once,    *)
(* against which the agent loads skills.                                   *)
(*                                                                         *)
(* The Registry's lock is not held while a provider is asked, so a         *)
(* collection is many steps: the look into the cache, one snapshot per     *)
(* scope, one List per provider, and the comparison of the revision that   *)
(* decides whether the result may be cached.                               *)
(*                                                                         *)
(* A skill is its name and the version of its content (its hash); wording, *)
(* validation and invocation policies are data.  All agents list the same  *)
(* scopes: one cache key per revision.                                     *)
(***************************************************************************)
EXTENDS Integers, Sequences, FiniteSets, Ordered

CONSTANTS Providers,     \* providers that may be registered
          Names,         \* names of skills
          RuntimeNames,  \* names the host registers itself
          Offers,        \* provider -> names it offers
          NumScopes,     \* length of the request's list of scopes, the root scope included
          ScopeOf,       \* provider -> position of its scope in the request
          RankOf,        \* provider, or "runtime" -> rank
          Agents,        \* agents, each with a Runtime of its own
          PinnedAgents,  \* those with RuntimeOptions.Pinned
          MaxCache,      \* Registry.maxCacheEntries
          MaxChanges,    \* bound: changes of registrations and contents
          MaxFaults,     \* bound: failed Lists and cancelled contexts
          MaxLoads       \* bound: agent -> loads

ASSUME SkillsAssumption ==
    /\ IsFiniteSet(Providers) /\ NumScopes \in Nat \ {0}
    /\ Offers \in [Providers -> SUBSET Names]
    /\ ScopeOf \in [Providers -> 1..NumScopes]
    /\ RankOf \in [Providers \cup {"runtime"} -> Nat]
    /\ "runtime" \notin Providers
    /\ PinnedAgents \subseteq Agents /\ RuntimeNames \subseteq Names
    /\ {MaxCache, MaxChanges, MaxFaults} \subseteq Nat /\ MaxLoads \in [Agents -> Nat]

MaxCollectAttempts == 2

VARIABLES bound,    \* provider -> order of its binding in its layer, 0 for none
          active,   \* provider -> providerBinding.active of that binding
          content,  \* provider -> version of what it offers
          dirty,    \* registered providers that changed and did not say so yet
          runtime,  \* name -> version of the skill the host registered, or 0
          reg,      \* revision, nextOrder, cache and the length of cacheOrder
          col,      \* agent -> where its collection or load is
          snap,     \* agent -> Runtime.snapshot
          got,      \* agent -> what it was given, for the properties
          count     \* what the bounds cap

regVars == <<bound, active, content, dirty, runtime, reg>>
agentVars == <<col, snap, got>>
vars == <<regVars, agentVars, count>>

None == [has |-> FALSE, entries |-> {}]
Idle == [pc |-> "idle", attempt |-> 0, revision |-> 0, scope |-> 0, todo |-> <<>>,
         found |-> {}, complete |-> TRUE]

Init ==
    /\ bound = [p \in Providers |-> 0]
    /\ active = [p \in Providers |-> FALSE]
    /\ content = [p \in Providers |-> 1]
    /\ dirty = {}
    /\ runtime = [n \in RuntimeNames |-> 0]
    /\ reg = [revision |-> 0, nextOrder |-> 0, cache |-> None, keys |-> 0]
    /\ col = [a \in Agents |-> Idle]
    /\ snap = [a \in Agents |-> None]
    /\ got = [a \in Agents |-> {}]
    /\ count = [changes |-> 0, faults |-> 0, loads |-> [a \in Agents |-> 0]]

-----------------------------------------------------------------------------
(* Registrations. *)

Changing == count.changes < MaxChanges /\ count' = [count EXCEPT !.changes = @ + 1]

\* Mutant: the cache survives a new revision.
Invalidated_KeepsCache(r) == [r EXCEPT !.revision = @ + 1]

\* invalidateLocked.
Invalidated(r) == [revision |-> r.revision + 1, nextOrder |-> r.nextOrder, cache |-> None, keys |-> 0]

\* A name that is still in its layer is refused, a binding that is being closed
\* included.
RegisterProvider(p) ==
    /\ bound[p] = 0 /\ Changing
    /\ reg' = Invalidated([reg EXCEPT !.nextOrder = @ + 1])
    /\ bound' = [bound EXCEPT ![p] = reg.nextOrder + 1]
    /\ active' = [active EXCEPT ![p] = TRUE]
    /\ UNCHANGED <<content, dirty, runtime, agentVars>>

\* Registration.Close, first half: active.Swap(false), outside the lock.
CloseStarts(p) ==
    /\ bound[p] # 0 /\ active[p] /\ Changing
    /\ active' = [active EXCEPT ![p] = FALSE]
    /\ UNCHANGED <<bound, content, dirty, runtime, reg, agentVars>>

\* Second half, under the lock; then the binding's context is cancelled.
CloseEnds(p) ==
    /\ bound[p] # 0 /\ ~active[p]
    /\ bound' = [bound EXCEPT ![p] = 0]
    /\ dirty' = dirty \ {p}
    /\ reg' = Invalidated(reg)
    /\ UNCHANGED <<active, content, runtime, agentVars, count>>

\* A provider's skills change (MemoryProvider.Set, a file on disk).
ContentChanges(p) ==
    /\ Changing
    /\ content' = [content EXCEPT ![p] = @ + 1]
    /\ dirty' = IF bound[p] # 0 THEN dirty \cup {p} ELSE dirty
    /\ UNCHANGED <<bound, active, runtime, reg, agentVars>>

\* Its owner says so with Registration.Invalidate, which a closed one ignores.
Invalidate(p) ==
    /\ p \in dirty /\ active[p]
    /\ reg' = Invalidated(reg)
    /\ dirty' = dirty \ {p}
    /\ UNCHANGED <<bound, active, content, runtime, agentVars, count>>

\* Registry.Register; a second registration of the name changes nothing.
Register(n) ==
    /\ runtime[n] = 0 /\ Changing
    /\ runtime' = [runtime EXCEPT ![n] = count.changes + 1]
    /\ reg' = Invalidated(reg)
    /\ UNCHANGED <<bound, active, content, dirty, agentVars>>

\* The function Register returned.
DisposeRuntime(n) ==
    /\ runtime[n] # 0 /\ Changing
    /\ runtime' = [runtime EXCEPT ![n] = 0]
    /\ reg' = Invalidated(reg)
    /\ UNCHANGED <<bound, active, content, dirty, agentVars>>

-----------------------------------------------------------------------------
(* Merging. *)

\* What a provider lists, and what the host registered in the root scope.
Listed(p, order) ==
    {[name |-> n, provider |-> p, version |-> content[p], scope |-> ScopeOf[p],
      rank |-> RankOf[p], order |-> order] : n \in Offers[p]}
RuntimeEntries ==
    {[name |-> n, provider |-> "runtime", version |-> runtime[n], scope |-> 1,
      rank |-> RankOf["runtime"], order |-> 0] : n \in {m \in RuntimeNames : runtime[m] # 0}}

\* Within a scope the lowest rank wins, then the earliest registration; a later
\* scope of the request hides the earlier ones whatever the ranks.
Beats(e, f) ==
    \/ e.scope > f.scope
    \/ e.scope = f.scope /\ e.rank < f.rank
    \/ e.scope = f.scope /\ e.rank = f.rank /\ e.order < f.order
Winners(found) ==
    {e \in found : \A f \in found : f.name = e.name /\ f # e => Beats(e, f)}

-----------------------------------------------------------------------------
(* Refreshing: prepareSkills calls Runtime.Refresh before a step. *)

\* The end of Refresh: an incomplete catalog leaves the snapshot as it is;
\* without one it is ErrIncompleteCatalog, which prepareSkills tolerates.  The
\* Runtime belongs to the agent, so this is one step with the end of collect.
Refreshed(a, entries, complete) ==
    /\ snap' = IF complete THEN [snap EXCEPT ![a] = [has |-> TRUE, entries |-> entries]] ELSE snap
    /\ col' = [col EXCEPT ![a] = Idle]

\* Mutant: a pinned runtime refreshes like any other.
PrepareSkills_Unpinned(a) ==
    /\ col[a].pc = "idle"
    /\ col' = [col EXCEPT ![a] = [Idle EXCEPT !.pc = "lookup"]]
    /\ UNCHANGED <<regVars, snap, got, count>>

\* A pinned runtime that has a snapshot keeps it.
PrepareSkills(a) ==
    /\ col[a].pc = "idle"
    /\ ~(a \in PinnedAgents /\ snap[a].has)
    /\ col' = [col EXCEPT ![a] = [Idle EXCEPT !.pc = "lookup"]]
    /\ UNCHANGED <<regVars, snap, got, count>>

\* collect: the revision and the cache are read together.
Lookup(a) ==
    /\ col[a].pc = "lookup"
    /\ IF reg.cache.has
         THEN Refreshed(a, reg.cache.entries, TRUE)
         ELSE /\ col' = [col EXCEPT ![a] = [@ EXCEPT !.pc = "layer", !.revision = reg.revision, !.scope = 1]]
              /\ UNCHANGED snap
    /\ UNCHANGED <<regVars, got, count>>

\* With no provider of the layer left, on to the next scope or to the end.
Onward(c) ==
    CASE c.todo # <<>> -> [c EXCEPT !.pc = "list"]
      [] c.todo = <<>> /\ c.scope < NumScopes -> [c EXCEPT !.pc = "layer", !.scope = @ + 1]
      [] OTHER -> [c EXCEPT !.pc = "store"]

\* The bindings of providers, by registration.
InOrder(here) ==
    LET orders == Sorted({bound[p] : p \in here})
    IN  [i \in DOMAIN orders |-> <<CHOOSE p \in here : bound[p] = orders[i], orders[i]>>]

\* collectLayer: the runtime skills and the bindings of a scope, oldest first.
Layer(a) ==
    LET c == col[a]
        here == {p \in Providers : bound[p] # 0 /\ ScopeOf[p] = c.scope}
    IN  /\ c.pc = "layer"
        /\ col' = [col EXCEPT ![a] =
                     Onward([c EXCEPT !.todo = InOrder(here),
                                      !.found = IF c.scope = 1 THEN @ \cup RuntimeEntries ELSE @])]
        /\ UNCHANGED <<regVars, snap, got, count>>

\* The next provider of the layer is asked.  One that was closed, or fails,
\* leaves the catalog incomplete.
List(a) ==
    LET c == col[a]
        p == Head(c.todo)[1]
        order == Head(c.todo)[2]
        open == bound[p] = order /\ active[p]
        next == [c EXCEPT !.todo = Tail(@)]
    IN  /\ c.pc = "list"
        /\ \/ /\ open
              /\ col' = [col EXCEPT ![a] = Onward([next EXCEPT !.found = @ \cup Listed(p, order)])]
              /\ UNCHANGED count
           \/ /\ ~open
              /\ col' = [col EXCEPT ![a] = Onward([next EXCEPT !.complete = FALSE])]
              /\ UNCHANGED count
           \/ /\ open /\ count.faults < MaxFaults
              /\ col' = [col EXCEPT ![a] = Onward([next EXCEPT !.complete = FALSE])]
              /\ count' = [count EXCEPT !.faults = @ + 1]
        /\ UNCHANGED <<regVars, snap, got>>

\* Mutant: a result is cached without a look at the revision.
Store_AnyRevision(a) ==
    LET c == col[a]
        entries == Winners(c.found)
    IN  /\ c.pc = "store"
        /\ Refreshed(a, entries, c.complete)
        /\ reg' = IF c.complete THEN [reg EXCEPT !.cache = [has |-> TRUE, entries |-> entries]] ELSE reg
        /\ UNCHANGED <<bound, active, content, dirty, runtime, got, count>>

\* The end of an attempt: overtaken by another revision it is repeated, the
\* last one returned as incomplete; otherwise a complete result is cached.  The
\* key enters cacheOrder once per collection that missed it, so at the limit a
\* second one evicts what it has just written.
Store(a) ==
    LET c == col[a]
        entries == Winners(c.found)
        same == c.revision = reg.revision
    IN  /\ c.pc = "store"
        /\ \/ /\ ~same /\ c.attempt + 1 < MaxCollectAttempts
              /\ col' = [col EXCEPT ![a] = [Idle EXCEPT !.pc = "lookup", !.attempt = c.attempt + 1]]
              /\ UNCHANGED <<reg, snap>>
           \/ /\ ~same /\ c.attempt + 1 = MaxCollectAttempts
              /\ Refreshed(a, entries, FALSE)
              /\ UNCHANGED reg
           \/ /\ same
              /\ Refreshed(a, entries, c.complete)
              /\ reg' = CASE ~c.complete -> reg
                          [] c.complete /\ reg.keys < MaxCache ->
                               [reg EXCEPT !.cache = [has |-> TRUE, entries |-> entries], !.keys = @ + 1]
                          [] OTHER -> [reg EXCEPT !.cache = None]
        /\ UNCHANGED <<bound, active, content, dirty, runtime, got, count>>

\* The run's context is cancelled during a collection or a load.
Cancelled(a) ==
    /\ col[a].pc # "idle" /\ count.faults < MaxFaults
    /\ count' = [count EXCEPT !.faults = @ + 1]
    /\ col' = [col EXCEPT ![a] = Idle]
    /\ UNCHANGED <<regVars, snap, got>>

-----------------------------------------------------------------------------
(* Loading. *)

Open(p) == bound[p] # 0 /\ active[p]

\* GetModel or GetUser of a skill that is not loaded yet, or a resource of one
\* that is (ResolveLoadedResource, so any number of them): LoadPinned takes the snapshot's entry to
\* whatever is registered under its provider's name now.  Without it, an error.
Get(a, n) ==
    /\ col[a].pc = "idle" /\ snap[a].has /\ count.loads[a] < MaxLoads[a]
    /\ \E e \in snap[a].entries :
          /\ e.name = n
          /\ e.provider \in Providers => Open(e.provider)
          /\ col' = [col EXCEPT ![a] =
                       [Idle EXCEPT !.pc = "load", !.found = {e},
                                    !.todo = IF e.provider \in Providers THEN << <<e.provider, bound[e.provider]>> >> ELSE <<>>]]
    /\ count' = [count EXCEPT !.loads[a] = @ + 1]
    /\ UNCHANGED <<regVars, snap, got>>

VerifyPinned(e, version) == version = e.version

\* The provider's Get, cut short when its binding is closed; verifyPinned.
Load(a) ==
    LET c == col[a]
        e == CHOOSE x \in c.found : TRUE
        version == IF c.todo = <<>> THEN runtime[e.name] ELSE content[e.provider]
        open == c.todo # <<>> => bound[e.provider] = c.todo[1][2] /\ active[e.provider]
    IN  /\ c.pc = "load"
        /\ got' = IF open /\ VerifyPinned(e, version)
                    THEN [got EXCEPT ![a] = @ \cup {[name |-> e.name, provider |-> e.provider, version |-> version]}]
                    ELSE got
        /\ col' = [col EXCEPT ![a] = Idle]
        /\ UNCHANGED <<regVars, snap, count>>

-----------------------------------------------------------------------------
(* The specification. *)

Collecting(a) ==
    Lookup(a) \/ Layer(a) \/ List(a) \/ Store(a) \/ Load(a)

Next ==
    \/ \E p \in Providers :
          RegisterProvider(p) \/ CloseStarts(p) \/ CloseEnds(p) \/ ContentChanges(p) \/ Invalidate(p)
    \/ \E n \in RuntimeNames : Register(n) \/ DisposeRuntime(n)
    \/ \E a \in Agents : PrepareSkills(a) \/ Collecting(a) \/ Cancelled(a)
    \/ \E a \in Agents, n \in Names : Get(a, n)

Spec == Init /\ [][Next]_vars

\* An agent goes on taking steps, each of which refreshes; Close runs to its
\* end, and the owner of a provider reports its changes.
FairSpec ==
    /\ Spec
    /\ \A a \in Agents : WF_vars(PrepareSkills(a)) /\ WF_vars(Collecting(a))
    /\ \A p \in Providers : WF_vars(CloseEnds(p)) /\ WF_vars(Invalidate(p))

-----------------------------------------------------------------------------
(* Properties. *)

\* What a collection nothing interferes with would return.
Truth ==
    Winners(RuntimeEntries \cup UNION {Listed(p, bound[p]) : p \in {q \in Providers : bound[q] # 0}})

\* The cache is never out of date: once every provider has reported its
\* changes, a cached catalog is what a fresh collection would give, however
\* registrations and other collections interleaved with the one that wrote it.
CacheIsCurrent == reg.cache.has /\ dirty = {} => reg.cache.entries = Truth

\* In a pinned run a skill has one content: what the agent is given under a
\* name, instructions first and resources later, is of one provider and one
\* version, whoever is registered under that provider's name by then.
PinIsStable ==
    \A a \in PinnedAgents : \A e, f \in got[a] : e.name = f.name => e = f

\* An agent that is not pinned catches up: when the changes stop, its snapshot
\* becomes the current catalog and stays it.
CatchesUp ==
    \A a \in Agents \ PinnedAgents : <>[](snap[a].has /\ snap[a].entries = Truth)

=============================================================================

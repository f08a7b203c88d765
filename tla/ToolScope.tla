----------------------------- MODULE ToolScope -----------------------------
(***************************************************************************)
(* tools.Scope over a tools.Registry: definitions registered in the root   *)
(* and in the agent's scope, the scope's allow and deny masks, and the     *)
(* handles (tools.Registration) that take a registration or a mask back.   *)
(*                                                                         *)
(* A tool is its name.  Schemas are valid where Register demands it; what  *)
(* the model tells apart of a definition is who registered it.             *)
(***************************************************************************)
EXTENDS Integers, Sequences, FiniteSets

CONSTANTS Names,        \* tool names, without the reserved "run_code"
          Presentation, \* "native", "code" or "both", with a code runtime
          MaskSets,     \* the sets of names the host masks
          MaxChanges    \* bound: registrations, masks and removals by name in one behaviour

ASSUME ToolScopeAssumption ==
    /\ Presentation \in {"native", "code", "both"}
    /\ MaxChanges \in Nat /\ "run_code" \notin Names
    /\ MaskSets \subseteq (SUBSET Names) \ {{}}

VARIABLES root,    \* name -> handle that registered it in the Registry; 0: not there
          local,   \* name -> handle that registered it in the Scope; 0: not there
          allow,   \* Scope.allow; {}: no mask
          deny,    \* Scope.deny
          handles, \* the Registrations given out, in order
          strays   \* history: names removed by name, masks taken back out of order

scopeVars == <<root, local, allow, deny, handles, strays>>

Callable == Names \cup {"run_code"}

\* The root starts with a definition of every name, registered without a handle.
ScopeInit ==
    /\ root = [n \in Names |-> -1]
    /\ local = [n \in Names |-> 0]
    /\ allow = {} /\ deny = {}
    /\ handles = <<>>
    /\ strays = [names |-> {}, order |-> FALSE]

Known(defs, n) == n \in Names /\ defs[n] # 0

-----------------------------------------------------------------------------
(* What a name means to the scope. *)

VisibleInherited(n) == n \notin deny /\ (allow # {} => n \in allow)

\* Registry.run finds a definition of n among defs.
Defined(defs, n) ==
    \/ n = "run_code" /\ Presentation # "native"
    \/ Presentation # "code" /\ Known(defs, n)

\* Scope.executionMode, with the definitions of SafeTools opting in.
Mode(n, SafeTools) ==
    /\ n \in SafeTools
    /\ Known(local, n) \/ (VisibleInherited(n) /\ Known(root, n))

-----------------------------------------------------------------------------
(* Handles. *)

Changes == Len(handles) + Cardinality(strays.names)

Give(kind, names, previous) ==
    /\ Changes < MaxChanges
    /\ handles' = Append(handles, [kind |-> kind, names |-> names, previous |-> previous, live |-> TRUE])

\* Scope.RegisterTool: the name must be free in the scope; it may shadow the root's.
RegisterTool(n) ==
    /\ local[n] = 0
    /\ Give("local", {n}, {})
    /\ local' = [local EXCEPT ![n] = Len(handles) + 1]
    /\ UNCHANGED <<root, allow, deny, strays>>

\* Unregister by name, on the scope or on the root.
UnregisterName(n) ==
    /\ Changes < MaxChanges
    /\ \/ local[n] # 0 /\ local' = [local EXCEPT ![n] = 0] /\ UNCHANGED root
       \/ root[n] # 0 /\ root' = [root EXCEPT ![n] = 0] /\ UNCHANGED local
    /\ strays' = [strays EXCEPT !.names = @ \cup {n}]
    /\ UNCHANGED <<allow, deny, handles>>

\* RestrictHandle: a new allow mask, the old one remembered.
RestrictHandle(names) ==
    /\ Give("allow", names, allow)
    /\ allow' = names
    /\ UNCHANGED <<root, local, deny, strays>>

\* DenyHandle: names are added to the deny mask, the old one remembered.
DenyHandle(names) ==
    /\ Give("deny", names, deny)
    /\ deny' = deny \cup names
    /\ UNCHANGED <<root, local, allow, strays>>

\* Some handle of the same kind was given out later and is still live.
OutOfOrder(k) ==
    handles[k].kind # "local" /\
    \E j \in DOMAIN handles : j > k /\ handles[j].live /\ handles[j].kind = handles[k].kind

\* Mutant: the mask is cleared instead of restored.
Unregister_Clears(k) ==
    LET r == handles[k]
    IN  /\ r.live
        /\ handles' = [handles EXCEPT ![k].live = FALSE]
        /\ local' = IF r.kind = "local" THEN [n \in Names |-> IF n \in r.names THEN 0 ELSE local[n]]
                    ELSE local
        /\ allow' = IF r.kind = "allow" THEN {} ELSE allow
        /\ deny' = IF r.kind = "deny" THEN {} ELSE deny
        /\ strays' = [strays EXCEPT !.order = @ \/ OutOfOrder(k)]
        /\ UNCHANGED root

\* Registration.Unregister, once per handle: the name is removed, whoever
\* registered it last, or the remembered mask comes back.
Unregister(k) ==
    LET r == handles[k]
    IN  /\ r.live
        /\ handles' = [handles EXCEPT ![k].live = FALSE]
        /\ local' = IF r.kind = "local" THEN [n \in Names |-> IF n \in r.names THEN 0 ELSE local[n]]
                    ELSE local
        /\ allow' = IF r.kind = "allow" THEN r.previous ELSE allow
        /\ deny' = IF r.kind = "deny" THEN r.previous ELSE deny
        /\ strays' = [strays EXCEPT !.order = @ \/ OutOfOrder(k)]
        /\ UNCHANGED root

ScopeNext ==
    \/ \E n \in Names : RegisterTool(n) \/ UnregisterName(n)
    \/ \E names \in MaskSets : RestrictHandle(names) \/ DenyHandle(names)
    \/ \E k \in DOMAIN handles : Unregister(k)

-----------------------------------------------------------------------------
(* Properties. *)

\* While masks are taken back in the reverse order, the deny mask is what the
\* live handles deny, and the allow mask is the latest live one.
LiveMasks(kind) == {k \in DOMAIN handles : handles[k].live /\ handles[k].kind = kind}
MasksMatchHandles ==
    ~strays.order =>
        /\ deny = UNION {handles[k].names : k \in LiveMasks("deny")}
        /\ allow = UNION {handles[k].names : k \in
                          {j \in LiveMasks("allow") : \A i \in LiveMasks("allow") : i <= j}}

=============================================================================

------------------------------ MODULE LocalFS ------------------------------
(***************************************************************************)
(* local.LocalFileSystem: reads with versions, writes, edits and deletes   *)
(* guarded by compare-and-swap, of one file that several agents and        *)
(* something outside (an editor, a build, another LocalFileSystem over the *)
(* same root) work on.                                                     *)
(*                                                                         *)
(* A content is the set of the changes it contains; a version (a SHA-256   *)
(* of the bytes) identifies the content.  An agent that replaces the file  *)
(* writes what it read plus a change of its own, an edit adds its change   *)
(* to whatever EditText reads.  Mutations hold the one lock of the         *)
(* instance; each access to the disk is a step, the rest of the world does *)
(* not take the lock.                                                      *)
(***************************************************************************)
EXTENDS Integers, FiniteSets

CONSTANTS Agents,      \* owners of observations, sharing the instance
          MaxOps,      \* bound: mutations an agent starts
          MaxOutside   \* bound: changes from outside

ASSUME LocalFSAssumption ==
    /\ MaxOps \in Nat /\ MaxOutside \in Nat
    /\ Agents \cap {"free", "outside", "absent", "unseen"} = {}

Absent == {<<"absent", 0>>}
Unseen == {<<"unseen", 0>>}
Exists(content) == content # Absent

VARIABLES disk,    \* the file's content, or Absent
          lock,    \* LocalFileSystem.lock: the agent that holds it, or "free"
          obs,     \* agent -> the version it observed, Absent or Unseen
          pc,      \* agent -> where its mutation is
          op,      \* agent -> the mutation: kind, the version it expects
          staged,  \* agent -> the content it will publish
          count,   \* agent -> mutations started; "outside" -> changes from outside
          hist     \* history, for the properties

fsVars == <<disk, lock, obs, pc, op, staged, count, hist>>

NoOp == [kind |-> "none", expected |-> Unseen]
Kinds == {"create", "replace", "edit", "edit_any", "delete"}
Mark(a) == <<a, count[a]>>
Active(a) == pc[a] # "idle"

FSInit ==
    /\ disk = Absent /\ lock = "free"
    /\ obs = [a \in Agents |-> Unseen]
    /\ pc = [a \in Agents |-> "idle"]
    /\ op = [a \in Agents |-> NoOp]
    /\ staged = [a \in Agents |-> Absent]
    /\ count = [a \in Agents \cup {"outside"} |-> 0]
    /\ hist = [written |-> {}, removed |-> {}, raced |-> FALSE]

-----------------------------------------------------------------------------
(* Calls and their ends. *)

\* ReadTextVersioned or Stat, and Observe: content and version of one snapshot.
ReadTextVersioned(a) ==
    /\ ~Active(a) /\ obs[a] # disk
    /\ obs' = [obs EXCEPT ![a] = disk]
    /\ UNCHANGED <<disk, lock, pc, op, staged, count, hist>>

\* An agent calls WriteText, EditText or Delete.  The write intents and Delete
\* refuse an empty version before anything else (WriteIntent.Normalized).
Mutate(a, kind) ==
    /\ ~Active(a) /\ count[a] < MaxOps
    /\ kind \in {"replace", "edit", "delete"} => obs[a] \notin {Absent, Unseen}
    /\ op' = [op EXCEPT ![a] = [kind |-> kind, expected |-> obs[a]]]
    /\ count' = [count EXCEPT ![a] = @ + 1]
    /\ pc' = [pc EXCEPT ![a] = "lock"]
    /\ UNCHANGED <<disk, lock, obs, staged, hist>>

Lock(a) ==
    /\ pc[a] = "lock" /\ lock = "free"
    /\ lock' = a
    /\ pc' = [pc EXCEPT ![a] = "check"]
    /\ UNCHANGED <<disk, obs, op, staged, count, hist>>

\* Mutant: an error path that keeps the lock.
Fail_KeepsLock(a) ==
    /\ pc' = [pc EXCEPT ![a] = "idle"]
    /\ op' = [op EXCEPT ![a] = NoOp]
    /\ staged' = [staged EXCEPT ![a] = Absent]
    /\ UNCHANGED <<disk, lock, obs, count, hist>>

\* An error return; the deferred Unlock and RemoveAll of the staging directory.
Fail(a) ==
    /\ lock' = "free"
    /\ pc' = [pc EXCEPT ![a] = "idle"]
    /\ op' = [op EXCEPT ![a] = NoOp]
    /\ staged' = [staged EXCEPT ![a] = Absent]
    /\ UNCHANGED <<disk, obs, count, hist>>

-----------------------------------------------------------------------------
(* The mutation, under the lock. *)

\* os.Stat and fileVersion: what the intent demands of the file.
Acceptable(a) ==
    /\ op[a].kind = "create" => ~Exists(disk)
    /\ op[a].kind = "edit_any" => Exists(disk)
    /\ op[a].kind \in {"replace", "edit", "delete"} => disk = op[a].expected

Check(a) ==
    /\ pc[a] = "check"
    /\ \/ ~Acceptable(a) /\ Fail(a)
       \/ /\ Acceptable(a)
          /\ pc' = [pc EXCEPT ![a] = IF op[a].kind \in {"edit", "edit_any"} THEN "read" ELSE "stage"]
          /\ UNCHANGED <<disk, lock, obs, op, staged, count, hist>>

\* EditText reads the file again; the literal is there once, or it refuses.
ReadForEdit(a) ==
    /\ pc[a] = "read"
    /\ \/ Fail(a)
       \/ /\ Exists(disk)
          /\ staged' = [staged EXCEPT ![a] = disk \cup {Mark(a)}]
          /\ pc' = [pc EXCEPT ![a] = "stage"]
          /\ UNCHANGED <<disk, lock, obs, op, count, hist>>

\* The context is looked at a last time; then atomicWrite stages the content
\* in a directory of its own (Delete has nothing to stage).
Stage(a) ==
    /\ pc[a] = "stage"
    /\ \/ Fail(a)
       \/ /\ staged' = [staged EXCEPT ![a] = IF op[a].kind = "create" THEN {Mark(a)}
                                             ELSE IF op[a].kind = "replace" THEN op[a].expected \cup {Mark(a)}
                                             ELSE @]
          /\ pc' = [pc EXCEPT ![a] = "publish"]
          /\ UNCHANGED <<disk, lock, obs, op, count, hist>>

\* Rename, link or remove takes effect.  What the caller meant to remove is
\* the version it gave.
Published(a) ==
    /\ disk' = IF op[a].kind = "delete" THEN Absent ELSE staged[a]
    /\ hist' = IF op[a].kind = "delete"
                 THEN [hist EXCEPT !.removed = @ \cup op[a].expected]
                 ELSE [hist EXCEPT !.written = @ \cup {Mark(a)}]
    /\ pc' = [pc EXCEPT ![a] = "sync"]
    /\ UNCHANGED <<lock, obs, op, staged, count>>

\* Mutant: a create is renamed into place like a replacement.
Publish_Renames(a) == pc[a] = "publish" /\ Published(a)

\* The one step that changes the file: os.Link for a create, which refuses an
\* existing file, os.Rename for a replacement, os.Remove for a delete.
Publish(a) ==
    /\ pc[a] = "publish"
    /\ LET refused == \/ op[a].kind = "create" /\ Exists(disk)
                      \/ op[a].kind = "delete" /\ ~Exists(disk)
       IN  (refused /\ Fail(a)) \/ (~refused /\ Published(a))

\* Linking or renaming fails: nothing happened.
PublishFails(a) == pc[a] = "publish" /\ Fail(a)

\* The directory is synced and the call returns the new version, which the host
\* observes.
Return(a) ==
    /\ pc[a] = "sync"
    /\ lock' = "free"
    /\ obs' = [obs EXCEPT ![a] = IF op[a].kind = "delete" THEN Absent ELSE staged[a]]
    /\ pc' = [pc EXCEPT ![a] = "idle"]
    /\ op' = [op EXCEPT ![a] = NoOp]
    /\ staged' = [staged EXCEPT ![a] = Absent]
    /\ UNCHANGED <<disk, count, hist>>

\* syncDirectory fails: an error, although the file has changed.
SyncFails(a) ==
    /\ pc[a] = "sync" /\ op[a].kind # "delete"
    /\ Fail(a)

-----------------------------------------------------------------------------
(* The surroundings. *)

\* Agents whose comparison an outside change would no longer be seen by.
Racing == {a \in Agents : pc[a] \in {"stage", "publish"} /\ op[a].kind # "create"}

\* Somebody outside adds to the file or removes it.
Outside ==
    /\ count["outside"] < MaxOutside
    /\ count' = [count EXCEPT !["outside"] = @ + 1]
    /\ \/ /\ disk' = (disk \ Absent) \cup {Mark("outside")}
          /\ hist' = [written |-> hist.written \cup {Mark("outside")}, removed |-> hist.removed,
                       raced |-> hist.raced \/ Racing # {}]
       \/ /\ Exists(disk)
          /\ disk' = Absent
          /\ hist' = [written |-> hist.written, removed |-> hist.removed \cup disk,
                       raced |-> hist.raced \/ Racing # {}]
    /\ UNCHANGED <<lock, obs, pc, op, staged>>

-----------------------------------------------------------------------------
(* The specification. *)

\* The rest of a mutation once it has the lock.
Proceed(a) ==
    \/ Check(a) \/ ReadForEdit(a) \/ Stage(a)
    \/ Publish(a) \/ PublishFails(a) \/ Return(a) \/ SyncFails(a)

FSNext ==
    \/ \E a \in Agents : ReadTextVersioned(a) \/ Lock(a) \/ Proceed(a)
    \/ \E a \in Agents, kind \in Kinds : Mutate(a, kind)
    \/ Outside

FSSpec == FSInit /\ [][FSNext]_fsVars

\* A goroutine that holds the lock goes on, and Go's mutex lets no waiter
\* starve.
FSFairSpec == FSSpec /\ \A a \in Agents : WF_fsVars(Proceed(a)) /\ SF_fsVars(Lock(a))

-----------------------------------------------------------------------------
(* Properties. *)

Authors == Agents \cup {"outside"}
Marks == Authors \X (0..(MaxOps + MaxOutside))
Contents == (SUBSET Marks) \cup {Absent}
Locked == {"check", "read", "stage", "publish", "sync"}

\* The state has its types, and a mutation is past Lock exactly while it holds
\* the one lock of the instance.
FSTypeOK ==
    /\ disk \in Contents
    /\ obs \in [Agents -> Contents \cup {Unseen}]
    /\ op \in [Agents -> [kind : Kinds \cup {"none"}, expected : Contents \cup {Unseen}]]
    /\ staged \in [Agents -> Contents]
    /\ pc \in [Agents -> Locked \cup {"idle", "lock"}]
    /\ count \in [Authors -> 0..(MaxOps + MaxOutside)]
    /\ hist \in [written : SUBSET Marks, removed : SUBSET Marks, raced : BOOLEAN]
    /\ \A a \in Agents : (pc[a] \in Locked) <=> (lock = a)

\* No update is lost: whatever an agent or somebody outside wrote is in the
\* file until it is deleted by a call that named the version it is in.  The one
\* exception is a change from outside between the comparison of a replace, an
\* edit or a delete and its publication; a create has no such window
\* (fs.go:638, os.Link).
NoLostUpdate == hist.raced \/ hist.written \subseteq (disk \cup hist.removed)

\* What a mutation under way knows, the strengthening that makes NoLostUpdate
\* inductive: it has a kind, it expects a version only of a file, and until
\* somebody outside races it, what it compared is what it replaces.
MutationKnows(a) ==
    /\ Active(a) => op[a].kind \in Kinds
    /\ op[a].kind \in {"replace", "edit", "delete"} => op[a].expected \in SUBSET Marks
    /\ pc[a] = "read" => op[a].kind \in {"edit", "edit_any"}
    /\ pc[a] = "publish" /\ op[a].kind = "create" => staged[a] = {Mark(a)}
    /\ pc[a] = "publish" /\ op[a].kind = "replace" => staged[a] = op[a].expected \cup {Mark(a)}
    /\ pc[a] \in {"stage", "publish"} /\ ~hist.raced =>
          /\ op[a].kind \in {"replace", "delete"} => disk = op[a].expected
          /\ op[a].kind \in {"edit", "edit_any"} => staged[a] = disk \cup {Mark(a)}

FSInv == FSTypeOK /\ NoLostUpdate /\ \A a \in Agents : MutationKnows(a)

\* Every mutation returns: no error path keeps the lock others wait for.
OpsReturn == \A a \in Agents : Active(a) ~> ~Active(a)

=============================================================================

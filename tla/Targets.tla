------------------------------- MODULE Targets -------------------------------
(***************************************************************************)
(* The registry of targets (src/src/config/registry.ts), the tools that     *)
(* change it and the one that deletes a credential (src/src/mcp/            *)
(* builtin-tools.ts), and how a target finds its credential in the vault    *)
(* (targetCredential of mcp/tool-registry.ts, resolveItem of                *)
(* secrets/vaultwarden.ts).                                                 *)
(*                                                                         *)
(* A target names its credential and pins the id the name stood for.  People *)
(* rename, delete and create items in the vault's own interface meanwhile.  *)
(* The offline cache is taken to be in step with the server.                *)
(***************************************************************************)
EXTENDS VaultSession

CONSTANTS Calls,      \* tool calls in flight
          TargetNames,
          Items,      \* ids of vault items
          Names,      \* names of vault items, also what a credentialRef may be
          Lower,      \* [Names -> the name in lower case]
          Within,     \* pairs of names, the first in lower case part of the second
          None

VARIABLES items,    \* the vault: [Items -> a name, or None when deleted]
          targets,  \* this.targets: [TargetNames -> [ref, pin], or None]
          file,     \* targets.yaml
          call      \* [Calls -> a call and the locals of its handler; calm is a
                    \*   history: nothing it looked at has changed or kept silent]

targetVars == <<items, targets, file, call>>

NoCall == [tool |-> "none", at |-> "idle", target |-> None, ref |-> None,
           force |-> FALSE, held |-> None, item |-> None, name |-> None,
           checked |-> {}, dependents |-> {}, written |-> None, calm |-> TRUE]

TargetsInit ==
  /\ targets = [t \in TargetNames |-> None]
  /\ file = targets
  /\ call = [c \in Calls |-> NoCall]

CallsIdle == \A c \in Calls : call[c].at = "idle"
Targeted == { t \in TargetNames : targets[t] # None }

\* The tools a client may be shown: none but get_started while locked.
Visible == IF Locked THEN {} ELSE Targeted

-----------------------------------------------------------------------------
(* Names.                                                                    *)

Live == { i \in Items : items[i] # None }
Ambiguous == "ambiguous"

\* The first way of matching that matches anything decides.
Decides(S) == IF \E i \in S : S = {i} THEN CHOOSE i \in S : TRUE ELSE Ambiguous

Exact(ref) == { i \in Live : items[i] = ref }
SameFolded(ref) == { i \in Live : ref \in Names /\ Lower[items[i]] = Lower[ref] }
Partly(ref) ==
  { i \in Live : ref \in Names /\ <<Lower[ref], Lower[items[i]]>> \in Within }

\* An id is the name of nothing, nor a part of one.
resolveItem(ref) ==
  IF Exact(ref) # {} THEN Decides(Exact(ref))
  ELSE IF ref \in Live THEN ref
  ELSE IF SameFolded(ref) # {} THEN Decides(SameFolded(ref))
  ELSE IF Partly(ref) # {} THEN Decides(Partly(ref))
  ELSE None

\* None and Ambiguous are refusals.
Found(ref) == resolveItem(ref) \in Items

\* A bw command works with the key of the login that stands.
Readable == session # 0 /\ session = bwLogin

\* What targetCredential comes to for a target as it is registered.
Reads(t) ==
  IF targets[t].pin \in Live THEN targets[t].pin ELSE resolveItem(targets[t].ref)

-----------------------------------------------------------------------------
(* A call goes on, ends, and writes the registry.                            *)

At(c, tools, where) == call[c].tool \in tools /\ call[c].at = where

\* c goes on with its locals as l; whatever changed, the others are not calm.
Continues(c, l) == call' = [call EXCEPT ![c] = l]
Disturbs(c, l) ==
  call' = [d \in Calls |-> IF d = c THEN l
                           ELSE [call[d] EXCEPT !.calm = @ /\ call[d].at = "idle"]]

Ends(c) == Continues(c, NoCall)

\* upsert: memory at once, then the file.
upsert(c, t, entry, where) ==
  /\ targets' = [targets EXCEPT ![t] = entry]
  /\ Disturbs(c, [call[c] EXCEPT !.at = where, !.written = targets'])

Begins(c, l) ==
  /\ call[c].at = "idle"
  /\ Continues(c, l)
  /\ UNCHANGED <<items, targets, file, vaultVars, sessionVars>>

\* Past the gate of /mcp and the locked gate of tools/call.
BeginsTool(c, l) == setupComplete /\ ~Locked /\ Begins(c, l)

register_target(c, t, ref) ==
  BeginsTool(c, [NoCall EXCEPT !.tool = "register", !.at = "resolve",
                             !.target = t, !.ref = ref])

\* update_target keeps the entry it found: what it writes back is made of it.
update_target(c, t, ref) ==
  /\ t \in Targeted
  /\ BeginsTool(c, [NoCall EXCEPT !.tool = "update", !.at = "resolve", !.target = t,
                             !.ref = ref, !.held = targets[t]])

resolves(c) ==
  /\ At(c, {"register", "update"}, "resolve") /\ Readable /\ Found(call[c].ref)
  /\ upsert(c, call[c].target, [ref |-> call[c].ref, pin |-> resolveItem(call[c].ref)], "save")
  /\ UNCHANGED <<items, file, vaultVars, sessionVars>>

\* The typo'd, the ambiguous, the vault that was locked or the command that failed.
resolveFails(c) ==
  /\ At(c, {"register", "update", "delete"}, "resolve")
  /\ Faults \/ ~Readable \/ ~Found(call[c].ref)
  /\ Ends(c)
  /\ UNCHANGED <<items, targets, file, vaultVars, sessionVars>>

\* Mutant: a registration tells nobody.
RegisteredQuietly(c) ==
  /\ At(c, {"register", "update"}, "save")
  /\ file' = call[c].written
  /\ Ends(c) /\ EndsWell
  /\ UNCHANGED <<items, targets, vaultVars>>

\* Registered or updated: live sessions are told.
registrySaved(c) ==
  /\ At(c, {"register", "update"}, "save")
  /\ file' = call[c].written
  /\ Ends(c) /\ emitToolsChanged(~Locked)
  /\ UNCHANGED <<items, targets, vaultVars>>

\* The entry stays in memory.
registryFails(c) ==
  /\ Faults /\ call[c].at = "save"
  /\ Ends(c) /\ EndsBadly
  /\ UNCHANGED <<items, targets, file, vaultVars>>

-----------------------------------------------------------------------------
(* POST and DELETE /targets, while the program is being set up.               *)

setupTarget(c, t, entry) ==
  /\ guardSetup
  /\ call[c].at = "idle"
  /\ targets[t] # entry
  /\ targets' = [targets EXCEPT ![t] = entry]
  /\ Disturbs(c, [NoCall EXCEPT !.tool = "setup", !.at = "save", !.written = targets'])
  /\ UNCHANGED <<items, file, vaultVars, sessionVars>>

setupTargetSaved(c) ==
  /\ At(c, {"setup"}, "save")
  /\ file' = call[c].written
  /\ Ends(c)
  /\ UNCHANGED <<items, targets, vaultVars, sessionVars>>

-----------------------------------------------------------------------------
(* targetCredential, for a tool of a target.                                 *)

\* The handler keeps the entry it was built from.
useTarget(c, t) ==
  /\ t \in Targeted
  /\ BeginsTool(c, [NoCall EXCEPT !.tool = "use", !.target = t, !.held = targets[t],
                             !.at = IF targets[t].pin # None THEN "pinned" ELSE "named"])

\* By the pinned id, and only by it; what fails is the name's turn, unless locked.
readPinned(c) ==
  /\ At(c, {"use"}, "pinned")
  /\ \/ Readable /\ call[c].held.pin \in Live /\ Ends(c)
     \/ /\ Faults \/ ~Readable \/ call[c].held.pin \notin Live
        /\ \/ Locked /\ Ends(c)
           \/ ~Locked /\ Continues(c, [call[c] EXCEPT !.at = "named"])
  /\ UNCHANGED <<items, targets, file, vaultVars, sessionVars>>

readNamed(c) ==
  /\ At(c, {"use"}, "named")
  /\ \/ Readable /\ Found(call[c].held.ref) /\ Continues(c, [call[c] EXCEPT !.at = "repin"])
     \/ (Faults \/ ~Readable \/ ~Found(call[c].held.ref)) /\ Ends(c)
  /\ UNCHANGED <<items, targets, file, vaultVars, sessionVars>>

\* What is registered now is looked at again: only the same ref is pinned anew.
repinCredentialId(c) ==
  LET t == call[c].target
      held == call[c].held
      same == targets[t] # None /\ targets[t].ref = held.ref
      moved == Readable /\ Found(held.ref) /\ resolveItem(held.ref) # held.pin
  IN /\ At(c, {"use"}, "repin")
     /\ \/ /\ moved /\ same
           /\ upsert(c, t, [targets[t] EXCEPT !.pin = resolveItem(held.ref)], "repinned")
        \/ /\ ~(moved /\ same) \/ Faults
           /\ Ends(c) /\ UNCHANGED targets
     /\ UNCHANGED <<items, file, vaultVars, sessionVars>>

\* Best effort: the credential was read, whatever becomes of the file.
repinned(c) ==
  /\ At(c, {"use"}, "repinned")
  /\ file' = call[c].written \/ (Faults /\ UNCHANGED file)
  /\ Ends(c)
  /\ UNCHANGED <<items, targets, vaultVars, sessionVars>>

-----------------------------------------------------------------------------
(* vault_delete_credential.                                                  *)

vault_delete_credential(c, ref, force) ==
  BeginsTool(c, [NoCall EXCEPT !.tool = "delete", !.at = "resolve",
                             !.ref = ref, !.force = force])

deletionResolved(c) ==
  /\ At(c, {"delete"}, "resolve") /\ Readable /\ Found(call[c].ref)
  /\ LET item == resolveItem(call[c].ref)
     IN Continues(c, [call[c] EXCEPT !.at = "check", !.item = item, !.name = items[item]])
  /\ UNCHANGED <<items, targets, file, vaultVars, sessionVars>>

Named(c, t) == targets[t].ref \in {call[c].ref, call[c].item, call[c].name}
Identified(c, t) == Named(c, t) \/ targets[t].pin = call[c].item

\* Mutant: only names are compared, as before ids were pinned.
NamedOnly(c, t) == Named(c, t) \/ resolveItem(targets[t].ref) = call[c].item

\* A target depends on the item by identity, by its pin, or by what its ref
\* resolves to now.
Dependent(c, t) == Identified(c, t) \/ resolveItem(targets[t].ref) = call[c].item

\* The loop over the registry's own array waits for the vault at a target that is
\* not identified; one whose ref could not be looked up counts as no dependent.
checkDependent(c, t) ==
  /\ At(c, {"delete"}, "check")
  /\ t \in Targeted \ call[c].checked
  /\ \/ /\ Identified(c, t) \/ Readable
        /\ Continues(c, [call[c] EXCEPT !.checked = @ \cup {t},
                           !.dependents = @ \cup { u \in {t} : Dependent(c, t) }])
     \/ /\ ~Identified(c, t) /\ (Faults \/ ~Readable)
        /\ Continues(c, [call[c] EXCEPT !.checked = @ \cup {t}, !.calm = FALSE])
  /\ UNCHANGED <<items, targets, file, vaultVars, sessionVars>>

checked(c) ==
  /\ At(c, {"delete"}, "check")
  /\ Targeted \subseteq call[c].checked
  /\ \/ call[c].dependents # {} /\ ~call[c].force /\ Ends(c)
     \/ /\ call[c].dependents = {} \/ call[c].force
        /\ Continues(c, [call[c] EXCEPT !.at = "find"])
  /\ UNCHANGED <<items, targets, file, vaultVars, sessionVars>>

\* deleteItem resolves the ref once more.
deletionFound(c) ==
  /\ At(c, {"delete"}, "find")
  /\ \/ /\ Readable /\ Found(call[c].ref)
        /\ Continues(c, [call[c] EXCEPT !.at = "trash", !.item = resolveItem(call[c].ref)])
     \/ /\ Faults \/ ~Readable \/ ~Found(call[c].ref)
        /\ Ends(c)
  /\ UNCHANGED <<items, targets, file, vaultVars, sessionVars>>

deleteItem(c) ==
  /\ At(c, {"delete"}, "trash")
  /\ \/ /\ Readable
        /\ items' = [items EXCEPT ![call[c].item] = None]
        /\ Disturbs(c, NoCall)
     \/ (Faults \/ ~Readable) /\ Ends(c) /\ UNCHANGED items
  /\ UNCHANGED <<targets, file, vaultVars, sessionVars>>

-----------------------------------------------------------------------------

\* Somebody renames, deletes or creates an item in the vault's own interface.
vaultEdit(i, name) ==
  /\ items[i] # name
  /\ items' = [items EXCEPT ![i] = name]
  /\ call' = [d \in Calls |-> [call[d] EXCEPT !.calm = @ /\ call[d].at = "idle"]]
  /\ UNCHANGED <<targets, file, vaultVars, sessionVars>>

CallBegins(c) ==
  \/ \E t \in TargetNames, ref \in Names : register_target(c, t, ref) \/ update_target(c, t, ref)
  \/ \E t \in TargetNames : useTarget(c, t)
  \/ \E ref \in Names \cup Items, force \in BOOLEAN : vault_delete_credential(c, ref, force)
  \/ \E t \in TargetNames :
       \E entry \in {None} \cup [ref : Names, pin : {None}] : setupTarget(c, t, entry)

CallGoesOn(c) ==
  \/ resolves(c) \/ resolveFails(c) \/ registrySaved(c) \/ registryFails(c)
  \/ setupTargetSaved(c)
  \/ readPinned(c) \/ readNamed(c) \/ repinCredentialId(c) \/ repinned(c)
  \/ deletionResolved(c) \/ (\E t \in TargetNames : checkDependent(c, t)) \/ checked(c)
  \/ deletionFound(c) \/ deleteItem(c)

\* The registry is written in place: a process that dies at it may leave an empty
\* file, which loads as no targets.
RestartTargets ==
  /\ file' \in {file} \cup
       { [t \in TargetNames |-> None] : c \in { d \in Calls : call[d].written # None } }
  /\ targets' = file'
  /\ call' = [c \in Calls |-> NoCall]
  /\ UNCHANGED items

-----------------------------------------------------------------------------
(***************************************************************************)
(* What vault_delete_credential is about to delete unasked is nothing a     *)
(* registered target reads: the guard counts the same targets that          *)
(* targetCredential would send to that item, whether by its pin, its exact  *)
(* name, another case, a part of the name or the id.  It is stated for a    *)
(* registry and a vault that are left alone while the call runs and that    *)
(* answered it.                                                             *)
(***************************************************************************)
DeletionHarmless ==
  \A c \in Calls : At(c, {"delete"}, "trash") /\ ~call[c].force /\ call[c].calm =>
    \A t \in Targeted : Reads(t) # call[c].item

(***************************************************************************)
(* A client that has listed the tools since it connected, and has not been  *)
(* told that they changed, knows every tool it may call: each way the set   *)
(* grows ends in a notification that reaches every live session, whatever   *)
(* else connected, listed, was evicted or locked meanwhile.  (After an      *)
(* operation that failed half-way nothing is promised until a notification  *)
(* that finds the vault up.)                                                *)
(***************************************************************************)
ToldOfTools ==
  ~failed /\ AdminsIdle /\ CallsIdle =>
    \A s \in Registered : table[s].told \/ Visible \subseteq table[s].knows

=============================================================================

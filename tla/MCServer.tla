------------------------------- MODULE MCServer -------------------------------
(***************************************************************************)
(* Values for the constants of Server.  What a behaviour has many of, it has *)
(* little else beside: changes of the vault under sessions and a             *)
(* registration; setting up; deletions under edits and other calls.          *)
(***************************************************************************)
EXTENDS Server, TLC

MCNames == {"pi", "Pi", "pi-ssh"}
MCLower == [n \in MCNames |-> IF n = "Pi" THEN "pi" ELSE n]
MCWithin == {<<"pi", "pi">>, <<"pi-ssh", "pi-ssh">>, <<"pi", "pi-ssh">>}

MCSymmetry ==
  Permutations(Admins) \cup Permutations(Calls) \cup Permutations(TargetNames)

Budget(admin, calls, sessions, ticks, edits, restarts) ==
  [admin |-> admin, call |-> calls, session |-> sessions, tick |-> ticks,
   edit |-> edits, restart |-> restarts]

Start(isOpen, isComplete, budget, others) ==
  { [open |-> isOpen, complete |-> isComplete, left |-> budget,
     items |-> ("id1" :> "pi") @@ ("id2" :> n)] : n \in others }

MCBeginnings ==
  Start(FALSE, TRUE, Budget(2, 1, 1, 0, 0, 0), {None})
  \cup Start(FALSE, TRUE, Budget(1, 2, 0, 0, 1, 0), {"Pi", "pi-ssh"})
  \cup Start(FALSE, TRUE, Budget(1, 1, 2, 1, 0, 0), {None})
  \cup Start(FALSE, TRUE, Budget(3, 0, 1, 0, 0, 1), {None})
  \cup Start(TRUE, FALSE, Budget(3, 0, 0, 0, 0, 0), {None})
  \cup Start(TRUE, FALSE, Budget(2, 1, 0, 0, 0, 0), {None})
  \cup Start(FALSE, FALSE, Budget(2, 1, 1, 0, 0, 1), {None})
\* One call at a time, with nobody at work in the vault.
MCAlone == Start(FALSE, FALSE, Budget(2, 2, 0, 0, 0, 0), {None})

(***************************************************************************)
(* An item that is deleted unasked is read by no target: the tool "refuses  *)
(* if a registered target still references it, unless force=true"           *)
(* (src/src/mcp/builtin-tools.ts:434).  It does not hold for one call on    *)
(* its own: a ref whose look-up fails counts as no dependent, also when the *)
(* command failed and the next one, which deletes, does not.                *)
(***************************************************************************)
DeletedUnread ==
  \A c \in Calls : At(c, {"delete"}, "trash") /\ ~call[c].force =>
    \A t \in Targeted : Reads(t) # call[c].item

(***************************************************************************)
(* A change of the server that is storing its URL has the CLI on it:        *)
(* changeVaultServer "persists the URL only once the vault is actually      *)
(* unlocked on it" (src/src/app.ts:143).  It does not hold: a logout that   *)
(* fails is ignored, and the CLI is then unlocked where it was; or an       *)
(* unlock in flight logs it in again on the old server.                     *)
(***************************************************************************)
StoredWhereUnlocked ==
  \A r \in Admins : step[r] = "save" /\ Is(r, {"change"}) => bwServer = server[r]

=============================================================================

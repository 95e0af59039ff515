-------------------------------- MODULE Server --------------------------------
(***************************************************************************)
(* The process: the requests of the web UI, the tool calls of its clients,   *)
(* the MCP sessions they come over, people at work in the vault, and         *)
(* restarts.  How many of each a behaviour has is its budget.                *)
(***************************************************************************)
EXTENDS Targets

CONSTANT Beginnings   \* where a behaviour starts, and its budget of each kind of event

ASSUME ServerAssumption ==
  \A b \in Beginnings : b.items \in [Items -> Names \cup {None}]

VARIABLE left      \* what is left of its budget

serverVars == <<sessionVars, vaultVars, targetVars, left>>

ServerInit ==
  /\ SessionsInit /\ VaultInit /\ TargetsInit
  /\ \E b \in Beginnings :
       /\ open = b.open /\ setupComplete = b.complete
       /\ items = b.items
       /\ left = b.left

Spends(kind) ==
  /\ left[kind] > 0
  /\ left' = [left EXCEPT ![kind] = @ - 1]

Admin ==
  /\ \/ Spends("admin") /\ \E r \in Admins : AdminBegins(r)
     \/ UNCHANGED left /\ \E r \in Admins : AdminGoesOn(r)
  /\ UNCHANGED targetVars

ToolCalls ==
  \/ Spends("call") /\ \E c \in Calls : CallBegins(c)
  \/ UNCHANGED left /\ \E c \in Calls : CallGoesOn(c)

\* A client comes to /mcp with a bearer token it was given.
Connects(s) ==
  /\ Spends("session")
  /\ \E token \in 1 .. minted : mcpAuth(token)
  /\ openSession(s)

Sessions ==
  /\ \/ \E s \in Sids : Connects(s)
     \/ /\ UNCHANGED left
        /\ \/ \E s \in Sids :
                \/ onsessioninitialized(s) \/ initializeAnswered(s) \/ initializeThrows(s)
                \/ useSession(s) \/ listTools(s, Visible) \/ closeSession(s)
           \/ sweep
     \/ Spends("tick") /\ tick
  /\ UNCHANGED <<vaultVars, targetVars>>

People ==
  /\ Spends("edit")
  /\ \E i \in Items, name \in Names \cup {None} : vaultEdit(i, name)

\* The boot unlocks by itself when it has a key: that is the next request.
Restart ==
  /\ Spends("restart")
  /\ ForgetSessions /\ RestartVault /\ RestartTargets

ServerNext == Admin \/ ToolCalls \/ Sessions \/ People \/ Restart

ServerSpec == ServerInit /\ [][ServerNext]_serverVars

=============================================================================

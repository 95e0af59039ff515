----------------------------- MODULE McpSessions -----------------------------
(***************************************************************************)
(* The stateful MCP endpoint (mountMcp of src/src/web/server.ts) and the    *)
(* listeners AppState keeps for it (src/src/app.ts).  A session is          *)
(* registered while its initialize request is being handled, is used by     *)
(* later requests, and is dropped by its client, by the sweeper, by a newer *)
(* session when the table is full, or by a handler that throws.             *)
(*                                                                         *)
(* What a session is for here: its client knows the tools it listed last,   *)
(* and is told to list them again when the set has changed.  An entry is    *)
(* [seen, knows, told]; a client that has just connected has yet to list    *)
(* the tools, which is what `told` says of it.                              *)
(***************************************************************************)
EXTENDS Naturals, FiniteSets

CONSTANTS Sids,         \* session ids, each drawn once
          MaxSessions,  \* MAX_SESSIONS
          IdleLimit     \* SESSION_IDLE_MS, in ticks

ASSUME SessionsAssumption == MaxSessions \in Nat \ {0} /\ IdleLimit \in Nat

VARIABLES table,      \* sessions, a map of the ids that are registered
          listeners,  \* toolChangeListeners: the ids that are subscribed
          joining,    \* initialize requests that have not registered yet
          answering,  \* registered, with the initialize request still handled
          drawn,      \* ids drawn so far
          now,        \* Date.now()
          failed      \* history: an operation failed and nothing has made up for it

sessionVars == <<table, listeners, joining, answering, drawn, now, failed>>

SessionsInit ==
  /\ table = << >> /\ listeners = {} /\ joining = {} /\ answering = {}
  /\ drawn = {} /\ now = 0 /\ failed = FALSE

Registered == DOMAIN table

\* What clients can name: they learn an id from the answer to initialize.
Usable == Registered \ answering

\* dropSession for each of S: the entry, then the subscription.
dropSessions(S) ==
  /\ table' = [s \in Registered \ S |-> table[s]]
  /\ listeners' = listeners \ S

\* A POST that is no initialize, or a GET, of a session that is registered.
useSession(s) ==
  /\ s \in Usable
  /\ table' = [table EXCEPT ![s].seen = now]
  /\ UNCHANGED <<listeners, joining, answering, drawn, now, failed>>

\* tools/list: what the client is shown is what the process has at this moment.
listTools(s, visible) ==
  /\ s \in Usable
  /\ table' = [table EXCEPT ![s] = [seen |-> now, knows |-> visible, told |-> FALSE]]
  /\ UNCHANGED <<listeners, joining, answering, drawn, now, failed>>

Oldest == { s \in Registered : \A t \in Registered : table[s].seen <= table[t].seen }

\* An initialize request: a full table gives up the session seen least lately.
openSession(s) ==
  /\ s \notin drawn
  /\ drawn' = drawn \cup {s}
  /\ joining' = joining \cup {s}
  /\ \/ Cardinality(Registered) >= MaxSessions /\ \E old \in Oldest : dropSessions({old})
     \/ Cardinality(Registered) < MaxSessions /\ UNCHANGED <<table, listeners>>
  /\ UNCHANGED <<answering, now, failed>>

onsessioninitialized(s) ==
  /\ s \in joining
  /\ joining' = joining \ {s}
  /\ answering' = answering \cup {s}
  /\ table' = [t \in Registered \cup {s} |->
                 IF t = s THEN [seen |-> now, knows |-> {}, told |-> TRUE] ELSE table[t]]
  /\ listeners' = listeners \cup {s}
  /\ UNCHANGED <<drawn, now, failed>>

initializeAnswered(s) ==
  /\ s \in answering
  /\ answering' = answering \ {s}
  /\ UNCHANGED <<table, listeners, joining, drawn, now, failed>>

\* The handler throws, before it registered the session or after.
initializeThrows(s) ==
  /\ s \in joining \cup answering
  /\ joining' = joining \ {s}
  /\ answering' = answering \ {s}
  /\ dropSessions({s})
  /\ UNCHANGED <<drawn, now, failed>>

\* DELETE, or a transport that closes: its onclose drops the session.
closeSession(s) ==
  /\ s \in Usable
  /\ dropSessions({s})
  /\ UNCHANGED <<joining, answering, drawn, now, failed>>

Expired == { s \in Registered : table[s].seen + IdleLimit < now }

sweep ==
  /\ Expired # {}
  /\ dropSessions(Expired)
  /\ answering' = answering \ Expired
  /\ UNCHANGED <<joining, drawn, now, failed>>

tick ==
  /\ now' = now + 1
  /\ UNCHANGED <<table, listeners, joining, answering, drawn, failed>>

\* Each listener pushes tools/list_changed to its session.  What failed before is
\* made up for when there are tools to list again, which is what `up` says.
emitToolsChanged(up) ==
  /\ table' = [s \in Registered |->
                 IF s \in listeners THEN [table[s] EXCEPT !.told = TRUE] ELSE table[s]]
  /\ failed' = (failed /\ ~up)
  /\ UNCHANGED <<listeners, joining, answering, drawn, now>>

\* An operation ends without a notification, well or not.
EndsWell == UNCHANGED sessionVars
EndsBadly ==
  /\ failed' = TRUE
  /\ UNCHANGED <<table, listeners, joining, answering, drawn, now>>

\* The process is gone and with it every session.
ForgetSessions ==
  /\ table' = << >> /\ listeners' = {} /\ joining' = {} /\ answering' = {}
  /\ failed' = FALSE
  /\ UNCHANGED <<drawn, now>>

=============================================================================

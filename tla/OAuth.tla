-------------------------------- MODULE OAuth --------------------------------
(***************************************************************************)
(* The OAuth 2.1 token store (src/src/oauth/oauth-service.ts) behind the   *)
(* consent screen, the token and revocation endpoints (web/oauth-routes.ts)*)
(* and the admin's client revocation (web/routes.ts).                      *)
(*                                                                         *)
(* Every call is synchronous, so no two interleave; but a call is several  *)
(* statements that each commit on their own, so it can stop between them:  *)
(* the process dies, or a statement throws and the endpoint answers 500.   *)
(* An action is one statement with the checks around it.                   *)
(***************************************************************************)
EXTENDS Naturals

CONSTANTS
  Client,                             \* client ids, each drawn at most once
  CodeTtl, AccessTtl, RefreshTtl,     \* AUTH_CODE_TTL_S, ACCESS_TTL_S, REFRESH_TTL_S
  MaxMinted,                          \* bound: codes and tokens ever drawn
  MaxTime                             \* bound on the clock

ASSUME TtlAssumption == CodeTtl \in Nat /\ AccessTtl \in Nat /\ RefreshTtl \in Nat
ASSUME BoundAssumption == MaxMinted \in Nat /\ MaxTime \in Nat

VARIABLES
  now,
  clients,   \* the clients table
  codes,     \* the auth_codes table
  tokens,    \* the tokens table; `code' is the consent a token goes back to
  minted,    \* codes and tokens drawn so far; a random string is its number
  step,      \* the next statement of the call that is running
  \* history, read by the properties and by who presents a token
  held,      \* tokens that were handed out
  drawn,     \* clients ever registered
  revoked    \* clients whose revocation was answered

tables == <<clients, codes, tokens>>
vars == <<now, tables, minted, step, held, drawn, revoked>>

Id == 1 .. MaxMinted
Code == [id : Id, client : Client, expires : Nat, used : BOOLEAN]
Token == [id : Id, type : {"access", "refresh"}, client : Client, code : Id, expires : Nat]

Idle == [next |-> "none"]
Issue(next, client, code) == [next |-> next, client |-> client, code |-> code]
Revoke(next, client) == [next |-> next, client |-> client]

Running == step # Idle

\* A row is good up to and including the second it expires in.
Live(row) == row.expires >= now

-----------------------------------------------------------------------------
(* Registration and consent.                                               *)

registerClient(c) ==
  /\ ~Running
  /\ c \notin drawn
  /\ clients' = clients \cup {c} /\ drawn' = drawn \cup {c}
  /\ UNCHANGED <<now, codes, tokens, minted, step, held, revoked>>

\* The consent screen knows the client and saw a right TOTP code.
createAuthCode(c) ==
  /\ ~Running
  /\ c \in clients
  /\ minted < MaxMinted
  /\ minted' = minted + 1
  /\ codes' = codes \cup {[id |-> minted', client |-> c, expires |-> now + CodeTtl, used |-> FALSE]}
  /\ UNCHANGED <<now, clients, tokens, step, held, drawn, revoked>>

-----------------------------------------------------------------------------
(* The token endpoint.                                                     *)

Burnt(k) == (codes \ {k}) \cup {[id |-> k.id, client |-> k.client, expires |-> k.expires, used |-> TRUE]}

\* Mutant: the burn is not checked.
RedeemIgnoresBurn(k) ==
  /\ ~Running
  /\ codes' = Burnt(k)
  /\ \E matches \in BOOLEAN :
       step' = IF Live(k) /\ matches THEN Issue("access", k.client, k.id) ELSE Idle
  /\ UNCHANGED <<now, clients, tokens, minted, held, drawn, revoked>>

\* A presented code is burnt first, whether or not it is accepted: unused,
\* live, and matching in client, redirect URI and PKCE verifier.
redeemAuthCode(k) ==
  /\ ~Running
  /\ codes' = Burnt(k)
  /\ \E matches \in BOOLEAN :
       step' = IF ~k.used /\ Live(k) /\ matches THEN Issue("access", k.client, k.id) ELSE Idle
  /\ UNCHANGED <<now, clients, tokens, minted, held, drawn, revoked>>

\* Mutant: no rotation.
RefreshKeepsToken(t) ==
  /\ ~Running
  /\ t.type = "refresh" /\ t.id \in held /\ Live(t)
  /\ step' = Issue("access", t.client, t.code)
  /\ UNCHANGED <<now, tables, minted, held, drawn, revoked>>

\* A presented refresh token of the right client is deleted before a new pair
\* is issued.
refresh(t) ==
  /\ ~Running
  /\ t.type = "refresh" /\ t.id \in held /\ Live(t)
  /\ tokens' = tokens \ {t}
  /\ step' = Issue("access", t.client, t.code)
  /\ UNCHANGED <<now, clients, codes, minted, held, drawn, revoked>>

NewToken(type, ttl) ==
  [id |-> minted + 1, type |-> type, client |-> step.client, code |-> step.code,
   expires |-> now + ttl]

\* issueTokens(): first the access token ...
InsertAccess ==
  /\ step.next = "access"
  /\ minted + 1 < MaxMinted
  /\ tokens' = tokens \cup {NewToken("access", AccessTtl)}
  /\ minted' = minted + 1
  /\ step' = Issue("refresh", step.client, step.code)
  /\ UNCHANGED <<now, clients, codes, held, drawn, revoked>>

\* Mutant: the two lifetimes are swapped.
InsertRefreshLong ==
  /\ step.next = "refresh"
  /\ tokens' = tokens \cup {NewToken("access", RefreshTtl)}
  /\ minted' = minted + 1
  /\ held' = held \cup {minted, minted'}
  /\ step' = Idle
  /\ UNCHANGED <<now, clients, codes, drawn, revoked>>

\* ... then the refresh token, and the pair is handed out.
InsertRefresh ==
  /\ step.next = "refresh"
  /\ tokens' = tokens \cup {NewToken("refresh", RefreshTtl)}
  /\ minted' = minted + 1
  /\ held' = held \cup {minted, minted'}
  /\ step' = Idle
  /\ UNCHANGED <<now, clients, codes, drawn, revoked>>

-----------------------------------------------------------------------------
(* Revocation and housekeeping.                                            *)

\* Whoever holds a token may revoke it.
revokeToken(t) ==
  /\ ~Running
  /\ t.id \in held
  /\ tokens' = tokens \ {t}
  /\ UNCHANGED <<now, clients, codes, minted, step, held, drawn, revoked>>

\* revokeClient(): the tokens, then the client, then its codes.
revokeClient(c) ==
  /\ ~Running
  /\ c \in clients
  /\ tokens' = {t \in tokens : t.client # c}
  /\ step' = Revoke("client", c)
  /\ UNCHANGED <<now, clients, codes, minted, held, drawn, revoked>>

DeleteClient ==
  /\ step.next = "client"
  /\ clients' = clients \ {step.client}
  /\ step' = Revoke("codes", step.client)
  /\ UNCHANGED <<now, codes, tokens, minted, held, drawn, revoked>>

\* Mutant: the codes are left to expire.
CodesLeft ==
  /\ step.next = "codes"
  /\ revoked' = revoked \cup {step.client}
  /\ step' = Idle
  /\ UNCHANGED <<now, tables, minted, held, drawn>>

DeleteCodes ==
  /\ step.next = "codes"
  /\ codes' = {k \in codes : k.client # step.client}
  /\ revoked' = revoked \cup {step.client}
  /\ step' = Idle
  /\ UNCHANGED <<now, clients, tokens, minted, held, drawn>>

\* purgeExpired(), hourly and at boot.
purgeExpired ==
  /\ ~Running
  /\ codes' = {k \in codes : Live(k)}
  /\ step' = [next |-> "purge"]
  /\ UNCHANGED <<now, clients, tokens, minted, held, drawn, revoked>>

PurgeTokens ==
  /\ step.next = "purge"
  /\ tokens' = {t \in tokens : Live(t)}
  /\ step' = Idle
  /\ UNCHANGED <<now, clients, codes, minted, held, drawn, revoked>>

\* The call stops before its next statement.
Stop ==
  /\ Running
  /\ step' = Idle
  /\ UNCHANGED <<now, tables, minted, held, drawn, revoked>>

\* A call runs within one second: issueTokens and purgeExpired read the clock
\* once for all their statements.
Tick ==
  /\ ~Running
  /\ now < MaxTime
  /\ now' = now + 1
  /\ UNCHANGED <<tables, minted, step, held, drawn, revoked>>

-----------------------------------------------------------------------------

Init ==
  /\ now = 0
  /\ clients = {} /\ codes = {} /\ tokens = {}
  /\ minted = 0
  /\ step = Idle
  /\ held = {} /\ drawn = {} /\ revoked = {}

Complete ==
  \/ \E c \in Client : registerClient(c) \/ createAuthCode(c) \/ revokeClient(c)
  \/ \E k \in codes : redeemAuthCode(k)
  \/ \E t \in tokens : refresh(t) \/ revokeToken(t)
  \/ InsertAccess \/ InsertRefresh
  \/ DeleteClient \/ DeleteCodes
  \/ purgeExpired \/ PurgeTokens

Next == Complete \/ Stop \/ Tick

Spec == Init /\ [][Next]_vars

-----------------------------------------------------------------------------
(* Properties.                                                             *)

Lifetime(type) == IF type = "access" THEN AccessTtl ELSE RefreshTtl

\* The tables are sound: no code or token outlives its kind's lifetime.
TypeOK ==
  /\ now \in Nat /\ minted \in 0 .. MaxMinted
  /\ clients \subseteq drawn /\ drawn \subseteq Client /\ revoked \subseteq drawn
  /\ codes \subseteq Code /\ tokens \subseteq Token /\ held \subseteq Id
  /\ \A k \in codes : k.id <= minted /\ k.expires <= now + CodeTtl
  /\ \A t \in tokens : t.id <= minted /\ t.expires <= now + Lifetime(t.type)

Issuing(g) == step.next \in {"access", "refresh"} /\ step.code = g

\* A consent can still give out tokens: its code is unused, or has a refresh
\* token, or is being exchanged.
Usable(g) ==
  \/ \E k \in codes : k.id = g /\ ~k.used
  \/ \E t \in tokens : t.type = "refresh" /\ t.code = g
  \/ Issuing(g)

\* "Single-use codes, rotating refresh tokens": one consent never has two ways
\* to new tokens - two refresh tokens, or one beside its unused code, or either
\* beside an exchange under way - wherever a call stops and whatever is replayed.
OneLineage ==
  \A g \in Id :
    /\ \A t, u \in tokens : t.type = "refresh" /\ u.type = "refresh" /\ t.code = g /\ u.code = g => t = u
    /\ \A t \in tokens : t.type = "refresh" /\ t.code = g =>
         ~Issuing(g) /\ \A k \in codes : k.id = g => k.used
    /\ Issuing(g) => \A k \in codes : k.id = g => k.used

\* A consent that was used up - its code burnt or purged, its refresh token
\* rotated away, revoked or purged - gives out nothing any more, ever.
UsedUpForGood ==
  [][\A g \in 1 .. minted : ~Usable(g) => ~Usable(g)' /\
       \A t \in tokens' : t.code = g => t \in tokens]_vars

\* "Revoke a client and all its tokens": once a revocation was answered, nothing
\* is left of the client, and no code that was on its way brings it back.
RevokedForGood ==
  \A c \in revoked :
    /\ c \notin clients
    /\ \A k \in codes : k.client # c
    /\ \A t \in tokens : t.client # c

\* "Long-lived and revocable from the web UI", which lists the clients table: a
\* refresh token belongs to a client that is in it.
RevocableFromUI == \A t \in tokens : t.type = "refresh" => t.client \in clients

=============================================================================

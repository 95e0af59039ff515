----------------------------- MODULE OAuthProofs -----------------------------
(***************************************************************************)
(* Proofs about the OAuth token store, for any number of clients, codes    *)
(* and tokens, any lifetimes, and calls that stop at any statement.        *)
(***************************************************************************)
EXTENDS OAuth, TLAPS

Refresh(t) == t.type = "refresh"

Busy == step.next \in {"access", "refresh"}

\* OneLineage without its quantifier over consents, and what keeps it: a code
\* number is drawn once, so a new code has no tokens yet.
Lineage ==
  /\ minted \in Nat
  /\ \A k \in codes : k.id \in Nat /\ k.id <= minted
  /\ \A k, l \in codes : k.id = l.id => k = l
  /\ \A t \in tokens : t.code \in Nat /\ t.code <= minted
  /\ Busy => step.code \in Nat /\ step.code <= minted
  /\ \A t, u \in tokens : Refresh(t) /\ Refresh(u) /\ t.code = u.code => t = u
  /\ \A t \in tokens : Refresh(t) => ~(Busy /\ step.code = t.code)
  /\ \A t \in tokens : Refresh(t) => \A k \in codes : k.id = t.code => k.used
  /\ Busy => \A k \in codes : k.id = step.code => k.used

LEMMA LineageStep == Lineage /\ [Next]_vars => Lineage'
<1> SUFFICES ASSUME Lineage, [Next]_vars PROVE Lineage'
  OBVIOUS
<1> USE DEF Lineage, Busy, Refresh
<1>1. ASSUME NEW c \in Client, registerClient(c) PROVE Lineage'
  BY <1>1 DEF registerClient, tables
<1>2. ASSUME NEW c \in Client, createAuthCode(c) PROVE Lineage'
  <2>1. ~Busy /\ step' = step /\ tokens' = tokens /\ minted' = minted + 1
    BY <1>2 DEF createAuthCode, Running, Idle
  <2> DEFINE new == [id |-> minted', client |-> c, expires |-> now + CodeTtl, used |-> FALSE]
  <2>2. codes' = codes \cup {new} /\ new.id = minted + 1
    BY <1>2 DEF createAuthCode
  <2> HIDE DEF new
  <2> QED
    BY <2>1, <2>2
<1>3. ASSUME NEW k \in codes, redeemAuthCode(k) PROVE Lineage'
  <2> DEFINE burnt == [id |-> k.id, client |-> k.client, expires |-> k.expires, used |-> TRUE]
  <2>1. codes' = (codes \ {k}) \cup {burnt} /\ burnt.id = k.id /\ burnt.used
    BY <1>3 DEF redeemAuthCode, Burnt
  <2>2. ~Busy /\ tokens' = tokens /\ minted' = minted
    BY <1>3 DEF redeemAuthCode, Running, Idle
  <2>3. Busy' => ~k.used /\ step.next = "none" /\ step'.code = k.id
    BY <1>3 DEF redeemAuthCode, Running, Idle, Issue
  <2> HIDE DEF burnt
  <2> QED
    BY <2>1, <2>2, <2>3
<1>4. ASSUME NEW t \in tokens, refresh(t) PROVE Lineage'
  <2>1. ~Busy /\ codes' = codes /\ minted' = minted /\ tokens' = tokens \ {t} /\ Refresh(t)
    BY <1>4 DEF refresh, Running, Idle
  <2>2. step'.code = t.code
    BY <1>4 DEF refresh, Issue
  <2> QED
    BY <2>1, <2>2
<1>5. ASSUME NEW t \in tokens, revokeToken(t) PROVE Lineage'
  BY <1>5 DEF revokeToken
<1>6. ASSUME NEW c \in Client, revokeClient(c) PROVE Lineage'
  BY <1>6 DEF revokeClient, Revoke
<1>7. CASE InsertAccess
  <2> DEFINE new == NewToken("access", AccessTtl)
  <2>1. tokens' = tokens \cup {new} /\ ~Refresh(new) /\ new.code = step.code /\ Busy
    BY <1>7 DEF InsertAccess, NewToken
  <2>2. minted' = minted + 1 /\ codes' = codes /\ step'.code = step.code
    BY <1>7 DEF InsertAccess, Issue
  <2> HIDE DEF new
  <2> QED
    BY <2>1, <2>2
<1>8. CASE InsertRefresh
  <2> DEFINE new == NewToken("refresh", RefreshTtl)
  <2>1. tokens' = tokens \cup {new} /\ new.code = step.code /\ Busy
    BY <1>8 DEF InsertRefresh, NewToken
  <2>2. minted' = minted + 1 /\ codes' = codes /\ ~Busy'
    BY <1>8 DEF InsertRefresh, Idle
  <2> HIDE DEF new
  <2> QED
    BY <2>1, <2>2
<1>9. CASE DeleteClient
  BY <1>9 DEF DeleteClient, Revoke
<1>10. CASE DeleteCodes
  BY <1>10 DEF DeleteCodes, Idle
<1>11. CASE purgeExpired
  BY <1>11 DEF purgeExpired
<1>12. CASE PurgeTokens
  BY <1>12 DEF PurgeTokens, Idle
<1>13. CASE Stop
  BY <1>13 DEF Stop, Idle, tables
<1>14. CASE Tick
  BY <1>14 DEF Tick, tables
<1>15. CASE UNCHANGED vars
  BY <1>15 DEF vars, tables
<1> QED
  BY <1>1, <1>2, <1>3, <1>4, <1>5, <1>6, <1>7, <1>8, <1>9, <1>10, <1>11, <1>12, <1>13, <1>14, <1>15
     DEF Next, Complete

LEMMA LineageInvariant == Spec => []Lineage
<1>1. Init => Lineage
  BY DEF Init, Lineage, Busy, Idle
<1> QED
  BY <1>1, LineageStep, PTL DEF Spec

\* Single-use codes and rotating refresh tokens: whatever is replayed and
\* wherever a call stops, a consent never has two ways to new tokens.
THEOREM ConsentsHaveOneLineage == Spec => []OneLineage
<1>1. Lineage => OneLineage
  BY DEF Lineage, OneLineage, Issuing, Busy, Refresh
<1> QED
  BY <1>1, LineageInvariant, PTL

-----------------------------------------------------------------------------
(* Revoking a client.                                                      *)

\* What is gone of a client half-way through revokeClient, and that no exchange
\* under way belongs to a revoked client.
Gone ==
  /\ clients \subseteq drawn /\ revoked \subseteq drawn
  /\ \A k \in codes : k.client \in drawn
  /\ Busy => step.client \notin revoked
  /\ step.next \in {"client", "codes"} =>
       step.client \in drawn /\ \A t \in tokens : t.client # step.client
  /\ step.next = "codes" => step.client \notin clients

RevokedInv == Gone /\ RevokedForGood

LEMMA RevokedStep == RevokedInv /\ [Next]_vars => RevokedInv'
<1> SUFFICES ASSUME RevokedInv, [Next]_vars PROVE RevokedInv'
  OBVIOUS
<1> USE DEF RevokedInv, Gone, RevokedForGood, Busy
<1>1. ASSUME NEW c \in Client, registerClient(c) PROVE RevokedInv'
  BY <1>1 DEF registerClient
<1>2. ASSUME NEW c \in Client, createAuthCode(c) PROVE RevokedInv'
  <2> DEFINE new == [id |-> minted', client |-> c, expires |-> now + CodeTtl, used |-> FALSE]
  <2>1. codes' = codes \cup {new} /\ new.client = c /\ c \in clients
    BY <1>2 DEF createAuthCode
  <2>2. UNCHANGED <<clients, tokens, step, drawn, revoked>>
    BY <1>2 DEF createAuthCode
  <2> HIDE DEF new
  <2> QED
    BY <2>1, <2>2
<1>3. ASSUME NEW k \in codes, redeemAuthCode(k) PROVE RevokedInv'
  <2> DEFINE burnt == [id |-> k.id, client |-> k.client, expires |-> k.expires, used |-> TRUE]
  <2>1. codes' = (codes \ {k}) \cup {burnt} /\ burnt.client = k.client
    BY <1>3 DEF redeemAuthCode, Burnt
  <2>2. UNCHANGED <<clients, tokens, drawn, revoked>>
    BY <1>3 DEF redeemAuthCode
  <2>3. step'.next \in {"access", "none"} /\ (step'.next = "access" => step'.client = k.client)
    BY <1>3 DEF redeemAuthCode, Issue, Idle
  <2> HIDE DEF burnt
  <2> QED
    BY <2>1, <2>2, <2>3
<1>4. ASSUME NEW t \in tokens, refresh(t) PROVE RevokedInv'
  BY <1>4 DEF refresh, Issue
<1>5. ASSUME NEW t \in tokens, revokeToken(t) PROVE RevokedInv'
  BY <1>5 DEF revokeToken
<1>6. ASSUME NEW c \in Client, revokeClient(c) PROVE RevokedInv'
  BY <1>6 DEF revokeClient, Revoke
<1>7. CASE InsertAccess
  <2> DEFINE new == NewToken("access", AccessTtl)
  <2>1. tokens' = tokens \cup {new} /\ new.client = step.client /\ Busy
    BY <1>7 DEF InsertAccess, NewToken
  <2>2. step'.next = "refresh" /\ step'.client = step.client
    BY <1>7 DEF InsertAccess, Issue
  <2>3. UNCHANGED <<clients, codes, drawn, revoked>>
    BY <1>7 DEF InsertAccess
  <2> HIDE DEF new
  <2> QED
    BY <2>1, <2>2, <2>3
<1>8. CASE InsertRefresh
  <2> DEFINE new == NewToken("refresh", RefreshTtl)
  <2>1. tokens' = tokens \cup {new} /\ new.client = step.client /\ Busy
    BY <1>8 DEF InsertRefresh, NewToken
  <2>2. step'.next = "none" /\ UNCHANGED <<clients, codes, drawn, revoked>>
    BY <1>8 DEF InsertRefresh, Idle
  <2> HIDE DEF new
  <2> QED
    BY <2>1, <2>2
<1>9. CASE DeleteClient
  BY <1>9 DEF DeleteClient, Revoke
<1>10. CASE DeleteCodes
  BY <1>10 DEF DeleteCodes, Idle
<1>11. CASE purgeExpired
  BY <1>11 DEF purgeExpired
<1>12. CASE PurgeTokens
  BY <1>12 DEF PurgeTokens, Idle
<1>13. CASE Stop
  BY <1>13 DEF Stop, Idle, tables
<1>14. CASE Tick
  BY <1>14 DEF Tick, tables
<1>15. CASE UNCHANGED vars
  BY <1>15 DEF vars, tables
<1> QED
  BY <1>1, <1>2, <1>3, <1>4, <1>5, <1>6, <1>7, <1>8, <1>9, <1>10, <1>11, <1>12, <1>13, <1>14, <1>15
     DEF Next, Complete

\* Once a revocation was answered, the client is gone with its codes and
\* tokens, and nothing that was in flight brings it back.
THEOREM RevocationIsComplete == Spec => []RevokedForGood
<1>1. Init => RevokedInv
  BY DEF Init, RevokedInv, Gone, RevokedForGood, Busy, Idle
<1>2. RevokedInv => RevokedForGood
  BY DEF RevokedInv
<1> QED
  BY <1>1, <1>2, RevokedStep, PTL DEF Spec

-----------------------------------------------------------------------------
(* A consent that was used up.                                             *)

NoComeback ==
  \A g \in 1 .. minted : ~Usable(g) => ~Usable(g)' /\
    \A t \in tokens' : t.code = g => t \in tokens

LEMMA NoComebackStep == minted \in Nat /\ [Next]_vars => [NoComeback]_vars
<1> SUFFICES ASSUME minted \in Nat, [Next]_vars, NEW g \in 1 .. minted, ~Usable(g)
             PROVE  ~Usable(g)' /\ \A t \in tokens' : t.code = g => t \in tokens
  BY DEF NoComeback
<1> DEFINE Goal == ~Usable(g)' /\ \A t \in tokens' : t.code = g => t \in tokens
<1> USE DEF Usable, Issuing
<1>1. ASSUME NEW c \in Client, registerClient(c) PROVE Goal
  BY <1>1 DEF registerClient
<1>2. ASSUME NEW c \in Client, createAuthCode(c) PROVE Goal
  <2> DEFINE new == [id |-> minted', client |-> c, expires |-> now + CodeTtl, used |-> FALSE]
  <2>1. codes' = codes \cup {new} /\ new.id = minted + 1 /\ UNCHANGED <<tokens, step>>
    BY <1>2 DEF createAuthCode
  <2> HIDE DEF new
  <2> QED
    BY <2>1
<1>3. ASSUME NEW k \in codes, redeemAuthCode(k) PROVE Goal
  <2> DEFINE burnt == [id |-> k.id, client |-> k.client, expires |-> k.expires, used |-> TRUE]
  <2>1. codes' = (codes \ {k}) \cup {burnt} /\ burnt.used /\ tokens' = tokens
    BY <1>3 DEF redeemAuthCode, Burnt
  <2>2. step'.next = "none" \/ (~k.used /\ step'.code = k.id)
    BY <1>3 DEF redeemAuthCode, Issue, Idle
  <2> HIDE DEF burnt
  <2> QED
    BY <2>1, <2>2
<1>4. ASSUME NEW t \in tokens, refresh(t) PROVE Goal
  BY <1>4 DEF refresh, Issue
<1>5. ASSUME NEW t \in tokens, revokeToken(t) PROVE Goal
  BY <1>5 DEF revokeToken
<1>6. ASSUME NEW c \in Client, revokeClient(c) PROVE Goal
  BY <1>6 DEF revokeClient, Revoke
<1>7. CASE InsertAccess
  <2> DEFINE new == NewToken("access", AccessTtl)
  <2>1. tokens' = tokens \cup {new} /\ new.code = step.code /\ codes' = codes
    BY <1>7 DEF InsertAccess, NewToken
  <2>2. step.next \in {"access", "refresh"} /\ step'.code = step.code
    BY <1>7 DEF InsertAccess, Issue
  <2> HIDE DEF new
  <2> QED
    BY <2>1, <2>2
<1>8. CASE InsertRefresh
  <2> DEFINE new == NewToken("refresh", RefreshTtl)
  <2>1. tokens' = tokens \cup {new} /\ new.code = step.code /\ codes' = codes
    BY <1>8 DEF InsertRefresh, NewToken
  <2>2. step.next \in {"access", "refresh"} /\ step'.next = "none"
    BY <1>8 DEF InsertRefresh, Idle
  <2> HIDE DEF new
  <2> QED
    BY <2>1, <2>2
<1>9. CASE DeleteClient
  BY <1>9 DEF DeleteClient, Revoke
<1>10. CASE DeleteCodes
  BY <1>10 DEF DeleteCodes, Idle
<1>11. CASE purgeExpired
  BY <1>11 DEF purgeExpired
<1>12. CASE PurgeTokens
  BY <1>12 DEF PurgeTokens, Idle
<1>13. CASE Stop
  BY <1>13 DEF Stop, Idle, tables
<1>14. CASE Tick
  BY <1>14 DEF Tick, tables
<1>15. CASE UNCHANGED vars
  BY <1>15 DEF vars, tables
<1> QED
  BY <1>1, <1>2, <1>3, <1>4, <1>5, <1>6, <1>7, <1>8, <1>9, <1>10, <1>11, <1>12, <1>13, <1>14, <1>15
     DEF Next, Complete

\* A consent whose code was burnt and whose refresh token is gone gives out
\* nothing any more, ever: neither a replayed code nor a late statement revives it.
THEOREM ConsentsStayUsedUp == Spec => UsedUpForGood
<1>1. UsedUpForGood <=> [][NoComeback]_vars
  BY DEF UsedUpForGood, NoComeback
<1>2. Lineage => minted \in Nat
  BY DEF Lineage
<1> QED
  BY <1>1, <1>2, LineageInvariant, NoComebackStep, PTL DEF Spec

=============================================================================

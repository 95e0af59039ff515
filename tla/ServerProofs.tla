---------------------------- MODULE ServerProofs ----------------------------
(***************************************************************************)
(* For any number of requests, calls, sessions, targets and items: while    *)
(* the server is changed by one request at a time, a vault that is down is  *)
(* explained and no session is forgotten when the tools change; and what a  *)
(* deletion takes unasked is read by no target.                             *)
(***************************************************************************)
EXTENDS Server, TLAPS

-----------------------------------------------------------------------------
(* The vault session.                                                        *)

Kinds == {"nothing", "unlock", "change", "connect", "totp", "token", "complete"}
Steps == Reestablishing \cup {"idle", "hash", "sync", "save", "mark"}

VaultTypes ==
  /\ bwLogin \in Nat /\ logins \in Nat /\ session \in Nat /\ minted \in Nat
  /\ vaultError \in BOOLEAN
  /\ store \in Payloads /\ saved \in Payloads
  /\ sealed \in [Admins -> Payloads]
  /\ server \in [Admins -> Urls]
  /\ doing \in [Admins -> Kinds]
  /\ step \in [Admins -> Steps]

\* A request that will bring the client up, or say why not.
Rising == \E r \in Admins : Is(r, {"unlock", "change"}) /\ step[r] \in Reestablishing
Answerable == session # 0 \/ vaultError \/ Rising

\* A wizard that connected has its credentials in the store one step later.
Connected == store.creds \/ \E r \in Admins : Is(r, {"connect"}) /\ step[r] = "sync"

\* A change clears the error only with the client up, because no other change
\* has taken it down meanwhile.
VaultInv ==
  /\ VaultTypes
  /\ Connected => Answerable
  /\ \A r \in Admins : Is(r, {"change"}) /\ step[r] \in {"sync", "save"} => session # 0

LEMMA PayloadFields ==
  ASSUME NEW p \in Payloads
  PROVE  /\ p.creds \in BOOLEAN
         /\ \A u \in Urls, b \in BOOLEAN : [p EXCEPT !.url = u, !.creds = b] \in Payloads
         /\ \A u \in Urls, b \in BOOLEAN : [p EXCEPT !.url = u, !.creds = b].creds = b
         /\ [p EXCEPT !.totp = TRUE] \in Payloads
         /\ [p EXCEPT !.totp = TRUE].creds = p.creds
         /\ \A n \in Nat : [p EXCEPT !.token = n] \in Payloads
         /\ \A n \in Nat : [p EXCEPT !.token = n].creds = p.creds
BY DEF Payloads

LEMMA VaultInvInit == ServerInit => VaultInv
<1> SUFFICES ASSUME ServerInit PROVE VaultInv
  OBVIOUS
<1>1. Blank \in Payloads /\ Ready \in Payloads /\ Blank.creds = FALSE
  BY VaultAssumption DEF Blank, Ready, Payloads
<1>2. Blank.token = 0 /\ Ready.token = 1
  BY DEF Blank, Ready
<1> HIDE DEF Blank, Ready
<1>3. saved \in {Blank, Ready} /\ minted \in Nat /\ bwLogin \in Nat
  BY <1>2 DEF ServerInit, VaultInit
<1>4. VaultTypes
  BY <1>1, <1>3, VaultAssumption DEF ServerInit, VaultInit, VaultTypes, Kinds, Steps
<1>5. ~Connected
  BY <1>1 DEF ServerInit, VaultInit, Connected
<1> QED
  BY <1>4, <1>5 DEF ServerInit, VaultInit, VaultInv, Is

\* Requests end and move on in ways that leave the client alone.
LEMMA VaultQuiet ==
  ASSUME VaultInv, NEW r \in Admins, NEW s \in Steps \ {"sync", "save"},
         step' = [step EXCEPT ![r] = s],
         UNCHANGED <<bwVars, session, store, saved, vaultError, minted, doing, server, sealed>>,
         Is(r, {"unlock", "change"}) /\ step[r] \in Reestablishing => s \in Reestablishing
  PROVE  VaultInv'
<1>1. VaultTypes'
  BY DEF VaultInv, VaultTypes, bwVars
<1>2. Rising => Rising'
  BY DEF Rising, Is, VaultInv, VaultTypes
<1>3. Connected' => Connected
  BY DEF Connected, Is, VaultInv, VaultTypes
<1> QED
  BY <1>1, <1>2, <1>3 DEF VaultInv, VaultTypes, Answerable, Is

\* Back to idle, or to the write of the hash, from where nothing was rising.
LEMMA AnnounceQuiet ==
  ASSUME VaultInv, NEW r \in Admins, NEW tells, Announce(r, tells),
         UNCHANGED <<bwVars, session, store, saved, vaultError, minted, doing, server, sealed>>,
         step[r] \notin Reestablishing
  PROVE  VaultInv'
BY VaultQuiet DEF Announce, Goes, Steps

LEMMA VaultGoesOn ==
  ASSUME VaultInv, NEW r \in Admins, AdminGoesOn(r)
  PROVE  VaultInv'
<1>0. VaultTypes
  BY DEF VaultInv
<1>1. CASE loggedOut(r)
  BY <1>1, <1>0 DEF loggedOut, Goes, VaultInv, VaultTypes, Connected, Answerable, Rising, Is,
     Steps, Reestablishing, localVars
<1>2. CASE statusRead(r)
  BY <1>2, VaultQuiet DEF statusRead, Goes, Steps, Reestablishing, localVars
<1>3. CASE setServer(r)
  BY <1>3, <1>0 DEF setServer, Goes, VaultInv, VaultTypes, Connected, Answerable, Rising, Is,
     Steps, Reestablishing, localVars
<1>4. CASE loginApiKey(r)
  BY <1>4, <1>0 DEF loginApiKey, Goes, VaultInv, VaultTypes, Connected, Answerable, Rising, Is,
     Steps, Reestablishing, localVars
<1>5. CASE unlocked(r)
  BY <1>5, <1>0 DEF unlocked, Goes, VaultInv, VaultTypes, Connected, Answerable, Rising, Is,
     Steps, Reestablishing, localVars, bwVars
<1>6. CASE reestablishFails(r)
  BY <1>6, <1>0 DEF reestablishFails, Explains, Goes, VaultInv, VaultTypes, Connected, Answerable,
     Rising, Is, Steps, Reestablishing, localVars, bwVars
<1>7. CASE syncFails(r)
  BY <1>7, <1>0 DEF syncFails, Explains, Goes, VaultInv, VaultTypes, Connected, Answerable,
     Rising, Is, Steps, Reestablishing, localVars, bwVars
<1>8. CASE synced(r)
  <2>1. step[r] = "sync" /\ step[r] \notin Reestablishing
    BY <1>8 DEF synced, Reestablishing
  <2>2. CASE Is(r, {"unlock"})
    BY <1>8, <2>1, <2>2, VaultQuiet, AnnounceQuiet
       DEF synced, ensureBearerHash, Is, Goes, Steps, Reestablishing
  <2>3. CASE Is(r, {"change", "connect"})
    <3>1. /\ store' = [store EXCEPT !.url = server[r], !.creds = @ \/ Is(r, {"connect"})]
          /\ sealed' = [sealed EXCEPT ![r] = store']
          /\ step' = [step EXCEPT ![r] = "save"]
          /\ UNCHANGED <<bwVars, session, saved, vaultError, minted, doing, server>>
      BY <1>8, <2>3 DEF synced, Update, Goes, Is
    <3>2. store' \in Payloads /\ store'.creds = (store.creds \/ Is(r, {"connect"}))
      BY <3>1, <1>0, PayloadFields DEF VaultTypes, Is, Payloads
    <3>3. Connected' => Connected
      BY <3>1, <3>2, <2>1, <1>0 DEF Connected, VaultTypes, Is
    <3>4. Rising => Rising'
      BY <3>1, <2>1, <1>0 DEF Rising, VaultTypes, Is
    <3>5. VaultTypes'
      BY <3>1, <3>2, <1>0 DEF VaultTypes, bwVars, Steps
    <3> QED
      BY <3>1, <3>3, <3>4, <3>5, <2>1, <1>0 DEF VaultInv, VaultTypes, Answerable, Is
  <2> QED
    BY <1>8, <2>2, <2>3 DEF synced
<1>9. CASE storeSaved(r)
  <2>1. /\ step[r] = "save" /\ saved' = sealed[r]
        /\ vaultError' = (vaultError /\ ~Is(r, {"change"}))
        /\ \E s \in {"idle", "hash"} : step' = [step EXCEPT ![r] = s]
        /\ UNCHANGED <<bwVars, session, store, minted, doing, server, sealed>>
    BY <1>9 DEF storeSaved, ensureBearerHash, Announce, Goes
  <2>2. VaultTypes'
    BY <2>1, <1>0 DEF VaultTypes, bwVars, Steps
  <2>3. (Rising => Rising') /\ (Connected' => Connected)
    BY <2>1, <1>0 DEF Rising, Connected, VaultTypes, Is, Reestablishing
  <2> QED
    BY <2>1, <2>2, <2>3, <1>0 DEF VaultInv, VaultTypes, Answerable, Is
<1>10. CASE storeFails(r)
  BY <1>10, VaultQuiet DEF storeFails, Goes, Steps, Reestablishing, localVars
<1>11. CASE hashSaved(r)
  BY <1>11, AnnounceQuiet DEF hashSaved, Reestablishing, localVars
<1>12. CASE hashFails(r)
  BY <1>12, VaultQuiet DEF hashFails, Goes, Steps, Reestablishing, localVars
<1>13. CASE markWritten(r)
  BY <1>13, VaultQuiet DEF markWritten, Goes, Steps, Reestablishing, localVars
<1> QED
  BY <1>1, <1>2, <1>3, <1>4, <1>5, <1>6, <1>7, <1>8, <1>9, <1>10, <1>11, <1>12, <1>13 DEF AdminGoesOn

LEMMA VaultBegins ==
  ASSUME VaultInv, ~ChangesOverlap, NEW r \in Admins, AdminBegins(r)
  PROVE  VaultInv'
<1>0. VaultTypes
  BY DEF VaultInv
<1>1. CASE postUnlock(r)
  <2>1. /\ step[r] = "idle" /\ doing' = [doing EXCEPT ![r] = "unlock"]
        /\ store' = saved /\ UNCHANGED <<bwVars, session, saved, vaultError, minted, sealed>>
    BY <1>1 DEF postUnlock, Starts, Idle
  <2>2. CASE saved.creds
    <3>1. server' = [server EXCEPT ![r] = saved.url] /\ step' = [step EXCEPT ![r] = "status"]
      BY <1>1, <2>2 DEF postUnlock, Goes
    <3>2. VaultTypes'
      BY <2>1, <3>1, <1>0 DEF VaultTypes, bwVars, Steps, Reestablishing, Kinds, Payloads
    <3>3. Rising'
      BY <2>1, <3>1, <1>0 DEF Rising, Is, VaultTypes, Reestablishing
    <3> QED
      BY <2>1, <3>1, <3>2, <3>3, <1>0 DEF VaultInv, VaultTypes, Answerable, Is
  <2>3. CASE ~saved.creds
    <3>1. /\ UNCHANGED server
          /\ \E s \in {"idle", "hash"} : step' = [step EXCEPT ![r] = s]
      BY <1>1, <2>3 DEF postUnlock, ensureBearerHash, Announce, Goes
    <3>2. VaultTypes'
      BY <2>1, <3>1, <1>0 DEF VaultTypes, bwVars, Steps, Kinds
    <3>3. (Rising => Rising') /\ (Connected' => Connected)
      BY <2>1, <2>3, <3>1, <1>0 DEF Rising, Connected, VaultTypes, Is, Reestablishing
    <3> QED
      BY <2>1, <3>1, <3>2, <3>3, <1>0 DEF VaultInv, VaultTypes, Answerable, Is
  <2> QED
    BY <2>2, <2>3
<1>2. ASSUME NEW url \in Urls, changeVaultServer(r, url) PROVE VaultInv'
  <2>1. /\ step[r] = "idle" /\ doing' = [doing EXCEPT ![r] = "change"]
        /\ step' = [step EXCEPT ![r] = "logout"] /\ session' = 0
        /\ server' = [server EXCEPT ![r] = url]
        /\ UNCHANGED <<bwVars, store, saved, vaultError, minted, sealed>>
    BY <1>2 DEF changeVaultServer, Starts, Idle, Goes
  <2>2. \A q \in Admins : step[q] = "idle" \/ ~Is(q, {"change"})
    BY <1>2 DEF changeVaultServer, Idle
  <2>3. VaultTypes'
    BY <2>1, <1>0 DEF VaultTypes, bwVars, Steps, Reestablishing, Kinds
  <2>4. Rising'
    BY <2>1, <1>0 DEF Rising, Is, VaultTypes, Reestablishing
  <2> QED
    BY <2>1, <2>2, <2>3, <2>4, <1>0 DEF VaultInv, VaultTypes, Answerable, Is
<1>3. ASSUME NEW kind \in Kinds \ {"unlock", "change"}, NEW s \in {"status", "save", "mark"},
             step[r] = "idle", doing' = [doing EXCEPT ![r] = kind],
             step' = [step EXCEPT ![r] = s],
             store' \in Payloads, store'.creds = store.creds,
             sealed' \in [Admins -> Payloads], server' \in [Admins -> Urls], minted' \in Nat,
             UNCHANGED <<bwVars, session, saved, vaultError>>
      PROVE VaultInv'
  <2>1. VaultTypes'
    BY <1>3, <1>0 DEF VaultTypes, bwVars, Steps, Reestablishing, Kinds
  <2>2. (Rising => Rising') /\ (Connected' => Connected)
    BY <1>3, <1>0 DEF Rising, Connected, VaultTypes, Is, Reestablishing
  <2> QED
    BY <1>3, <2>1, <2>2, <1>0 DEF VaultInv, VaultTypes, Answerable, Is
<1>4. ASSUME NEW url \in Urls, connectVault(r, url) PROVE VaultInv'
  BY <1>4, <1>0, <1>3 DEF connectVault, Starts, Idle, Goes, VaultTypes, Kinds
<1>5. CASE beginTotpEnrollment(r)
  <2>1. store \in Payloads /\ store' = [store EXCEPT !.totp = TRUE]
    BY <1>5, <1>0 DEF beginTotpEnrollment, Update, VaultTypes
  <2>2. store' \in Payloads /\ store'.creds = store.creds
    BY <2>1, PayloadFields
  <2> QED
    BY <1>5, <1>0, <1>3, <2>1, <2>2 DEF beginTotpEnrollment, Update, Starts, Idle, Goes, VaultTypes, Kinds
<1>6. CASE generateBearerToken(r)
  <2>1. store \in Payloads /\ minted + 1 \in Nat /\ store' = [store EXCEPT !.token = minted + 1]
    BY <1>6, <1>0 DEF generateBearerToken, Update, VaultTypes
  <2>2. store' \in Payloads /\ store'.creds = store.creds
    BY <2>1, PayloadFields
  <2> QED
    BY <1>6, <1>0, <1>3, <2>1, <2>2 DEF generateBearerToken, Update, Starts, Idle, Goes, VaultTypes, Kinds
<1>7. CASE complete(r)
  BY <1>7, <1>0, <1>3 DEF complete, Starts, Idle, Goes, VaultTypes, Kinds
<1> QED
  BY <1>1, <1>2, <1>4, <1>5, <1>6, <1>7 DEF AdminBegins

LEMMA VaultRestarts ==
  ASSUME VaultInv, RestartVault
  PROVE  VaultInv'
<1>1. Blank \in Payloads /\ Blank.creds = FALSE
  BY VaultAssumption DEF Blank, Payloads
<1> HIDE DEF Blank
<1>2. VaultTypes'
  BY <1>1 DEF VaultInv, VaultTypes, RestartVault, bwVars, localVars, Steps
<1> QED
  BY <1>1, <1>2 DEF RestartVault, VaultInv, Connected, Is

LEMMA VaultUntouched == VaultInv /\ UNCHANGED vaultVars => VaultInv'
BY DEF VaultInv, VaultTypes, Connected, Answerable, Rising, Is, vaultVars, bwVars, localVars, hashVars

\* The calls, the sessions and the people leave the vault client alone.
LEMMA CallsLeaveVault ==
  ASSUME NEW c \in Calls, CallBegins(c) \/ CallGoesOn(c)
  PROVE  UNCHANGED vaultVars
<1>1. CASE CallBegins(c)
  BY <1>1 DEF CallBegins, register_target, update_target, useTarget, vault_delete_credential,
     setupTarget, BeginsTool, Begins
<1>2. CASE CallGoesOn(c)
  BY <1>2 DEF CallGoesOn, resolves, resolveFails, registrySaved, registryFails, setupTargetSaved,
     readPinned, readNamed, repinCredentialId, repinned, deletionResolved, checkDependent, checked,
     deletionFound, deleteItem
<1> QED
  BY <1>1, <1>2

LEMMA VaultInvStep ==
  ASSUME ~ChangesOverlap, VaultInv, [ServerNext]_serverVars
  PROVE  VaultInv'
<1>1. CASE Admin
  BY <1>1, VaultBegins, VaultGoesOn DEF Admin
<1>2. CASE ToolCalls
  BY <1>2, CallsLeaveVault, VaultUntouched DEF ToolCalls
<1>3. CASE Sessions
  BY <1>3, VaultUntouched DEF Sessions
<1>4. CASE People
  BY <1>4, VaultUntouched DEF People, vaultEdit
<1>5. CASE Restart
  BY <1>5, VaultRestarts DEF Restart
<1>6. CASE UNCHANGED serverVars
  BY <1>6, VaultUntouched DEF serverVars
<1> QED
  BY <1>1, <1>2, <1>3, <1>4, <1>5, <1>6 DEF ServerNext

(***************************************************************************)
(* While the server is changed by one request at a time, an open store that *)
(* is set up and at rest has its vault up or vaultError saying why not, for *)
(* any number of unlocks, wizards, servers and restarts (app.ts).           *)
(***************************************************************************)
THEOREM DownIsExplained ==
  ASSUME ~ChangesOverlap
  PROVE  ServerSpec => []LockedIsExplained
<1>1. VaultInv => LockedIsExplained
  BY DEF VaultInv, VaultTypes, LockedIsExplained, Connected, Answerable, Rising, AdminsIdle, Idle,
     Reestablishing
<1>2. ServerInit => VaultInv
  BY VaultInvInit
<1>3. VaultInv /\ [ServerNext]_serverVars => VaultInv'
  BY VaultInvStep
<1> QED
  BY <1>1, <1>2, <1>3, PTL DEF ServerSpec

-----------------------------------------------------------------------------
(* Deletions.                                                                *)

Refs == Names \cup Items
Entries == [ref : Names, pin : Items \cup {None}]
Registries == [TargetNames -> Entries \cup {None}]
CallRecords ==
  [tool : {"none", "register", "update", "use", "delete", "setup"},
   at : {"idle", "resolve", "save", "pinned", "named", "repin", "repinned", "check", "find", "trash"},
   target : TargetNames \cup {None}, ref : Refs \cup {None}, force : BOOLEAN,
   held : Entries \cup {None}, item : Items \cup {None}, name : Names \cup {None},
   checked : SUBSET TargetNames, dependents : SUBSET TargetNames,
   written : Registries \cup {None}, calm : BOOLEAN]

CallTyped(l) ==
  /\ l \in CallRecords
  /\ l.at \in {"save", "repinned"} => l.written \in Registries
  /\ l.at = "resolve" => l.checked = {}
  /\ l.at \in {"check", "find", "trash"} => l.item \in Items
  /\ l.at \in {"check", "find", "trash"} \/ l.tool = "delete" => l.ref \in Refs
  /\ l.tool \in {"register", "update"} => l.ref \in Names
  /\ l.tool = "use" => l.target \in TargetNames /\ l.held \in Entries
  /\ l.tool \in {"register", "update"} => l.target \in TargetNames

TargetTypes ==
  /\ items \in [Items -> Names \cup {None}]
  /\ targets \in Registries /\ file \in Registries
  /\ call \in [Calls -> CallRecords]
  /\ \A c \in Calls : CallTyped(call[c])

Deleting(c, places) == call[c].tool = "delete" /\ call[c].calm /\ call[c].at \in places

\* Refs, items and targets are bound, so that they stay what they are in the next state.
Kept(c) ==
  /\ Deleting(c, {"check", "find", "trash"}) =>
       \A r \in Refs : call[c].ref = r => call[c].item = resolveItem(r)
  /\ Deleting(c, {"check"}) =>
       \A t \in TargetNames : t \in Targeted /\ t \in call[c].checked /\ Reads(t) = call[c].item
                                => t \in call[c].dependents
  /\ Deleting(c, {"find", "trash"}) /\ ~call[c].force =>
       \A t \in TargetNames : t \in Targeted => Reads(t) # call[c].item

LEMMA SameView ==
  ASSUME items' = items, targets' = targets
  PROVE  /\ \A r : resolveItem(r)' = resolveItem(r)
         /\ \A t : Reads(t)' = Reads(t)
         /\ Targeted' = Targeted
BY DEF Reads, resolveItem, Exact, SameFolded, Partly, Live, Decides, Targeted

LEMMA KeptUndisturbed ==
  ASSUME NEW d \in Calls, Kept(d), items' = items, targets' = targets, call'[d] = call[d]
  PROVE  Kept(d)'
BY SameView DEF Kept, Deleting

LEMMA KeptDisturbed ==
  ASSUME TargetTypes, NEW d \in Calls,
         call'[d] = [call[d] EXCEPT !.calm = @ /\ call[d].at = "idle"]
  PROVE  Kept(d)'
BY DEF Kept, Deleting, TargetTypes, CallRecords

LEMMA KeptElsewhere ==
  ASSUME NEW c \in Calls,
         call'[c].tool # "delete" \/ call'[c].at \notin {"check", "find", "trash"} \/ ~call'[c].calm
  PROVE  Kept(c)'
BY DEF Kept, Deleting

LEMMA NoCallTyped == CallTyped(NoCall) /\ NoCall.tool = "none" /\ NoCall.at = "idle"
BY DEF CallTyped, CallRecords, NoCall

LEMMA CallUncalm ==
  ASSUME NEW l, CallTyped(l), NEW b \in BOOLEAN
  PROVE  CallTyped([l EXCEPT !.calm = b])
BY DEF CallTyped, CallRecords

DeletionInv == TargetTypes /\ \A c \in Calls : Kept(c)

LEMMA DeletionInit == ServerInit => DeletionInv
<1> SUFFICES ASSUME ServerInit PROVE DeletionInv
  OBVIOUS
<1>1. CallTyped(NoCall) /\ NoCall.at = "idle" /\ NoCall.tool = "none"
  BY NoCallTyped
<1>2. NoCall \in CallRecords
  BY <1>1 DEF CallTyped
<1> HIDE DEF NoCall
<1>3. \A c \in Calls : call[c] = NoCall
  BY DEF ServerInit, TargetsInit
<1>4. TargetTypes
  BY <1>1, <1>2, <1>3, ServerAssumption DEF ServerInit, TargetsInit, TargetTypes, Registries, Entries
<1> QED
  BY <1>1, <1>3, <1>4 DEF DeletionInv, Kept, Deleting

\* A call goes on and the others see what they saw.
LEMMA DeletionGoes ==
  ASSUME DeletionInv, NEW c \in Calls, NEW l, CallTyped(l), Continues(c, l),
         items' = items, targets' = targets, file' \in Registries, Kept(c)'
  PROVE  DeletionInv'
<1>1. TargetTypes
  BY DEF DeletionInv
<1>2. l \in CallRecords
  BY DEF CallTyped
<1>3. /\ call' \in [Calls -> CallRecords] /\ call'[c] = l
      /\ \A d \in Calls \ {c} : call'[d] = call[d]
  BY <1>1, <1>2 DEF Continues, TargetTypes
<1>4. \A d \in Calls : CallTyped(call'[d])
  BY <1>1, <1>3 DEF TargetTypes
<1>5. TargetTypes'
  BY <1>1, <1>3, <1>4 DEF TargetTypes, CallTyped
<1>6. ASSUME NEW d \in Calls \ {c} PROVE Kept(d)'
  BY <1>3, <1>6, KeptUndisturbed DEF DeletionInv
<1> QED
  BY <1>5, <1>6 DEF DeletionInv

\* A call goes on and the others are no longer calm.
LEMMA DeletionDisturbs ==
  ASSUME DeletionInv, NEW c \in Calls, NEW l, CallTyped(l), Disturbs(c, l),
         items' \in [Items -> Names \cup {None}], targets' \in Registries, file' = file,
         l.tool # "delete"
  PROVE  DeletionInv'
<1>1. TargetTypes
  BY DEF DeletionInv
<1>2. l \in CallRecords
  BY DEF CallTyped
<1>3. \A d \in Calls : CallTyped(call[d]) /\ call[d] \in CallRecords /\ call[d].calm \in BOOLEAN
  BY <1>1 DEF TargetTypes, CallRecords
<1>4. \A d \in Calls \ {c} : CallTyped([call[d] EXCEPT !.calm = @ /\ call[d].at = "idle"])
  BY <1>3, CallUncalm
<1>5. /\ call'[c] = l
      /\ \A d \in Calls \ {c} : call'[d] = [call[d] EXCEPT !.calm = @ /\ call[d].at = "idle"]
      /\ DOMAIN call' = Calls
      /\ call' = [d \in Calls |-> call'[d]]
  BY DEF Disturbs
<1>6. \A d \in Calls : CallTyped(call'[d])
  BY <1>4, <1>5
<1>7. call' \in [Calls -> CallRecords]
  BY <1>5, <1>6 DEF CallTyped
<1>8. TargetTypes'
  BY <1>1, <1>6, <1>7 DEF TargetTypes, CallTyped
<1>9. ASSUME NEW d \in Calls \ {c} PROVE Kept(d)'
  BY <1>1, <1>5, <1>9, KeptDisturbed
<1>10. Kept(c)'
  BY <1>5, KeptElsewhere
<1> QED
  BY <1>8, <1>9, <1>10 DEF DeletionInv

LEMMA DeletionCallBegins ==
  ASSUME DeletionInv, NEW c \in Calls, CallBegins(c)
  PROVE  DeletionInv'
<1>0. TargetTypes
  BY DEF DeletionInv
<1>1. ASSUME NEW l, CallTyped(l), l.at \in {"idle", "resolve", "pinned", "named"}, Begins(c, l)
      PROVE DeletionInv'
  <2>1. call'[c] = l
    BY <1>0, <1>1 DEF Begins, Continues, TargetTypes
  <2>2. Kept(c)'
    BY <1>1, <2>1, KeptElsewhere
  <2> QED
    BY <1>0, <1>1, <2>2, DeletionGoes DEF Begins, TargetTypes
<1>2. ASSUME NEW t \in TargetNames, NEW ref \in Names, register_target(c, t, ref)
      PROVE DeletionInv'
  <2> DEFINE l == [NoCall EXCEPT !.tool = "register", !.at = "resolve", !.target = t, !.ref = ref]
  <2>1. CallTyped(l) /\ l.at = "resolve"
    BY DEF CallTyped, CallRecords, NoCall, Refs
  <2> QED
    BY <1>1, <1>2, <2>1 DEF register_target, BeginsTool
<1>3. ASSUME NEW t \in TargetNames, NEW ref \in Names, update_target(c, t, ref)
      PROVE DeletionInv'
  <2> DEFINE l == [NoCall EXCEPT !.tool = "update", !.at = "resolve", !.target = t,
                               !.ref = ref, !.held = targets[t]]
  <2>0. targets[t] \in Entries \cup {None}
    BY <1>0 DEF TargetTypes, Registries
  <2>1. CallTyped(l) /\ l.at = "resolve"
    BY <2>0 DEF CallTyped, CallRecords, NoCall, Refs
  <2> QED
    BY <1>1, <1>3, <2>1 DEF update_target, BeginsTool
<1>4. ASSUME NEW t \in TargetNames, useTarget(c, t)
      PROVE DeletionInv'
  <2> DEFINE where == IF targets[t].pin # None THEN "pinned" ELSE "named"
             l == [NoCall EXCEPT !.tool = "use", !.target = t, !.held = targets[t], !.at = where]
  <2>0. targets[t] \in Entries
    BY <1>0, <1>4 DEF TargetTypes, Registries, useTarget, Targeted
  <2>1. CallTyped(l) /\ l.at \in {"pinned", "named"}
    BY <2>0 DEF CallTyped, CallRecords, NoCall, Refs
  <2> QED
    BY <1>1, <1>4, <2>1 DEF useTarget, BeginsTool
<1>5. ASSUME NEW ref \in Names \cup Items, NEW force \in BOOLEAN, vault_delete_credential(c, ref, force)
      PROVE DeletionInv'
  <2> DEFINE l == [NoCall EXCEPT !.tool = "delete", !.at = "resolve", !.ref = ref, !.force = force]
  <2>1. CallTyped(l) /\ l.at = "resolve"
    BY DEF CallTyped, CallRecords, NoCall, Refs
  <2> QED
    BY <1>1, <1>5, <2>1 DEF vault_delete_credential, BeginsTool
<1>6. ASSUME NEW t \in TargetNames, NEW entry \in {None} \cup [ref : Names, pin : {None}],
             setupTarget(c, t, entry)
      PROVE DeletionInv'
  <2> DEFINE l == [NoCall EXCEPT !.tool = "setup", !.at = "save", !.written = targets']
  <2>0. entry \in Entries \cup {None}
    BY DEF Entries
  <2>1. targets' \in Registries
    BY <1>0, <1>6, <2>0 DEF setupTarget, TargetTypes, Registries
  <2>2. CallTyped(l) /\ l.tool = "setup"
    BY <2>1 DEF CallTyped, CallRecords, NoCall
  <2>3. Disturbs(c, l) /\ items' = items /\ file' = file
    BY <1>6 DEF setupTarget
  <2> QED
    BY <1>0, <2>1, <2>2, <2>3, DeletionDisturbs DEF TargetTypes
<1> QED
  BY <1>2, <1>3, <1>4, <1>5, <1>6 DEF CallBegins

LEMMA DeletionEnds ==
  ASSUME DeletionInv, NEW c \in Calls, Ends(c),
         items' = items, targets' = targets, file' \in Registries
  PROVE  DeletionInv'
<1>1. CallTyped(NoCall) /\ NoCall.tool = "none"
  BY NoCallTyped
<1>2. call'[c] = NoCall
  BY DEF Ends, Continues, DeletionInv, TargetTypes
<1>3. Kept(c)'
  BY <1>1, <1>2, KeptElsewhere
<1> HIDE DEF NoCall
<1> QED
  BY <1>1, <1>3, DeletionGoes DEF Ends

LEMMA DeletionCallGoesOn ==
  ASSUME DeletionInv, NEW c \in Calls, CallGoesOn(c)
  PROVE  DeletionInv'
<1>0. /\ TargetTypes /\ Kept(c) /\ CallTyped(call[c]) /\ call[c] \in CallRecords
      /\ file \in Registries
  BY DEF DeletionInv, TargetTypes
<1>1. CASE resolves(c)
  <2> DEFINE entry == [ref |-> call[c].ref, pin |-> resolveItem(call[c].ref)]
             l == [call[c] EXCEPT !.at = "save", !.written = targets']
  <2>1. At(c, {"register", "update"}, "resolve") /\ Found(call[c].ref)
    BY <1>1 DEF resolves
  <2>2. call[c].target \in TargetNames /\ entry \in Entries
    BY <1>0, <2>1 DEF At, CallTyped, Found, Entries
  <2>3. targets' = [targets EXCEPT ![call[c].target] = entry]
    BY <1>1 DEF resolves, upsert
  <2>4. targets' \in Registries
    BY <1>0, <2>2, <2>3 DEF TargetTypes, Registries
  <2>5. CallTyped(l) /\ l.tool # "delete"
    BY <1>0, <2>1, <2>4 DEF CallTyped, CallRecords, At
  <2>6. Disturbs(c, l) /\ items' = items /\ file' = file
    BY <1>1 DEF resolves, upsert
  <2> QED
    BY <1>0, <2>4, <2>5, <2>6, DeletionDisturbs DEF TargetTypes
<1>2. CASE resolveFails(c)
  BY <1>0, <1>2, DeletionEnds DEF resolveFails
<1>3. CASE registrySaved(c) \/ setupTargetSaved(c)
  <2>1. file' \in Registries
    BY <1>0, <1>3 DEF registrySaved, setupTargetSaved, CallTyped, At
  <2> QED
    BY <1>3, <2>1, DeletionEnds DEF registrySaved, setupTargetSaved
<1>4. CASE registryFails(c)
  BY <1>0, <1>4, DeletionEnds DEF registryFails
<1>5. ASSUME NEW l, CallTyped(l), l.tool # "delete", Continues(c, l),
             UNCHANGED <<items, targets, file>>
      PROVE DeletionInv'
  <2>1. call'[c] = l
    BY <1>0, <1>5 DEF Continues, TargetTypes
  <2>2. Kept(c)'
    BY <1>5, <2>1, KeptElsewhere
  <2> QED
    BY <1>0, <1>5, <2>2, DeletionGoes
<1>6. CASE readPinned(c)
  <2> DEFINE l == [call[c] EXCEPT !.at = "named"]
  <2>1. CallTyped(l) /\ l.tool # "delete"
    BY <1>0, <1>6 DEF readPinned, At, CallTyped, CallRecords
  <2>2. CASE Ends(c)
    BY <1>0, <1>6, <2>2, DeletionEnds DEF readPinned
  <2>3. CASE Continues(c, l)
    BY <1>5, <1>6, <2>1, <2>3 DEF readPinned
  <2> QED
    BY <1>6, <2>2, <2>3 DEF readPinned
<1>7. CASE readNamed(c)
  <2> DEFINE l == [call[c] EXCEPT !.at = "repin"]
  <2>1. CallTyped(l) /\ l.tool # "delete"
    BY <1>0, <1>7 DEF readNamed, At, CallTyped, CallRecords
  <2>2. CASE Ends(c)
    BY <1>0, <1>7, <2>2, DeletionEnds DEF readNamed
  <2>3. CASE Continues(c, l)
    BY <1>5, <1>7, <2>1, <2>3 DEF readNamed
  <2> QED
    BY <1>7, <2>2, <2>3 DEF readNamed
<1>8. CASE repinCredentialId(c)
  <2>0. At(c, {"use"}, "repin") /\ items' = items /\ file' = file
    BY <1>8 DEF repinCredentialId
  <2>1. CASE Ends(c) /\ UNCHANGED targets
    BY <1>0, <2>0, <2>1, DeletionEnds
  <2>2. CASE /\ Found(call[c].held.ref) /\ targets[call[c].target] # None
             /\ upsert(c, call[c].target,
                       [targets[call[c].target] EXCEPT !.pin = resolveItem(call[c].held.ref)], "repinned")
    <3> DEFINE t == call[c].target
               item == resolveItem(call[c].held.ref)
               entry == [targets[t] EXCEPT !.pin = item]
               l == [call[c] EXCEPT !.at = "repinned", !.written = targets']
    <3>1. t \in TargetNames /\ item \in Items
      BY <1>0, <2>0, <2>2 DEF At, CallTyped, Found
    <3>2. targets[t] \in Entries
      BY <1>0, <2>2, <3>1 DEF TargetTypes, Registries
    <3>3. entry \in Entries
      <4> HIDE DEF item
      <4> QED
        BY <3>1, <3>2 DEF Entries
    <3>4. targets' = [targets EXCEPT ![t] = entry]
      BY <2>2 DEF upsert
    <3>5. targets' \in Registries
      <4> HIDE DEF entry
      <4> QED
        BY <1>0, <3>1, <3>3, <3>4 DEF TargetTypes, Registries
    <3>6. CallTyped(l) /\ l.tool # "delete"
      BY <1>0, <2>0, <3>5 DEF CallTyped, CallRecords, At
    <3>7. Disturbs(c, l)
      BY <2>2 DEF upsert
    <3> QED
      BY <1>0, <2>0, <3>5, <3>6, <3>7, DeletionDisturbs DEF TargetTypes
  <2> QED
    BY <1>8, <2>1, <2>2 DEF repinCredentialId
<1>9. CASE repinned(c)
  <2>1. file' \in Registries
    BY <1>0, <1>9 DEF repinned, CallTyped, At
  <2> QED
    BY <1>9, <2>1, DeletionEnds DEF repinned
<1>10. ASSUME NEW l, CallTyped(l), Continues(c, l), Kept(c)', UNCHANGED <<items, targets, file>>
       PROVE DeletionInv'
  BY <1>0, <1>10, DeletionGoes
<1>11. CASE deletionResolved(c)
  <2> DEFINE item == resolveItem(call[c].ref)
             l == [call[c] EXCEPT !.at = "check", !.item = item, !.name = items[item]]
  <2>1. /\ At(c, {"delete"}, "resolve") /\ item \in Items /\ Continues(c, l)
        /\ UNCHANGED <<items, targets, file>>
    BY <1>11 DEF deletionResolved, Found
  <2>2. CallTyped(l)
    <3>1. items[item] \in Names \cup {None}
      BY <1>0, <2>1 DEF TargetTypes
    <3> HIDE DEF item
    <3> QED
      BY <1>0, <2>1, <3>1 DEF CallTyped, CallRecords, At
  <2>3. call'[c] = l
    BY <1>0, <2>1 DEF Continues, TargetTypes
  <2>4. /\ call'[c].at = "check" /\ call'[c].ref = call[c].ref /\ call'[c].item = resolveItem(call[c].ref)
        /\ call'[c].checked = {}
    BY <1>0, <2>1, <2>3 DEF CallRecords, CallTyped, At
  <2>5. Kept(c)'
    BY <2>1, <2>4, SameView DEF Kept, Deleting
  <2> QED
    BY <1>10, <2>1, <2>2, <2>5
<1>12. ASSUME NEW t \in TargetNames, checkDependent(c, t) PROVE DeletionInv'
  <2>1. At(c, {"delete"}, "check") /\ UNCHANGED <<items, targets, file>>
    BY <1>12 DEF checkDependent
  <2>2. CASE Continues(c, [call[c] EXCEPT !.checked = @ \cup {t}, !.calm = FALSE])
    <3> DEFINE l == [call[c] EXCEPT !.checked = @ \cup {t}, !.calm = FALSE]
    <3>1. CallTyped(l) /\ l.calm = FALSE
      BY <1>0, <2>1 DEF CallTyped, CallRecords, At
    <3>2. call'[c] = l
      BY <1>0, <2>2 DEF Continues, TargetTypes
    <3>3. Kept(c)'
      BY <3>1, <3>2, KeptElsewhere
    <3> QED
      BY <1>10, <2>1, <2>2, <3>1, <3>3
  <2>3. CASE Continues(c, [call[c] EXCEPT !.checked = @ \cup {t},
                               !.dependents = @ \cup { u \in {t} : Dependent(c, t) }])
    <3> DEFINE found == { u \in {t} : Dependent(c, t) }
               l == [call[c] EXCEPT !.checked = @ \cup {t}, !.dependents = @ \cup found]
    <3>1. found \subseteq {t} /\ (Dependent(c, t) => found = {t})
      OBVIOUS
    <3> HIDE DEF found
    <3>2. CallTyped(l)
      BY <1>0, <2>1, <3>1, ZenonT(40) DEF CallTyped, CallRecords, At
    <3>3. call'[c] = l
      BY <1>0, <2>3 DEF Continues, TargetTypes, found
    <3>4. /\ call'[c].at = "check" /\ call'[c].ref = call[c].ref /\ call'[c].item = call[c].item
          /\ call'[c].checked = call[c].checked \cup {t} /\ call'[c].calm = call[c].calm
          /\ call'[c].dependents = call[c].dependents \cup found /\ call'[c].tool = "delete"
      BY <1>0, <2>1, <3>3 DEF CallRecords, At
    <3>5. Reads(t) = call[c].item => Dependent(c, t)
      BY DEF Reads, Dependent, Identified
    <3>6. Kept(c)'
      <4>1. \A r : resolveItem(r)' = resolveItem(r)
        BY <2>1, SameView
      <4>2. \A u : Reads(u)' = Reads(u)
        BY <2>1, SameView
      <4>3. Targeted' = Targeted
        BY <2>1, SameView
      <4> HIDE DEF l
      <4> QED
        BY <1>0, <2>1, <3>1, <3>4, <3>5, <4>1, <4>2, <4>3 DEF Kept, Deleting, At
    <3> QED
      BY <1>10, <2>1, <2>3, <3>2, <3>6 DEF found
  <2> QED
    BY <1>12, <2>2, <2>3 DEF checkDependent
<1>13. CASE checked(c)
  <2> DEFINE l == [call[c] EXCEPT !.at = "find"]
  <2>1. /\ At(c, {"delete"}, "check") /\ Targeted \subseteq call[c].checked
        /\ UNCHANGED <<items, targets, file>>
    BY <1>13 DEF checked
  <2>2. CASE Ends(c)
    BY <1>0, <2>1, <2>2, DeletionEnds
  <2>3. CASE (call[c].dependents = {} \/ call[c].force) /\ Continues(c, l)
    <3>1. CallTyped(l)
      BY <1>0, <2>1 DEF CallTyped, CallRecords, At
    <3>2. call'[c] = l
      BY <1>0, <2>3 DEF Continues, TargetTypes
    <3>3. /\ call'[c].at = "find" /\ call'[c].ref = call[c].ref /\ call'[c].item = call[c].item
          /\ call'[c].calm = call[c].calm /\ call'[c].force = call[c].force /\ call'[c].tool = "delete"
      BY <1>0, <2>1, <3>2 DEF CallRecords, At
    <3>4. Kept(c)'
      <4>1. \A r : resolveItem(r)' = resolveItem(r)
        BY <2>1, SameView
      <4>2. \A u : Reads(u)' = Reads(u)
        BY <2>1, SameView
      <4>3. Targeted' = Targeted
        BY <2>1, SameView
      <4> HIDE DEF l
      <4> QED
        BY <1>0, <2>1, <2>3, <3>3, <4>1, <4>2, <4>3 DEF Kept, Deleting, At
    <3> QED
      BY <1>10, <2>1, <2>3, <3>1, <3>4
  <2> QED
    BY <1>13, <2>2, <2>3 DEF checked
<1>14. CASE deletionFound(c)
  <2> DEFINE item == resolveItem(call[c].ref)
             l == [call[c] EXCEPT !.at = "trash", !.item = item]
  <2>1. At(c, {"delete"}, "find") /\ UNCHANGED <<items, targets, file>>
    BY <1>14 DEF deletionFound
  <2>2. CASE Ends(c)
    BY <1>0, <2>1, <2>2, DeletionEnds
  <2>3. CASE Found(call[c].ref) /\ Continues(c, l)
    <3>1. item \in Items /\ call[c].ref \in Refs
      BY <1>0, <2>1, <2>3 DEF Found, CallTyped, At
    <3> HIDE DEF item
    <3>2. CallTyped(l)
      BY <1>0, <2>1, <3>1 DEF CallTyped, CallRecords, At
    <3>3. call'[c] = l
      BY <1>0, <2>3 DEF Continues, TargetTypes
    <3>4. /\ call'[c].at = "trash" /\ call'[c].ref = call[c].ref /\ call'[c].item = item
          /\ call'[c].calm = call[c].calm /\ call'[c].force = call[c].force /\ call'[c].tool = "delete"
      BY <1>0, <2>1, <3>3 DEF CallRecords, At
    <3>5. call[c].calm => item = call[c].item
      BY <1>0, <2>1, <3>1 DEF Kept, Deleting, At, item
    <3>6. Kept(c)'
      <4>1. \A r : resolveItem(r)' = resolveItem(r)
        BY <2>1, SameView
      <4>2. \A u : Reads(u)' = Reads(u)
        BY <2>1, SameView
      <4>3. Targeted' = Targeted
        BY <2>1, SameView
      <4>4. \A r \in Refs : call[c].ref = r => item = resolveItem(r)
        BY DEF item
      <4> HIDE DEF l
      <4> QED
        BY <1>0, <2>1, <3>4, <3>5, <4>1, <4>2, <4>3, <4>4 DEF Kept, Deleting, At
    <3> QED
      BY <1>10, <2>1, <2>3, <3>2, <3>6 DEF item
  <2> QED
    BY <1>14, <2>2, <2>3 DEF deletionFound
<1>15. CASE deleteItem(c)
  <2>0. At(c, {"delete"}, "trash") /\ UNCHANGED <<targets, file>>
    BY <1>15 DEF deleteItem
  <2>1. CASE items' = [items EXCEPT ![call[c].item] = None] /\ Disturbs(c, NoCall)
    <3>1. items' \in [Items -> Names \cup {None}]
      BY <1>0, <2>1 DEF TargetTypes
    <3>2. CallTyped(NoCall) /\ NoCall.tool # "delete"
      BY NoCallTyped
    <3> HIDE DEF NoCall
    <3> QED
      BY <1>0, <2>0, <2>1, <3>1, <3>2, DeletionDisturbs DEF TargetTypes
  <2>2. CASE Ends(c) /\ UNCHANGED items
    BY <1>0, <2>0, <2>2, DeletionEnds
  <2> QED
    BY <1>15, <2>1, <2>2 DEF deleteItem
<1> QED
  BY <1>1, <1>2, <1>3, <1>4, <1>6, <1>7, <1>8, <1>9, <1>11, <1>12, <1>13, <1>14, <1>15 DEF CallGoesOn

LEMMA DeletionUntouched == DeletionInv /\ UNCHANGED targetVars => DeletionInv'
<1> SUFFICES ASSUME DeletionInv, UNCHANGED targetVars PROVE DeletionInv'
  OBVIOUS
<1>1. UNCHANGED items /\ UNCHANGED targets /\ UNCHANGED file /\ UNCHANGED call
  BY DEF targetVars
<1>2. TargetTypes'
  BY <1>1 DEF DeletionInv, TargetTypes, CallTyped
<1>3. ASSUME NEW c \in Calls PROVE Kept(c)'
  BY <1>1, <1>3, KeptUndisturbed DEF DeletionInv
<1> QED
  BY <1>2, <1>3 DEF DeletionInv

LEMMA DeletionInvStep == DeletionInv /\ [ServerNext]_serverVars => DeletionInv'
<1> SUFFICES ASSUME DeletionInv, [ServerNext]_serverVars PROVE DeletionInv'
  OBVIOUS
<1>0. TargetTypes
  BY DEF DeletionInv
<1>1. CASE Admin
  BY <1>1, DeletionUntouched DEF Admin
<1>2. CASE ToolCalls
  BY <1>2, DeletionCallBegins, DeletionCallGoesOn DEF ToolCalls
<1>3. CASE Sessions
  BY <1>3, DeletionUntouched DEF Sessions
<1>4. CASE People
  <2>1. PICK i \in Items, name \in Names \cup {None} : vaultEdit(i, name)
    BY <1>4 DEF People
  <2>2. items' = [items EXCEPT ![i] = name] /\ UNCHANGED <<targets, file>>
    BY <2>1 DEF vaultEdit
  <2>3. call' = [d \in Calls |-> [call[d] EXCEPT !.calm = @ /\ call[d].at = "idle"]]
    BY <2>1 DEF vaultEdit
  <2>4. \A d \in Calls : CallTyped(call[d]) /\ call[d].calm \in BOOLEAN
    BY <1>0 DEF TargetTypes, CallTyped, CallRecords
  <2>5. \A d \in Calls : CallTyped(call'[d])
    BY <2>3, <2>4, CallUncalm
  <2>6. call' \in [Calls -> CallRecords]
    BY <2>3, <2>5 DEF CallTyped
  <2>7. TargetTypes'
    BY <1>0, <2>2, <2>5, <2>6 DEF TargetTypes, CallTyped
  <2>8. ASSUME NEW d \in Calls PROVE Kept(d)'
    BY <1>0, <2>3, <2>8, KeptDisturbed
  <2> QED
    BY <2>7, <2>8 DEF DeletionInv
<1>5. CASE Restart
  <2>1. CallTyped(NoCall) /\ NoCall.tool = "none"
    BY NoCallTyped
  <2>2. NoCall \in CallRecords
    BY <2>1 DEF CallTyped
  <2> HIDE DEF NoCall
  <2>3. /\ file' \in Registries /\ targets' = file' /\ items' = items
        /\ call' = [c \in Calls |-> NoCall]
    BY <1>0, <1>5 DEF Restart, RestartTargets, TargetTypes, Registries
  <2>4. TargetTypes'
    BY <1>0, <2>1, <2>2, <2>3 DEF TargetTypes, CallTyped
  <2>5. ASSUME NEW c \in Calls PROVE Kept(c)'
    BY <2>1, <2>3, <2>5, KeptElsewhere
  <2> QED
    BY <2>4, <2>5 DEF DeletionInv
<1>6. CASE UNCHANGED serverVars
  BY <1>6, DeletionUntouched DEF serverVars
<1> QED
  BY <1>1, <1>2, <1>3, <1>4, <1>5, <1>6 DEF ServerNext

(***************************************************************************)
(* Whatever the names, the pins and the other calls: what a deletion takes  *)
(* unasked, from a vault that answered and was left alone meanwhile, is     *)
(* read by no registered target (vault_delete_credential).                  *)
(***************************************************************************)
THEOREM DeletionsAreHarmless == ServerSpec => []DeletionHarmless
<1>1. DeletionInv => DeletionHarmless
  <2> SUFFICES ASSUME DeletionInv, NEW c \in Calls, At(c, {"delete"}, "trash"),
                      ~call[c].force, call[c].calm, NEW t \in Targeted
               PROVE  Reads(t) # call[c].item
    BY DEF DeletionHarmless
  <2> QED
    BY DEF DeletionInv, Kept, Deleting, At, Targeted
<1>2. ServerInit => DeletionInv
  BY DeletionInit
<1>3. DeletionInv /\ [ServerNext]_serverVars => DeletionInv'
  BY DeletionInvStep
<1> QED
  BY <1>1, <1>2, <1>3, PTL DEF ServerSpec

-----------------------------------------------------------------------------
(* Who is told of the tools.                                                 *)

\* Somebody brings the client up, or has counted on it being up: the wizard before
\* it is complete, and what is left of it afterwards.
Wants ==
  \/ Connected
  \/ \E r \in Admins : step[r] = "mark"
  \/ setupComplete /\ \E r \in Admins : ~Is(r, {"unlock", "change"}) /\ step[r] \in Reestablishing

\* Then it is up, or something failed, or a request that tells the sessions is at it.
Risen == session # 0 \/ failed \/ Rising

\* What will end in a notification, unless it leaves the vault down.
Telling ==
  \/ \E r \in Admins : Is(r, {"unlock", "change"}) /\ ~Idle(r)
  \/ \E c \in Calls : At(c, {"register", "update"}, "save")

Told(s) == table[s].told \/ failed \/ Telling \/ Visible \subseteq table[s].knows

SessionTypes ==
  /\ table \in [Registered -> [seen : Nat, knows : SUBSET TargetNames, told : BOOLEAN]]
  /\ now \in Nat /\ failed \in BOOLEAN /\ open \in BOOLEAN /\ setupComplete \in BOOLEAN

\* What the vault client and the sessions agree on.
Agreed ==
  /\ \A r \in Admins : step[r] = "mark" => Is(r, {"complete"})
  /\ ~open => session = 0 /\ AdminsIdle
  /\ Wants => Risen
  /\ ~setupComplete => Registered = {} /\ joining = {}
  /\ Registered \subseteq listeners

ToldInv == SessionTypes /\ Agreed /\ \A s \in Registered : Told(s)

LEMMA ToldInit == ServerInit => ToldInv
<1> SUFFICES ASSUME ServerInit PROVE ToldInv
  OBVIOUS
<1>1. Blank.creds = FALSE
  BY DEF Blank
<1> HIDE DEF Blank, Ready
<1>2. Registered = {}
  BY DEF ServerInit, SessionsInit, Registered
<1>3. SessionTypes
  <2>1. table \in [{} -> [seen : Nat, knows : SUBSET TargetNames, told : BOOLEAN]]
    BY DEF ServerInit, SessionsInit
  <2>2. open \in BOOLEAN /\ setupComplete \in BOOLEAN
    BY DEF ServerInit, VaultInit
  <2>3. now \in Nat /\ failed \in BOOLEAN
    BY DEF ServerInit, SessionsInit
  <2> QED
    BY <1>2, <2>1, <2>2, <2>3 DEF SessionTypes
<1>4. Agreed
  BY <1>1, <1>2 DEF ServerInit, SessionsInit, VaultInit, Agreed, Wants, Connected, AdminsIdle, Idle,
     Is, Reestablishing
<1> QED
  BY <1>2, <1>3, <1>4 DEF ToldInv

\* The sessions hear of it.
LEMMA EmitTells ==
  ASSUME SessionTypes, Registered \subseteq listeners, NEW up \in BOOLEAN, emitToolsChanged(up)
  PROVE  /\ Registered' = Registered
         /\ table' \in [Registered -> [seen : Nat, knows : SUBSET TargetNames, told : BOOLEAN]]
         /\ \A s \in Registered : table'[s].told
         /\ failed' = (failed /\ ~up)
         /\ UNCHANGED <<listeners, joining, now>>
<1>1. /\ table' = [s \in Registered |->
                     IF s \in listeners THEN [table[s] EXCEPT !.told = TRUE] ELSE table[s]]
      /\ failed' = (failed /\ ~up) /\ UNCHANGED <<listeners, joining, now>>
  BY DEF emitToolsChanged
<1>2. \A s \in Registered : table[s] \in [seen : Nat, knows : SUBSET TargetNames, told : BOOLEAN]
  BY DEF SessionTypes
<1>3. \A s \in Registered :
        /\ [table[s] EXCEPT !.told = TRUE] \in [seen : Nat, knows : SUBSET TargetNames, told : BOOLEAN]
        /\ [table[s] EXCEPT !.told = TRUE].told = TRUE
  BY <1>2
<1>4. Registered' = Registered
  BY <1>1 DEF Registered
<1> QED
  BY <1>1, <1>2, <1>3, <1>4

\* A request moves on and tells nobody.
LEMMA ToldQuiet ==
  ASSUME VaultInv, ToldInv, NEW r \in Admins, NEW s \in Steps \ {"mark"}, step[r] # "idle",
         step' = [step EXCEPT ![r] = s],
         UNCHANGED <<doing, setupComplete, open, session, sessionVars, targets, call>>,
         store'.creds => Connected,
         Is(r, {"connect"}) => s # "sync",
         s \in Reestablishing => step[r] \in Reestablishing,
         Is(r, {"unlock", "change"}) =>
           s # "idle" /\ (step[r] \in Reestablishing => s \in Reestablishing)
  PROVE  ToldInv'
<1>0. SessionTypes /\ Agreed /\ VaultTypes
  BY DEF ToldInv, VaultInv
<1>1. SessionTypes' /\ Registered' = Registered
  BY <1>0 DEF SessionTypes, Registered, sessionVars
<1>2. (Rising => Rising') /\ (Telling => Telling')
  BY <1>0 DEF Rising, Telling, Is, Idle, At, VaultTypes
<1>3. Connected' => Connected
  BY <1>0 DEF Connected, Is, VaultTypes
<1>4. Wants' => Wants
  BY <1>0, <1>3 DEF Wants, Is, VaultTypes
<1>5. Agreed'
  BY <1>0, <1>1, <1>2, <1>4 DEF Agreed, Risen, AdminsIdle, Idle, Is, VaultTypes, sessionVars
<1>6. Visible' = Visible
  BY DEF Visible, Locked, Targeted
<1> QED
  BY <1>1, <1>2, <1>5, <1>6 DEF ToldInv, Told, sessionVars

\* An operation fails half-way.
LEMMA ToldFails ==
  ASSUME VaultInv, ToldInv, NEW r \in Admins, step[r] # "idle",
         step' = [step EXCEPT ![r] = "idle"], EndsBadly,
         UNCHANGED <<doing, setupComplete, open, session>>
  PROVE  ToldInv'
<1>0. SessionTypes /\ Agreed /\ VaultTypes
  BY DEF ToldInv, VaultInv
<1>1. failed' = TRUE /\ UNCHANGED <<table, listeners, joining, now>>
  BY DEF EndsBadly
<1>2. SessionTypes' /\ Registered' = Registered
  BY <1>0, <1>1 DEF SessionTypes, Registered
<1>3. Agreed'
  BY <1>0, <1>1, <1>2 DEF Agreed, Risen, AdminsIdle, Idle, Is, VaultTypes
<1> QED
  BY <1>1, <1>2, <1>3 DEF ToldInv, Told

\* A request comes to its announcement.
LEMMA ToldAnnounce ==
  ASSUME VaultInv, ToldInv, NEW r \in Admins,
         Announce(r, Is(r, {"unlock", "change"})),
         step[r] \notin Reestablishing \cup {"idle"},
         UNCHANGED <<doing, setupComplete, open, session, targets, call>>,
         store'.creds => Connected
  PROVE  ToldInv'
<1>0. SessionTypes /\ Agreed /\ VaultTypes
  BY DEF ToldInv, VaultInv
<1>1. step' = [step EXCEPT ![r] = "idle"]
  BY DEF Announce, Goes
<1>2. Connected' => Connected
  BY <1>0, <1>1 DEF Connected, Is, VaultTypes
<1>3. Wants' => Wants
  BY <1>0, <1>1, <1>2 DEF Wants, Is, VaultTypes, Reestablishing
<1>4. Rising => Rising'
  BY <1>0, <1>1 DEF Rising, Is, VaultTypes
<1>5. CASE session # 0 /\ emitToolsChanged(TRUE)
  <2>1. /\ Registered' = Registered
        /\ table' \in [Registered -> [seen : Nat, knows : SUBSET TargetNames, told : BOOLEAN]]
        /\ \A s \in Registered : table'[s].told
        /\ failed' = FALSE
        /\ UNCHANGED <<listeners, joining, now>>
    BY <1>0, <1>5, EmitTells DEF Agreed
  <2>2. SessionTypes'
    BY <1>0, <2>1 DEF SessionTypes
  <2>3. Agreed'
    BY <1>0, <1>1, <1>3, <1>5, <2>1 DEF Agreed, Risen, AdminsIdle, Idle, Is, VaultTypes
  <2> QED
    BY <2>1, <2>2, <2>3 DEF ToldInv, Told
<1>6. CASE ~(Is(r, {"unlock", "change"}) /\ session # 0) /\ EndsWell
  <2>1. UNCHANGED <<table, listeners, joining, now, failed>>
    BY <1>6 DEF EndsWell, sessionVars
  <2>2. SessionTypes' /\ Registered' = Registered
    BY <1>0, <2>1 DEF SessionTypes, Registered
  <2>3. Agreed'
    BY <1>0, <1>1, <1>3, <1>4, <2>1, <2>2 DEF Agreed, Risen, AdminsIdle, Idle, Is, VaultTypes
  <2>4. Visible' = Visible /\ (session = 0 => Visible' = {})
    BY DEF Visible, Locked, Targeted
  <2>5. ~Is(r, {"unlock", "change"}) => (Telling => Telling')
    BY <1>0, <1>1 DEF Telling, Is, Idle, At, VaultTypes
  <2> QED
    BY <1>6, <2>1, <2>2, <2>3, <2>4, <2>5 DEF ToldInv, Told
<1> QED
  BY <1>5, <1>6 DEF Announce

LEMMA ToldGoesOn ==
  ASSUME VaultInv, ToldInv, NEW r \in Admins, AdminGoesOn(r), UNCHANGED targetVars
  PROVE  ToldInv'
<1>0. SessionTypes /\ Agreed /\ VaultTypes /\ UNCHANGED <<targets, call>> /\ step \in [Admins -> Steps]
  BY DEF ToldInv, VaultInv, VaultTypes, targetVars
<1>c. store' = store => (store'.creds => Connected)
  BY DEF Connected
<1>1. CASE loggedOut(r)
  BY <1>0, <1>1, <1>c, ToldQuiet DEF loggedOut, Goes, Steps, Reestablishing, localVars
<1>2. CASE statusRead(r)
  BY <1>0, <1>2, <1>c, ToldQuiet DEF statusRead, Goes, Steps, Reestablishing, localVars
<1>3. CASE setServer(r)
  BY <1>0, <1>3, <1>c, ToldQuiet DEF setServer, Goes, Steps, Reestablishing, localVars
<1>4. CASE loginApiKey(r)
  BY <1>0, <1>4, <1>c, ToldQuiet DEF loginApiKey, Goes, Steps, Reestablishing, localVars
<1>5. CASE unlocked(r)
  <2>1. /\ step[r] = "unlock" /\ step' = [step EXCEPT ![r] = "sync"]
        /\ session' # 0
        /\ UNCHANGED <<open, setupComplete, doing, store>>
        /\ UNCHANGED <<table, listeners, joining, now, failed>>
    BY <1>0, <1>5 DEF unlocked, Goes, localVars, sessionVars, VaultTypes
  <2>2. SessionTypes' /\ Registered' = Registered
    BY <1>0, <2>1 DEF SessionTypes, Registered
  <2>3. open
    BY <1>0, <2>1 DEF Agreed, AdminsIdle, Idle
  <2>4. Agreed'
    BY <1>0, <2>1, <2>2, <2>3 DEF Agreed, Risen, Is, SessionTypes
  <2>5. Telling => Telling'
    BY <1>0, <2>1 DEF Telling, Is, Idle, At
  <2>6. session # 0 => Visible' = Visible
    BY <1>0, <2>1 DEF Visible, Locked, Targeted
  <2>7. CASE Is(r, {"unlock", "change"})
    <3>1. Telling'
      BY <1>0, <2>1, <2>7 DEF Telling, Is, Idle
    <3> QED
      BY <2>2, <2>4, <3>1 DEF ToldInv, Told
  <2>8. CASE session = 0 /\ ~Is(r, {"unlock", "change"})
    <3>1. Registered = {} \/ failed \/ Rising
      BY <1>0, <2>1, <2>8 DEF Agreed, Wants, Risen, Reestablishing
    <3>2. Rising => Telling
      BY DEF Rising, Telling, Idle, Reestablishing
    <3> QED
      BY <2>1, <2>2, <2>4, <2>5, <3>1, <3>2 DEF ToldInv, Told
  <2> QED
    BY <2>1, <2>2, <2>4, <2>5, <2>6, <2>7, <2>8 DEF ToldInv, Told
<1>6. CASE reestablishFails(r)
  BY <1>6, ToldFails DEF reestablishFails, Goes, localVars
<1>7. CASE syncFails(r)
  BY <1>7, ToldFails DEF syncFails, Goes, localVars
<1>8. CASE synced(r)
  <2>0. /\ step[r] = "sync" /\ step[r] \notin Reestablishing \cup {"idle"} /\ "hash" \in Steps
        /\ "save" \in Steps /\ "hash" \notin Reestablishing /\ "save" \notin Reestablishing
        /\ UNCHANGED <<doing, setupComplete, open, session>>
    BY <1>8 DEF synced, Reestablishing, Steps
  <2>1. CASE Is(r, {"unlock"}) /\ ensureBearerHash(r, store.token, TRUE) /\ UNCHANGED store
    <3>1. CASE Goes(r, "hash") /\ UNCHANGED sessionVars
      BY <1>0, <1>c, <2>0, <2>1, <3>1, ToldQuiet DEF Goes
    <3>2. CASE Announce(r, TRUE)
      <4>1. Is(r, {"unlock", "change"}) = TRUE
        BY <2>1 DEF Is
      <4> QED
        BY <1>0, <1>c, <2>0, <2>1, <3>2, <4>1, ToldAnnounce
    <3> QED
      BY <2>1, <3>1, <3>2 DEF ensureBearerHash
  <2>2. CASE Is(r, {"change", "connect"}) /\ Goes(r, "save") /\ UNCHANGED sessionVars
             /\ store' = [store EXCEPT !.url = server[r], !.creds = @ \/ Is(r, {"connect"})]
    <3>1. store'.creds => Connected
      BY <1>0, <2>0, <2>2, PayloadFields DEF VaultTypes, Payloads, Connected, Is
    <3> QED
      BY <1>0, <2>0, <2>2, <3>1, ToldQuiet DEF Goes
  <2> QED
    BY <1>8, <2>1, <2>2 DEF synced, Update
<1>9. CASE storeSaved(r)
  <2>0. /\ step[r] = "save" /\ step[r] \notin Reestablishing \cup {"idle"}
        /\ "hash" \in Steps /\ "idle" \in Steps /\ "hash" \notin Reestablishing
        /\ "idle" \notin Reestablishing
        /\ UNCHANGED <<doing, setupComplete, open, session, store>>
    BY <1>9 DEF storeSaved, Reestablishing, Steps
  <2>1. CASE Is(r, {"change", "token"}) /\ ensureBearerHash(r, store.token, Is(r, {"change"}))
    <3>1. CASE Goes(r, "hash") /\ UNCHANGED sessionVars
      BY <1>0, <1>c, <2>0, <2>1, <3>1, ToldQuiet DEF Goes
    <3>2. CASE Announce(r, Is(r, {"change"}))
      <4>1. Is(r, {"unlock", "change"}) = Is(r, {"change"})
        BY <2>1 DEF Is
      <4> QED
        BY <1>0, <1>c, <2>0, <2>1, <3>2, <4>1, ToldAnnounce
    <3> QED
      BY <2>1, <3>1, <3>2 DEF ensureBearerHash
  <2>2. CASE Is(r, {"connect", "totp"}) /\ Goes(r, "idle") /\ EndsWell
    <3>1. ~Is(r, {"unlock", "change"})
      BY <2>2 DEF Is
    <3> QED
      BY <1>0, <1>c, <2>0, <2>2, <3>1, ToldQuiet DEF Goes, EndsWell
  <2> QED
    BY <1>9, <2>1, <2>2 DEF storeSaved
<1>10. CASE storeFails(r)
  BY <1>10, ToldFails DEF storeFails, Goes, localVars
<1>11. CASE hashSaved(r)
  BY <1>0, <1>11, <1>c, ToldAnnounce DEF hashSaved, Reestablishing, localVars
<1>12. CASE hashFails(r)
  BY <1>12, ToldFails DEF hashFails, Goes, localVars
<1>13. CASE markWritten(r)
  <2>0. step[r] = "mark" /\ step' = [step EXCEPT ![r] = "idle"] /\ Is(r, {"complete"})
        /\ UNCHANGED <<doing, open, session, store>>
    BY <1>0, <1>13 DEF markWritten, Goes, Agreed, localVars
  <2>1. CASE UNCHANGED setupComplete /\ EndsBadly
    BY <2>0, <2>1, ToldFails
  <2>2. CASE setupComplete' = TRUE /\ EndsWell
    <3>1. UNCHANGED <<table, listeners, joining, now, failed>>
      BY <2>2 DEF EndsWell, sessionVars
    <3>2. SessionTypes' /\ Registered' = Registered
      BY <1>0, <2>0, <2>2, <3>1 DEF SessionTypes, Registered
    <3>3. Connected' => Connected
      BY <1>0, <2>0 DEF Connected, Is
    <3>4. Wants
      BY <2>0 DEF Wants
    <3>5. Rising => Rising'
      BY <1>0, <2>0 DEF Rising, Is, Reestablishing
    <3>6. Agreed'
      BY <1>0, <2>0, <2>2, <3>1, <3>2, <3>4, <3>5 DEF Agreed, Risen, AdminsIdle, Idle, Is
    <3>7. Telling => Telling'
      BY <1>0, <2>0 DEF Telling, Is, Idle, At
    <3>8. Visible' = Visible
      BY <1>0, <2>0 DEF Visible, Locked, Targeted
    <3> QED
      BY <3>1, <3>2, <3>6, <3>7, <3>8 DEF ToldInv, Told
  <2> QED
    BY <1>13, <2>1, <2>2 DEF markWritten
<1> QED
  BY <1>1, <1>2, <1>3, <1>4, <1>5, <1>6, <1>7, <1>8, <1>9, <1>10, <1>11, <1>12, <1>13 DEF AdminGoesOn

LEMMA ToldBegins ==
  ASSUME VaultInv, ToldInv, NEW r \in Admins, AdminBegins(r), UNCHANGED targetVars
  PROVE  ToldInv'
<1>0. /\ SessionTypes /\ Agreed /\ VaultTypes /\ UNCHANGED <<targets, call>>
      /\ step \in [Admins -> Steps] /\ doing \in [Admins -> Kinds]
  BY DEF ToldInv, VaultInv, VaultTypes, targetVars
<1>1. CASE postUnlock(r)
  <2>1. /\ step[r] = "idle" /\ doing' = [doing EXCEPT ![r] = "unlock"]
        /\ open' = TRUE /\ store' = saved /\ UNCHANGED <<session, setupComplete>>
    BY <1>1 DEF postUnlock, Starts, Idle
  <2>2. CASE saved.creds /\ Goes(r, "status") /\ UNCHANGED sessionVars
    <3>1. /\ step' = [step EXCEPT ![r] = "status"]
          /\ UNCHANGED <<table, listeners, joining, now, failed>>
      BY <2>2 DEF Goes, sessionVars
    <3>2. SessionTypes' /\ Registered' = Registered
      BY <1>0, <2>1, <3>1 DEF SessionTypes, Registered
    <3>3. Rising' /\ Telling'
      BY <1>0, <2>1, <3>1 DEF Rising, Telling, Is, Idle, Reestablishing
    <3>4. Agreed'
      BY <1>0, <2>1, <3>1, <3>2, <3>3 DEF Agreed, Risen, Is
    <3> QED
      BY <3>2, <3>3, <3>4 DEF ToldInv, Told
  <2>3. CASE ~saved.creds /\ ensureBearerHash(r, saved.token, TRUE)
    <3>1. ASSUME NEW s \in {"idle", "hash"}, step' = [step EXCEPT ![r] = s]
          PROVE  /\ Wants' => Wants
                 /\ Rising => Rising'
                 /\ \A q \in Admins : step'[q] = "mark" => Is(q, {"complete"})'
      <4>1. Connected' => Connected
        BY <1>0, <2>1, <2>3, <3>1 DEF Connected, Is
      <4> QED
        BY <1>0, <2>1, <3>1, <4>1 DEF Wants, Rising, Is, Reestablishing, Agreed
    <3>2. CASE Goes(r, "hash") /\ UNCHANGED sessionVars
      <4>1. /\ step' = [step EXCEPT ![r] = "hash"]
            /\ UNCHANGED <<table, listeners, joining, now, failed>>
        BY <3>2 DEF Goes, sessionVars
      <4>2. SessionTypes' /\ Registered' = Registered
        BY <1>0, <2>1, <4>1 DEF SessionTypes, Registered
      <4>3. Telling'
        BY <1>0, <2>1, <4>1 DEF Telling, Is, Idle
      <4>4. Agreed'
        BY <1>0, <2>1, <3>1, <4>1, <4>2 DEF Agreed, Risen
      <4> QED
        BY <4>2, <4>3, <4>4 DEF ToldInv, Told
    <3>3. CASE Goes(r, "idle") /\ session # 0 /\ emitToolsChanged(TRUE)
      <4>1. /\ Registered' = Registered
            /\ table' \in [Registered -> [seen : Nat, knows : SUBSET TargetNames, told : BOOLEAN]]
            /\ \A s \in Registered : table'[s].told
            /\ failed' = FALSE
            /\ UNCHANGED <<listeners, joining, now>>
        BY <1>0, <3>3, EmitTells DEF Agreed
      <4>2. SessionTypes' /\ step' = [step EXCEPT ![r] = "idle"]
        BY <1>0, <2>1, <3>3, <4>1 DEF SessionTypes, Goes
      <4>3. Agreed'
        BY <1>0, <2>1, <3>1, <3>3, <4>1, <4>2 DEF Agreed, Risen
      <4> QED
        BY <4>1, <4>2, <4>3 DEF ToldInv, Told
    <3>4. CASE Goes(r, "idle") /\ session = 0 /\ EndsWell
      <4>1. /\ step' = [step EXCEPT ![r] = "idle"]
            /\ UNCHANGED <<table, listeners, joining, now, failed>>
        BY <3>4 DEF Goes, EndsWell, sessionVars
      <4>2. SessionTypes' /\ Registered' = Registered
        BY <1>0, <2>1, <4>1 DEF SessionTypes, Registered
      <4>3. Visible' = {}
        BY <2>1, <3>4 DEF Visible, Locked
      <4>4. Agreed'
        BY <1>0, <2>1, <3>1, <4>1, <4>2 DEF Agreed, Risen
      <4> QED
        BY <4>2, <4>3, <4>4 DEF ToldInv, Told
    <3> QED
      BY <2>3, <3>2, <3>3, <3>4 DEF ensureBearerHash, Announce
  <2> QED
    BY <1>1, <2>2, <2>3 DEF postUnlock
<1>2. ASSUME NEW url \in Urls, changeVaultServer(r, url) PROVE ToldInv'
  <2>1. /\ step[r] = "idle" /\ doing' = [doing EXCEPT ![r] = "change"]
        /\ step' = [step EXCEPT ![r] = "logout"] /\ session' = 0 /\ open
        /\ UNCHANGED <<open, store, setupComplete>>
        /\ UNCHANGED <<table, listeners, joining, now, failed>>
    BY <1>2 DEF changeVaultServer, Starts, Idle, Goes, sessionVars
  <2>2. SessionTypes' /\ Registered' = Registered
    BY <1>0, <2>1 DEF SessionTypes, Registered
  <2>3. Rising' /\ Visible' = {}
    BY <1>0, <2>1 DEF Rising, Is, Reestablishing, Visible, Locked
  <2>4. Agreed'
    BY <1>0, <2>1, <2>2, <2>3 DEF Agreed, Risen, Is
  <2> QED
    BY <2>2, <2>3, <2>4 DEF ToldInv, Told
<1>3. ASSUME NEW kind \in Kinds \ {"unlock", "change"}, NEW s \in {"status", "save", "mark"},
             step[r] = "idle", doing' = [doing EXCEPT ![r] = kind],
             step' = [step EXCEPT ![r] = s],
             store'.creds = store.creds, open,
             s = "status" => ~setupComplete,
             s = "mark" => kind = "complete" /\ store.creds,
             UNCHANGED <<open, session, setupComplete, sessionVars>>
      PROVE ToldInv'
  <2>1. UNCHANGED <<table, listeners, joining, now, failed>>
    BY <1>3 DEF sessionVars
  <2>2. SessionTypes' /\ Registered' = Registered
    BY <1>0, <1>3, <2>1 DEF SessionTypes, Registered
  <2>3. (Rising => Rising') /\ (Connected' => Connected)
    BY <1>0, <1>3 DEF Rising, Connected, Is, Reestablishing
  <2>4. Wants' => Wants
    BY <1>0, <1>3, <2>3 DEF Wants, Connected, Is, Reestablishing
  <2>5. Agreed'
    BY <1>0, <1>3, <2>1, <2>2, <2>3, <2>4 DEF Agreed, Risen, Is
  <2>6. (Telling => Telling') /\ Visible' = Visible
    BY <1>0, <1>3 DEF Telling, Is, Idle, At, Visible, Locked, Targeted
  <2> QED
    BY <2>1, <2>2, <2>5, <2>6 DEF ToldInv, Told
<1>4. ASSUME NEW url \in Urls, connectVault(r, url) PROVE ToldInv'
  BY <1>4, <1>3 DEF connectVault, guardSetup, Starts, Idle, Goes, Kinds
<1>5. CASE beginTotpEnrollment(r)
  <2>1. store'.creds = store.creds
    BY <1>5, <1>0, PayloadFields DEF beginTotpEnrollment, Update, VaultTypes
  <2> QED
    BY <1>5, <1>3, <2>1 DEF beginTotpEnrollment, guardSetup, Starts, Idle, Goes, Kinds
<1>6. CASE generateBearerToken(r)
  <2>1. minted + 1 \in Nat /\ store' = [store EXCEPT !.token = minted + 1]
    BY <1>6, <1>0 DEF generateBearerToken, Update, VaultTypes
  <2>2. store'.creds = store.creds
    BY <1>0, <2>1, PayloadFields DEF VaultTypes
  <2> QED
    BY <1>6, <1>3, <2>2 DEF generateBearerToken, guardSetup, Starts, Idle, Goes, Kinds
<1>7. CASE complete(r)
  BY <1>7, <1>3 DEF complete, guardSetup, Starts, Idle, Goes, Kinds
<1> QED
  BY <1>1, <1>2, <1>4, <1>5, <1>6, <1>7 DEF AdminBegins

\* A call or the people do something of which the sessions need not hear.
LEMMA ToldByTheWay ==
  ASSUME DeletionInv, ToldInv, UNCHANGED vaultVars, UNCHANGED sessionVars,
         Targeted' \subseteq Targeted \/ Registered = {},
         \A c \in Calls : At(c, {"register", "update"}, "save") =>
                            call'[c].tool = call[c].tool /\ call'[c].at = call[c].at
  PROVE  ToldInv'
<1>0. SessionTypes /\ Agreed
  BY DEF ToldInv
<1>1. /\ UNCHANGED <<table, listeners, joining, now, failed>>
      /\ UNCHANGED <<open, session, store, step, doing, setupComplete>>
  BY DEF sessionVars, vaultVars, localVars
<1>2. SessionTypes' /\ Registered' = Registered
  BY <1>0, <1>1 DEF SessionTypes, Registered
<1>3. Agreed'
  BY <1>0, <1>1, <1>2 DEF Agreed, Wants, Connected, Risen, Rising, AdminsIdle, Idle, Is
<1>4. Telling => Telling'
  BY <1>1 DEF Telling, At, Is, Idle
<1>5. Targeted' \subseteq Targeted => Visible' \subseteq Visible
  BY <1>1 DEF Visible, Locked
<1> QED
  BY <1>1, <1>2, <1>3, <1>4, <1>5 DEF ToldInv, Told

LEMMA ToldCallBegins ==
  ASSUME DeletionInv, ToldInv, NEW c \in Calls, CallBegins(c)
  PROVE  ToldInv'
<1>0. call \in [Calls -> CallRecords] /\ UNCHANGED vaultVars
  BY CallsLeaveVault DEF DeletionInv, TargetTypes
<1>1. ASSUME NEW l, Begins(c, l) PROVE ToldInv'
  <2>1. /\ call[c].at = "idle" /\ \A d \in Calls \ {c} : call'[d] = call[d]
        /\ UNCHANGED sessionVars /\ Targeted' = Targeted
    BY <1>0, <1>1 DEF Begins, Continues, Targeted
  <2> QED
    BY <1>0, <2>1, ToldByTheWay DEF At
<1>2. ASSUME NEW t \in TargetNames, NEW entry \in {None} \cup [ref : Names, pin : {None}],
             setupTarget(c, t, entry)
      PROVE ToldInv'
  <2>1. Registered = {}
    BY <1>2 DEF ToldInv, Agreed, setupTarget, guardSetup
  <2>2. call[c].at = "idle" /\ UNCHANGED sessionVars
    BY <1>2 DEF setupTarget
  <2>3. \A d \in Calls \ {c} : call'[d] = [call[d] EXCEPT !.calm = @ /\ call[d].at = "idle"]
    BY <1>2 DEF setupTarget, Disturbs
  <2>4. \A d \in Calls \ {c} : call'[d].tool = call[d].tool /\ call'[d].at = call[d].at
    BY <1>0, <2>3 DEF CallRecords
  <2> QED
    BY <1>0, <2>1, <2>2, <2>4, ToldByTheWay DEF At
<1>3. ASSUME NEW t \in TargetNames, NEW ref \in Names, register_target(c, t, ref) \/ update_target(c, t, ref)
      PROVE ToldInv'
  BY <1>1, <1>3 DEF register_target, update_target, BeginsTool
<1>4. ASSUME NEW t \in TargetNames, useTarget(c, t) PROVE ToldInv'
  BY <1>1, <1>4 DEF useTarget, BeginsTool
<1>5. ASSUME NEW ref \in Names \cup Items, NEW force \in BOOLEAN, vault_delete_credential(c, ref, force)
      PROVE ToldInv'
  BY <1>1, <1>5 DEF vault_delete_credential, BeginsTool
<1> QED
  BY <1>2, <1>3, <1>4, <1>5 DEF CallBegins

LEMMA ToldCallGoesOn ==
  ASSUME DeletionInv, ToldInv, NEW c \in Calls, CallGoesOn(c)
  PROVE  ToldInv'
<1>0. /\ call \in [Calls -> CallRecords] /\ UNCHANGED vaultVars /\ SessionTypes /\ Agreed
      /\ CallTyped(call[c]) /\ TargetTypes
  BY CallsLeaveVault DEF DeletionInv, TargetTypes, ToldInv
<1>1. ASSUME ~At(c, {"register", "update"}, "save"), UNCHANGED sessionVars,
             Targeted' \subseteq Targeted,
             \A d \in Calls \ {c} : call'[d].tool = call[d].tool /\ call'[d].at = call[d].at
      PROVE ToldInv'
  BY <1>0, <1>1, ToldByTheWay
<1>2. ASSUME NEW l, Continues(c, l) PROVE \A d \in Calls \ {c} : call'[d] = call[d]
  BY <1>0, <1>2 DEF Continues
<1>3. ASSUME NEW l, Disturbs(c, l)
      PROVE  \A d \in Calls \ {c} : call'[d].tool = call[d].tool /\ call'[d].at = call[d].at
  <2>1. \A d \in Calls \ {c} : call'[d] = [call[d] EXCEPT !.calm = @ /\ call[d].at = "idle"]
    BY <1>3 DEF Disturbs
  <2>2. \A d \in Calls : call[d] \in CallRecords
    BY <1>0
  <2> QED
    BY <2>1, <2>2 DEF CallRecords
<1>4. UNCHANGED targets => Targeted' \subseteq Targeted
  BY DEF Targeted
<1>5. UNCHANGED <<open, session, store, step, doing, setupComplete>>
  BY <1>0 DEF vaultVars, localVars
<1>6. CASE resolves(c)
  <2> DEFINE l == [call[c] EXCEPT !.at = "save", !.written = targets']
  <2>1. At(c, {"register", "update"}, "resolve") /\ Disturbs(c, l) /\ UNCHANGED sessionVars
    BY <1>6 DEF resolves, upsert
  <2>2. call'[c] = l
    BY <2>1 DEF Disturbs
  <2>3. At(c, {"register", "update"}, "save")'
    BY <1>0, <2>1, <2>2 DEF At, CallRecords
  <2>4. Telling'
    BY <2>3 DEF Telling
  <2>5. UNCHANGED <<table, listeners, joining, now, failed>>
    BY <2>1 DEF sessionVars
  <2>6. SessionTypes' /\ Registered' = Registered
    BY <1>0, <1>5, <2>5 DEF SessionTypes, Registered
  <2>7. Agreed'
    BY <1>0, <1>5, <2>5, <2>6 DEF Agreed, Wants, Connected, Risen, Rising, AdminsIdle, Idle, Is
  <2> QED
    BY <2>4, <2>6, <2>7 DEF ToldInv, Told
<1>7. CASE registrySaved(c)
  <2>1. /\ Registered' = Registered
        /\ table' \in [Registered -> [seen : Nat, knows : SUBSET TargetNames, told : BOOLEAN]]
        /\ \A s \in Registered : table'[s].told
        /\ failed' = (failed /\ Locked)
        /\ UNCHANGED <<listeners, joining, now>>
    BY <1>0, <1>7, EmitTells DEF Agreed, registrySaved, Locked
  <2>2. SessionTypes'
    BY <1>0, <1>5, <2>1 DEF SessionTypes
  <2>3. Agreed'
    BY <1>0, <1>5, <2>1 DEF Agreed, Wants, Connected, Risen, Rising, AdminsIdle, Idle, Is, Locked
  <2> QED
    BY <2>1, <2>2, <2>3 DEF ToldInv, Told
<1>8. CASE registryFails(c)
  <2>1. failed' = TRUE /\ UNCHANGED <<table, listeners, joining, now>>
    BY <1>8 DEF registryFails, EndsBadly
  <2>2. SessionTypes' /\ Registered' = Registered
    BY <1>0, <1>5, <2>1 DEF SessionTypes, Registered
  <2>3. Agreed'
    BY <1>0, <1>5, <2>1, <2>2 DEF Agreed, Wants, Connected, Risen, Rising, AdminsIdle, Idle, Is
  <2> QED
    BY <2>1, <2>2, <2>3 DEF ToldInv, Told
<1>9. CASE repinCredentialId(c)
  <2>1. At(c, {"use"}, "repin") /\ UNCHANGED sessionVars
    BY <1>9 DEF repinCredentialId
  <2>2. CASE Ends(c) /\ UNCHANGED targets
    BY <1>1, <1>2, <1>4, <2>1, <2>2 DEF Ends, At
  <2>3. CASE /\ targets[call[c].target] # None
             /\ upsert(c, call[c].target,
                       [targets[call[c].target] EXCEPT !.pin = resolveItem(call[c].held.ref)], "repinned")
    <3>1. Targeted' \subseteq Targeted
      BY <1>0, <2>3 DEF upsert, Targeted, TargetTypes, Registries
    <3> QED
      BY <1>1, <1>3, <2>1, <2>3, <3>1 DEF upsert, At
  <2> QED
    BY <1>9, <2>2, <2>3 DEF repinCredentialId
<1>10. CASE resolveFails(c) \/ setupTargetSaved(c) \/ readPinned(c) \/ readNamed(c) \/ repinned(c)
  BY <1>1, <1>2, <1>4, <1>10 DEF resolveFails, setupTargetSaved, readPinned, readNamed, repinned,
     Ends, At
<1>11. CASE deletionResolved(c) \/ checked(c) \/ deletionFound(c)
  BY <1>1, <1>2, <1>4, <1>11 DEF deletionResolved, checked, deletionFound, Ends, At
<1>12. ASSUME NEW t \in TargetNames, checkDependent(c, t) PROVE ToldInv'
  BY <1>1, <1>2, <1>4, <1>12 DEF checkDependent, At
<1>13. CASE deleteItem(c)
  BY <1>1, <1>2, <1>3, <1>4, <1>13 DEF deleteItem, Ends, At
<1> QED
  BY <1>6, <1>7, <1>8, <1>9, <1>10, <1>11, <1>12, <1>13 DEF CallGoesOn


LEMMA ToldSessions ==
  ASSUME ToldInv, Sessions
  PROVE  ToldInv'
<1>0. /\ SessionTypes /\ Agreed
      /\ UNCHANGED <<open, session, store, step, doing, setupComplete, targets, call>>
  BY DEF ToldInv, Sessions, vaultVars, localVars, targetVars
<1> DEFINE Entry == [seen : Nat, knows : SUBSET TargetNames, told : BOOLEAN]
<1>1. Visible' = Visible /\ (Telling => Telling') /\ Visible \subseteq TargetNames
  BY <1>0 DEF Visible, Locked, Targeted, Telling, At, Is, Idle
<1>2. ASSUME table' \in [Registered' -> Entry], now' \in Nat, failed' = failed,
             Registered' \subseteq listeners',
             setupComplete \/ (Registered' = {} /\ joining' = {}),
             \A s \in Registered' :
               \/ table'[s].told \/ Visible \subseteq table'[s].knows
               \/ s \in Registered /\ table'[s].told = table[s].told /\ table'[s].knows = table[s].knows
      PROVE ToldInv'
  <2>1. SessionTypes'
    BY <1>0, <1>2 DEF SessionTypes
  <2>2. Agreed'
    BY <1>0, <1>2 DEF Agreed, Wants, Connected, Risen, Rising, AdminsIdle, Idle, Is
  <2>3. \A s \in Registered' : Told(s)'
    BY <1>1, <1>2 DEF ToldInv, Told
  <2> QED
    BY <2>1, <2>2, <2>3 DEF ToldInv
<1>3. ASSUME NEW S, dropSessions(S)
      PROVE  /\ Registered' = Registered \ S /\ listeners' = listeners \ S
             /\ table' \in [Registered' -> Entry]
             /\ \A s \in Registered' : s \in Registered /\ table'[s] = table[s]
  <2>1. table' = [s \in Registered \ S |-> table[s]] /\ listeners' = listeners \ S
    BY <1>3 DEF dropSessions
  <2>2. Registered' = Registered \ S
    BY <2>1 DEF Registered
  <2> QED
    BY <1>0, <2>1, <2>2 DEF SessionTypes
<1>4. ASSUME NEW S, dropSessions(S), joining' \subseteq joining, failed' = failed, now' = now
      PROVE ToldInv'
  BY <1>0, <1>2, <1>3, <1>4 DEF SessionTypes, Agreed
<1>5. ASSUME NEW s, table' = [table EXCEPT ![s].seen = now], s \in Registered,
             UNCHANGED <<listeners, joining, now, failed>>
      PROVE ToldInv'
  <2>1. /\ Registered' = Registered /\ table' \in [Registered -> Entry]
        /\ \A t \in Registered : table'[t].told = table[t].told /\ table'[t].knows = table[t].knows
    BY <1>0, <1>5 DEF SessionTypes, Registered
  <2> QED
    BY <1>0, <1>2, <1>5, <2>1 DEF SessionTypes, Agreed
<1>6. ASSUME UNCHANGED <<table, listeners, failed>>, joining' \subseteq joining \/ setupComplete, now' \in Nat
      PROVE ToldInv'
  <2>1. Registered' = Registered /\ table' \in [Registered -> Entry]
    BY <1>0, <1>6 DEF SessionTypes, Registered
  <2> QED
    BY <1>0, <1>2, <1>6, <2>1 DEF SessionTypes, Agreed
<1>7. ASSUME NEW s \in Sids, Connects(s) PROVE ToldInv'
  <2>1. setupComplete /\ failed' = failed /\ now' = now
    BY <1>7 DEF Connects, mcpAuth, openSession
  <2>2. CASE UNCHANGED <<table, listeners>>
    BY <1>0, <1>6, <2>1, <2>2 DEF SessionTypes
  <2>3. ASSUME NEW old, dropSessions({old}) PROVE ToldInv'
    BY <1>0, <1>2, <1>3, <2>1, <2>3 DEF SessionTypes, Agreed
  <2> QED
    BY <1>7, <2>2, <2>3 DEF Connects, openSession
<1>8. ASSUME NEW s \in Sids, onsessioninitialized(s) PROVE ToldInv'
  <2> DEFINE fresh == [seen |-> now, knows |-> {}, told |-> TRUE]
  <2>1. /\ s \in joining /\ joining' = joining \ {s} /\ listeners' = listeners \cup {s}
        /\ table' = [t \in Registered \cup {s} |-> IF t = s THEN fresh ELSE table[t]]
        /\ now' = now /\ failed' = failed
    BY <1>8 DEF onsessioninitialized
  <2>2. setupComplete
    BY <1>0, <2>1 DEF Agreed
  <2>3. Registered' = Registered \cup {s}
    BY <2>1 DEF Registered
  <2>4. fresh \in Entry /\ fresh.told = TRUE
    BY <1>0 DEF SessionTypes
  <2> HIDE DEF fresh, Entry
  <2>5. table' \in [Registered' -> Entry]
    BY <1>0, <2>1, <2>3, <2>4 DEF SessionTypes, Entry
  <2>6. \A t \in Registered' : table'[t] = IF t = s THEN fresh ELSE table[t]
    BY <2>1, <2>3
  <2> QED
    BY <1>0, <1>2, <2>1, <2>2, <2>3, <2>4, <2>5, <2>6 DEF SessionTypes, Agreed
<1>9. ASSUME NEW s \in Sids, initializeAnswered(s) \/ closeSession(s) \/ initializeThrows(s) \/ useSession(s)
      PROVE ToldInv'
  <2>1. CASE initializeAnswered(s)
    BY <1>0, <1>6, <2>1 DEF initializeAnswered, SessionTypes
  <2>2. CASE closeSession(s)
    BY <1>4, <2>2 DEF closeSession
  <2>3. CASE initializeThrows(s)
    BY <1>4, <2>3 DEF initializeThrows
  <2>4. CASE useSession(s)
    BY <1>5, <2>4 DEF useSession, Usable
  <2> QED
    BY <1>9, <2>1, <2>2, <2>3, <2>4
<1>10. ASSUME NEW s \in Sids, listTools(s, Visible) PROVE ToldInv'
  <2> DEFINE entry == [seen |-> now, knows |-> Visible, told |-> FALSE]
  <2>1. /\ s \in Registered /\ table' = [table EXCEPT ![s] = entry]
        /\ UNCHANGED <<listeners, joining, now, failed>>
    BY <1>10 DEF listTools, Usable
  <2>2. entry \in Entry /\ entry.knows = Visible
    BY <1>0, <1>1 DEF SessionTypes
  <2> HIDE DEF entry, Entry
  <2>3. Registered' = Registered /\ table' \in [Registered -> Entry]
    BY <1>0, <2>1, <2>2 DEF SessionTypes, Registered, Entry
  <2>4. \A t \in Registered : table'[t] = IF t = s THEN entry ELSE table[t]
    BY <1>0, <2>1 DEF SessionTypes, Registered
  <2> QED
    BY <1>0, <1>2, <2>1, <2>2, <2>3, <2>4 DEF SessionTypes, Agreed
<1>11. CASE sweep
  BY <1>4, <1>11 DEF sweep
<1>12. CASE tick
  BY <1>0, <1>6, <1>12 DEF tick, SessionTypes
<1> QED
  BY <1>7, <1>8, <1>9, <1>10, <1>11, <1>12 DEF Sessions

LEMMA ToldInvStep ==
  ASSUME VaultInv, DeletionInv, ToldInv, [ServerNext]_serverVars
  PROVE  ToldInv'
<1>0. call \in [Calls -> CallRecords]
  BY DEF DeletionInv, TargetTypes
<1>1. CASE Admin
  BY <1>1, ToldBegins, ToldGoesOn DEF Admin
<1>2. CASE ToolCalls
  BY <1>2, ToldCallBegins, ToldCallGoesOn DEF ToolCalls
<1>3. CASE Sessions
  BY <1>3, ToldSessions
<1>4. CASE People
  <2>1. UNCHANGED vaultVars /\ UNCHANGED sessionVars /\ UNCHANGED targets
    BY <1>4 DEF People, vaultEdit
  <2>2. \A d \in Calls : call'[d] = [call[d] EXCEPT !.calm = @ /\ call[d].at = "idle"]
    BY <1>4 DEF People, vaultEdit
  <2>3. \A d \in Calls : call'[d].tool = call[d].tool /\ call'[d].at = call[d].at
    BY <1>0, <2>2 DEF CallRecords
  <2> QED
    BY <2>1, <2>3, ToldByTheWay DEF Targeted
<1>5. CASE Restart
  <2>1. Blank.creds = FALSE
    BY DEF Blank
  <2> HIDE DEF Blank
  <2>2. /\ store' = Blank /\ session' = 0 /\ open' = FALSE /\ step' = [r \in Admins |-> "idle"]
        /\ UNCHANGED setupComplete
    BY <1>5 DEF Restart, RestartVault
  <2>3. table' = << >> /\ listeners' = {} /\ joining' = {} /\ failed' = FALSE /\ now' = now
    BY <1>5 DEF Restart, ForgetSessions
  <2>4. Registered' = {}
    BY <2>3 DEF Registered
  <2>5. table' \in [{} -> [seen : Nat, knows : SUBSET TargetNames, told : BOOLEAN]]
    BY <2>3
  <2>6. SessionTypes'
    BY <2>2, <2>3, <2>4, <2>5 DEF ToldInv, SessionTypes
  <2>7. Agreed'
    BY <2>1, <2>2, <2>3, <2>4 DEF Agreed, Wants, Connected, AdminsIdle, Idle, Reestablishing
  <2> QED
    BY <2>4, <2>6, <2>7 DEF ToldInv
<1>6. CASE UNCHANGED serverVars
  <2>1. UNCHANGED vaultVars /\ UNCHANGED sessionVars /\ UNCHANGED <<targets, call>>
    BY <1>6 DEF serverVars, targetVars
  <2> QED
    BY <2>1, ToldByTheWay DEF Targeted
<1> QED
  BY <1>1, <1>2, <1>3, <1>4, <1>5, <1>6 DEF ServerNext

(***************************************************************************)
(* While the server is changed by one request at a time: a client that      *)
(* listed the tools and was not told since knows all it may call, once      *)
(* nothing is in flight and nothing that failed is left to make up for, for *)
(* any number of sessions, requests and targets (emitToolsChanged).         *)
(***************************************************************************)
THEOREM NobodyIsForgotten ==
  ASSUME ~ChangesOverlap
  PROVE  ServerSpec => []ToldOfTools
<1> DEFINE Inv == VaultInv /\ DeletionInv /\ ToldInv
<1>1. Inv => ToldOfTools
  BY DEF ToldInv, Told, Telling, ToldOfTools, AdminsIdle, CallsIdle, Idle, At
<1>2. ServerInit => Inv
  BY VaultInvInit, DeletionInit, ToldInit
<1>3. Inv /\ [ServerNext]_serverVars => Inv'
  BY VaultInvStep, DeletionInvStep, ToldInvStep
<1> QED
  BY <1>1, <1>2, <1>3, PTL DEF ServerSpec

=============================================================================

---------------------------- MODULE VaultSession ----------------------------
(***************************************************************************)
(* The Bitwarden CLI behind the vault client (src/src/secrets/              *)
(* vaultwarden.ts), and the requests that bring it up, point it at another  *)
(* server and set the program up (src/src/app.ts, setup/setup-service.ts,   *)
(* web/routes.ts), with the hash the bearer token is checked against while  *)
(* the store is locked (config/bearer-hash.ts, web/auth.ts).                *)
(*                                                                         *)
(* The CLI keeps its server and its login on disk; the session key a login  *)
(* was unlocked with is in the client's memory.  A login is a number, and   *)
(* so is the key it was unlocked with; 0 is none.  An action is one command *)
(* or one write as it ends, followed by the code up to the next await.      *)
(***************************************************************************)
EXTENDS McpSessions

CONSTANTS Admins,          \* requests of the web UI, and the boot, in flight
          Urls,            \* vault servers
          OldUrl,          \* the one the store of an earlier process names
          MaxTokens,       \* bound on the bearer tokens minted
          Faults,          \* whether a command or a write may fail
          ChangesOverlap   \* whether two changes of the server may be in flight

ASSUME VaultAssumption ==
  /\ OldUrl \in Urls
  /\ Faults \in BOOLEAN /\ ChangesOverlap \in BOOLEAN
  /\ MaxTokens \in Nat

VARIABLES bwServer,       \* bw's directory: config server
          bwLogin,        \* bw's directory: the login that stands
          logins,         \* logins so far
          session,        \* this.session
          open,           \* ~store.locked
          store,          \* the store's payload in memory
          saved,          \* the store's file
          vaultError,     \* whether vaultError is set
          bearerHash,     \* AppState.bearerHash, as the token it is of
          hashFile,       \* the file it was loaded from
          minted,         \* bearer tokens drawn so far
          setupComplete,  \* the marker file
          doing, step,    \* what each request is, and where it waits
          server,         \* the URL it reestablishes the client on
          sealed,         \* the payload it is writing
          want            \* the hash it is writing

bwVars == <<bwServer, bwLogin, logins>>
hashVars == <<bearerHash, hashFile>>
localVars == <<doing, server, sealed, want>>
vaultVars == <<bwVars, session, open, store, saved, vaultError, hashVars, minted,
               setupComplete, localVars, step>>

Payloads == [url : Urls, creds : BOOLEAN, totp : BOOLEAN, token : Nat]
Blank == [url |-> OldUrl, creds |-> FALSE, totp |-> FALSE, token |-> 0]
Ready == [url |-> OldUrl, creds |-> TRUE, totp |-> TRUE, token |-> 1]

\* A store that was just initialized; or a process started over a store that is
\* set up, wholly or but for the last step, whose CLI may have lost its directory.
VaultInit ==
  /\ \/ open = TRUE /\ saved = Blank /\ bwLogin = 0 /\ setupComplete = FALSE
     \/ open = FALSE /\ saved = Ready /\ bwLogin \in {0, 1} /\ setupComplete \in BOOLEAN
  /\ store = Blank /\ bwServer = OldUrl /\ logins = 1
  /\ session = 0 /\ vaultError = FALSE
  /\ hashFile = saved.token /\ bearerHash = saved.token /\ minted = saved.token
  /\ doing = [r \in Admins |-> "nothing"] /\ step = [r \in Admins |-> "idle"]
  /\ server = [r \in Admins |-> OldUrl] /\ sealed = [r \in Admins |-> Blank]
  /\ want = [r \in Admins |-> 0]

Locked == ~open \/ session = 0

Idle(r) == step[r] = "idle"
AdminsIdle == \A r \in Admins : Idle(r)
Goes(r, where) == step' = [step EXCEPT ![r] = where]
Is(r, kinds) == doing[r] \in kinds

-----------------------------------------------------------------------------
(* The bearer token.                                                         *)

\* `token` is what a client presents.
verifyBearer(token) ==
  /\ token # 0
  /\ token = IF open THEN store.token ELSE bearerHash

\* The gate of /mcp.  (Access tokens, its other way in, are in module OAuth.)
mcpAuth(token) == setupComplete /\ verifyBearer(token)

\* The end of an unlock or a change: sessions are told if the vault is open.
Announce(r, tells) ==
  /\ Goes(r, "idle")
  /\ \/ tells /\ session # 0 /\ emitToolsChanged(TRUE)
     \/ ~(tells /\ session # 0) /\ EndsWell

\* Up to the write, when there is a token whose hash is not the one held.
ensureBearerHash(r, token, tells) ==
  \/ /\ token \notin {0, bearerHash}
     /\ Goes(r, "hash")
     /\ want' = [want EXCEPT ![r] = token]
     /\ UNCHANGED sessionVars
  \/ /\ token \in {0, bearerHash}
     /\ Announce(r, tells)
     /\ UNCHANGED want

hashSaved(r) ==
  /\ step[r] = "hash"
  /\ hashFile' = want[r] /\ bearerHash' = want[r]
  /\ Announce(r, Is(r, {"unlock", "change"}))
  /\ UNCHANGED <<bwVars, session, open, store, saved, vaultError, minted,
                 setupComplete, localVars>>

\* The write is of the file itself: when it fails it may have emptied it.
hashFails(r) ==
  /\ Faults /\ step[r] = "hash"
  /\ hashFile' \in {hashFile, 0}
  /\ Goes(r, "idle") /\ EndsBadly
  /\ UNCHANGED <<bwVars, session, open, store, saved, vaultError, bearerHash, minted,
                 setupComplete, localVars>>

-----------------------------------------------------------------------------
(* reestablish: bring the client up from whatever state bw is in.             *)

Reestablishing == {"logout", "status", "server", "login", "unlock"}

\* A status command that fails reads as "unauthenticated".
statusRead(r) ==
  /\ step[r] = "status"
  /\ \/ bwLogin # 0 /\ Goes(r, "unlock")
     \/ (bwLogin = 0 \/ Faults) /\ Goes(r, "server")
  /\ UNCHANGED <<bwVars, session, open, store, saved, vaultError, hashVars, minted,
                 setupComplete, localVars, sessionVars>>

\* bw refuses to change the server while it is logged in.
setServer(r) ==
  /\ step[r] = "server" /\ bwLogin = 0
  /\ bwServer' = server[r]
  /\ Goes(r, "login")
  /\ UNCHANGED <<bwLogin, logins, session, open, store, saved, vaultError, hashVars,
                 minted, setupComplete, localVars, sessionVars>>

loginApiKey(r) ==
  /\ step[r] = "login" /\ bwLogin = 0
  /\ logins' = logins + 1 /\ bwLogin' = logins + 1
  /\ Goes(r, "unlock")
  /\ UNCHANGED <<bwServer, session, open, store, saved, vaultError, hashVars, minted,
                 setupComplete, localVars, sessionVars>>

\* postUnlock clears the error here; changeVaultServer once the URL is stored.
unlocked(r) ==
  /\ step[r] = "unlock" /\ bwLogin # 0
  /\ session' = bwLogin
  /\ vaultError' = (vaultError /\ ~Is(r, {"unlock"}))
  /\ Goes(r, "sync")
  /\ UNCHANGED <<bwVars, open, store, saved, hashVars, minted, setupComplete, localVars,
                 sessionVars>>

\* Mutant: only an unlock records why the vault is not up.
ChangeUnexplained(r) == vaultError' = (vaultError \/ Is(r, {"unlock"}))

\* What postUnlock and changeVaultServer record of a failure; connectVault only answers.
Explains(r) == vaultError' = (vaultError \/ Is(r, {"unlock", "change"}))

\* A command is refused in the state bw is in, or fails.
reestablishFails(r) ==
  /\ step[r] \in {"server", "login", "unlock"}
  /\ Faults \/ (step[r] = "unlock") = (bwLogin = 0)
  /\ Explains(r)
  /\ Goes(r, "idle") /\ EndsBadly
  /\ UNCHANGED <<bwVars, session, open, store, saved, hashVars, minted, setupComplete,
                 localVars>>

\* store.update merges in memory, then writes what it has sealed.
Update(r, payload) ==
  /\ store' = payload
  /\ sealed' = [sealed EXCEPT ![r] = payload]

\* The sync after an unlock is best effort; changes and the wizard insist on it,
\* and store what they connected with.
synced(r) ==
  /\ step[r] = "sync"
  /\ \/ /\ Is(r, {"unlock"})
        /\ ensureBearerHash(r, store.token, TRUE)
        /\ UNCHANGED <<store, sealed>>
     \/ /\ Is(r, {"change", "connect"}) /\ bwLogin # 0
        /\ Update(r, [store EXCEPT !.url = server[r], !.creds = @ \/ Is(r, {"connect"})])
        /\ Goes(r, "save")
        /\ UNCHANGED <<want, sessionVars>>
  /\ UNCHANGED <<bwVars, session, open, saved, vaultError, hashVars, minted,
                 setupComplete, doing, server>>

syncFails(r) ==
  /\ step[r] = "sync" /\ Is(r, {"change", "connect"})
  /\ Faults \/ bwLogin = 0
  /\ Explains(r)
  /\ Goes(r, "idle") /\ EndsBadly
  /\ UNCHANGED <<bwVars, session, open, store, saved, hashVars, minted, setupComplete,
                 localVars>>

-----------------------------------------------------------------------------
(* Requests.                                                                 *)

Starts(r, kind) ==
  /\ Idle(r)
  /\ doing' = [doing EXCEPT ![r] = kind]

\* POST /store/unlock, or the boot with a key file, once the store has opened:
\* it adopts the file, and postUnlock begins.
postUnlock(r) ==
  /\ Starts(r, "unlock")
  /\ open' = TRUE /\ store' = saved
  /\ \/ /\ saved.creds
        /\ server' = [server EXCEPT ![r] = saved.url]
        /\ Goes(r, "status")
        /\ UNCHANGED <<want, sessionVars>>
     \/ /\ ~saved.creds
        /\ ensureBearerHash(r, saved.token, TRUE)
        /\ UNCHANGED server
  /\ UNCHANGED <<bwVars, session, saved, vaultError, hashVars, minted, setupComplete,
                 sealed>>

\* POST /vault/server.
changeVaultServer(r, url) ==
  /\ Starts(r, "change")
  /\ open /\ store.creds
  /\ ChangesOverlap \/ \A q \in Admins : Idle(q) \/ ~Is(q, {"change"})
  /\ session' = 0
  /\ server' = [server EXCEPT ![r] = url]
  /\ Goes(r, "logout")
  /\ UNCHANGED <<bwVars, open, store, saved, vaultError, hashVars, minted,
                 setupComplete, sealed, want, sessionVars>>

\* What goes wrong with a logout is ignored.
loggedOut(r) ==
  /\ step[r] = "logout"
  /\ bwLogin' = 0 \/ (Faults /\ bwLogin' = bwLogin)
  /\ Goes(r, "status")
  /\ UNCHANGED <<bwServer, logins, session, open, store, saved, vaultError, hashVars,
                 minted, setupComplete, localVars, sessionVars>>

\* The wizard's steps pass guardSetup first.
guardSetup == open /\ ~setupComplete

connectVault(r, url) ==
  /\ Starts(r, "connect") /\ guardSetup
  /\ server' = [server EXCEPT ![r] = url]
  /\ Goes(r, "status")
  /\ UNCHANGED <<bwVars, session, open, store, saved, vaultError, hashVars, minted,
                 setupComplete, sealed, want, sessionVars>>

beginTotpEnrollment(r) ==
  /\ Starts(r, "totp") /\ guardSetup
  /\ Update(r, [store EXCEPT !.totp = TRUE])
  /\ Goes(r, "save")
  /\ UNCHANGED <<bwVars, session, open, saved, vaultError, hashVars, minted,
                 setupComplete, server, want, sessionVars>>

generateBearerToken(r) ==
  /\ Starts(r, "token") /\ guardSetup
  /\ minted < MaxTokens
  /\ minted' = minted + 1
  /\ Update(r, [store EXCEPT !.token = minted + 1])
  /\ Goes(r, "save")
  /\ UNCHANGED <<bwVars, session, open, saved, vaultError, hashVars, setupComplete,
                 server, want, sessionVars>>

\* What each update is for goes on once its file is written.
storeSaved(r) ==
  /\ step[r] = "save"
  /\ saved' = sealed[r]
  /\ vaultError' = (vaultError /\ ~Is(r, {"change"}))
  /\ \/ Is(r, {"change", "token"}) /\ ensureBearerHash(r, store.token, Is(r, {"change"}))
     \/ Is(r, {"connect", "totp"}) /\ Goes(r, "idle") /\ EndsWell /\ UNCHANGED want
  /\ UNCHANGED <<bwVars, session, open, store, hashVars, minted, setupComplete, doing,
                 server, sealed>>

\* The change stays in memory.
storeFails(r) ==
  /\ Faults /\ step[r] = "save"
  /\ Goes(r, "idle") /\ EndsBadly
  /\ UNCHANGED <<bwVars, session, open, store, saved, vaultError, hashVars, minted,
                 setupComplete, localVars>>

complete(r) ==
  /\ Starts(r, "complete") /\ guardSetup
  /\ store.creds /\ store.totp /\ store.token # 0
  /\ Goes(r, "mark")
  /\ UNCHANGED <<bwVars, session, open, store, saved, vaultError, hashVars, minted,
                 setupComplete, server, sealed, want, sessionVars>>

markWritten(r) ==
  /\ step[r] = "mark"
  /\ \/ setupComplete' = TRUE /\ EndsWell
     \/ Faults /\ UNCHANGED setupComplete /\ EndsBadly
  /\ Goes(r, "idle")
  /\ UNCHANGED <<bwVars, session, open, store, saved, vaultError, hashVars, minted,
                 localVars>>

AdminBegins(r) ==
  \/ postUnlock(r)
  \/ \E url \in Urls : changeVaultServer(r, url) \/ connectVault(r, url)
  \/ beginTotpEnrollment(r) \/ generateBearerToken(r) \/ complete(r)

AdminGoesOn(r) ==
  \/ loggedOut(r) \/ statusRead(r) \/ setServer(r) \/ loginApiKey(r) \/ unlocked(r)
  \/ reestablishFails(r) \/ synced(r) \/ syncFails(r)
  \/ storeSaved(r) \/ storeFails(r) \/ hashSaved(r) \/ hashFails(r) \/ markWritten(r)

\* The process dies and starts again over its files.  A hash that is being
\* written may be left empty; a store is replaced whole.
RestartVault ==
  /\ open' = FALSE /\ store' = Blank /\ session' = 0 /\ vaultError' = FALSE
  /\ hashFile' \in {hashFile} \cup (IF \E r \in Admins : step[r] = "hash" THEN {0} ELSE {})
  /\ bearerHash' = hashFile'
  /\ step' = [r \in Admins |-> "idle"]
  /\ UNCHANGED <<bwVars, saved, minted, setupComplete, localVars>>

-----------------------------------------------------------------------------
(***************************************************************************)
(* Whenever the store is open, set up, and nobody is at work on the vault   *)
(* client, either the client is up or vaultError says why it is not: the    *)
(* admin page never shows a vault that is down without the reason.  It has  *)
(* to hold through unlocks and changes in flight together, failing anywhere *)
(* (app.ts, vaultError).                                                    *)
(***************************************************************************)
LockedIsExplained ==
  open /\ store.creds /\ AdminsIdle => session # 0 \/ vaultError

=============================================================================

--------------------------- MODULE PassphraseGate ---------------------------
(***************************************************************************)
(* unlockWithPassphrase of src/src/app.ts: the attempt limiter in front of *)
(* an argon2 derivation that takes time.  Unlike a TOTP check, an attempt  *)
(* is two steps with an await between them, in which time passes and other *)
(* requests arrive: `passphraseInFlight' is what keeps a parallel burst    *)
(* from being let in before the failures it causes are counted.            *)
(***************************************************************************)
EXTENDS AttemptLimiter

VARIABLE deriving  \* the clients an argon2 derivation is running for

gateVars == <<vars, deriving>>

passphraseInFlight == deriving # {}

GateInit == Init /\ deriving = {}

\* Mutant: nobody waits for the derivation under way.
BeginUngated(c) ==
  /\ ~Blocked(c)
  /\ deriving' = deriving \cup {c}
  /\ UNCHANGED vars

\* Let in: no lockout, nobody deriving.  A lockout and a derivation under way
\* are refusals, and change nothing.
Begin(c) ==
  /\ ~Blocked(c)
  /\ ~passphraseInFlight
  /\ deriving' = deriving \cup {c}
  /\ UNCHANGED vars

\* Mutant: the flag is not taken back on failure.
WrongStuck(c) == c \in deriving /\ Fail(c) /\ UNCHANGED <<now, deriving>>

\* store.unlock() rejects - for a wrong passphrase or for any other reason -
\* and the attempt is counted; the finally block lets the next one in.
Wrong(c) ==
  /\ c \in deriving
  /\ Fail(c)
  /\ deriving' = deriving \ {c}
  /\ UNCHANGED now

\* store.unlock() resolves.
Right(c) ==
  /\ c \in deriving
  /\ Succeed(c)
  /\ deriving' = deriving \ {c}
  /\ UNCHANGED now

GateTick == Tick /\ UNCHANGED deriving

GateNext == GateTick \/ \E c \in Client : Begin(c) \/ Wrong(c) \/ Right(c)

GateSpec == GateInit /\ [][GateNext]_gateVars

\* argon2 terminates, one way or the other.
FairGateSpec == GateSpec /\ \A c \in Client : WF_gateVars(Wrong(c) \/ Right(c))

-----------------------------------------------------------------------------

\* The limiter's invariant goes on holding, and whoever is deriving is a client.
GateTypeOK == TypeOK /\ deriving \subseteq Client

\* "One argon2 derivation at a time", and the one there is was let in under no
\* lockout that has not ended: nobody else's failure can lock the gate meanwhile.
OneDerivation ==
  /\ \A c, d \in deriving : c = d
  /\ \A c \in deriving : ~Blocked(c)

\* "A parallel burst can [not] outrun the failure counter": a failure is never
\* counted during a lockout, the global one or the client's own, so no guess
\* was evaluated past the one that started it and no lockout is lengthened.
CountedOutsideLockout ==
  [][/\ global' # global => ~Locked(global, now)
     /\ \A c \in Client : clients'[c].lockedUntil > clients[c].lockedUntil
                            => ~Locked(clients[c], now)]_gateVars

\* A derivation ends, and then the gate is open again.
GateReopens == passphraseInFlight ~> ~passphraseInFlight

=============================================================================

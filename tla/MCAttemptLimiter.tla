-------------------------- MODULE MCAttemptLimiter --------------------------
(***************************************************************************)
(* The two gates that an AttemptLimiter stands in front of, each over a      *)
(* limiter of its own: the TOTP check, which is one step, and the passphrase *)
(* gate, which is two.  The TOTP gate has a history of the wrong codes that  *)
(* were evaluated and of the global lockouts, which the budget is about.     *)
(***************************************************************************)
EXTENDS PassphraseGate

CONSTANTS c1, c2, c3,
          MaxGuesses,   \* bound on the wrong codes
          MaxGateTime   \* bound on the time at the passphrase gate

MCClientPolicy == [maxFailures |-> 2, window |-> 3, base |-> 1, maxLockout |-> 2, resetAfter |-> 4]
MCGlobalPolicy == [maxFailures |-> 2, window |-> 2, base |-> 1, maxLockout |-> 3, resetAfter |-> 3]

VARIABLES
  gate,      \* "totp" or "passphrase"
  guesses,   \* times of the wrong codes evaluated, all clients together
  lockouts   \* global lockouts: when, how long, after how many guesses

history == <<gate, guesses, lockouts>>

Track ==
  IF now' # now \/ global' = global
  THEN UNCHANGED <<guesses, lockouts>>
  ELSE /\ Len(guesses) < MaxGuesses
       /\ guesses' = Append(guesses, now)
       /\ lockouts' = IF global'.lockedUntil = global.lockedUntil THEN lockouts
                      ELSE Append(lockouts, [at |-> now, for |-> global'.lockedUntil - now,
                                             after |-> Len(guesses')])

TotpGate == gate = "totp" /\ Next /\ Track /\ UNCHANGED <<deriving, gate>>
PassphraseGateStep ==
  gate = "passphrase" /\ GateNext /\ now' <= MaxGateTime /\ UNCHANGED history

MCInit == /\ GateInit /\ guesses = <<>> /\ lockouts = <<>>
          /\ gate \in {"totp", "passphrase"}
MCNext == TotpGate \/ PassphraseGateStep

\* argon2 terminates, one way or the other.
MCSpec ==
  /\ MCInit /\ [][MCNext]_<<gateVars, history>>
  /\ \A c \in Client : WF_<<gateVars, history>>(
       gate = "passphrase" /\ (Wrong(c) \/ Right(c)) /\ UNCHANGED history)

\* "It allows 10 wrong codes per 24 h before a lockout": of one more guesses
\* than the threshold, all inside one window, two have a lockout between them
\* - whoever made them, whoever signed in meanwhile, whoever was forgotten.
GlobalBudget ==
  \A i \in 1 .. Len(guesses) - GlobalPolicy.maxFailures :
    guesses[i + GlobalPolicy.maxFailures] - guesses[i] < GlobalPolicy.window =>
      \E k \in 1 .. Len(lockouts) : lockouts[k].after \in i .. i + GlobalPolicy.maxFailures - 1

\* When the wait after guess i began, if `prev' is the last lockout before it.
Since(prev, i) == IF i = prev.after THEN prev.at + prev.for ELSE guesses[i]

\* "Each further one doubles it, up to the cap", and starts over only after
\* the reset time with no lockout running and no guess at all.
Follows(prev, next) ==
  \/ next.for = Smaller(2 * prev.for, GlobalPolicy.maxLockout)
  \/ /\ next.for = GlobalPolicy.base
     /\ \E i \in prev.after .. next.after - 1 :
          guesses[i + 1] - Since(prev, i) >= GlobalPolicy.resetAfter

Escalates == \A k \in 1 .. Len(lockouts) - 1 : Follows(lockouts[k], lockouts[k + 1])

=============================================================================

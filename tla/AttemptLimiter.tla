--------------------------- MODULE AttemptLimiter ---------------------------
(***************************************************************************)
(* The brute-force limiter of src/src/lib/attempt-limiter.ts, in front of  *)
(* every TOTP verification (checkTotp of src/src/app.ts).                  *)
(*                                                                         *)
(* Failures are counted in one bucket per client and in a global one; each *)
(* bucket that fills up starts a lockout, and lockouts double.  The client *)
(* map is bounded: it forgets idle clients, then the oldest.  Every call   *)
(* is synchronous, so each is one action.  Time is an integer clock.       *)
(*                                                                         *)
(* A bucket keeps `next', the length of its next lockout, where the code   *)
(* keeps `level': next = min(baseLockoutMs * 2^level, maxLockoutMs), so    *)
(* next = base says level = 0 and the ladder has no end to bound.          *)
(***************************************************************************)
EXTENDS Integers, Sequences, FiniteSets

CONSTANTS
  Client,        \* client keys (an address, or a /64)
  ClientPolicy,  \* the per-client LockoutPolicy
  GlobalPolicy,  \* the global one
  MaxClients,    \* bound of the client map
  MaxTime        \* bound on the clock, for model checking

Policy ==
  [maxFailures : Nat \ {0}, window : Nat \ {0}, base : Nat \ {0},
   maxLockout : Nat \ {0}, resetAfter : Nat \ {0}]

\* The doubling has a step to take, and starts over only after more quiet time
\* than a failure is remembered for ("longer than the 24 h window").
PolicyOK(p) == p \in Policy /\ p.base < p.maxLockout /\ p.window <= p.resetAfter

ASSUME PolicyAssumption == PolicyOK(ClientPolicy) /\ PolicyOK(GlobalPolicy)
ASSUME BoundAssumption == MaxClients \in Nat \ {0} /\ MaxTime \in Nat

VARIABLES
  now,
  global,   \* the global bucket
  clients,  \* each client's bucket, a new one while the map has none
  known,    \* the keys of the client map ...
  older     \* ... and their insertion order, the pairs <<older, newer>>

vars == <<now, global, clients, known, older>>

-----------------------------------------------------------------------------
(* Buckets.                                                                *)

NewBucket(p) == [failures |-> <<>>, lockedUntil |-> 0, next |-> p.base, lastFailureAt |-> 0]

Larger(a, b) == IF a >= b THEN a ELSE b
Smaller(a, b) == IF a <= b THEN a ELSE b

\* Mutant: guesses made while waiting do not restart the wait.
LastActivityLockout(b) == b.lockedUntil
\* "No lockout running AND no failure at all".
LastActivity(b) == Larger(b.lockedUntil, b.lastFailureAt)

Quiet(b, p, t) == t - LastActivity(b) >= p.resetAfter

\* The failures still inside the window; they are kept oldest first.
Expired(f, p, t) == {i \in 1 .. Len(f) : t - f[i] >= p.window}
Recent(f, p, t) == SubSeq(f, Cardinality(Expired(f, p, t)) + 1, Len(f))

\* The next lockout, back to the base once the ladder is due for a reset.
Due(b, p, t) == IF b.next # p.base /\ Quiet(b, p, t) THEN p.base ELSE b.next

\* Mutant: lockouts do not double.
RecordFlat(b, p, t) ==
  LET failures == Append(Recent(b.failures, p, t), t)
  IN IF Len(failures) < p.maxFailures
     THEN [failures |-> failures, lockedUntil |-> b.lockedUntil,
           next |-> b.next, lastFailureAt |-> t]
     ELSE [failures |-> <<>>, lockedUntil |-> t + p.base,
           next |-> p.base, lastFailureAt |-> t]
\* Mutant: no failure starts a lockout.
RecordNoTrigger(b, p, t) ==
  [failures |-> Append(Recent(b.failures, p, t), t), lockedUntil |-> b.lockedUntil,
   next |-> Due(b, p, t), lastFailureAt |-> t]

\* record(): the bucket after a failure at time t.
Record(b, p, t) ==
  LET failures == Append(Recent(b.failures, p, t), t)
      length == Due(b, p, t)
  IN IF Len(failures) < p.maxFailures
     THEN [failures |-> failures, lockedUntil |-> b.lockedUntil,
           next |-> length, lastFailureAt |-> t]
     ELSE [failures |-> <<>>, lockedUntil |-> t + length,
           next |-> Smaller(2 * length, p.maxLockout), lastFailureAt |-> t]

Locked(b, t) == b.lockedUntil > t

-----------------------------------------------------------------------------
(* The client map.                                                         *)

\* Mutant: the global lockout is not looked at.
BlockedClientOnly(c) == Locked(clients[c], now)

\* blocked(): a lockout of everyone, or of a client the map still knows.
Blocked(c) == Locked(global, now) \/ Locked(clients[c], now)

\* An entry worth forgetting: no lockout, no recent failure, no escalation.
Idle(b, p, t) ==
  /\ ~Locked(b, t)
  /\ \A i \in DOMAIN b.failures : t - b.failures[i] >= p.window
  /\ b.next = p.base \/ Quiet(b, p, t)

\* The youngest entries, with room for one more.
Newest(keys) == {k \in keys : Cardinality({l \in keys : <<k, l>> \in older}) < MaxClients - 1}

\* makeRoom(): nothing while there is room; else the idle go, then the oldest.
MakeRoom ==
  IF Cardinality(known) < MaxClients THEN known
  ELSE Newest({k \in known : ~Idle(clients[k], ClientPolicy, now)})

\* The keys left after a removal, and the order and buckets they keep.
Keep(keys) ==
  /\ known' = keys
  /\ older' = {pair \in older : pair[1] \in keys /\ pair[2] \in keys}
  /\ clients' = [k \in Client |-> IF k \in keys THEN clients[k] ELSE NewBucket(ClientPolicy)]

-----------------------------------------------------------------------------
(* The gate: checkTotp, and time.                                          *)

Init ==
  /\ now = 0
  /\ global = NewBucket(GlobalPolicy)
  /\ clients = [c \in Client |-> NewBucket(ClientPolicy)]
  /\ known = {}
  /\ older = {}

Tick == now < MaxTime /\ now' = now + 1 /\ UNCHANGED <<global, clients, known, older>>

\* fail(): counted for the client, whose entry may push others out, and globally.
Fail(c) ==
  LET kept == IF c \in known THEN known ELSE MakeRoom
  IN /\ clients' = [k \in Client |->
                      IF k = c THEN Record(clients[c], ClientPolicy, now)
                      ELSE IF k \in kept THEN clients[k] ELSE NewBucket(ClientPolicy)]
     /\ known' = kept \cup {c}
     /\ older' = IF c \in known THEN older
                 ELSE {pair \in older : pair[1] \in kept /\ pair[2] \in kept} \cup (kept \X {c})
     /\ global' = Record(global, GlobalPolicy, now)

\* Mutant: a success forgives everybody.
SucceedAll(c) ==
  /\ Keep(known \ {c})
  /\ global' = NewBucket(GlobalPolicy)

\* succeed(): this client is forgotten, the global bucket is left alone.
Succeed(c) ==
  /\ Keep(known \ {c})
  /\ UNCHANGED global

\* A code is evaluated only outside every lockout; a refusal, a locked store
\* and an empty code change nothing.
WrongCode(c) == ~Blocked(c) /\ Fail(c) /\ UNCHANGED now
RightCode(c) == ~Blocked(c) /\ Succeed(c) /\ UNCHANGED now

Next == Tick \/ \E c \in Client : WrongCode(c) \/ RightCode(c)

Spec == Init /\ [][Next]_vars

-----------------------------------------------------------------------------
(* Properties.                                                             *)

\* A bucket between two calls of record(): below its threshold, its failures in
\* the past, its lockout and its next one within the policy's cap.
BucketOK(b, p) ==
  /\ b \in [failures : Seq(Nat), lockedUntil : Nat, next : Nat, lastFailureAt : Nat]
  /\ Len(b.failures) < p.maxFailures
  /\ b.lastFailureAt <= now
  /\ \A i \in 1 .. Len(b.failures) : b.failures[i] <= b.lastFailureAt
  /\ b.lockedUntil <= b.lastFailureAt + p.maxLockout
  /\ b.next \in p.base .. p.maxLockout

\* The limiter's state between two calls: every bucket is sound, and the map
\* orders the keys it has.
TypeOK ==
  /\ now \in Nat
  /\ known \subseteq Client
  /\ older \subseteq known \X known
  /\ BucketOK(global, GlobalPolicy)
  /\ clients \in [Client -> [failures : Seq(Nat), lockedUntil : Nat, next : Nat, lastFailureAt : Nat]]
  /\ \A c \in Client : BucketOK(clients[c], ClientPolicy)

\* "Guesses paced into the wait can't age out just as the ladder resets": the
\* failure that finds the ladder due for a reset finds the window empty too, so
\* a full budget comes back with the first rung and never half of one before it.
CleanReset(b, p) ==
  b.next # p.base /\ Quiet(b, p, now) =>
    \A i \in 1 .. Len(b.failures) : now - b.failures[i] >= p.window

LadderResetsClean ==
  /\ CleanReset(global, GlobalPolicy)
  /\ \A c \in Client : CleanReset(clients[c], ClientPolicy)

=============================================================================

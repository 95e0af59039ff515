------------------------ MODULE AttemptLimiterProofs ------------------------
(***************************************************************************)
(* For every set of clients and every pair of policies: the limiter's type *)
(* invariant and its ladder, which only resets clean; the passphrase gate, *)
(* whose one derivation at a time lets no wrong passphrase be counted      *)
(* during a lockout; and, over the history of the TOTP gate, the budget of *)
(* wrong codes and the escalation of the lockouts that it ends in.         *)
(***************************************************************************)
EXTENDS MCAttemptLimiter, FiniteSetTheorems, TLAPS

Bucket == [failures : Seq(Nat), lockedUntil : Nat, next : Nat, lastFailureAt : Nat]

\* BucketOK at an explicit time.
BucketAt(b, p, t) ==
  /\ b \in Bucket
  /\ Len(b.failures) < p.maxFailures
  /\ b.lastFailureAt <= t
  /\ \A i \in 1 .. Len(b.failures) : b.failures[i] <= b.lastFailureAt
  /\ b.lockedUntil <= b.lastFailureAt + p.maxLockout
  /\ b.next \in p.base .. p.maxLockout

\* Dropping the expired failures leaves a suffix of the failures.
LEMMA RecentSuffix ==
  ASSUME NEW f \in Seq(Nat), NEW p, NEW t \in Nat
  PROVE  /\ Recent(f, p, t) \in Seq(Nat)
         /\ Len(Recent(f, p, t)) <= Len(f)
         /\ \A i \in 1 .. Len(Recent(f, p, t)) : \E j \in 1 .. Len(f) : Recent(f, p, t)[i] = f[j]
<1> DEFINE E == Expired(f, p, t)
<1>1. Len(f) \in Nat
  OBVIOUS
<1>2. IsFiniteSet(1 .. Len(f)) /\ Cardinality(1 .. Len(f)) = Len(f)
  <2> DEFINE n == Len(f)
  <2>1. n \in Nat
    BY <1>1
  <2> HIDE DEF n
  <2>2. IsFiniteSet(1 .. n) /\ Cardinality(1 .. n) = IF 1 > n THEN 0 ELSE n - 1 + 1
    BY <2>1, FS_Interval
  <2>3. Cardinality(1 .. n) = n
    BY <2>1, <2>2
  <2> QED
    BY <2>2, <2>3 DEF n
<1>3. E \subseteq 1 .. Len(f)
  BY DEF Expired
<1>4. Cardinality(E) \in Nat /\ Cardinality(E) <= Len(f)
  <2> HIDE DEF E
  <2>1. IsFiniteSet(E) /\ Cardinality(E) <= Cardinality(1 .. Len(f))
    BY <1>2, <1>3, FS_Subset
  <2>2. Cardinality(E) \in Nat
    BY <2>1, FS_CardinalityType
  <2> QED
    BY <1>2, <2>1, <2>2
<1> DEFINE m == Cardinality(E) + 1
<1> HIDE DEF E
<1>5. m \in 1 .. Len(f) + 1
  BY <1>1, <1>4
<1> HIDE DEF m
<1>6. /\ SubSeq(f, m, Len(f)) \in Seq(Nat)
      /\ Len(SubSeq(f, m, Len(f))) = Len(f) - m + 1
      /\ \A i \in 1 .. Len(f) - m + 1 : SubSeq(f, m, Len(f))[i] = f[m + i - 1]
  BY <1>1, <1>5
<1>7. \A i \in 1 .. Len(f) - m + 1 : m + i - 1 \in 1 .. Len(f)
  BY <1>1, <1>5
<1>8. Recent(f, p, t) = SubSeq(f, m, Len(f))
  BY DEF Recent, E, m
<1> QED
  BY <1>1, <1>5, <1>6, <1>7, <1>8

\* The reset and the doubling keep the next lockout between base and cap.
LEMMA NextLockout ==
  ASSUME NEW p, PolicyOK(p), NEW n \in p.base .. p.maxLockout
  PROVE  /\ p.base \in p.base .. p.maxLockout
         /\ Smaller(2 * n, p.maxLockout) \in p.base .. p.maxLockout
  BY DEF PolicyOK, Policy, Smaller

\* record() keeps a bucket sound.
LEMMA RecordSound ==
  ASSUME NEW p, PolicyOK(p), NEW t \in Nat, NEW b, BucketAt(b, p, t)
  PROVE  BucketAt(Record(b, p, t), p, t)
<1> DEFINE r == Recent(b.failures, p, t)
           f == Append(r, t)
           d == Due(b, p, t)
<1>1. b.failures \in Seq(Nat) /\ b.lastFailureAt \in Nat /\ b.lockedUntil \in Nat
  BY DEF BucketAt, Bucket
<1>2. p.maxFailures \in Nat \ {0} /\ p.base \in Nat /\ p.maxLockout \in Nat
  BY DEF PolicyOK, Policy
<1>3. d \in p.base .. p.maxLockout
  BY NextLockout DEF Due, BucketAt
<1>4. d \in Nat /\ d <= p.maxLockout
  BY <1>2, <1>3
<1>5. /\ r \in Seq(Nat)
      /\ \A i \in 1 .. Len(r) : r[i] <= t
  <2>1. /\ r \in Seq(Nat)
        /\ \A i \in 1 .. Len(r) : \E j \in 1 .. Len(b.failures) : r[i] = b.failures[j]
    <3> DEFINE g == b.failures
    <3>1. g \in Seq(Nat)
      BY <1>1
    <3> HIDE DEF g, d, f, r
    <3>2. /\ Recent(g, p, t) \in Seq(Nat)
          /\ \A i \in 1 .. Len(Recent(g, p, t)) : \E j \in 1 .. Len(g) : Recent(g, p, t)[i] = g[j]
      BY <3>1, RecentSuffix DEF Recent
    <3> QED
      BY <3>2 DEF g, r
  <2>2. \A j \in 1 .. Len(b.failures) : b.failures[j] \in Nat /\ b.failures[j] <= t
    <3> SUFFICES ASSUME NEW j \in 1 .. Len(b.failures)
                 PROVE  b.failures[j] \in Nat /\ b.failures[j] <= t
      OBVIOUS
    <3>1. b.failures[j] \in Nat
      BY <1>1
    <3>2. b.failures[j] <= b.lastFailureAt /\ b.lastFailureAt <= t
      BY DEF BucketAt
    <3> QED
      BY <1>1, <3>1, <3>2
  <2> HIDE DEF r
  <2> QED
    BY <2>1, <2>2
<1> HIDE DEF r, d
<1>6. f \in Seq(Nat) /\ \A i \in 1 .. Len(f) : f[i] <= t
  BY <1>5
<1> HIDE DEF f
<1>7. Record(b, p, t) =
        IF Len(f) < p.maxFailures
        THEN [failures |-> f, lockedUntil |-> b.lockedUntil, next |-> d, lastFailureAt |-> t]
        ELSE [failures |-> <<>>, lockedUntil |-> t + d,
              next |-> Smaller(2 * d, p.maxLockout), lastFailureAt |-> t]
  BY DEF Record, f, r, d
<1>8. ASSUME Len(f) < p.maxFailures PROVE BucketAt(Record(b, p, t), p, t)
  <2>1. Record(b, p, t) = [failures |-> f, lockedUntil |-> b.lockedUntil,
                           next |-> d, lastFailureAt |-> t]
    BY <1>7, <1>8
  <2>2. b.lockedUntil <= t + p.maxLockout
    BY <1>1, <1>2 DEF BucketAt
  <2> QED
    BY <1>1, <1>3, <1>4, <1>6, <1>8, <2>1, <2>2 DEF BucketAt, Bucket
<1>9. ASSUME ~(Len(f) < p.maxFailures) PROVE BucketAt(Record(b, p, t), p, t)
  <2> DEFINE n == Smaller(2 * d, p.maxLockout)
  <2>1. n \in p.base .. p.maxLockout
    BY <1>3, NextLockout
  <2>2. n \in Nat
    BY <1>2, <2>1
  <2>3. Record(b, p, t) = [failures |-> <<>>, lockedUntil |-> t + d,
                           next |-> n, lastFailureAt |-> t]
    BY <1>7, <1>9
  <2> HIDE DEF n
  <2> QED
    BY <1>2, <1>4, <2>1, <2>2, <2>3 DEF BucketAt, Bucket
<1> QED
  BY <1>8, <1>9

\* A sound bucket stays sound while time passes.
LEMMA BucketAges ==
  ASSUME NEW p, NEW b, NEW t \in Nat, NEW u \in Nat, t <= u, BucketAt(b, p, t)
  PROVE  BucketAt(b, p, u)
  BY DEF BucketAt, Bucket

\* A new bucket is sound at any time.
LEMMA NewBucketSound ==
  ASSUME NEW p, PolicyOK(p), NEW t \in Nat
  PROVE  BucketAt(NewBucket(p), p, t)
  BY DEF BucketAt, Bucket, NewBucket, PolicyOK, Policy

\* TypeOK in terms of BucketAt.
LEMMA TypeAt ==
  TypeOK <=> /\ now \in Nat
                /\ known \subseteq Client
                /\ older \subseteq known \X known
                /\ BucketAt(global, GlobalPolicy, now)
                /\ clients \in [Client -> Bucket]
                /\ \A c \in Client : BucketAt(clients[c], ClientPolicy, now)
  BY DEF TypeOK, BucketOK, BucketAt, Bucket

-----------------------------------------------------------------------------

\* The invariant holds initially.
LEMMA TypeInit == Init => TypeOK
<1> SUFFICES ASSUME Init PROVE TypeOK
  OBVIOUS
<1> USE PolicyAssumption
<1>1. BucketAt(NewBucket(GlobalPolicy), GlobalPolicy, 0)
      /\ BucketAt(NewBucket(ClientPolicy), ClientPolicy, 0)
  BY NewBucketSound
<1>2. NewBucket(ClientPolicy) \in Bucket
  BY <1>1 DEF BucketAt
<1> QED
  BY <1>1, <1>2, TypeAt DEF Init

\* A failure keeps the invariant, whoever caused it and whenever.
LEMMA FailType ==
  ASSUME TypeOK, NEW c \in Client, Fail(c), now' = now
  PROVE  TypeOK'
<1> DEFINE kept == IF c \in known THEN known ELSE MakeRoom
<1> USE PolicyAssumption
<1>1. /\ now \in Nat /\ known \subseteq Client /\ older \subseteq known \X known
      /\ BucketAt(global, GlobalPolicy, now)
      /\ clients \in [Client -> Bucket]
      /\ \A k \in Client : BucketAt(clients[k], ClientPolicy, now)
  BY TypeAt
<1>2. kept \subseteq known
  BY DEF MakeRoom, Newest
<1>3. /\ clients' = [k \in Client |->
                       IF k = c THEN Record(clients[c], ClientPolicy, now)
                       ELSE IF k \in kept THEN clients[k] ELSE NewBucket(ClientPolicy)]
      /\ known' = kept \cup {c}
      /\ older' = IF c \in known THEN older
                  ELSE {pair \in older : pair[1] \in kept /\ pair[2] \in kept} \cup (kept \X {c})
      /\ global' = Record(global, GlobalPolicy, now)
  BY DEF Fail
<1>4. c \in known => kept = known
  OBVIOUS
<1> HIDE DEF kept
<1>5. known' \subseteq Client
  BY <1>1, <1>2, <1>3
<1>6. older' \subseteq known' \X known'
  <2>1. ASSUME c \in known PROVE older' \subseteq known' \X known'
    BY <1>1, <1>3, <1>4, <2>1
  <2>2. ASSUME c \notin known PROVE older' \subseteq known' \X known'
    BY <1>1, <1>2, <1>3, <2>2
  <2> QED
    BY <2>1, <2>2
<1>7. BucketAt(global', GlobalPolicy, now)
  BY <1>1, <1>3, RecordSound
<1>8. ASSUME NEW k \in Client
      PROVE  BucketAt(clients'[k], ClientPolicy, now)
  <2>1. BucketAt(Record(clients[c], ClientPolicy, now), ClientPolicy, now)
    BY <1>1, RecordSound
  <2>2. BucketAt(NewBucket(ClientPolicy), ClientPolicy, now)
    BY <1>1, NewBucketSound
  <2> QED
    BY <1>1, <1>3, <2>1, <2>2
<1>9. clients' \in [Client -> Bucket]
  <2>1. \A k \in Client : clients'[k] \in Bucket
    BY <1>8 DEF BucketAt
  <2>2. clients' = [k \in Client |-> clients'[k]]
    BY <1>3
  <2> QED
    BY <2>1, <2>2
<1>10. now' \in Nat
  BY <1>1
<1>11. BucketAt(global', GlobalPolicy, now') /\ \A k \in Client : BucketAt(clients'[k], ClientPolicy, now')
  BY <1>7, <1>8
<1> QED
  BY <1>5, <1>6, <1>9, <1>10, <1>11 DEF TypeOK, BucketOK, BucketAt, Bucket

\* So does a success.
LEMMA SucceedType ==
  ASSUME TypeOK, NEW c \in Client, Succeed(c), now' = now
  PROVE  TypeOK'
<1> USE PolicyAssumption
<1>1. /\ now \in Nat /\ known \subseteq Client /\ older \subseteq known \X known
      /\ BucketAt(global, GlobalPolicy, now)
      /\ clients \in [Client -> Bucket]
      /\ \A k \in Client : BucketAt(clients[k], ClientPolicy, now)
  BY TypeAt
<1>2. /\ known' = known \ {c}
      /\ older' = {pair \in older : pair[1] \in known \ {c} /\ pair[2] \in known \ {c}}
      /\ clients' = [k \in Client |-> IF k \in known \ {c} THEN clients[k]
                                      ELSE NewBucket(ClientPolicy)]
      /\ global' = global
  BY DEF Succeed, Keep
<1>3. known' \subseteq Client /\ older' \subseteq known' \X known'
  BY <1>1, <1>2
<1>4. ASSUME NEW k \in Client
      PROVE  BucketAt(clients'[k], ClientPolicy, now)
  BY <1>1, <1>2, NewBucketSound
<1>5. clients' \in [Client -> Bucket]
  <2>1. \A k \in Client : clients'[k] \in Bucket
    BY <1>4 DEF BucketAt
  <2>2. clients' = [k \in Client |-> clients'[k]]
    BY <1>2
  <2> QED
    BY <2>1, <2>2
<1>6. now' \in Nat /\ BucketAt(global', GlobalPolicy, now')
      /\ \A k \in Client : BucketAt(clients'[k], ClientPolicy, now')
  BY <1>1, <1>2, <1>4
<1> QED
  BY <1>3, <1>5, <1>6 DEF TypeOK, BucketOK, BucketAt, Bucket

\* So does the clock.
LEMMA TickType == TypeOK /\ Tick => TypeOK'
<1> SUFFICES ASSUME TypeOK, Tick PROVE TypeOK'
  OBVIOUS
<1>1. /\ now \in Nat /\ now' = now + 1
      /\ BucketAt(global, GlobalPolicy, now)
      /\ clients \in [Client -> Bucket]
      /\ \A k \in Client : BucketAt(clients[k], ClientPolicy, now)
      /\ known \subseteq Client /\ older \subseteq known \X known
      /\ UNCHANGED <<global, clients, known, older>>
  BY TypeAt DEF Tick
<1>2. now' \in Nat /\ now <= now'
  BY <1>1
<1>3. BucketAt(global, GlobalPolicy, now') /\ \A k \in Client : BucketAt(clients[k], ClientPolicy, now')
  BY <1>1, <1>2, BucketAges
<1> QED
  BY <1>1, <1>2, <1>3 DEF TypeOK, BucketOK, BucketAt, Bucket

-----------------------------------------------------------------------------

\* Every bucket is sound between two calls: below its threshold, its failures
\* in the past, its lockout and its next one within the policy's cap.
THEOREM TypeCorrect == Spec => []TypeOK
<1>1. Init => TypeOK
  BY TypeInit
<1>2. TypeOK /\ [Next]_vars => TypeOK'
  <2> SUFFICES ASSUME TypeOK, [Next]_vars PROVE TypeOK'
    OBVIOUS
  <2>1. ASSUME Tick PROVE TypeOK'
    BY <2>1, TickType
  <2>2. ASSUME NEW c \in Client, WrongCode(c) PROVE TypeOK'
    BY <2>2, FailType DEF WrongCode
  <2>3. ASSUME NEW c \in Client, RightCode(c) PROVE TypeOK'
    BY <2>3, SucceedType DEF RightCode
  <2>4. ASSUME UNCHANGED vars PROVE TypeOK'
    BY <2>4 DEF vars, TypeOK, BucketOK
  <2> QED
    BY <2>1, <2>2, <2>3, <2>4 DEF Next
<1> QED
  BY <1>1, <1>2, PTL DEF Spec

\* A ladder due for a reset has an empty window, for any policy whose reset
\* time is at least its window.
LEMMA QuietEmptiesWindow ==
  ASSUME NEW p, PolicyOK(p), NEW b, now \in Nat, BucketAt(b, p, now)
  PROVE  CleanReset(b, p)
<1> SUFFICES ASSUME Quiet(b, p, now), NEW i \in 1 .. Len(b.failures)
             PROVE  now - b.failures[i] >= p.window
  BY DEF CleanReset
<1>1. /\ b.failures \in Seq(Nat) /\ b.lastFailureAt \in Nat /\ b.lockedUntil \in Nat
      /\ p.window \in Nat /\ p.resetAfter \in Nat /\ p.window <= p.resetAfter
  BY DEF BucketAt, Bucket, PolicyOK, Policy
<1>2. b.failures[i] \in Nat /\ b.failures[i] <= b.lastFailureAt
  BY <1>1 DEF BucketAt
<1>3. b.lastFailureAt <= LastActivity(b) /\ LastActivity(b) \in Nat
  BY <1>1 DEF LastActivity, Larger
<1>4. now - LastActivity(b) >= p.resetAfter
  BY DEF Quiet
<1> DEFINE x == b.failures[i]
           y == LastActivity(b)
<1>5. x \in Nat /\ y \in Nat /\ x <= y /\ now - y >= p.resetAfter
  BY <1>1, <1>2, <1>3, <1>4
<1> HIDE DEF x, y
<1>6. now - x >= p.window
  BY <1>1, <1>5
<1> QED
  BY <1>6 DEF x

\* No failure of the last window survives to the failure that resets the
\* ladder, however the guesses are paced.
THEOREM LadderAlwaysResetsClean == Spec => []LadderResetsClean
<1>1. TypeOK => LadderResetsClean
  <2> SUFFICES ASSUME TypeOK PROVE LadderResetsClean
    OBVIOUS
  <2> USE PolicyAssumption
  <2> QED
    BY TypeAt, QuietEmptiesWindow DEF LadderResetsClean
<1> QED
  BY <1>1, TypeCorrect, PTL

-----------------------------------------------------------------------------
(* The passphrase gate.                                                    *)

GateInv == GateTypeOK /\ OneDerivation

\* The gate keeps the limiter's invariant.
LEMMA GateTypeStep ==
  ASSUME GateTypeOK, [GateNext]_gateVars
  PROVE  GateTypeOK'
<1>1. ASSUME GateTick PROVE GateTypeOK'
  BY <1>1, TickType DEF GateTick, GateTypeOK
<1>2. ASSUME NEW c \in Client, Begin(c) PROVE GateTypeOK'
  <2>1. TypeOK'
    BY <1>2 DEF Begin, vars, GateTypeOK, TypeOK, BucketOK
  <2> QED
    BY <1>2, <2>1 DEF Begin, GateTypeOK
<1>3. ASSUME NEW c \in Client, Wrong(c) PROVE GateTypeOK'
  BY <1>3, FailType DEF Wrong, GateTypeOK
<1>4. ASSUME NEW c \in Client, Right(c) PROVE GateTypeOK'
  BY <1>4, SucceedType DEF Right, GateTypeOK
<1>5. ASSUME UNCHANGED gateVars PROVE GateTypeOK'
  <2>1. TypeOK'
    BY <1>5 DEF gateVars, vars, GateTypeOK, TypeOK, BucketOK
  <2> QED
    BY <1>5, <2>1 DEF gateVars, GateTypeOK
<1> QED
  BY <1>1, <1>2, <1>3, <1>4, <1>5 DEF GateNext

\* An expired lockout stays expired.
LEMMA ExpiryIsFinal ==
  ASSUME TypeOK, Tick, NEW c \in Client, ~Blocked(c)
  PROVE  ~Blocked(c)'
<1>1. now \in Nat /\ now' = now + 1 /\ global' = global /\ clients' = clients
  BY DEF Tick, TypeOK
<1>2. global.lockedUntil \in Nat /\ clients[c].lockedUntil \in Nat
  BY DEF TypeOK, BucketOK
<1>3. ~(global.lockedUntil > now) /\ ~(clients[c].lockedUntil > now)
  BY DEF Blocked, Locked
<1>4. ~(global.lockedUntil > now + 1) /\ ~(clients[c].lockedUntil > now + 1)
  BY <1>1, <1>2, <1>3
<1> QED
  BY <1>1, <1>4 DEF Blocked, Locked

\* Nothing but the one in flight can be counted, so it stays unlocked.
LEMMA OneDerivationStep ==
  ASSUME GateInv, [GateNext]_gateVars
  PROVE  OneDerivation'
<1>1. ASSUME GateTick PROVE OneDerivation'
  <2>1. deriving' = deriving /\ deriving \subseteq Client
    BY <1>1 DEF GateTick, GateInv, GateTypeOK
  <2>2. \A c \in deriving : ~Blocked(c)'
    BY <1>1, <2>1, ExpiryIsFinal DEF GateTick, GateInv, GateTypeOK, OneDerivation
  <2> QED
    BY <2>1, <2>2 DEF OneDerivation, GateInv
<1>2. ASSUME NEW c \in Client, Begin(c) PROVE OneDerivation'
  <2>1. deriving' = {c} /\ ~Blocked(c) /\ UNCHANGED vars
    BY <1>2 DEF Begin, passphraseInFlight
  <2>2. ~Blocked(c)'
    BY <2>1 DEF vars, Blocked, Locked
  <2> QED
    BY <2>1, <2>2 DEF OneDerivation
<1>3. ASSUME NEW c \in Client, Wrong(c) \/ Right(c) PROVE OneDerivation'
  <2>1. deriving' = {}
    BY <1>3 DEF Wrong, Right, GateInv, OneDerivation
  <2> QED
    BY <2>1 DEF OneDerivation
<1>4. ASSUME UNCHANGED gateVars PROVE OneDerivation'
  BY <1>4 DEF gateVars, vars, GateInv, OneDerivation, Blocked, Locked
<1> QED
  BY <1>1, <1>2, <1>3, <1>4 DEF GateNext

\* The gate's state is sound, and the derivation under way - never two - was
\* let in under no lockout that is still running.
THEOREM GateInvariant == GateSpec => []GateInv
<1>1. GateInit => GateInv
  BY TypeInit DEF GateInit, GateInv, GateTypeOK, OneDerivation
<1>2. GateInv /\ [GateNext]_gateVars => GateInv'
  BY GateTypeStep, OneDerivationStep DEF GateInv
<1> QED
  BY <1>1, <1>2, PTL DEF GateSpec

\* One derivation at a time, and never one that a lockout should have refused.
THEOREM OnlyOneDerivation == GateSpec => []OneDerivation
<1>1. GateInv => OneDerivation
  BY DEF GateInv
<1> QED
  BY <1>1, GateInvariant, PTL

\* The action CountedOutsideLockout is about.
Counted ==
  /\ global' # global => ~Locked(global, now)
  /\ \A c \in Client : clients'[c].lockedUntil > clients[c].lockedUntil
                         => ~Locked(clients[c], now)

\* A wrong passphrase lengthens no lockout but one of its own client's that is over.
LEMMA WrongCounted ==
  ASSUME GateInv, NEW c \in Client, Wrong(c)
  PROVE  Counted
<1>1. ~Blocked(c)
  BY DEF Wrong, GateInv, OneDerivation
<1>2. ~Locked(global, now) /\ ~Locked(clients[c], now)
  BY <1>1 DEF Blocked
<1>3. ASSUME NEW k \in Client, k # c
      PROVE  ~(clients'[k].lockedUntil > clients[k].lockedUntil)
  <2>1. clients'[k] = clients[k] \/ clients'[k] = NewBucket(ClientPolicy)
    <3> DEFINE kept == IF c \in known THEN known ELSE MakeRoom
    <3>1. clients' = [l \in Client |->
                        IF l = c THEN Record(clients[c], ClientPolicy, now)
                        ELSE IF l \in kept THEN clients[l] ELSE NewBucket(ClientPolicy)]
      BY DEF Wrong, Fail
    <3> HIDE DEF kept
    <3> QED
      BY <1>3, <3>1
  <2>2. clients[k].lockedUntil \in Nat
    BY DEF GateInv, GateTypeOK, TypeOK
  <2>3. NewBucket(ClientPolicy).lockedUntil = 0
    BY DEF NewBucket
  <2> QED
    BY <2>1, <2>2, <2>3
<1> QED
  BY <1>2, <1>3 DEF Counted

\* A right one lengthens none.
LEMMA RightCounted ==
  ASSUME GateInv, NEW c \in Client, Right(c)
  PROVE  Counted
<1>1. /\ global' = global
      /\ clients' = [k \in Client |-> IF k \in known \ {c} THEN clients[k]
                                      ELSE NewBucket(ClientPolicy)]
  BY DEF Right, Succeed, Keep
<1>2. ASSUME NEW k \in Client
      PROVE  ~(clients'[k].lockedUntil > clients[k].lockedUntil)
  <2>1. clients[k].lockedUntil \in Nat
    BY DEF GateInv, GateTypeOK, TypeOK
  <2>2. NewBucket(ClientPolicy).lockedUntil = 0
    BY DEF NewBucket
  <2> QED
    BY <1>1, <2>1, <2>2
<1> QED
  BY <1>1, <1>2 DEF Counted

\* A parallel burst cannot outrun the failure counter: whatever the requests and
\* their timing, no failure is counted while a lockout that covers it runs.
THEOREM BurstsCannotOutrun == GateSpec => CountedOutsideLockout
<1>1. GateInv /\ [GateNext]_gateVars => [Counted]_gateVars
  <2> SUFFICES ASSUME GateInv, GateNext PROVE Counted
    BY DEF Counted
  <2>1. ASSUME UNCHANGED <<global, clients>> PROVE Counted
    <3>1. \A c \in Client : clients[c].lockedUntil \in Nat
      BY DEF GateInv, GateTypeOK, TypeOK
    <3> QED
      BY <2>1, <3>1 DEF Counted
  <2>2. ASSUME GateTick PROVE Counted
    BY <2>1, <2>2 DEF GateTick, Tick
  <2>3. ASSUME NEW c \in Client, Begin(c) PROVE Counted
    BY <2>1, <2>3 DEF Begin, vars
  <2> QED
    BY <2>2, <2>3, WrongCounted, RightCounted DEF GateNext
<1>2. CountedOutsideLockout <=> [][Counted]_gateVars
  BY DEF CountedOutsideLockout, Counted
<1> QED
  BY <1>1, <1>2, GateInvariant, PTL DEF GateSpec


-----------------------------------------------------------------------------
(* The budget: the TOTP gate and the history of its guesses and lockouts.   *)

Lockout == [at : Nat, for : Nat, after : Nat]

\* The guesses made up to the last lockout.
Spent == IF lockouts = <<>> THEN 0 ELSE lockouts[Len(lockouts)].after

\* The guesses that the global bucket still remembers are the last ones.
Remembered == Len(global.failures)

\* When the wait after guess i began, the last lockout being the last before it.
WaitFrom(i) == Since(lockouts[Len(lockouts)], i)

\* The history's types; guesses and lockouts are in the order they came in.
HistoryOK ==
  /\ guesses \in Seq(Nat)
  /\ lockouts \in Seq(Lockout)
  /\ \A i, j \in 1 .. Len(guesses) : i <= j => guesses[i] <= guesses[j]
  /\ \A k \in 1 .. Len(lockouts) : lockouts[k].after \in 1 .. Len(guesses)
  /\ \A k \in 1 .. Len(lockouts) : lockouts[k].after <= Spent

\* What the global bucket remembers of the guesses, and what it has forgotten:
\* those before the last lockout, and after it only expired ones.
BucketRemembers ==
  /\ guesses # <<>> => global.lastFailureAt = guesses[Len(guesses)]
  /\ Remembered <= Len(guesses) - Spent
  /\ \A i \in 1 .. Remembered : global.failures[i] = guesses[Len(guesses) - Remembered + i]
  /\ \A i \in Spent + 1 .. Len(guesses) - Remembered :
       guesses[Len(guesses)] - guesses[i] >= GlobalPolicy.window

\* The bucket's lockout is the last one, and its next one doubles that, or
\* starts over after a wait since.
BucketEscalates ==
  IF lockouts = <<>> THEN global.next = GlobalPolicy.base
  ELSE LET last == lockouts[Len(lockouts)]
       IN /\ global.lockedUntil = last.at + last.for
          /\ \/ global.next = Smaller(2 * last.for, GlobalPolicy.maxLockout)
             \/ /\ global.next = GlobalPolicy.base
                /\ \E i \in Spent .. Len(guesses) - 1 :
                     guesses[i + 1] - WaitFrom(i) >= GlobalPolicy.resetAfter

\* The history that the global bucket summarises.
HistoryInv ==
  /\ HistoryOK
  /\ BucketRemembers
  /\ BucketEscalates
  /\ GlobalBudget
  /\ Escalates

\* Each gate has a limiter of its own; only the TOTP gate has a history.
BudgetInv ==
  /\ GateTypeOK
  /\ IF gate = "totp" THEN HistoryInv ELSE guesses = <<>> /\ lockouts = <<>>

\* The size of an initial interval.
LEMMA IntervalSize ==
  ASSUME NEW n \in Nat
  PROVE  IsFiniteSet(1 .. n) /\ Cardinality(1 .. n) = n
<1>1. 1 \in Int /\ n \in Int
  OBVIOUS
<1>2. IsFiniteSet(1 .. n) /\ Cardinality(1 .. n) = IF 1 > n THEN 0 ELSE n - 1 + 1
  BY <1>1, FS_Interval
<1> QED
  BY <1>2

\* What Recent drops has expired: the failures are in order, so the expired
\* ones come first and counting them is enough.
LEMMA RecentKeepsTheRest ==
  ASSUME NEW f \in Seq(Nat), NEW p, p.window \in Nat, NEW t \in Nat,
         \A i, j \in 1 .. Len(f) : i <= j => f[i] <= f[j]
  PROVE  /\ Recent(f, p, t) \in Seq(Nat)
         /\ Len(Recent(f, p, t)) <= Len(f)
         /\ \A i \in 1 .. Len(Recent(f, p, t)) :
              Recent(f, p, t)[i] = f[Len(f) - Len(Recent(f, p, t)) + i]
         /\ \A i \in 1 .. Len(f) - Len(Recent(f, p, t)) : t - f[i] >= p.window
<1> DEFINE E == Expired(f, p, t)
           e == Cardinality(E)
<1>1. Len(f) \in Nat
  OBVIOUS
<1>2. E \subseteq 1 .. Len(f)
  BY DEF Expired
<1>3. \A n \in Nat : IsFiniteSet(1 .. n) /\ Cardinality(1 .. n) = n
  BY IntervalSize
<1>4. \A n \in Nat : E \subseteq 1 .. n => e \in Nat /\ e <= n
  <2> SUFFICES ASSUME NEW n \in Nat, E \subseteq 1 .. n PROVE e \in Nat /\ e <= n
    OBVIOUS
  <2> HIDE DEF E
  <2>1. IsFiniteSet(E) /\ Cardinality(E) <= Cardinality(1 .. n)
    BY <1>3, FS_Subset
  <2>2. Cardinality(E) \in Nat
    BY <2>1, FS_CardinalityType
  <2> QED
    BY <1>3, <2>1, <2>2
<1>5. e \in Nat /\ e <= Len(f)
  BY <1>1, <1>2, <1>4
<1>6. ASSUME NEW k \in 1 .. e
      PROVE  t - f[k] >= p.window
  <2>1. k \in 1 .. Len(f) /\ k - 1 \in Nat
    <3> HIDE DEF e
    <3> QED
      BY <1>1, <1>5
  <2>2. SUFFICES ASSUME k \notin E PROVE FALSE
    BY <2>1 DEF Expired
  <2>3. ASSUME NEW i \in E PROVE i \in 1 .. k - 1
    <3>1. i \in 1 .. Len(f) /\ t - f[i] >= p.window
      BY DEF Expired
    <3>2. ~(t - f[k] >= p.window)
      BY <2>1, <2>2 DEF Expired
    <3>3. f[i] \in Nat /\ f[k] \in Nat
      BY <2>1, <3>1
    <3>4. ~(f[k] <= f[i])
      BY <3>1, <3>2, <3>3
    <3>5. ~(k <= i)
      BY <2>1, <3>1, <3>4
    <3> QED
      BY <2>1, <3>1, <3>5
  <2>4. e <= k - 1
    BY <1>4, <2>1, <2>3
  <2> HIDE DEF e
  <2> QED
    BY <1>5, <2>4
<1> HIDE DEF E
<1>7. e + 1 \in 1 .. Len(f) + 1
  <2> HIDE DEF e
  <2> QED
    BY <1>1, <1>5
<1>8. Recent(f, p, t) = SubSeq(f, e + 1, Len(f))
  BY DEF Recent, E
<1> HIDE DEF e
<1> DEFINE r == Recent(f, p, t)
<1>9. /\ r \in Seq(Nat)
      /\ Len(r) = Len(f) - e
      /\ \A i \in 1 .. Len(f) - e : r[i] = f[e + i]
  BY <1>1, <1>5, <1>7, <1>8
<1> HIDE DEF r
<1>10. Len(r) <= Len(f) /\ Len(f) - Len(r) = e
  BY <1>1, <1>5, <1>9
<1>11. \A i \in 1 .. Len(r) : r[i] = f[Len(f) - Len(r) + i]
  BY <1>9, <1>10
<1>12. \A i \in 1 .. Len(f) - Len(r) : t - f[i] >= p.window
  BY <1>6, <1>10
<1> QED
  BY <1>9, <1>10, <1>11, <1>12 DEF r

\* What record() makes of a bucket: either it is below its threshold with the
\* failure added, or a lockout of the length that was due starts.
LEMMA RecordCases ==
  ASSUME NEW p, PolicyOK(p), NEW t \in Nat, NEW b, BucketAt(b, p, t),
         \A i, j \in 1 .. Len(b.failures) : i <= j => b.failures[i] <= b.failures[j]
  PROVE  \E r \in Seq(Nat), d \in Nat :
           /\ Len(r) <= Len(b.failures)
           /\ \A i \in 1 .. Len(r) : r[i] = b.failures[Len(b.failures) - Len(r) + i]
           /\ \A i \in 1 .. Len(b.failures) - Len(r) : t - b.failures[i] >= p.window
           /\ d = Due(b, p, t)
           /\ d >= 1
           /\ Record(b, p, t).lastFailureAt = t
           /\ \/ /\ Record(b, p, t).failures = Append(r, t)
                 /\ Record(b, p, t).lockedUntil = b.lockedUntil
                 /\ Record(b, p, t).next = d
              \/ /\ Record(b, p, t).failures = <<>>
                 /\ Record(b, p, t).lockedUntil = t + d
                 /\ Record(b, p, t).next = Smaller(2 * d, p.maxLockout)
<1> DEFINE g == b.failures
           r == Recent(g, p, t)
           d == Due(b, p, t)
<1>1. g \in Seq(Nat) /\ p.window \in Nat
  BY DEF BucketAt, Bucket, PolicyOK, Policy
<1>2. p.base \in Nat \ {0} /\ p.maxLockout \in Nat
  BY DEF PolicyOK, Policy
<1>3. d \in p.base .. p.maxLockout
  BY NextLockout DEF Due, BucketAt
<1>4. d \in Nat /\ d >= 1
  <2> HIDE DEF d
  <2> QED
    BY <1>2, <1>3
<1>5. \A i, j \in 1 .. Len(g) : i <= j => g[i] <= g[j]
  OBVIOUS
<1>6. /\ r \in Seq(Nat) /\ Len(r) <= Len(g)
      /\ \A i \in 1 .. Len(r) : r[i] = g[Len(g) - Len(r) + i]
      /\ \A i \in 1 .. Len(g) - Len(r) : t - g[i] >= p.window
  <2> HIDE DEF g
  <2> QED
    BY <1>1, <1>5, RecentKeepsTheRest, ZenonT(40)
<1>7. Record(b, p, t) =
        IF Len(Append(r, t)) < p.maxFailures
        THEN [failures |-> Append(r, t), lockedUntil |-> b.lockedUntil, next |-> d, lastFailureAt |-> t]
        ELSE [failures |-> <<>>, lockedUntil |-> t + d,
              next |-> Smaller(2 * d, p.maxLockout), lastFailureAt |-> t]
  BY DEF Record
<1>8. \/ Record(b, p, t) = [failures |-> Append(r, t), lockedUntil |-> b.lockedUntil,
                            next |-> d, lastFailureAt |-> t]
      \/ Record(b, p, t) = [failures |-> <<>>, lockedUntil |-> t + d,
                            next |-> Smaller(2 * d, p.maxLockout), lastFailureAt |-> t]
  BY <1>7
<1>9. d = Due(b, p, t)
  OBVIOUS
<1> HIDE DEF r, d
<1>10. /\ Record(b, p, t).lastFailureAt = t
       /\ \/ /\ Record(b, p, t).failures = Append(r, t)
             /\ Record(b, p, t).lockedUntil = b.lockedUntil
             /\ Record(b, p, t).next = d
          \/ /\ Record(b, p, t).failures = <<>>
             /\ Record(b, p, t).lockedUntil = t + d
             /\ Record(b, p, t).next = Smaller(2 * d, p.maxLockout)
  BY <1>8
<1> HIDE DEF g
<1> r \in Seq(Nat) /\ d \in Nat
  BY <1>4, <1>6
<1> WITNESS r \in Seq(Nat), d \in Nat
<1> QED
  BY <1>4, <1>6, <1>9, <1>10 DEF g

\* What the proofs below use of the global bucket's type and policy.
GlobalFacts ==
  /\ now \in Nat
  /\ global.failures \in Seq(Nat)
  /\ global.lockedUntil \in Nat
  /\ global.lastFailureAt \in Nat
  /\ global.next \in Nat
  /\ Len(global.failures) < GlobalPolicy.maxFailures
  /\ global.lastFailureAt <= now
  /\ GlobalPolicy.maxFailures \in Nat \ {0}
  /\ GlobalPolicy.window \in Nat \ {0}
  /\ GlobalPolicy.base \in Nat \ {0}
  /\ GlobalPolicy.maxLockout \in Nat \ {0}
  /\ GlobalPolicy.resetAfter \in Nat \ {0}

LEMMA TypeGivesFacts == TypeOK => GlobalFacts
<1> SUFFICES ASSUME TypeOK PROVE GlobalFacts
  OBVIOUS
<1>1. BucketAt(global, GlobalPolicy, now) /\ now \in Nat
  BY TypeAt
<1>2. GlobalPolicy \in Policy
  BY PolicyAssumption DEF PolicyOK
<1>3. GlobalPolicy.base \in Nat /\ GlobalPolicy.maxLockout \in Nat
  BY <1>2 DEF Policy
<1>4. global.next \in Nat
  BY <1>1, <1>3 DEF BucketAt, Bucket
<1> QED
  BY <1>1, <1>2, <1>4 DEF GlobalFacts, BucketAt, Bucket, Policy

\* A wrong code, as the history sees it: r is what the bucket remembers of the
\* guesses before it, d the length of the lockout that is due.
Guessed(r, d) ==
  /\ r \in Seq(Nat)
  /\ d \in Nat \ {0}
  /\ Len(r) <= Remembered
  /\ \A i \in 1 .. Len(r) : r[i] = global.failures[Remembered - Len(r) + i]
  /\ \A i \in 1 .. Remembered - Len(r) : now - global.failures[i] >= GlobalPolicy.window
  /\ d = Due(global, GlobalPolicy, now)
  /\ guesses' = Append(guesses, now)
  /\ global'.lastFailureAt = now

\* The budget is not used up ...
Counts(r, d) ==
  /\ Guessed(r, d)
  /\ global'.failures = Append(r, now)
  /\ global'.lockedUntil = global.lockedUntil
  /\ global'.next = d
  /\ lockouts' = lockouts

\* ... or it is.
Locks(r, d) ==
  /\ Guessed(r, d)
  /\ global'.failures = <<>>
  /\ global'.lockedUntil = now + d
  /\ global'.next = Smaller(2 * d, GlobalPolicy.maxLockout)
  /\ lockouts' = Append(lockouts, [at |-> now, for |-> d, after |-> Len(guesses) + 1])

\* Every wrong code that changes the bucket is one or the other.
LEMMA WrongCodeCases ==
  ASSUME TypeOK, HistoryOK, BucketRemembers, NEW c \in Client, WrongCode(c), Track,
         global' # global
  PROVE  \E r, d : Counts(r, d) \/ Locks(r, d)
<1> USE PolicyAssumption
<1> DEFINE n == Len(guesses)
           q == Len(global.failures)
           G == GlobalPolicy
<1>1. GlobalFacts
  BY TypeGivesFacts
<1>2. /\ now' = now
      /\ ~Locked(global, now)
      /\ global' = Record(global, G, now)
  BY DEF WrongCode, Blocked, Fail
<1>3. /\ guesses' = Append(guesses, now)
      /\ lockouts' = IF global'.lockedUntil = global.lockedUntil THEN lockouts
                     ELSE Append(lockouts, [at |-> now, for |-> global'.lockedUntil - now,
                                            after |-> Len(guesses')])
  BY <1>2 DEF Track
<1>4. Len(guesses') = n + 1
  BY <1>1, <1>3 DEF HistoryOK, GlobalFacts
<1>5. \A i, j \in 1 .. q : i <= j => global.failures[i] <= global.failures[j]
  <2> SUFFICES ASSUME NEW i \in 1 .. q, NEW j \in 1 .. q, i <= j
               PROVE  global.failures[i] <= global.failures[j]
    OBVIOUS
  <2>1. n \in Nat /\ q \in Nat /\ q <= n
    <3>1. Spent \in Nat
      BY DEF HistoryOK, Spent, Lockout
    <3>2. n \in Nat /\ q \in Nat
      BY <1>1, SMTT(20) DEF HistoryOK, GlobalFacts
    <3>3. q <= n - Spent
      BY DEF BucketRemembers, Remembered
    <3> HIDE DEF n, q
    <3> QED
      BY <3>1, <3>2, <3>3
  <2>2. global.failures[i] = guesses[n - q + i] /\ global.failures[j] = guesses[n - q + j]
    BY DEF BucketRemembers, Remembered
  <2>3. n - q + i \in 1 .. n /\ n - q + j \in 1 .. n /\ n - q + i <= n - q + j
    <3> HIDE DEF n, q
    <3> QED
      BY <2>1
  <2>4. guesses[n - q + i] <= guesses[n - q + j]
    <3>1. \A k, l \in 1 .. n : k <= l => guesses[k] <= guesses[l]
      BY DEF HistoryOK
    <3> HIDE DEF n, q
    <3> QED
      BY <2>3, <3>1
  <2> QED
    BY <2>2, <2>4
<1>6. PolicyOK(G) /\ BucketAt(global, G, now) /\ now \in Nat
  BY TypeAt
<1>7. PICK r \in Seq(Nat), d \in Nat :
        /\ Len(r) <= q
        /\ \A i \in 1 .. Len(r) : r[i] = global.failures[q - Len(r) + i]
        /\ \A i \in 1 .. q - Len(r) : now - global.failures[i] >= G.window
        /\ d = Due(global, G, now)
        /\ d >= 1
        /\ Record(global, G, now).lastFailureAt = now
        /\ \/ /\ Record(global, G, now).failures = Append(r, now)
              /\ Record(global, G, now).lockedUntil = global.lockedUntil
              /\ Record(global, G, now).next = d
           \/ /\ Record(global, G, now).failures = <<>>
              /\ Record(global, G, now).lockedUntil = now + d
              /\ Record(global, G, now).next = Smaller(2 * d, G.maxLockout)
  <2> DEFINE b == global
  <2> HIDE DEF G, b
  <2>1. \A i, j \in 1 .. Len(b.failures) : i <= j => b.failures[i] <= b.failures[j]
    BY <1>5 DEF b
  <2>2. PolicyOK(G) /\ BucketAt(b, G, now) /\ now \in Nat
    BY <1>6 DEF b
  <2>3. \E r \in Seq(Nat), d \in Nat :
          /\ Len(r) <= Len(b.failures)
          /\ \A i \in 1 .. Len(r) : r[i] = b.failures[Len(b.failures) - Len(r) + i]
          /\ \A i \in 1 .. Len(b.failures) - Len(r) : now - b.failures[i] >= G.window
          /\ d = Due(b, G, now)
          /\ d >= 1
          /\ Record(b, G, now).lastFailureAt = now
          /\ \/ /\ Record(b, G, now).failures = Append(r, now)
                /\ Record(b, G, now).lockedUntil = b.lockedUntil
                /\ Record(b, G, now).next = d
             \/ /\ Record(b, G, now).failures = <<>>
                /\ Record(b, G, now).lockedUntil = now + d
                /\ Record(b, G, now).next = Smaller(2 * d, G.maxLockout)
    BY <2>1, <2>2, RecordCases
  <2> QED
    BY <2>3 DEF b
<1>8. Guessed(r, d)
  BY <1>2, <1>3, <1>7 DEF Guessed, Remembered
<1>9. global.lockedUntil \in Nat /\ ~(global.lockedUntil > now) /\ now \in Nat
  BY <1>1, <1>2 DEF GlobalFacts, Locked
<1>10. ASSUME global'.failures = Append(r, now), global'.lockedUntil = global.lockedUntil,
              global'.next = d
       PROVE  Counts(r, d)
  BY <1>3, <1>8, <1>10 DEF Counts
<1>11. ASSUME global'.failures = <<>>, global'.lockedUntil = now + d,
              global'.next = Smaller(2 * d, G.maxLockout)
       PROVE  Locks(r, d)
  <2>1. global'.lockedUntil # global.lockedUntil /\ global'.lockedUntil - now = d
    BY <1>7, <1>9, <1>11
  <2> QED
    BY <1>3, <1>4, <1>8, <1>11, <2>1 DEF Locks
<1> QED
  BY <1>2, <1>7, <1>10, <1>11

\* What the history's types say of its ends.
LEMMA HistoryEnds ==
  ASSUME HistoryOK
  PROVE  /\ Len(guesses) \in Nat /\ Len(lockouts) \in Nat /\ Spent \in Nat
         /\ Spent <= Len(guesses)
         /\ \A i \in 1 .. Len(guesses) : guesses[i] \in Nat
         /\ lockouts # <<>> =>
              /\ Len(lockouts) \in 1 .. Len(lockouts)
              /\ Spent = lockouts[Len(lockouts)].after
              /\ Spent >= 1
              /\ lockouts[Len(lockouts)] \in Lockout
<1>1. Len(guesses) \in Nat /\ Len(lockouts) \in Nat
  BY DEF HistoryOK
<1>2. \A i \in 1 .. Len(guesses) : guesses[i] \in Nat
  BY DEF HistoryOK
<1>3. ASSUME lockouts # <<>>
      PROVE  /\ Len(lockouts) \in 1 .. Len(lockouts)
             /\ Spent = lockouts[Len(lockouts)].after
             /\ Spent \in 1 .. Len(guesses)
             /\ lockouts[Len(lockouts)] \in Lockout
  <2>1. Len(lockouts) \in 1 .. Len(lockouts)
    BY <1>3 DEF HistoryOK
  <2>2. Spent = lockouts[Len(lockouts)].after
    BY <1>3 DEF Spent
  <2>3. lockouts[Len(lockouts)] \in Lockout
    BY <2>1 DEF HistoryOK
  <2>4. lockouts[Len(lockouts)].after \in 1 .. Len(guesses)
    BY <2>1 DEF HistoryOK
  <2> QED
    BY <2>1, <2>2, <2>3, <2>4
<1>4. lockouts = <<>> => Spent = 0
  BY DEF Spent
<1> QED
  BY <1>1, <1>2, <1>3, <1>4

\* A guess is the latest one.
LEMMA GuessIsLast ==
  ASSUME GlobalFacts, HistoryOK, BucketRemembers, NEW r, NEW d, Guessed(r, d)
  PROVE  /\ guesses' \in Seq(Nat)
         /\ Len(guesses') = Len(guesses) + 1
         /\ \A i \in 1 .. Len(guesses) : guesses'[i] = guesses[i] /\ guesses[i] <= now
         /\ guesses'[Len(guesses) + 1] = now
         /\ \A i, j \in 1 .. Len(guesses') : i <= j => guesses'[i] <= guesses'[j]
<1> DEFINE n == Len(guesses)
<1>1. n \in Nat /\ now \in Nat /\ guesses \in Seq(Nat) /\ guesses' = Append(guesses, now)
  BY DEF GlobalFacts, HistoryOK, Guessed
<1>2. /\ guesses' \in Seq(Nat) /\ Len(guesses') = n + 1
      /\ \A i \in 1 .. n : guesses'[i] = guesses[i] /\ guesses[i] \in Nat
      /\ guesses'[n + 1] = now
  BY <1>1
<1>3. ASSUME NEW i \in 1 .. n PROVE guesses[i] <= now
  <2>1. guesses # <<>> /\ n \in 1 .. n
    BY <1>1, <1>3
  <2>2. guesses[n] = global.lastFailureAt
    BY <2>1 DEF BucketRemembers
  <2>3. guesses[i] <= guesses[n]
    BY <1>1, <1>3, <2>1 DEF HistoryOK
  <2>4. global.lastFailureAt \in Nat /\ global.lastFailureAt <= now
    BY DEF GlobalFacts
  <2> QED
    BY <1>1, <1>2, <2>2, <2>3, <2>4
<1>4. \A i, j \in 1 .. n : i <= j => guesses[i] <= guesses[j]
  BY DEF HistoryOK
<1> HIDE DEF n
<1>5. ASSUME NEW i \in 1 .. n + 1, NEW j \in 1 .. n + 1, i <= j
      PROVE  guesses'[i] <= guesses'[j]
  <2>1. CASE j \in 1 .. n
    <3>1. i \in 1 .. n
      BY <1>1, <1>5, <2>1
    <3> QED
      BY <1>2, <1>4, <1>5, <2>1, <3>1
  <2>2. CASE j = n + 1 /\ i \in 1 .. n
    BY <1>2, <1>3, <2>2
  <2>3. CASE j = n + 1 /\ i = n + 1
    BY <1>1, <1>2, <2>3
  <2>4. j \in 1 .. n \/ (j = n + 1 /\ i \in 1 .. n) \/ (j = n + 1 /\ i = n + 1)
    BY <1>1
  <2> QED
    BY <2>1, <2>2, <2>3, <2>4
<1> QED
  BY <1>2, <1>3, <1>5 DEF n

\* A counted guess keeps the history's types ...
LEMMA CountsHistory ==
  ASSUME GlobalFacts, HistoryOK, BucketRemembers, NEW r, NEW d, Counts(r, d)
  PROVE  HistoryOK' /\ Spent' = Spent
<1>1. Guessed(r, d) /\ lockouts' = lockouts
  BY DEF Counts
<1>2. Spent' = Spent
  BY <1>1 DEF Spent
<1>3. guesses' \in Seq(Nat) /\ Len(guesses') = Len(guesses) + 1 /\ Len(guesses) \in Nat
  BY <1>1, GuessIsLast, HistoryEnds
<1>4. \A i, j \in 1 .. Len(guesses') : i <= j => guesses'[i] <= guesses'[j]
  BY <1>1, GuessIsLast
<1>5. \A k \in 1 .. Len(lockouts) : lockouts[k].after \in 1 .. Len(guesses')
  <2>1. \A k \in 1 .. Len(lockouts) : lockouts[k].after \in 1 .. Len(guesses)
    BY DEF HistoryOK
  <2> QED
    BY <1>3, <2>1
<1>6. lockouts \in Seq(Lockout) /\ \A k \in 1 .. Len(lockouts) : lockouts[k].after <= Spent
  BY DEF HistoryOK
<1> QED
  BY <1>1, <1>2, <1>3, <1>4, <1>5, <1>6 DEF HistoryOK

\* ... and so does one that starts a lockout.
LEMMA LocksHistory ==
  ASSUME GlobalFacts, HistoryOK, BucketRemembers, NEW r, NEW d, Locks(r, d)
  PROVE  /\ HistoryOK'
         /\ Spent' = Len(guesses) + 1
         /\ Len(lockouts') = Len(lockouts) + 1
         /\ lockouts' # <<>>
         /\ lockouts'[Len(lockouts) + 1] = [at |-> now, for |-> d, after |-> Len(guesses) + 1]
         /\ \A k \in 1 .. Len(lockouts) : lockouts'[k] = lockouts[k]
<1> DEFINE n == Len(guesses)
           m == Len(lockouts)
           new == [at |-> now, for |-> d, after |-> n + 1]
<1>1. Guessed(r, d) /\ lockouts' = Append(lockouts, new)
  BY DEF Locks
<1>2. n \in Nat /\ m \in Nat /\ Spent \in Nat /\ Spent <= n
  BY HistoryEnds
<1>3. new \in Lockout
  BY <1>1, <1>2 DEF Lockout, Guessed, GlobalFacts
<1>4. lockouts \in Seq(Lockout)
  BY DEF HistoryOK
<1>5. new.after = n + 1
  OBVIOUS
<1> HIDE DEF new
<1>6. /\ lockouts' \in Seq(Lockout) /\ Len(lockouts') = m + 1 /\ lockouts' # <<>>
      /\ \A k \in 1 .. m : lockouts'[k] = lockouts[k]
      /\ lockouts'[m + 1] = new
  BY <1>1, <1>3, <1>4
<1>7. Spent' = n + 1
  BY <1>5, <1>6 DEF Spent
<1>8. guesses' \in Seq(Nat) /\ Len(guesses') = n + 1
  BY <1>1, GuessIsLast
<1>9. \A i, j \in 1 .. Len(guesses') : i <= j => guesses'[i] <= guesses'[j]
  BY <1>1, GuessIsLast
<1>10. \A k \in 1 .. m : lockouts[k].after \in 1 .. n
  BY DEF HistoryOK
<1>11. ASSUME NEW k \in 1 .. Len(lockouts')
       PROVE  lockouts'[k].after \in 1 .. n + 1 /\ lockouts'[k].after <= n + 1
  <2> HIDE DEF n, m
  <2>1. k \in 1 .. m \/ k = m + 1
    BY <1>2, <1>6, <1>11
  <2>2. lockouts'[k].after \in 1 .. n + 1
    BY <1>2, <1>5, <1>6, <1>10, <2>1
  <2> QED
    BY <1>2, <2>2
<1>12. HistoryOK'
  BY <1>6, <1>7, <1>8, <1>9, <1>11 DEF HistoryOK
<1> QED
  BY <1>6, <1>7, <1>12 DEF new

\* A counted guess: the bucket remembers it, and forgot only expired ones.
LEMMA CountsRemembers ==
  ASSUME GlobalFacts, HistoryOK, BucketRemembers, NEW r, NEW d, Counts(r, d)
  PROVE  BucketRemembers'
<1> DEFINE n == Len(guesses)
           q == Len(global.failures)
           s == Spent
           f == global.failures
           w == GlobalPolicy.window
<1>1. /\ Guessed(r, d) /\ lockouts' = lockouts
      /\ global'.failures = Append(r, now) /\ global'.lastFailureAt = now
  BY DEF Counts, Guessed
<1>2. n \in Nat /\ s \in Nat /\ q \in Nat /\ w \in Nat /\ now \in Nat
  BY HistoryEnds DEF GlobalFacts
<1>3. Spent' = s
  BY CountsHistory
<1>4. /\ r \in Seq(Nat) /\ Len(r) \in Nat /\ Len(r) <= q
      /\ \A i \in 1 .. Len(r) : r[i] = f[q - Len(r) + i]
      /\ \A i \in 1 .. q - Len(r) : now - f[i] >= w
  BY <1>1 DEF Guessed, Remembered
<1>5. /\ Len(guesses') = n + 1
      /\ \A i \in 1 .. n : guesses'[i] = guesses[i] /\ guesses[i] \in Nat /\ guesses[i] <= now
      /\ guesses'[n + 1] = now
  BY <1>1, GuessIsLast, HistoryEnds
<1>6. /\ q <= n - s
      /\ \A i \in 1 .. q : f[i] = guesses[n - q + i]
      /\ \A i \in s + 1 .. n - q : guesses[n] - guesses[i] >= w
  BY DEF BucketRemembers, Remembered
<1>7. Remembered' = Len(r) + 1
  BY <1>1, <1>4 DEF Remembered
<1> HIDE DEF n, q, s, f, w
<1> DEFINE l == Len(r)
<1> HIDE DEF l
<1>8. l \in Nat /\ l <= q
  BY <1>4 DEF l
<1>9. l + 1 <= n + 1 - s
  BY <1>2, <1>6, <1>8
<1>10. ASSUME NEW i \in 1 .. l + 1
       PROVE  Append(r, now)[i] = guesses'[n + 1 - (l + 1) + i]
  <2>1. CASE i = l + 1
    <3>1. Append(r, now)[i] = now
      BY <1>4, <2>1 DEF l
    <3>2. n + 1 - (l + 1) + i = n + 1
      BY <1>2, <1>8, <2>1
    <3> QED
      BY <1>5, <3>1, <3>2
  <2>2. CASE i \in 1 .. l
    <3>1. Append(r, now)[i] = r[i] /\ r[i] = f[q - l + i]
      BY <1>4, <2>2 DEF l
    <3>2. /\ q - l + i \in 1 .. q /\ n - q + (q - l + i) = n - l + i
          /\ n - l + i \in 1 .. n /\ n + 1 - (l + 1) + i = n - l + i
      BY <1>2, <1>6, <1>8, <2>2
    <3>3. f[q - l + i] = guesses[n - l + i]
      BY <1>6, <3>2
    <3> QED
      BY <1>5, <3>1, <3>2, <3>3
  <2>3. i = l + 1 \/ i \in 1 .. l
    BY <1>8
  <2> QED
    BY <2>1, <2>2, <2>3
<1>11. ASSUME NEW i \in s + 1 .. n + 1 - (l + 1)
       PROVE  guesses'[n + 1] - guesses'[i] >= w
  <2>1. i \in 1 .. n /\ guesses'[i] = guesses[i] /\ guesses[i] \in Nat
    BY <1>2, <1>5, <1>8
  <2>2. CASE i <= n - q
    <3>1. i \in s + 1 .. n - q
      BY <1>2, <2>2
    <3>2. guesses[n] - guesses[i] >= w
      BY <1>6, <3>1
    <3>3. n \in 1 .. n
      BY <1>2, <2>1
    <3>4. guesses[n] \in Nat /\ guesses[n] <= now
      BY <1>5, <3>3
    <3> QED
      BY <1>2, <1>5, <2>1, <3>2, <3>4
  <2>3. CASE ~(i <= n - q)
    <3>1. i - (n - q) \in 1 .. q /\ n - q + (i - (n - q)) = i /\ i - (n - q) \in 1 .. q - l
      BY <1>2, <1>6, <1>8, <2>3
    <3>2. f[i - (n - q)] = guesses[i]
      BY <1>6, <3>1
    <3>3. now - f[i - (n - q)] >= w
      BY <1>4, <3>1 DEF l
    <3> QED
      BY <1>5, <2>1, <3>2, <3>3
  <2> QED
    BY <2>2, <2>3
<1>12. guesses' # <<>> => global'.lastFailureAt = guesses'[Len(guesses')]
  BY <1>1, <1>5
<1>13. Remembered' <= Len(guesses') - Spent'
  BY <1>2, <1>3, <1>5, <1>7, <1>8, <1>9 DEF l
<1>14. \A i \in 1 .. Remembered' : global'.failures[i] = guesses'[Len(guesses') - Remembered' + i]
  BY <1>1, <1>2, <1>5, <1>7, <1>8, <1>10 DEF l
<1>15. \A i \in Spent' + 1 .. Len(guesses') - Remembered' : guesses'[Len(guesses')] - guesses'[i] >= w
  BY <1>2, <1>3, <1>5, <1>7, <1>8, <1>11 DEF l
<1> QED
  BY <1>12, <1>13, <1>14, <1>15 DEF BucketRemembers, w

\* A guess that starts a lockout: the bucket starts over.
LEMMA LocksRemembers ==
  ASSUME GlobalFacts, HistoryOK, BucketRemembers, NEW r, NEW d, Locks(r, d)
  PROVE  BucketRemembers'
<1>1. Guessed(r, d) /\ global'.failures = <<>> /\ global'.lastFailureAt = now
  BY DEF Locks, Guessed
<1>2. Spent' = Len(guesses) + 1 /\ Len(guesses) \in Nat
  BY LocksHistory, HistoryEnds
<1>3. Len(guesses') = Len(guesses) + 1 /\ guesses'[Len(guesses) + 1] = now
  BY <1>1, GuessIsLast
<1>4. Remembered' = 0
  BY <1>1 DEF Remembered
<1>5. \A i \in Spent' + 1 .. Len(guesses') - Remembered' : FALSE
  BY <1>2, <1>3, <1>4
<1>6. \A i \in 1 .. Remembered' : FALSE
  BY <1>4
<1>7. Remembered' <= Len(guesses') - Spent'
  BY <1>2, <1>3, <1>4
<1>8. guesses' # <<>> => global'.lastFailureAt = guesses'[Len(guesses')]
  BY <1>1, <1>3
<1> QED
  BY <1>5, <1>6, <1>7, <1>8 DEF BucketRemembers

\* One more guess stays within the budget: were it one too many, the guess that
\* opens the window would be forgotten although it has not expired, or the
\* bucket would remember as many as start a lockout.
LEMMA BudgetStep ==
  ASSUME GlobalFacts, HistoryOK, BucketRemembers, GlobalBudget, NEW r, NEW d, Guessed(r, d),
         Len(lockouts') \in Nat, Len(lockouts) <= Len(lockouts'),
         \A k \in 1 .. Len(lockouts) : lockouts'[k] = lockouts[k]
  PROVE  GlobalBudget'
<1> DEFINE n == Len(guesses)
           q == Len(global.failures)
           w == GlobalPolicy.window
           x == GlobalPolicy.maxFailures
<1>1. n \in Nat /\ Spent \in Nat /\ q \in Nat /\ w \in Nat \ {0} /\ x \in Nat \ {0} /\ now \in Nat
  BY HistoryEnds DEF GlobalFacts
<1>2. /\ Len(guesses') = n + 1
      /\ \A i \in 1 .. n : guesses'[i] = guesses[i] /\ guesses[i] \in Nat /\ guesses[i] <= now
      /\ guesses'[n + 1] = now
  BY GuessIsLast, HistoryEnds
<1>3. /\ q <= n - Spent /\ q < x
      /\ \A i \in Spent + 1 .. n - q : guesses[n] - guesses[i] >= w
  BY DEF BucketRemembers, Remembered, GlobalFacts
<1>4. \A i \in 1 .. n - x : guesses[i + x] - guesses[i] < w =>
        \E k \in 1 .. Len(lockouts) : lockouts[k].after \in i .. i + x - 1
  BY DEF GlobalBudget
<1>5. \A k \in 1 .. Len(lockouts) : k \in 1 .. Len(lockouts') /\ lockouts'[k] = lockouts[k]
  BY HistoryEnds
<1>6. Spent >= 1 => \E k \in 1 .. Len(lockouts) : Spent = lockouts[k].after
  BY HistoryEnds DEF Spent
<1>7. /\ \A i \in 1 .. n : guesses[i] <= now
      /\ n >= 1 => guesses[n] \in Nat /\ guesses[n] <= now
  BY <1>1, <1>2
<1> HIDE DEF n, q, w, x
<1>8. ASSUME NEW i \in 1 .. n + 1 - x, guesses'[i + x] - guesses'[i] < w
      PROVE  \E k \in 1 .. Len(lockouts') : lockouts'[k].after \in i .. i + x - 1
  <2>1. i \in 1 .. n /\ guesses'[i] = guesses[i] /\ guesses[i] \in Nat
    BY <1>1, <1>2
  <2>2. CASE i + x <= n
    <3>1. i \in 1 .. n - x /\ i + x \in 1 .. n
      BY <1>1, <2>2
    <3>2. guesses[i + x] - guesses[i] < w
      BY <1>2, <1>8, <2>1, <3>1
    <3>3. PICK k \in 1 .. Len(lockouts) : lockouts[k].after \in i .. i + x - 1
      BY <1>4, <3>1, <3>2
    <3> QED
      BY <1>5, <3>3
  <2>3. CASE i + x = n + 1
    <3>1. now - guesses[i] < w
      BY <1>2, <1>8, <2>1, <2>3
    <3>2. Spent >= i
      <4>1. SUFFICES ASSUME ~(Spent >= i) PROVE FALSE
        OBVIOUS
      <4>2. i \in Spent + 1 .. n - q
        BY <1>1, <1>3, <2>1, <2>3, <4>1
      <4>3. guesses[n] - guesses[i] >= w
        BY <1>3, <4>2
      <4>4. guesses[n] \in Nat /\ guesses[n] <= now
        BY <1>1, <1>7, <2>1
      <4> QED
        BY <1>1, <2>1, <3>1, <4>3, <4>4
    <3>3. PICK k \in 1 .. Len(lockouts) : Spent = lockouts[k].after
      BY <1>1, <1>6, <2>1, <3>2
    <3>4. Spent \in i .. i + x - 1
      BY <1>1, <1>3, <2>1, <2>3, <3>2
    <3> QED
      BY <1>5, <3>3, <3>4
  <2> QED
    BY <1>1, <2>1, <2>2, <2>3
<1>9. \A i \in 1 .. Len(guesses') - x :
        guesses'[i + x] - guesses'[i] < w =>
          \E k \in 1 .. Len(lockouts') : lockouts'[k].after \in i .. i + x - 1
  BY <1>1, <1>2, <1>8
<1> QED
  BY <1>9 DEF GlobalBudget, w, x

\* The lockout that is due is the doubled one, or the base after a wait.
LEMMA DueEscalates ==
  ASSUME GlobalFacts, HistoryOK, BucketRemembers, BucketEscalates, NEW r, NEW d, Guessed(r, d)
  PROVE  IF lockouts = <<>> THEN d = GlobalPolicy.base
         ELSE \/ d = Smaller(2 * lockouts[Len(lockouts)].for, GlobalPolicy.maxLockout)
              \/ /\ d = GlobalPolicy.base
                 /\ \E i \in Spent .. Len(guesses) :
                      guesses'[i + 1] - WaitFrom(i) >= GlobalPolicy.resetAfter
<1> DEFINE n == Len(guesses)
           G == GlobalPolicy
<1>1. /\ global.lockedUntil \in Nat /\ global.lastFailureAt \in Nat /\ G.resetAfter \in Nat
      /\ now \in Nat /\ n \in Nat /\ Spent \in Nat /\ Spent <= n
  BY HistoryEnds DEF GlobalFacts
<1>2. /\ guesses'[n + 1] = now
      /\ \A i \in 1 .. n : guesses'[i] = guesses[i]
  BY GuessIsLast
<1>3. d = Due(global, G, now)
  BY DEF Guessed
<1>4. CASE lockouts = <<>>
  BY <1>3, <1>4 DEF BucketEscalates, Due
<1>5. CASE lockouts # <<>> /\ global.next # G.base /\ Quiet(global, G, now)
  <2>1. d = G.base
    BY <1>3, <1>5 DEF Due
  <2>2. /\ now - global.lockedUntil >= G.resetAfter
        /\ now - global.lastFailureAt >= G.resetAfter
    BY <1>1, <1>5 DEF Quiet, LastActivity, Larger
  <2>3. WaitFrom(n) = global.lockedUntil \/ WaitFrom(n) = global.lastFailureAt
    <3>1. CASE n = Spent
      BY <1>5, <3>1, HistoryEnds DEF WaitFrom, Since, BucketEscalates
    <3>2. CASE n # Spent
      <4>1. guesses # <<>>
        BY <1>1, <3>2 DEF HistoryOK
      <4> QED
        BY <1>5, <3>2, <4>1, HistoryEnds DEF WaitFrom, Since, BucketRemembers
    <3> QED
      BY <3>1, <3>2
  <2>4. guesses'[n + 1] - WaitFrom(n) >= G.resetAfter
    BY <1>2, <2>2, <2>3
  <2>5. n \in Spent .. n
    BY <1>1
  <2> QED
    BY <1>5, <2>1, <2>4, <2>5
<1>6. CASE lockouts # <<>> /\ ~(global.next # G.base /\ Quiet(global, G, now))
  <2>1. d = global.next
    BY <1>3, <1>6 DEF Due
  <2>2. \/ d = Smaller(2 * lockouts[Len(lockouts)].for, G.maxLockout)
        \/ /\ d = G.base
           /\ \E i \in Spent .. n - 1 : guesses[i + 1] - WaitFrom(i) >= G.resetAfter
    BY <1>6, <2>1 DEF BucketEscalates
  <2>3. ASSUME NEW i \in Spent .. n - 1, guesses[i + 1] - WaitFrom(i) >= G.resetAfter
        PROVE  i \in Spent .. n /\ guesses'[i + 1] - WaitFrom(i) >= G.resetAfter
    <3> HIDE DEF n
    <3>1. i + 1 \in 1 .. n /\ i \in Spent .. n
      BY <1>1
    <3> QED
      BY <1>2, <2>3, <3>1
  <2> QED
    BY <1>6, <2>2, <2>3
<1> QED
  BY <1>4, <1>5, <1>6

\* What began a wait does not change with a later guess.
LEMMA WaitStays ==
  ASSUME GlobalFacts, HistoryOK, BucketRemembers, NEW r, NEW d, Counts(r, d),
         NEW i \in Spent .. Len(guesses), lockouts # <<>>
  PROVE  WaitFrom(i)' = WaitFrom(i)
<1>1. Guessed(r, d) /\ lockouts' = lockouts /\ Spent' = Spent
  BY CountsHistory DEF Counts
<1>2. CASE i = Spent
  BY <1>1, <1>2, HistoryEnds DEF WaitFrom, Since
<1>3. CASE i # Spent
  <2>1. i \in 1 .. Len(guesses)
    BY <1>3, HistoryEnds
  <2>2. guesses'[i] = guesses[i]
    BY <1>1, <2>1, GuessIsLast
  <2> QED
    BY <1>1, <1>3, <2>2, HistoryEnds DEF WaitFrom, Since
<1> QED
  BY <1>2, <1>3

\* A counted guess may find the ladder due for a reset.
LEMMA CountsEscalates ==
  ASSUME GlobalFacts, HistoryOK, BucketRemembers, BucketEscalates, NEW r, NEW d, Counts(r, d)
  PROVE  BucketEscalates'
<1> DEFINE n == Len(guesses)
           G == GlobalPolicy
<1>1. /\ Guessed(r, d) /\ lockouts' = lockouts /\ Spent' = Spent
      /\ global'.lockedUntil = global.lockedUntil /\ global'.next = d
  BY CountsHistory DEF Counts
<1>2. CASE lockouts = <<>>
  BY <1>1, <1>2, DueEscalates DEF BucketEscalates
<1>3. CASE lockouts # <<>>
  <2> DEFINE last == lockouts[Len(lockouts)]
  <2>1. global'.lockedUntil = last.at + last.for
    BY <1>1, <1>3 DEF BucketEscalates
  <2>2. \/ d = Smaller(2 * last.for, G.maxLockout)
        \/ /\ d = G.base
           /\ \E i \in Spent .. n : guesses'[i + 1] - WaitFrom(i) >= G.resetAfter
    BY <1>1, <1>3, DueEscalates
  <2>3. \A i \in Spent .. n : WaitFrom(i)' = WaitFrom(i)
    BY <1>3, WaitStays
  <2>4. Len(guesses') - 1 = n
    BY <1>1, GuessIsLast, HistoryEnds
  <2>5. \/ global'.next = Smaller(2 * last.for, G.maxLockout)
        \/ /\ global'.next = G.base
           /\ \E i \in Spent' .. Len(guesses') - 1 :
                guesses'[i + 1] - WaitFrom(i)' >= G.resetAfter
    BY <1>1, <2>2, <2>3, <2>4
  <2>6. lockouts' # <<>> /\ lockouts'[Len(lockouts')] = last
    BY <1>1, <1>3
  <2> HIDE DEF last
  <2> QED
    BY <2>1, <2>5, <2>6 DEF BucketEscalates
<1> QED
  BY <1>2, <1>3

\* A guess that starts a lockout sets up the double of it.
LEMMA LocksEscalates ==
  ASSUME GlobalFacts, HistoryOK, BucketRemembers, NEW r, NEW d, Locks(r, d)
  PROVE  BucketEscalates'
<1> DEFINE new == [at |-> now, for |-> d, after |-> Len(guesses) + 1]
<1>1. lockouts' # <<>> /\ lockouts'[Len(lockouts')] = new
  BY LocksHistory
<1>2. global'.lockedUntil = new.at + new.for
      /\ global'.next = Smaller(2 * new.for, GlobalPolicy.maxLockout)
  BY DEF Locks
<1> HIDE DEF new
<1> QED
  BY <1>1, <1>2 DEF BucketEscalates

\* A lockout that followed the one before it as it should goes on doing so: a
\* later guess changes neither the guesses up to it nor the waits between them.
LEMMA FollowsStays ==
  ASSUME HistoryOK, \A i \in 1 .. Len(guesses) : guesses'[i] = guesses[i],
         NEW k \in 1 .. Len(lockouts) - 1, Follows(lockouts[k], lockouts[k + 1]),
         lockouts'[k] = lockouts[k], lockouts'[k + 1] = lockouts[k + 1]
  PROVE  Follows(lockouts[k], lockouts[k + 1])'
<1> DEFINE n == Len(guesses)
           prev == lockouts[k]
           next == lockouts[k + 1]
           a == prev.after
           z == next.after
<1>1. Len(lockouts) \in Nat /\ k \in 1 .. Len(lockouts) /\ k + 1 \in 1 .. Len(lockouts)
  BY HistoryEnds
<1>2. a \in 1 .. n /\ z \in 1 .. n
  BY <1>1 DEF HistoryOK
<1>3. n \in Nat
  BY HistoryEnds
<1>4. Follows(prev, next) /\ prev' = prev /\ next' = next /\ a' = a /\ z' = z
  OBVIOUS
<1> HIDE DEF n, a, z, prev, next
<1>5. ASSUME NEW i \in a .. z - 1
      PROVE  guesses'[i + 1] = guesses[i + 1] /\ Since(prev, i)' = Since(prev, i)
  <2>1. i + 1 \in 1 .. n /\ i \in 1 .. n
    BY <1>2, <1>3
  <2>2. guesses'[i + 1] = guesses[i + 1] /\ guesses'[i] = guesses[i]
    BY <2>1 DEF n
  <2> QED
    BY <1>4, <2>2 DEF Since
<1>6. Follows(prev, next)'
  BY <1>4, <1>5 DEF Follows, a, z
<1> QED
  BY <1>6 DEF prev, next

\* A counted guess adds no lockout.
LEMMA CountsFollow ==
  ASSUME GlobalFacts, HistoryOK, BucketRemembers, Escalates, NEW r, NEW d, Counts(r, d)
  PROVE  Escalates'
<1>1. Guessed(r, d) /\ lockouts' = lockouts
  BY DEF Counts
<1>2. \A i \in 1 .. Len(guesses) : guesses'[i] = guesses[i]
  BY <1>1, GuessIsLast
<1>3. ASSUME NEW k \in 1 .. Len(lockouts) - 1
      PROVE  Follows(lockouts[k], lockouts[k + 1])'
  BY <1>1, <1>2, FollowsStays DEF Escalates
<1> QED
  BY <1>1, <1>3 DEF Escalates

\* The lockout that a guess starts is the one that was due.
LEMMA LocksFollow ==
  ASSUME GlobalFacts, HistoryOK, BucketRemembers, BucketEscalates, Escalates,
         NEW r, NEW d, Locks(r, d)
  PROVE  Escalates'
<1> DEFINE n == Len(guesses)
           m == Len(lockouts)
           last == lockouts[m]
           new == [at |-> now, for |-> d, after |-> n + 1]
           G == GlobalPolicy
<1>1. Guessed(r, d)
  BY DEF Locks
<1>2. /\ Len(lockouts') = m + 1 /\ lockouts'[m + 1] = new
      /\ \A k \in 1 .. m : lockouts'[k] = lockouts[k]
      /\ Spent' = n + 1
  BY LocksHistory
<1>3. m \in Nat /\ n \in Nat
  BY HistoryEnds
<1>4. \A i \in 1 .. n : guesses'[i] = guesses[i]
  BY <1>1, GuessIsLast
<1>5. ASSUME NEW k \in 1 .. m - 1
      PROVE  Follows(lockouts[k], lockouts[k + 1])'
  <2>1. k \in 1 .. m /\ k + 1 \in 1 .. m
    BY <1>3
  <2> QED
    BY <1>2, <1>4, <2>1, FollowsStays DEF Escalates
<1>6. ASSUME NEW k \in 1 .. m, k = m
      PROVE  Follows(lockouts[k], lockouts[k + 1])'
  <2>1. lockouts # <<>> /\ last.after = Spent /\ Spent <= n /\ Spent >= 1 /\ Spent \in Nat
    BY <1>6, HistoryEnds DEF HistoryOK
  <2>2. \/ d = Smaller(2 * last.for, G.maxLockout)
        \/ /\ d = G.base
           /\ \E i \in Spent .. n : guesses'[i + 1] - WaitFrom(i) >= G.resetAfter
    BY <1>1, <2>1, DueEscalates
  <2>3. lockouts'[k] = last /\ lockouts'[k + 1] = new
    BY <1>2, <1>6
  <2>4. new.for = d /\ new.after - 1 = n
    BY <1>3
  <2>5. ASSUME NEW i \in Spent .. n
        PROVE  (IF i = last.after THEN last.at + last.for ELSE guesses'[i]) = WaitFrom(i)
    <3>1. CASE i = Spent
      BY <2>1, <3>1 DEF WaitFrom, Since
    <3>2. CASE i # Spent
      <4>1. i \in 1 .. n
        BY <1>3, <2>1, <3>2
      <4> QED
        BY <1>4, <2>1, <3>2, <4>1 DEF WaitFrom, Since
    <3> QED
      BY <3>1, <3>2
  <2> HIDE DEF last, new, n, m, G
  <2>6. \/ new.for = Smaller(2 * last.for, G.maxLockout)
        \/ /\ new.for = G.base
           /\ \E i \in last.after .. new.after - 1 :
                guesses'[i + 1] - (IF i = last.after THEN last.at + last.for ELSE guesses'[i])
                  >= G.resetAfter
    BY <2>1, <2>2, <2>4, <2>5
  <2> QED
    BY <2>3, <2>6 DEF Follows, Since, G
<1> HIDE DEF n, last, new, G
<1>7. ASSUME NEW k \in 1 .. Len(lockouts') - 1
      PROVE  Follows(lockouts[k], lockouts[k + 1])'
  <2>1. k \in 1 .. m - 1 \/ (k \in 1 .. m /\ k = m)
    BY <1>2, <1>3
  <2> QED
    BY <1>5, <1>6, <2>1
<1> QED
  BY <1>7 DEF Escalates

-----------------------------------------------------------------------------

\* Whatever leaves the global bucket and the history alone keeps them in step.
LEMMA HistoryStays ==
  ASSUME HistoryInv, UNCHANGED <<global, guesses, lockouts>>
  PROVE  HistoryInv'
<1>1. global' = global /\ guesses' = guesses /\ lockouts' = lockouts
  OBVIOUS
<1>2. HistoryOK' = HistoryOK
  BY <1>1 DEF HistoryOK, Spent
<1>3. BucketRemembers' = BucketRemembers
  BY <1>1 DEF BucketRemembers, Spent, Remembered
<1>4. BucketEscalates' = BucketEscalates
  BY <1>1 DEF BucketEscalates, WaitFrom, Since, Spent
<1>5. GlobalBudget' = GlobalBudget
  BY <1>1 DEF GlobalBudget
<1>6. Escalates' = Escalates
  BY <1>1 DEF Escalates, Follows, Since
<1> QED
  BY <1>2, <1>3, <1>4, <1>5, <1>6 DEF HistoryInv

\* A wrong code keeps the history and what summarises it in step.
LEMMA HistoryStep ==
  ASSUME TypeOK, HistoryInv, NEW c \in Client, WrongCode(c), Track
  PROVE  HistoryInv'
<1>1. HistoryOK /\ BucketRemembers /\ BucketEscalates /\ GlobalBudget /\ Escalates /\ GlobalFacts
  BY TypeGivesFacts DEF HistoryInv
<1>2. CASE global' = global
  <2>1. guesses' = guesses /\ lockouts' = lockouts
    BY <1>2 DEF Track
  <2> QED
    BY <1>2, <2>1, HistoryStays
<1>3. ASSUME NEW r, NEW d, Counts(r, d)
      PROVE  HistoryInv'
  <2>1. Guessed(r, d) /\ lockouts' = lockouts
    BY <1>3 DEF Counts
  <2>2. GlobalBudget'
    BY <1>1, <2>1, BudgetStep, HistoryEnds
  <2> QED
    BY <1>1, <1>3, <2>2, CountsHistory, CountsRemembers, CountsEscalates, CountsFollow
    DEF HistoryInv
<1>4. ASSUME NEW r, NEW d, Locks(r, d)
      PROVE  HistoryInv'
  <2>1. Guessed(r, d)
    BY <1>4 DEF Locks
  <2>2. /\ Len(lockouts') \in Nat /\ Len(lockouts) <= Len(lockouts')
        /\ \A k \in 1 .. Len(lockouts) : lockouts'[k] = lockouts[k]
    <3>1. Len(lockouts') = Len(lockouts) + 1 /\ Len(lockouts) \in Nat
      BY <1>1, <1>4, LocksHistory, HistoryEnds
    <3>2. \A k \in 1 .. Len(lockouts) : lockouts'[k] = lockouts[k]
      BY <1>1, <1>4, LocksHistory
    <3> QED
      BY <3>1, <3>2
  <2>3. GlobalBudget'
    BY <1>1, <2>1, <2>2, BudgetStep
  <2> QED
    BY <1>1, <1>4, <2>3, LocksHistory, LocksRemembers, LocksEscalates, LocksFollow
    DEF HistoryInv
<1> QED
  BY <1>1, <1>2, <1>3, <1>4, WrongCodeCases

\* Initially there is no history.
LEMMA HistoryInit == MCInit => BudgetInv
<1> SUFFICES ASSUME MCInit PROVE BudgetInv
  OBVIOUS
<1>1. GateTypeOK
  BY TypeInit DEF MCInit, GateInit, GateTypeOK
<1>2. guesses = <<>> /\ lockouts = <<>> /\ global = NewBucket(GlobalPolicy)
  BY DEF MCInit, GateInit, Init
<1>3. GlobalFacts
  BY <1>1, TypeGivesFacts DEF GateTypeOK
<1>4. Len(guesses) = 0 /\ Len(lockouts) = 0 /\ Spent = 0 /\ Remembered = 0
  BY <1>2 DEF Spent, Remembered, NewBucket
<1>5. HistoryOK
  BY <1>2, <1>4 DEF HistoryOK
<1>6. BucketRemembers
  BY <1>2, <1>4 DEF BucketRemembers
<1>7. BucketEscalates
  BY <1>2 DEF BucketEscalates, NewBucket
<1>8. GlobalBudget /\ Escalates
  BY <1>3, <1>4 DEF GlobalBudget, Escalates, GlobalFacts
<1> QED
  BY <1>1, <1>2, <1>5, <1>6, <1>7, <1>8 DEF BudgetInv, HistoryInv

\* The global bucket summarises the TOTP gate's history: what it remembers, when
\* it is locked until and what its next lockout is follow from the guesses that
\* were made and the lockouts that were started.
THEOREM BudgetInvariant == MCSpec => []BudgetInv
<1>1. MCInit => BudgetInv
  BY HistoryInit
<1>2. BudgetInv /\ [MCNext]_<<gateVars, history>> => BudgetInv'
  <2> SUFFICES ASSUME BudgetInv, [MCNext]_<<gateVars, history>> PROVE BudgetInv'
    OBVIOUS
  <2>1. GateTypeOK
    BY DEF BudgetInv
  <2>2. ASSUME TotpGate PROVE BudgetInv'
    <3>1. gate = "totp" /\ Next /\ Track /\ deriving' = deriving /\ gate' = gate
      BY <2>2 DEF TotpGate
    <3>2. TypeOK /\ HistoryInv /\ deriving \subseteq Client
      BY <2>1, <3>1 DEF BudgetInv, GateTypeOK
    <3>3. ASSUME Tick PROVE TypeOK' /\ HistoryInv'
      <4>1. now \in Nat /\ now' = now + 1 /\ global' = global
        BY <3>2, <3>3 DEF Tick, TypeOK
      <4>2. guesses' = guesses /\ lockouts' = lockouts
        BY <3>1, <4>1 DEF Track
      <4> QED
        BY <3>2, <3>3, <4>1, <4>2, TickType, HistoryStays
    <3>4. ASSUME NEW c \in Client, WrongCode(c) PROVE TypeOK' /\ HistoryInv'
      BY <3>1, <3>2, <3>4, FailType, HistoryStep DEF WrongCode
    <3>5. ASSUME NEW c \in Client, RightCode(c) PROVE TypeOK' /\ HistoryInv'
      <4>1. global' = global
        BY <3>5 DEF RightCode, Succeed
      <4>2. guesses' = guesses /\ lockouts' = lockouts
        BY <3>1, <4>1 DEF Track
      <4> QED
        BY <3>2, <3>5, <4>1, <4>2, SucceedType, HistoryStays DEF RightCode
    <3>6. TypeOK' /\ HistoryInv'
      BY <3>1, <3>3, <3>4, <3>5 DEF Next
    <3> QED
      BY <3>1, <3>2, <3>6 DEF BudgetInv, GateTypeOK
  <2>3. ASSUME PassphraseGateStep PROVE BudgetInv'
    <3>1. gate = "passphrase" /\ GateNext /\ gate' = gate /\ guesses' = guesses /\ lockouts' = lockouts
      BY <2>3 DEF PassphraseGateStep, history
    <3>2. guesses = <<>> /\ lockouts = <<>>
      BY <3>1 DEF BudgetInv
    <3>3. GateTypeOK'
      BY <2>1, <3>1, GateTypeStep
    <3> QED
      BY <3>1, <3>2, <3>3 DEF BudgetInv
  <2>4. ASSUME UNCHANGED <<gateVars, history>> PROVE BudgetInv'
    <3>1. GateTypeOK'
      BY <2>1, <2>4, GateTypeStep
    <3>2. UNCHANGED <<global, gate, guesses, lockouts>>
      BY <2>4 DEF gateVars, vars, history
    <3>3. HistoryInv => HistoryInv'
      BY <3>2, HistoryStays
    <3> QED
      BY <3>1, <3>2, <3>3 DEF BudgetInv
  <2> QED
    BY <2>2, <2>3, <2>4 DEF MCNext
<1> QED
  BY <1>1, <1>2, PTL DEF MCSpec

\* One wrong code too many is never evaluated in one window without a global
\* lockout between the first and the last of them, for every pair of policies,
\* whoever made the guesses and whatever the client map forgot meanwhile.
THEOREM BudgetNeverExceeded == MCSpec => []GlobalBudget
<1>1. BudgetInv => GlobalBudget
  <2>1. guesses = <<>> => GlobalBudget
    BY PolicyAssumption DEF GlobalBudget, PolicyOK, Policy
  <2> QED
    BY <2>1 DEF BudgetInv, HistoryInv
<1> QED
  BY <1>1, BudgetInvariant, PTL

\* Every global lockout doubles the one before it up to the cap, unless the
\* reset time passed in between with no lockout running and no guess.
THEOREM LockoutsEscalate == MCSpec => []Escalates
<1>1. BudgetInv => Escalates
  <2>1. lockouts = <<>> => Escalates
    BY DEF Escalates
  <2> QED
    BY <2>1 DEF BudgetInv, HistoryInv
<1> QED
  BY <1>1, BudgetInvariant, PTL

=============================================================================

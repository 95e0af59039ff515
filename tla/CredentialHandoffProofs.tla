----------------------- MODULE CredentialHandoffProofs -----------------------
(***************************************************************************)
(* For every number of links, submissions and items, whatever fails: a     *)
(* link is claimed by one submission at a time, and an outcome is final.   *)
(* Where the links that create an item have names of their own: names stay *)
(* unique, an outcome is true, and of any number of re-fills of one item   *)
(* none takes a value back that was there when it read the item.           *)
(***************************************************************************)
EXTENDS CredentialHandoff, FiniteSetTheorems, TLAPS

\* The types of the variables a claim lives in.
ClaimTypes ==
  /\ status \in [Link -> InMap \cup {"new", "asked", "gone"}]
  /\ pc \in [Post -> Active \cup {"idle", "ended"}]
  /\ link \in [Post -> Link \cup {None}]
  /\ done \subseteq Link

\* An outcome belongs to a claim that was kept.
DoneFulfilled == \A l \in done : status[l] = "fulfilled"

\* A submission between its claim and its end has a link.
ActiveHasLink == \A p \in Post : pc[p] \in Active => link[p] \in Link

Inv == ClaimTypes /\ DoneFulfilled /\ ActiveHasLink /\ ClaimsExclusive

\* The invariant holds initially.
LEMMA InvInit == Init => Inv
  BY DEF Init, Inv, ClaimTypes, DoneFulfilled, ActiveHasLink, ClaimsExclusive, InMap, Active

\* Release gives back the link of one submission, and nobody else has that link.
LEMMA ReleaseInv ==
  ASSUME Inv, NEW p \in Post, pc[p] \in Active, Release(p)
  PROVE  Inv'
<1> DEFINE l == link[p]
<1>1. /\ l \in Link /\ status[l] \in {"fulfilled", "gone"} /\ l \notin done
      /\ \A q \in Post : pc[q] \in Active /\ link[q] = l => q = p
  BY DEF Inv, ActiveHasLink, ClaimsExclusive
<1>2. /\ status' = [status EXCEPT ![l] = IF @ = "fulfilled" THEN "pending" ELSE @]
      /\ done' = done \ {l}
      /\ pc' = [pc EXCEPT ![p] = "ended"]
      /\ link' = link
  BY DEF Release
<1> HIDE DEF l
<1>3. ClaimTypes'
  BY <1>1, <1>2 DEF Inv, ClaimTypes, InMap
<1>4. DoneFulfilled'
  BY <1>1, <1>2 DEF Inv, ClaimTypes, DoneFulfilled
<1>5. ActiveHasLink'
  BY <1>2 DEF Inv, ClaimTypes, ActiveHasLink, Active
<1>6. ClaimsExclusive'
  <2> SUFFICES ASSUME NEW q \in Post, pc'[q] \in Active
               PROVE  /\ status'[link'[q]] \in {"fulfilled", "gone"} /\ link'[q] \notin done'
                      /\ \A r \in Post : pc'[r] \in Active /\ link'[r] = link'[q] => r = q
    BY DEF ClaimsExclusive
  <2>1. q # p /\ pc[q] \in Active
    BY <1>2 DEF Inv, ClaimTypes, Active
  <2>2. link[q] # l /\ link[q] \in Link
    BY <1>1, <2>1 DEF Inv, ActiveHasLink
  <2>3. status'[link'[q]] = status[link[q]]
    BY <1>2, <2>2 DEF Inv, ClaimTypes
  <2>4. ASSUME NEW r \in Post, pc'[r] \in Active PROVE pc[r] \in Active
    BY <1>2, <2>4 DEF Inv, ClaimTypes, Active
  <2> QED
    BY <1>2, <2>1, <2>3, <2>4 DEF Inv, ClaimsExclusive
<1> QED
  BY <1>3, <1>4, <1>5, <1>6 DEF Inv

\* What the agent, the clock and the reader of a link do to its status spares
\* a claim: they expire, decline or mint what nobody has claimed, or drop a link.
LEMMA StoreInv ==
  ASSUME Inv, pc' = pc, link' = link,
         status' \in [Link -> InMap \cup {"new", "asked", "gone"}],
         done' \subseteq done,
         \A l \in Link : \/ status'[l] = status[l]
                         \/ status'[l] = "gone" /\ l \notin done'
                         \/ status[l] \notin {"fulfilled", "gone"}
  PROVE  Inv'
<1>1. ClaimTypes'
  BY DEF Inv, ClaimTypes
<1>2. DoneFulfilled'
  BY DEF Inv, ClaimTypes, DoneFulfilled
<1>3. ActiveHasLink'
  BY DEF Inv, ActiveHasLink
<1>4. ClaimsExclusive'
  BY DEF Inv, ActiveHasLink, ClaimsExclusive
<1> QED
  BY <1>1, <1>2, <1>3, <1>4 DEF Inv

\* A POST that goes on, with its link as it is.
LEMMA ProceedInv ==
  ASSUME Inv, NEW p \in Post, pc[p] \in Active, NEW to \in Active \cup {"ended"},
         pc' = [pc EXCEPT ![p] = to], link' = link, status' = status, done' = done
  PROVE  Inv'
<1>1. ClaimTypes' /\ DoneFulfilled' /\ ActiveHasLink'
  BY DEF Inv, ClaimTypes, DoneFulfilled, ActiveHasLink
<1>2. \A q \in Post : pc'[q] \in Active => pc[q] \in Active
  BY DEF Inv, ClaimTypes
<1>3. ClaimsExclusive'
  BY <1>2 DEF Inv, ClaimsExclusive
<1> QED
  BY <1>1, <1>3 DEF Inv

\* A POST claims a link that is pending, hence one that nobody has.
LEMMA SubmitInv ==
  ASSUME Inv, NEW p \in Post, NEW l \in Link, Submit(p, l)
  PROVE  Inv'
<1>1. /\ pc[p] = "idle" /\ status[l] = "pending"
      /\ status' = [status EXCEPT ![l] = "fulfilled"]
      /\ link' = [link EXCEPT ![p] = l]
      /\ done' = done
  BY DEF Submit, Claim, Fresh
<1>2. PICK to \in {"probe", "find"} : pc' = [pc EXCEPT ![p] = to]
  BY DEF Submit
<1>3. l \notin done
  BY <1>1 DEF Inv, DoneFulfilled
<1>4. ClaimTypes'
  BY <1>1, <1>2 DEF Inv, ClaimTypes, InMap, Active
<1>5. DoneFulfilled'
  BY <1>1 DEF Inv, ClaimTypes, DoneFulfilled
<1>6. ActiveHasLink'
  BY <1>1, <1>2 DEF Inv, ClaimTypes, ActiveHasLink, Active
<1>7. ASSUME NEW q \in Post, q # p, pc'[q] \in Active
      PROVE  /\ pc[q] \in Active /\ link'[q] = link[q] /\ link[q] # l
             /\ status'[link[q]] = status[link[q]]
  <2>1. pc[q] \in Active /\ link'[q] = link[q]
    BY <1>1, <1>2, <1>7 DEF Inv, ClaimTypes
  <2>2. link[q] \in Link /\ link[q] # l
    BY <1>1, <2>1 DEF Inv, ActiveHasLink, ClaimsExclusive
  <2> QED
    BY <1>1, <2>1, <2>2 DEF Inv, ClaimTypes
<1>8. link'[p] = l /\ status'[l] = "fulfilled"
  BY <1>1 DEF Inv, ClaimTypes
<1>9. ClaimsExclusive'
  BY <1>1, <1>3, <1>7, <1>8 DEF Inv, ClaimsExclusive
<1> QED
  BY <1>4, <1>5, <1>6, <1>9 DEF Inv

\* The outcome goes to the one claim its link has.
LEMMA CompleteInv ==
  ASSUME Inv, NEW p \in Post, Complete(p)
  PROVE  Inv'
<1>1. /\ pc[p] = "fingerprint" /\ pc' = [pc EXCEPT ![p] = "ended"]
      /\ link' = link /\ status' = status
      /\ done' = IF status[link[p]] = "fulfilled" THEN done \cup {link[p]} ELSE done
  BY DEF Complete
<1>2. /\ link[p] \in Link
      /\ \A q \in Post : pc[q] \in Active /\ link[q] = link[p] => q = p
  BY <1>1 DEF Inv, ActiveHasLink, ClaimsExclusive, Active
<1>3. ClaimTypes' /\ DoneFulfilled'
  BY <1>1, <1>2 DEF Inv, ClaimTypes, DoneFulfilled
<1>4. \A q \in Post : pc'[q] \in Active => q # p /\ pc[q] \in Active
  BY <1>1 DEF Inv, ClaimTypes, Active
<1>5. ActiveHasLink'
  BY <1>1, <1>4 DEF Inv, ActiveHasLink
<1>6. ClaimsExclusive'
  BY <1>1, <1>2, <1>4 DEF Inv, ClaimsExclusive
<1> QED
  BY <1>3, <1>5, <1>6 DEF Inv

\* Every step keeps the invariant.
LEMMA InvStep == Inv /\ [Next]_vars => Inv'
<1> SUFFICES ASSUME Inv, [Next]_vars PROVE Inv'
  OBVIOUS
<1>1. ASSUME NEW l \in Link, Ask(l) \/ Create(l) \/ Elapse(l) \/ Look(l) \/ Decline(l)
      PROVE  Inv'
  <2>0. ClaimTypes
    BY DEF Inv
  <2>1. CASE Ask(l)
    BY <2>0, <2>1, StoreInv DEF Ask, ClaimTypes, InMap
  <2>2. CASE Create(l)
    BY <2>0, <2>2, StoreInv DEF Create, ClaimTypes, InMap
  <2>3. CASE Elapse(l)
    BY <2>0, <2>3, StoreInv DEF Elapse, ClaimTypes
  <2>4. CASE Look(l)
    BY <2>0, <2>4, StoreInv DEF Look, Fresh, ClaimTypes, InMap
  <2>5. CASE Decline(l)
    BY <2>0, <2>5, StoreInv DEF Decline, Fresh, ClaimTypes, InMap
  <2> QED
    BY <1>1, <2>1, <2>2, <2>3, <2>4, <2>5
<1>2. ASSUME NEW p \in Post, Step(p) PROVE Inv'
  <2>1. CASE ProbePasses(p) \/ Find(p) \/ Write(p)
    BY <2>1, ProceedInv DEF ProbePasses, Find, Write, storeVars, Active
  <2>2. CASE ProbeFails(p) \/ FindRefused(p) \/ VaultFails(p) \/ FingerprintFails(p)
    BY <2>2, ReleaseInv DEF ProbeFails, FindRefused, VaultFails, FingerprintFails, Active
  <2>3. CASE Complete(p)
    BY <2>3, CompleteInv
  <2> QED
    BY <1>2, <2>1, <2>2, <2>3 DEF Step
<1>3. ASSUME NEW p \in Post, NEW l \in Link, Submit(p, l) PROVE Inv'
  BY <1>3, SubmitInv
<1>4. ASSUME UNCHANGED vars PROVE Inv'
  BY <1>4 DEF vars, Inv, ClaimTypes, DoneFulfilled, ActiveHasLink, ClaimsExclusive
<1> QED
  BY <1>1, <1>2, <1>3, <1>4 DEF Next

\* Exactly one caller has a link between its claim and its end.
THEOREM OneClaimAtATime == Spec => []ClaimsExclusive
<1>1. Inv => ClaimsExclusive
  BY DEF Inv
<1> QED
  BY <1>1, InvInit, InvStep, PTL DEF Spec

\* The action OutcomesFinal is about.
Final ==
  \A l \in Link :
    /\ l \in done => status'[l] = "gone" \/ (status'[l] = "fulfilled" /\ l \in done')
    /\ status[l] \in {"expired", "declined"} => status'[l] \in {status[l], "gone"}

\* No step of the program revives a link, or takes an outcome back.
LEMMA StepFinal == Inv /\ Next => Final
<1> SUFFICES ASSUME Inv, Next, NEW l \in Link
             PROVE  /\ l \in done => status'[l] = "gone" \/ (status'[l] = "fulfilled" /\ l \in done')
                    /\ status[l] \in {"expired", "declined"} => status'[l] \in {status[l], "gone"}
  BY DEF Final
<1>0. /\ status \in [Link -> InMap \cup {"new", "asked", "gone"}]
      /\ l \in done => status[l] = "fulfilled"
  BY DEF Inv, ClaimTypes, DoneFulfilled
<1>1. ASSUME NEW k \in Link, Ask(k) \/ Elapse(k) \/ Look(k) \/ Decline(k)
      PROVE  done' = done /\ (status'[l] = status[l] \/ status[l] \in {"new", "pending"})
  BY <1>0, <1>1 DEF Ask, Elapse, Look, Decline, Fresh
<1>2. ASSUME NEW k \in Link, Create(k)
      PROVE  \/ status[l] = "asked"
             \/ status'[l] = "gone"
             \/ status'[l] = status[l] /\ (l \in done => l \in done')
  BY <1>0, <1>2 DEF Create
<1>3. ASSUME NEW p \in Post, Step(p)
      PROVE  /\ l \in done => l \in done'
             /\ status'[l] = status[l] \/ (status[l] = "fulfilled" /\ l \notin done)
  <2>1. CASE ProbePasses(p) \/ Find(p) \/ Write(p) \/ Complete(p)
    <3>1. CASE ProbePasses(p) \/ Find(p) \/ Write(p)
      <4>1. status' = status /\ done' = done
        BY <3>1 DEF ProbePasses, Find, Write, storeVars
      <4> QED
        BY <4>1
    <3>2. CASE Complete(p)
      <4>1. status' = status /\ done \subseteq done'
        BY <3>2 DEF Complete
      <4> QED
        BY <4>1
    <3> QED
      BY <2>1, <3>1, <3>2
  <2>2. CASE ProbeFails(p) \/ FindRefused(p) \/ VaultFails(p) \/ FingerprintFails(p)
    <3>1. pc[p] \in Active /\ Release(p)
      BY <2>2 DEF ProbeFails, FindRefused, VaultFails, FingerprintFails, Active
    <3>2. link[p] \notin done
      BY <3>1 DEF Inv, ClaimsExclusive
    <3>3. /\ status' = [status EXCEPT ![link[p]] = IF @ = "fulfilled" THEN "pending" ELSE @]
          /\ done' = done \ {link[p]}
      BY <3>1 DEF Release
    <3>4. ASSUME l = link[p] PROVE status'[l] = status[l] \/ status[l] = "fulfilled"
      BY <1>0, <3>3, <3>4
    <3>5. ASSUME l # link[p] PROVE status'[l] = status[l]
      BY <1>0, <3>3, <3>5
    <3> QED
      BY <3>2, <3>3, <3>4, <3>5
  <2> QED
    BY <1>3, <2>1, <2>2 DEF Step
<1>4. ASSUME NEW p \in Post, NEW k \in Link, Submit(p, k)
      PROVE  done' = done /\ (status'[l] = status[l] \/ status[l] = "pending")
  BY <1>0, <1>4 DEF Submit, Claim, Fresh
<1> QED
  BY <1>0, <1>1, <1>2, <1>3, <1>4 DEF Next

\* A one-time link stays used, expired or declined.
THEOREM OutcomesAreFinal == Spec => OutcomesFinal
<1>1. Inv /\ [Next]_vars => [Final]_vars
  BY StepFinal
<1>2. OutcomesFinal <=> [][Final]_vars
  BY DEF OutcomesFinal, Final
<1> QED
  BY <1>1, <1>2, InvInit, InvStep, PTL DEF Spec

-----------------------------------------------------------------------------

\* The links that create an item have a name of their own; any number of links
\* may re-fill one item.  (Two links for one new name do end in two items.)
OwnNames == \A k, l \in Link \ Overwrite : NameOf(k) = NameOf(l) => k = l

\* What an item holds in a field that no link has asked for.
Untouched(i) == IF i.id \in Name THEN i.id ELSE None

\* An item, as it is or as it was read, has the latest values that the POSTs have
\* written, but for those that a re-fill has taken back and those of late.
Writers(st) == {st[k] : k \in DOMAIN st}

Taken(p, f, st, mi, li) == \E q \in Writers(st) : p \in mi[q] /\ f \notin FieldsOf(li[q])

UpToDateIn(i, late, st, mi, li) ==
  /\ \A k \in DOMAIN st : NameOf(li[st[k]]) = i.name =>
       \A f \in FieldsOf(li[st[k]]) :
         \/ st[k] \in late
         \/ Taken(st[k], f, st, mi, li)
         \/ \E m \in k .. Len(st) : i.fields[f] = st[m]
  /\ \A f \in Field :
       (\A p \in Writers(st) : NameOf(li[p]) = i.name => f \notin FieldsOf(li[p]))
         => i.fields[f] = Untouched(i)

UpToDate(i, late) == UpToDateIn(i, late, stored, missed, link)
UpToDateNext(i, late) == UpToDateIn(i, late, stored', missed', link')

\* A POST that re-fills an item has read one that is still there, and has missed
\* no more than the writes of late.
Read(p) ==
  \E s \in Item :
    /\ seen[p] = {s} /\ s.name = NameOf(link[p])
    /\ \E i \in vault : i.id = s.id /\ i.name = s.name
    /\ UpToDate(s, missed[p])

\* The types of the variables of the vault.
VaultTypes ==
  /\ vault \subseteq Item
  /\ seen \in [Post -> SUBSET Item]
  /\ stored \in Seq(Post)
  /\ missed \in [Post -> SUBSET Post]

\* Items differ in their names and in their ids; a submission about to create an
\* item is alone with its name, one about to re-fill has read its item; a
\* submission that has written is past its write, and its item is there.
ItemInv ==
  /\ VaultTypes
  /\ \A i, j \in vault : i.name = j.name \/ i.id = j.id => i = j
  /\ \A i \in vault : i.id \in Post => pc[i.id] \in {"fingerprint", "ended"}
  /\ \A p \in Stored : pc[p] \in {"fingerprint", "ended"} /\ link[p] \in Link
                       /\ \E i \in vault : i.name = NameOf(link[p])
  /\ \A p \in Post : pc[p] = "write" /\ link[p] \in Overwrite => Read(p)
  /\ \A p \in Post : pc[p] = "write" /\ link[p] \notin Overwrite =>
       \A i \in vault : i.name # NameOf(link[p])
  /\ \A p \in Post : pc[p] = "fingerprint" => p \in Stored
  /\ \A l \in done : \E p \in Stored : link[p] = l
  /\ \A i \in vault : UpToDate(i, {})

LEMMA ItemInvInit == Init => ItemInv
<1> SUFFICES ASSUME Init PROVE ItemInv
  OBVIOUS
<1>1. \A i \in vault : i \in Item /\ i.id = i.name /\ i.id \notin Post /\ i.id \in Name
                       /\ i.fields = [f \in Field |-> i.id]
  <2> SUFFICES ASSUME NEW i \in vault
               PROVE  i \in Item /\ i.id = i.name /\ i.id \notin Post /\ i.id \in Name
                      /\ i.fields = [f \in Field |-> i.id]
    OBVIOUS
  <2>0. PICK n \in Initial : i = [id |-> n, name |-> n, fields |-> [f \in Field |-> n]]
    BY DEF Init
  <2>1. n \in Name /\ n \notin Post
    BY LinkAssumption, BoundAssumption
  <2>2. i.id = n /\ i.name = n /\ i.fields = [f \in Field |-> n]
    BY <2>0
  <2>3. [f \in Field |-> n] \in [Field -> Post \cup Name \cup {None}]
    BY <2>1
  <2>4. i \in Item
    BY <2>0, <2>1, <2>3 DEF Item
  <2> QED BY <2>1, <2>2, <2>4
<1>2. \A i, j \in vault : i.name = j.name \/ i.id = j.id => i = j
  <2> SUFFICES ASSUME NEW i \in vault, NEW j \in vault, i.id = j.id PROVE i = j
    BY <1>1
  <2>1. PICK n \in Initial : i = [id |-> n, name |-> n, fields |-> [f \in Field |-> n]]
    BY DEF Init
  <2>2. PICK m \in Initial : j = [id |-> m, name |-> m, fields |-> [f \in Field |-> m]]
    BY DEF Init
  <2>3. n = m
    BY <2>1, <2>2
  <2> QED BY <2>1, <2>2, <2>3
<1>3. /\ seen \in [Post -> SUBSET Item] /\ done = {} /\ \A p \in Post : pc[p] = "idle"
      /\ stored = <<>> /\ missed \in [Post -> SUBSET Post]
  BY DEF Init
<1>4. stored \in Seq(Post) /\ DOMAIN stored = {} /\ Stored = {} /\ Writers(stored) = {}
  BY <1>3 DEF Stored, Writers
<1>5. \A i \in vault : UpToDate(i, {})
  BY <1>1, <1>4 DEF UpToDate, UpToDateIn, Untouched
<1> QED BY <1>1, <1>2, <1>3, <1>4, <1>5 DEF ItemInv, VaultTypes

\* There is at most one item of a name, and how many says whether there is one.
LEMMA NamedCount ==
  ASSUME ItemInv, NEW n
  PROVE  \/ Cardinality(Named(n)) = 0 /\ Named(n) = {}
         \/ Cardinality(Named(n)) = 1 /\ \E s \in vault : Named(n) = {s} /\ s.name = n
<1>1. CASE Named(n) = {}
  <2>1. Cardinality(Named(n)) = Cardinality({})
    BY <1>1
  <2> QED BY <1>1, <2>1, FS_EmptySet
<1>2. CASE Named(n) # {}
  <2>1. PICK s \in vault : s.name = n
    BY <1>2 DEF Named
  <2>2. Named(n) = {s}
    BY <2>1 DEF Named, ItemInv
  <2> QED BY <2>1, <2>2, FS_Singleton
<1> QED BY <1>1, <1>2

\* What has been written, and by whom, stays as it is while nobody writes and no
\* submission that has written claims another link.
LEMMA SameUpToDate ==
  ASSUME UNCHANGED <<stored, missed>>,
         \A p \in Stored : link'[p] = link[p],
         NEW i, NEW late, UpToDate(i, late)
  PROVE  UpToDateNext(i, late)
<1>1. \A k \in DOMAIN stored : link'[stored[k]] = link[stored[k]]
  BY DEF Stored
<1>2. \A p, f : Taken(p, f, stored, missed, link') <=> Taken(p, f, stored, missed, link)
  BY DEF Taken, Writers, Stored
<1>3. Writers(stored) = Stored
  BY DEF Stored, Writers
<1> QED BY <1>1, <1>2, <1>3 DEF UpToDate, UpToDateNext, UpToDateIn

\* A step that leaves the vault alone, and takes nobody to a write.
LEMMA QuietItems ==
  ASSUME Inv, ItemInv, UNCHANGED vaultVars,
         \A p \in Post : pc'[p] \in {"write", "fingerprint"} => pc'[p] = pc[p] /\ link'[p] = link[p],
         \A p \in Post : pc[p] \in {"fingerprint", "ended"} =>
                           pc'[p] \in {"fingerprint", "ended"} /\ link'[p] = link[p],
         \A l \in done' : l \in done \/ \E p \in Stored : link[p] = l
  PROVE  ItemInv'
<1>1. vault' = vault /\ seen' = seen /\ stored' = stored /\ missed' = missed /\ Stored' = Stored
  BY DEF vaultVars, Stored
<1>2. \A p \in Stored : p \in Post /\ pc[p] \in {"fingerprint", "ended"} /\ link'[p] = link[p]
  BY DEF ItemInv, VaultTypes, Stored
<1>3. \A i \in vault' : UpToDateNext(i, {})
  BY <1>1, <1>2, SameUpToDate DEF ItemInv
<1>4. \A p \in Post : pc'[p] = "write" /\ link'[p] \in Overwrite => Read(p)'
  <2> SUFFICES ASSUME NEW p \in Post, pc'[p] = "write", link'[p] \in Overwrite PROVE Read(p)'
    OBVIOUS
  <2>1. pc[p] = "write" /\ link'[p] = link[p]
    OBVIOUS
  <2>2. PICK s \in Item :
          /\ seen[p] = {s} /\ s.name = NameOf(link[p])
          /\ \E i \in vault : i.id = s.id /\ i.name = s.name
          /\ UpToDate(s, missed[p])
    BY <2>1 DEF ItemInv, Read
  <2>3. UpToDateNext(s, missed'[p])
    BY <1>1, <1>2, <2>2, SameUpToDate
  <2> QED BY <1>1, <2>1, <2>2, <2>3 DEF Read, UpToDate, UpToDateNext
<1>5. /\ \A p \in Stored' : pc'[p] \in {"fingerprint", "ended"} /\ link'[p] \in Link
                            /\ \E i \in vault' : i.name = NameOf(link'[p])
      /\ \A p \in Post : pc'[p] = "fingerprint" => p \in Stored'
      /\ \A l \in done' : \E p \in Stored' : link'[p] = l
  BY <1>1, <1>2 DEF ItemInv
<1>6. /\ \A i \in vault' : i.id \in Post => pc'[i.id] \in {"fingerprint", "ended"}
      /\ \A p \in Post : pc'[p] = "write" /\ link'[p] \notin Overwrite =>
           \A i \in vault' : i.name # NameOf(link'[p])
  BY <1>1 DEF ItemInv
<1>7. VaultTypes' /\ \A i, j \in vault' : i.name = j.name \/ i.id = j.id => i = j
  BY <1>1 DEF ItemInv, VaultTypes
<1> QED BY <1>3, <1>4, <1>5, <1>6, <1>7 DEF ItemInv, UpToDate, UpToDateNext

\* A submission looks its item up and is about to write.
LEMMA FindItems ==
  ASSUME Inv, ItemInv, NEW p \in Post, Find(p) PROVE ItemInv'
<1> DEFINE n == NameOf(link[p])
<1>1. /\ pc[p] = "find" /\ pc' = [pc EXCEPT ![p] = "write"]
      /\ UNCHANGED <<vault, stored, missed, link, done>>
      /\ seen' = [seen EXCEPT ![p] = IF link[p] \in Overwrite THEN Named(n) ELSE {}]
      /\ Cardinality(Named(n)) = IF link[p] \in Overwrite THEN 1 ELSE 0
  BY DEF Find, storeVars
<1>2. \A q \in Post : pc'[q] = IF q = p THEN "write" ELSE pc[q]
  BY <1>1 DEF Inv, ClaimTypes
<1>3. Named(n) \in SUBSET Item /\ \A i \in vault : i.name = n => i \in Named(n)
  BY DEF Named, ItemInv, VaultTypes
<1>4. link[p] \in Overwrite => \E s \in vault : Named(n) = {s} /\ s.name = n
  BY <1>1, NamedCount
<1>5. link[p] \notin Overwrite => Named(n) = {}
  BY <1>1, NamedCount
<1> HIDE DEF n
<1>6. /\ seen' \in [Post -> SUBSET Item]
      /\ seen'[p] = IF link[p] \in Overwrite THEN Named(n) ELSE {}
      /\ \A q \in Post : q # p => seen'[q] = seen[q]
  BY <1>1, <1>3 DEF ItemInv, VaultTypes
<1>s. Stored' = Stored
  BY <1>1 DEF Stored
<1>u. ASSUME NEW i, NEW late, UpToDate(i, late) PROVE UpToDateNext(i, late)
  BY <1>1, <1>u, SameUpToDate
<1>7. ASSUME NEW q \in Post, pc'[q] = "write", link'[q] \in Overwrite PROVE Read(q)'
  <2>1. CASE q = p
    <3>1. PICK s \in vault : Named(n) = {s} /\ s.name = n
      BY <1>1, <1>4, <1>7, <2>1
    <3>2. s \in Item /\ UpToDate(s, {})
      BY DEF ItemInv, VaultTypes
    <3>3. UpToDate(s, missed[p])
      BY <3>2 DEF UpToDate, UpToDateIn
    <3>4. UpToDateNext(s, missed'[p])
      BY <1>1, <1>u, <3>3
    <3> QED BY <1>1, <1>6, <1>7, <2>1, <3>1, <3>2, <3>4 DEF Read, UpToDate, UpToDateNext, n
  <2>2. CASE q # p
    <3>1. pc[q] = "write" /\ link'[q] = link[q] /\ seen'[q] = seen[q]
      BY <1>1, <1>2, <1>6, <1>7, <2>2
    <3>2. PICK s \in Item :
            /\ seen[q] = {s} /\ s.name = NameOf(link[q])
            /\ \E i \in vault : i.id = s.id /\ i.name = s.name
            /\ UpToDate(s, missed[q])
      BY <1>7, <3>1 DEF ItemInv, Read
    <3>3. UpToDateNext(s, missed'[q])
      BY <1>1, <1>u, <3>2
    <3> QED BY <1>1, <3>1, <3>2, <3>3 DEF Read, UpToDate, UpToDateNext
  <2> QED BY <2>1, <2>2
<1>8. \A q \in Post : pc'[q] = "write" /\ link'[q] \notin Overwrite =>
        \A i \in vault' : i.name # NameOf(link'[q])
  BY <1>1, <1>2, <1>3, <1>5 DEF ItemInv, n
<1>9. \A i \in vault' : i.id \in Post => pc'[i.id] \in {"fingerprint", "ended"}
  BY <1>1, <1>2 DEF ItemInv
<1>10. /\ \A q \in Post : pc'[q] = "fingerprint" => q \in Stored'
       /\ \A l \in done' : \E q \in Stored' : link'[q] = l
  BY <1>1, <1>2, <1>s DEF ItemInv
<1>11. \A q \in Stored' : pc'[q] \in {"fingerprint", "ended"} /\ link'[q] \in Link
                          /\ \E i \in vault' : i.name = NameOf(link'[q])
  <2>1. \A q \in Stored : q \in Post
    BY DEF ItemInv, VaultTypes, Stored
  <2> QED BY <1>1, <1>2, <1>s, <2>1 DEF ItemInv
<1>12. \A i \in vault' : UpToDateNext(i, {})
  BY <1>1, <1>u DEF ItemInv
<1>13. VaultTypes' /\ \A i, j \in vault' : i.name = j.name \/ i.id = j.id => i = j
  BY <1>1, <1>6 DEF ItemInv, VaultTypes
<1> QED BY <1>7, <1>8, <1>9, <1>10, <1>11, <1>12, <1>13 DEF ItemInv, UpToDate, UpToDateNext

\* What a submission writes: the item it has seen or a new one, with the fields
\* its link asks for.
LEMMA MergedItem ==
  ASSUME NEW p \in Post, link[p] \in Link, NEW item \in Item
  PROVE  /\ Merged(p, item) \in Item
         /\ Merged(p, item).id = item.id /\ Merged(p, item).name = item.name
         /\ \A f \in Field : Merged(p, item).fields[f]
                               = IF f \in FieldsOf(link[p]) THEN p ELSE item.fields[f]
<1>1. item.fields \in [Field -> Post \cup Name \cup {None}]
  BY DEF Item
<1>2. [f \in Field |-> IF f \in FieldsOf(link[p]) THEN p ELSE item.fields[f]]
        \in [Field -> Post \cup Name \cup {None}]
  BY <1>1
<1> QED BY <1>2 DEF Merged, Item

LEMMA NewItemTyped ==
  ASSUME NEW p \in Post, link[p] \in Link
  PROVE  NewItem(p) \in Item /\ NewItem(p).id = p /\ NewItem(p).name = NameOf(link[p])
BY LinkAssumption DEF NewItem, Item

\* How a write adds to what has been written, and to what others have missed.
LEMMA Recorded ==
  ASSUME Inv, ItemInv, NEW p \in Post, Write(p)
  PROVE  /\ Len(stored) \in Nat /\ DOMAIN stored = 1 .. Len(stored)
         /\ stored' \in Seq(Post) /\ Len(stored') = Len(stored) + 1
         /\ DOMAIN stored' = 1 .. Len(stored) + 1
         /\ \A k \in 1 .. Len(stored) : stored'[k] = stored[k]
         /\ stored'[Len(stored) + 1] = p
         /\ Stored' = Stored \cup {p}
         /\ Writers(stored) = Stored /\ Writers(stored') = Stored \cup {p}
         /\ missed' \in [Post -> SUBSET Post]
         /\ \A q \in Post : missed[q] \subseteq missed'[q]
         /\ \A q \in Post : pc[q] = "write" /\ q # p /\ NameOf(link[q]) = NameOf(link[p])
                              => p \in missed'[q]
<1>1. stored \in Seq(Post) /\ missed \in [Post -> SUBSET Post]
  BY DEF ItemInv, VaultTypes
<1>2. stored' = Append(stored, p)
  BY DEF Write
<1>3. /\ Len(stored) \in Nat /\ DOMAIN stored = 1 .. Len(stored)
      /\ stored' \in Seq(Post) /\ Len(stored') = Len(stored) + 1
      /\ DOMAIN stored' = 1 .. Len(stored) + 1
      /\ \A k \in 1 .. Len(stored) : stored'[k] = stored[k]
      /\ stored'[Len(stored) + 1] = p
  BY <1>1, <1>2
<1>4. /\ Stored' = Stored \cup {p}
      /\ Writers(stored) = Stored /\ Writers(stored') = Stored \cup {p}
  BY <1>3 DEF Stored, Writers
<1>5. missed' = [q \in Post |-> IF pc[q] = "write" /\ q # p /\ NameOf(link[q]) = NameOf(link[p])
                                THEN missed[q] \cup {p} ELSE missed[q]]
  BY DEF Write
<1> QED BY <1>1, <1>3, <1>4, <1>5

\* What is up to date with all but some late writes is so after a write, which is
\* another late one, or to another item.
LEMMA StaysUpToDate ==
  ASSUME Inv, ItemInv, NEW p \in Post, Write(p),
         NEW i, NEW late, NEW late2, UpToDate(i, late), late \subseteq late2,
         i.name # NameOf(link[p]) \/ p \in late2
  PROVE  UpToDateNext(i, late2)
<1>1. link' = link
  BY DEF Write
<1>2. \A x, f : Taken(x, f, stored, missed, link) => Taken(x, f, stored', missed', link)
  <2>1. \A q \in Stored : q \in Post
    BY DEF ItemInv, VaultTypes, Stored
  <2> QED BY <2>1, Recorded DEF Taken
<1>3. ASSUME NEW k \in DOMAIN stored', NameOf(link[stored'[k]]) = i.name,
             NEW f \in FieldsOf(link[stored'[k]])
      PROVE  \/ stored'[k] \in late2
             \/ Taken(stored'[k], f, stored', missed', link)
             \/ \E m \in k .. Len(stored') : i.fields[f] = stored'[m]
  <2>1. CASE k = Len(stored) + 1
    BY <1>3, <2>1, Recorded
  <2>2. CASE k \in 1 .. Len(stored)
    <3>1. stored'[k] = stored[k] /\ k \in DOMAIN stored
      BY <2>2, Recorded
    <3>2. \/ stored[k] \in late
          \/ Taken(stored[k], f, stored, missed, link)
          \/ \E m \in k .. Len(stored) : i.fields[f] = stored[m]
      BY <1>3, <3>1 DEF UpToDate, UpToDateIn
    <3>3. CASE \E m \in k .. Len(stored) : i.fields[f] = stored[m]
      <4>1. PICK m \in k .. Len(stored) : i.fields[f] = stored[m]
        BY <3>3
      <4>2. m \in 1 .. Len(stored) /\ m \in k .. Len(stored')
        BY <2>2, <4>1, Recorded
      <4> QED BY <4>1, <4>2, Recorded
    <3>4. CASE Taken(stored[k], f, stored, missed, link)
      BY <1>2, <3>1, <3>4
    <3> QED BY <3>1, <3>2, <3>3, <3>4
  <2> QED BY <1>3, <2>1, <2>2, Recorded
<1>4. \A f \in Field :
        (\A q \in Writers(stored') : NameOf(link[q]) = i.name => f \notin FieldsOf(link[q]))
          => i.fields[f] = Untouched(i)
  BY Recorded DEF UpToDate, UpToDateIn
<1> QED BY <1>1, <1>3, <1>4 DEF UpToDateNext, UpToDateIn

\* The item a re-fill has merged is up to date: what it had missed it has written
\* itself, or else taken back.
LEMMA RefilledUpToDate ==
  ASSUME Inv, ItemInv, NEW p \in Post, Write(p), NEW s \in Item, s.name = NameOf(link[p]),
         UpToDate(s, missed[p])
  PROVE  UpToDateNext(Merged(p, s), {})
<1> DEFINE j == Merged(p, s)
<1>1. link' = link /\ pc[p] = "write" /\ link[p] \in Link
  BY DEF Write, Inv, ActiveHasLink, Active
<1>2. /\ j.id = s.id /\ j.name = s.name
      /\ \A f \in Field : j.fields[f] = IF f \in FieldsOf(link[p]) THEN p ELSE s.fields[f]
  BY <1>1, MergedItem
<1> HIDE DEF j
<1>3. \A q \in Stored : q \in Post
  BY DEF ItemInv, VaultTypes, Stored
<1>4. \A x, f : Taken(x, f, stored, missed, link) => Taken(x, f, stored', missed', link)
  BY <1>3, Recorded DEF Taken
<1>5. \A x \in missed[p] : \A f :
        f \notin FieldsOf(link[p]) => Taken(x, f, stored', missed', link)
  BY Recorded DEF Taken
<1>6. ASSUME NEW k \in DOMAIN stored', NameOf(link[stored'[k]]) = s.name,
             NEW f \in FieldsOf(link[stored'[k]])
      PROVE  \/ Taken(stored'[k], f, stored', missed', link)
             \/ \E m \in k .. Len(stored') : j.fields[f] = stored'[m]
  <2>0. stored'[k] \in Stored' /\ k \in 1 .. Len(stored) + 1
    BY Recorded DEF Stored
  <2>1. f \in Field
    <3>1. link[stored'[k]] \in Link
      BY <1>1, <2>0, Recorded DEF ItemInv
    <3> QED BY <3>1, LinkAssumption
  <2>2. CASE f \in FieldsOf(link[p])
    <3>1. j.fields[f] = stored'[Len(stored) + 1] /\ Len(stored) + 1 \in k .. Len(stored')
      BY <1>2, <2>0, <2>1, <2>2, Recorded
    <3> QED BY <3>1
  <2>3. CASE f \notin FieldsOf(link[p])
    <3>1. k \in 1 .. Len(stored) /\ k \in DOMAIN stored /\ stored'[k] = stored[k]
      BY <1>6, <2>0, <2>3, Recorded
    <3>2. \/ stored[k] \in missed[p]
          \/ Taken(stored[k], f, stored, missed, link)
          \/ \E m \in k .. Len(stored) : s.fields[f] = stored[m]
      BY <1>6, <3>1 DEF UpToDate, UpToDateIn
    <3>3. CASE \E m \in k .. Len(stored) : s.fields[f] = stored[m]
      <4>1. PICK m \in k .. Len(stored) : s.fields[f] = stored[m]
        BY <3>3
      <4>2. m \in 1 .. Len(stored) /\ m \in k .. Len(stored')
        BY <3>1, <4>1, Recorded
      <4>3. j.fields[f] = stored'[m]
        BY <1>2, <2>1, <2>3, <4>1, <4>2, Recorded
      <4> QED BY <4>2, <4>3
    <3>4. CASE Taken(stored[k], f, stored, missed, link)
      BY <1>4, <3>1, <3>4
    <3>5. CASE stored[k] \in missed[p]
      BY <1>5, <2>3, <3>1, <3>5
    <3> QED BY <3>2, <3>3, <3>4, <3>5
  <2> QED BY <2>2, <2>3
<1>7. ASSUME NEW f \in Field,
             \A q \in Writers(stored') : NameOf(link[q]) = s.name => f \notin FieldsOf(link[q])
      PROVE  j.fields[f] = Untouched(s)
  <2>1. f \notin FieldsOf(link[p])
    BY <1>7, Recorded
  <2>2. s.fields[f] = Untouched(s)
    BY <1>7, Recorded DEF UpToDate, UpToDateIn
  <2> QED BY <1>2, <2>1, <2>2
<1>8. Untouched(j) = Untouched(s)
  BY <1>2 DEF Untouched
<1>9. UpToDateNext(j, {})
  BY <1>1, <1>2, <1>6, <1>7, <1>8 DEF UpToDateNext, UpToDateIn
<1> QED BY <1>9 DEF j

\* A new item is up to date: nobody has written to an item of its name.
LEMMA CreatedUpToDate ==
  ASSUME Inv, ItemInv, NEW p \in Post, Write(p), link[p] \notin Overwrite
  PROVE  UpToDateNext(Merged(p, NewItem(p)), {})
<1> DEFINE j == Merged(p, NewItem(p))
<1>1. link' = link /\ pc[p] = "write" /\ link[p] \in Link
  BY DEF Write, Inv, ActiveHasLink, Active
<1>2. /\ j.id = p /\ j.name = NameOf(link[p])
      /\ \A f \in Field : j.fields[f] = IF f \in FieldsOf(link[p]) THEN p ELSE None
  <2>1. \A f \in Field : NewItem(p).fields[f] = None
    BY DEF NewItem
  <2> QED BY <1>1, <2>1, MergedItem, NewItemTyped
<1> HIDE DEF j
<1>3. \A q \in Stored : NameOf(link[q]) # NameOf(link[p])
  BY <1>1 DEF ItemInv
<1>4. ASSUME NEW k \in DOMAIN stored', NameOf(link[stored'[k]]) = NameOf(link[p]),
             NEW f \in FieldsOf(link[stored'[k]])
      PROVE  \E m \in k .. Len(stored') : j.fields[f] = stored'[m]
  <2>1. k = Len(stored) + 1
    BY <1>3, <1>4, Recorded DEF Stored
  <2>2. f \in Field /\ f \in FieldsOf(link[p])
    BY <1>1, <1>4, <2>1, Recorded, LinkAssumption
  <2>3. j.fields[f] = stored'[k] /\ k \in k .. Len(stored')
    BY <1>2, <2>1, <2>2, Recorded
  <2> QED BY <2>3
<1>5. ASSUME NEW f \in Field,
             \A q \in Writers(stored') : NameOf(link[q]) = NameOf(link[p]) => f \notin FieldsOf(link[q])
      PROVE  j.fields[f] = Untouched(j)
  <2>1. p \notin Name
    BY BoundAssumption
  <2>2. f \notin FieldsOf(link[p])
    BY <1>5, Recorded
  <2> QED BY <1>2, <2>1, <2>2 DEF Untouched
<1>6. UpToDateNext(j, {})
  BY <1>1, <1>2, <1>4, <1>5 DEF UpToDateNext, UpToDateIn
<1> QED BY <1>6 DEF j

\* The vault after a write: the link's item is up to date, the others are as they
\* were.
LEMMA WriteItems ==
  ASSUME Inv, OwnNames, ItemInv, NEW p \in Post, Write(p) PROVE ItemInv'
<1> DEFINE n == NameOf(link[p])
<1>1. /\ pc[p] = "write" /\ pc' = [pc EXCEPT ![p] = "fingerprint"]
      /\ UNCHANGED <<link, done>> /\ seen' = [seen EXCEPT ![p] = {}]
  BY DEF Write, storeVars
<1>2. /\ \A q \in Post : pc'[q] = IF q = p THEN "fingerprint" ELSE pc[q]
      /\ seen' \in [Post -> SUBSET Item] /\ \A q \in Post : q # p => seen'[q] = seen[q]
  BY <1>1 DEF Inv, ClaimTypes, ItemInv, VaultTypes
<1>3. link[p] \in Link
      /\ \A q \in Post : pc[q] \in Active /\ link[q] = link[p] => q = p
  BY <1>1 DEF Inv, ActiveHasLink, ClaimsExclusive, Active
<1>4. PICK w \in Item :
        /\ w.name = n /\ UpToDateNext(w, {})
        /\ w \in vault' /\ vault' \subseteq vault \cup {w}
        /\ \A i \in vault : i \in vault' \/ (i.name = n /\ i.id = w.id)
        /\ \A i \in vault' : (i.name = n \/ i.id = w.id) => i = w
        /\ w.id = p \/ \E s \in vault : s.id = w.id
        /\ link[p] \in Overwrite => \E i \in vault : i.name = n
  <2>1. CASE link[p] \in Overwrite
    <3>1. PICK s \in Item :
            /\ seen[p] = {s} /\ s.name = n
            /\ \E i \in vault : i.id = s.id /\ i.name = s.name
            /\ UpToDate(s, missed[p])
      BY <1>1, <2>1 DEF ItemInv, Read
    <3>2. vault' = {i \in vault : i.id # s.id} \cup {Merged(p, s)}
      BY <2>1, <3>1 DEF Write
    <3>3. Merged(p, s) \in Item /\ Merged(p, s).id = s.id /\ Merged(p, s).name = n
      BY <1>3, <3>1, MergedItem
    <3>4. \A i \in vault : (i.name = n \/ i.id = s.id) => (i.name = n /\ i.id = s.id)
      BY <3>1 DEF ItemInv
    <3>5. UpToDateNext(Merged(p, s), {})
      BY <3>1, RefilledUpToDate
    <3> DEFINE w == Merged(p, s)
    <3>7. UpToDateNext(w, {})
      BY <3>5 DEF w
    <3> HIDE DEF w
    <3>8. /\ w \in Item /\ w.name = n /\ w \in vault' /\ vault' \subseteq vault \cup {w}
          /\ \A i \in vault : i \in vault' \/ (i.name = n /\ i.id = w.id)
          /\ \A i \in vault' : (i.name = n \/ i.id = w.id) => i = w
          /\ \E i \in vault : i.id = w.id /\ i.name = n
      BY <3>1, <3>2, <3>3, <3>4 DEF w
    <3> QED BY <2>1, <3>7, <3>8
  <2>2. CASE link[p] \notin Overwrite
    <3>1. vault' = vault \cup {Merged(p, NewItem(p))}
      BY <2>2 DEF Write
    <3>2. /\ Merged(p, NewItem(p)) \in Item /\ Merged(p, NewItem(p)).id = p
          /\ Merged(p, NewItem(p)).name = n
      BY <1>3, MergedItem, NewItemTyped
    <3>3. \A i \in vault : i.name # n /\ i.id # p
      BY <1>1, <2>2 DEF ItemInv
    <3>4. UpToDateNext(Merged(p, NewItem(p)), {})
      BY <2>2, CreatedUpToDate
    <3> DEFINE w == Merged(p, NewItem(p))
    <3>5. UpToDateNext(w, {})
      BY <3>4 DEF w
    <3> HIDE DEF w
    <3>6. /\ w \in Item /\ w.name = n /\ w.id = p /\ w \in vault' /\ vault' \subseteq vault \cup {w}
          /\ \A i \in vault : i \in vault'
          /\ \A i \in vault' : (i.name = n \/ i.id = w.id) => i = w
      BY <3>1, <3>2, <3>3 DEF w
    <3> QED BY <2>2, <3>5, <3>6
  <2> QED BY <2>1, <2>2
<1>5. vault' \subseteq Item /\ \A i, j \in vault' : i.name = j.name \/ i.id = j.id => i = j
  BY <1>4 DEF ItemInv, VaultTypes
<1>6. \A i \in vault' : i.id \in Post => pc'[i.id] \in {"fingerprint", "ended"}
  BY <1>2, <1>4 DEF ItemInv
<1>7. \A i \in vault : \E j \in vault' : j.id = i.id /\ j.name = i.name
  BY <1>4
<1>8. \A i \in vault' : UpToDateNext(i, {})
  <2> SUFFICES ASSUME NEW i \in vault' PROVE UpToDateNext(i, {})
    OBVIOUS
  <2>1. CASE i = w
    BY <1>4, <2>1
  <2>2. CASE i # w
    <3>1. i \in vault /\ i.name # n
      BY <1>4, <2>2
    <3>2. UpToDate(i, {})
      BY <3>1 DEF ItemInv
    <3> QED BY <3>1, <3>2, StaysUpToDate
  <2> QED BY <2>1, <2>2
<1>9. \A q \in Post : pc'[q] = "write" => q # p /\ pc[q] = "write" /\ pc[q] \in Active
                                         /\ link'[q] = link[q]
  BY <1>1, <1>2 DEF Active
<1>10. ASSUME NEW q \in Post, pc'[q] = "write", link'[q] \in Overwrite PROVE Read(q)'
  <2>1. PICK s \in Item :
          /\ seen[q] = {s} /\ s.name = NameOf(link[q])
          /\ \E i \in vault : i.id = s.id /\ i.name = s.name
          /\ UpToDate(s, missed[q])
    BY <1>9, <1>10 DEF ItemInv, Read
  <2>2. missed[q] \subseteq missed'[q] /\ (s.name = n => p \in missed'[q])
    BY <1>9, <1>10, <2>1, Recorded
  <2>3. UpToDateNext(s, missed'[q])
    BY <2>1, <2>2, StaysUpToDate
  <2>4. \E i \in vault' : i.id = s.id /\ i.name = s.name
    BY <1>7, <2>1
  <2>5. seen'[q] = seen[q] /\ link'[q] = link[q]
    BY <1>2, <1>9, <1>10
  <2> QED BY <2>1, <2>3, <2>4, <2>5 DEF Read, UpToDate, UpToDateNext
<1>11. ASSUME NEW q \in Post, pc'[q] = "write", link'[q] \notin Overwrite, NEW i \in vault'
       PROVE  i.name # NameOf(link'[q])
  <2>1. q # p /\ pc[q] = "write" /\ link[q] \notin Overwrite /\ link[q] \in Link
        /\ link'[q] = link[q] /\ link[q] # link[p]
    BY <1>3, <1>9, <1>11 DEF Inv, ActiveHasLink
  <2>2. \A x \in vault : x.name # NameOf(link[q])
    BY <2>1 DEF ItemInv
  <2>3. NameOf(link[q]) # n
    BY <1>3, <1>4, <2>1, <2>2 DEF OwnNames
  <2> QED BY <1>4, <2>1, <2>2, <2>3
<1>12. \A q \in Stored' : pc'[q] \in {"fingerprint", "ended"} /\ link'[q] \in Link
                          /\ \E i \in vault' : i.name = NameOf(link'[q])
  <2>1. \A q \in Stored : q \in Post /\ q # p
    BY <1>1 DEF ItemInv, VaultTypes, Stored
  <2>2. \A q \in Stored : \E i \in vault' : i.name = NameOf(link[q])
    BY <1>7 DEF ItemInv
  <2> QED BY <1>1, <1>2, <1>3, <1>4, <2>1, <2>2, Recorded DEF ItemInv
<1>13. /\ \A q \in Post : pc'[q] = "fingerprint" => q \in Stored'
       /\ \A l \in done' : \E q \in Stored' : link'[q] = l
  BY <1>1, <1>2, Recorded DEF ItemInv
<1>14. VaultTypes'
  BY <1>2, <1>5, Recorded DEF VaultTypes
<1> QED BY <1>5, <1>6, <1>8, <1>10, <1>11, <1>12, <1>13, <1>14 DEF ItemInv, UpToDate, UpToDateNext

LEMMA ItemInvStep ==
  ASSUME Inv, OwnNames, ItemInv, [Next]_vars PROVE ItemInv'
<1>t. pc \in [Post -> Active \cup {"idle", "ended"}] /\ link \in [Post -> Link \cup {None}]
  BY DEF Inv, ClaimTypes
<1>1. ASSUME NEW l \in Link, Ask(l) \/ Create(l) \/ Elapse(l) \/ Look(l) \/ Decline(l)
      PROVE  ItemInv'
  <2>1. UNCHANGED <<vaultVars, pc, link>> /\ done' \subseteq done
    BY <1>1 DEF Ask, Create, Elapse, Look, Decline
  <2> QED BY <2>1, QuietItems
<1>2. ASSUME NEW p \in Post, Step(p) PROVE ItemInv'
  <2>1. CASE ProbePasses(p)
    BY <2>1, <1>t, QuietItems DEF ProbePasses, storeVars
  <2>2. CASE Find(p)
    BY <2>2, FindItems
  <2>3. CASE Write(p)
    BY <2>3, WriteItems
  <2>4. CASE ProbeFails(p) \/ FindRefused(p) \/ VaultFails(p) \/ FingerprintFails(p)
    <3>1. Release(p) /\ pc[p] # "ended"
      BY <2>4 DEF ProbeFails, FindRefused, VaultFails, FingerprintFails
    <3>2. pc' = [pc EXCEPT ![p] = "ended"] /\ UNCHANGED <<vaultVars, link>> /\ done' \subseteq done
      BY <3>1 DEF Release
    <3> QED BY <3>2, <1>t, QuietItems
  <2>5. CASE Complete(p)
    <3>1. /\ pc' = [pc EXCEPT ![p] = "ended"] /\ UNCHANGED <<vaultVars, link>>
          /\ done' \subseteq done \cup {link[p]} /\ pc[p] = "fingerprint"
      BY <2>5 DEF Complete
    <3>2. \A l \in done' : l \in done \/ \E q \in Stored : link[q] = l
      BY <3>1 DEF ItemInv
    <3> QED BY <3>1, <3>2, <1>t, QuietItems
  <2> QED BY <1>2, <2>1, <2>2, <2>3, <2>4, <2>5 DEF Step
<1>3. ASSUME NEW p \in Post, NEW l \in Link, Submit(p, l) PROVE ItemInv'
  <2>1. /\ pc[p] = "idle" /\ UNCHANGED <<vaultVars, done>>
        /\ link' = [link EXCEPT ![p] = l]
        /\ \E s \in {"probe", "find"} : pc' = [pc EXCEPT ![p] = s]
    BY <1>3 DEF Submit
  <2> QED BY <2>1, <1>t, QuietItems
<1>4. CASE UNCHANGED vars
  <2>1. UNCHANGED <<vaultVars, pc, link, done>>
    BY <1>4 DEF vars, vaultVars
  <2> QED BY <2>1, QuietItems
<1> QED BY <1>1, <1>2, <1>3, <1>4 DEF Next

\* While the links that create have names of their own, no second item of a name
\* comes to be (property NamesUnique).
THEOREM OwnNamesStayUnique ==
  ASSUME OwnNames
  PROVE  Spec => []NamesUnique
<1>1. Init => Inv /\ ItemInv
  BY InvInit, ItemInvInit
<1>2. Inv /\ ItemInv /\ [Next]_vars => (Inv /\ ItemInv)'
  BY InvStep, ItemInvStep
<1>3. ItemInv => NamesUnique
  BY NamedCount DEF NamesUnique
<1> QED BY <1>1, <1>2, <1>3, PTL DEF Spec

\* Every field a POST has written is in its item as it or a later POST wrote it,
\* or has been taken back.
LEMMA WrittenIsThere ==
  ASSUME ItemInv, NEW k \in DOMAIN stored
  PROVE  \E i \in Named(NameOf(link[stored[k]])) : \A f \in FieldsOf(link[stored[k]]) :
           \/ Overtaken(stored[k], f)
           \/ \E m \in k .. Len(stored) : i.fields[f] = stored[m]
<1>1. PICK i \in vault : i.name = NameOf(link[stored[k]])
  BY DEF ItemInv, Stored
<1>2. i \in Named(NameOf(link[stored[k]]))
  BY <1>1 DEF Named
<1>3. UpToDate(i, {})
  BY DEF ItemInv
<1> QED BY <1>1, <1>2, <1>3 DEF UpToDate, UpToDateIn, Taken, Writers, Overtaken, Stored

\* An outcome is never reported of values that are not in the vault, but for what
\* a re-fill has taken back (property DoneMeansStored).
THEOREM OutcomesAreTrue ==
  ASSUME OwnNames
  PROVE  Spec => []DoneMeansStored
<1>1. Init => Inv /\ ItemInv
  BY InvInit, ItemInvInit
<1>2. Inv /\ ItemInv /\ [Next]_vars => (Inv /\ ItemInv)'
  BY InvStep, ItemInvStep
<1>3. ItemInv => DoneMeansStored
  <2> SUFFICES ASSUME ItemInv, NEW l \in done
               PROVE  \E p \in Stored, i \in Named(NameOf(l)) :
                        /\ link[p] = l
                        /\ \A f \in FieldsOf(l) : i.fields[f] \in Post \/ Overtaken(p, f)
    BY DEF DoneMeansStored
  <2>1. PICK k \in DOMAIN stored : link[stored[k]] = l /\ stored[k] \in Stored
    BY DEF ItemInv, Stored
  <2>2. PICK i \in Named(NameOf(l)) : \A f \in FieldsOf(l) :
          \/ Overtaken(stored[k], f)
          \/ \E m \in k .. Len(stored) : i.fields[f] = stored[m]
    BY <2>1, WrittenIsThere
  <2>3. \A m \in k .. Len(stored) : stored[m] \in Post
    BY DEF ItemInv, VaultTypes
  <2> QED BY <2>1, <2>2, <2>3
<1> QED BY <1>1, <1>2, <1>3, PTL DEF Spec

\* A re-fill keeps everything else on its item, also what other re-fills of it
\* have put there, but for what was written between its reading and its writing
\* (property NothingTakenBack).
THEOREM RefillsKeepTheRest ==
  ASSUME OwnNames
  PROVE  Spec => []NothingTakenBack
<1>1. Init => Inv /\ ItemInv
  BY InvInit, ItemInvInit
<1>2. Inv /\ ItemInv /\ [Next]_vars => (Inv /\ ItemInv)'
  BY InvStep, ItemInvStep
<1>3. ItemInv => NothingTakenBack
  <2> SUFFICES ASSUME ItemInv PROVE NothingTakenBack
    OBVIOUS
  <2>1. \A k \in DOMAIN stored : \A f \in FieldsOf(link[stored[k]]) :
          \/ Overtaken(stored[k], f)
          \/ \E i \in Named(NameOf(link[stored[k]])), m \in k .. Len(stored) : i.fields[f] = stored[m]
    BY WrittenIsThere
  <2>2. \A i \in vault, f \in Field :
          (\A p \in Stored : NameOf(link[p]) = i.name => f \notin FieldsOf(link[p]))
            => i.fields[f] = IF i.id \in Name THEN i.id ELSE None
    BY DEF ItemInv, UpToDate, UpToDateIn, Untouched, Writers, Stored
  <2> QED BY <2>1, <2>2 DEF NothingTakenBack
<1> QED BY <1>1, <1>2, <1>3, PTL DEF Spec

=============================================================================

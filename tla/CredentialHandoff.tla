-------------------------- MODULE CredentialHandoff --------------------------
(***************************************************************************)
(* The credential hand-off: CredentialRequestStore (src/src/web/           *)
(* credential-requests.ts), the POST handler of its one-time links         *)
(* (credential-routes.ts), the request_credential tool that mints them and *)
(* the vault operations they end in (createLoginItem, updateLoginItem of   *)
(* src/src/secrets/vaultwarden.ts).                                        *)
(*                                                                         *)
(* A POST runs to its claim without an await, so that is one action; the   *)
(* probe, the vault's look-up, its write and the fingerprint that follows  *)
(* are awaits, at which other POSTs, the agent and the clock interleave.   *)
(***************************************************************************)
EXTENDS Naturals, Sequences, FiniteSets

CONSTANTS
  Link,         \* request ids, each minted at most once
  Post,         \* valid submissions, each made at most once (a bound)
  Name,         \* vault item names
  Field,        \* names of the values an item holds
  Overwrite,    \* the links that re-fill an existing item
  Verified,     \* the links with a verification probe
  Initial,      \* the names that have an item to start with
  NameOf(_),    \* the item a link is for
  FieldsOf(_),  \* the values it asks for
  MaxRequests,  \* bound of the request map
  Faults,       \* whether vault commands and the fingerprint key may fail
  None          \* the link of an idle POST; the value of a field an item lacks

ASSUME LinkAssumption ==
  /\ Overwrite \subseteq Link /\ Verified \subseteq Link /\ Initial \subseteq Name
  /\ \A l \in Link : NameOf(l) \in Name /\ FieldsOf(l) \subseteq Field /\ FieldsOf(l) # {}
ASSUME BoundAssumption ==
  /\ MaxRequests \in Nat \ {0} /\ Faults \in BOOLEAN
  /\ None \notin Post \cup Link /\ Post \cap Name = {}

VARIABLES
  status,   \* a link's RequestStatus; "new", "asked" before, "gone" after
  elapsed,  \* TTLs that have gone by since it was created: 0, 1 or 2
  order,    \* the links of the map, oldest first
  done,     \* the links that carry a fulfilment outcome
  vault,    \* the items: who created them, their name, who wrote each field
            \* (a POST, or the name of the item for what it held to start with)
  pc,       \* where a POST stands
  link,     \* the link it claimed
  seen,     \* the item its update read
  stored,   \* history: the POSTs that wrote an item, in the order of their writes
  missed    \* history: the writes to its item since a POST read it

vars == <<status, elapsed, order, done, vault, pc, link, seen, stored, missed>>
vaultVars == <<vault, seen, stored, missed>>
storeVars == <<status, elapsed, order, done>>

InMap == {"pending", "fulfilled", "expired", "declined"}
Active == {"probe", "find", "write", "fingerprint"}

Named(n) == {i \in vault : i.name = n}

-----------------------------------------------------------------------------
(* CredentialRequestStore.                                                 *)

\* Mutant: any link past its TTL expires.
FreshExpiresAny(l) == IF elapsed[l] > 0 /\ status[l] \in InMap THEN "expired" ELSE status[l]

\* get(): a pending link past its TTL has expired.
Fresh(l) == IF status[l] = "pending" /\ elapsed[l] > 0 THEN "expired" ELSE status[l]

\* Mutant: off by one.
EvictedPastBound(kept) == IF Len(kept) > MaxRequests THEN {kept[1]} ELSE {}

\* The oldest of a full map goes, whatever its status.
Evicted(kept) == IF Len(kept) >= MaxRequests THEN {kept[1]} ELSE {}

\* request_credential looks the name up in the vault first ...
Ask(l) ==
  /\ status[l] = "new"
  /\ (Named(NameOf(l)) # {}) <=> l \in Overwrite
  /\ status' = [status EXCEPT ![l] = "asked"]
  /\ UNCHANGED <<elapsed, order, done, vaultVars, pc, link>>

\* What prune() and then the eviction drop when a link is minted.
Kept == SelectSeq(order, LAMBDA k : elapsed[k] < 2)
Dropped == {k \in Link : status[k] \in InMap /\ elapsed[k] = 2} \cup Evicted(Kept)
Without(dropped) == SelectSeq(order, LAMBDA k : k \notin dropped)

\* ... and then mints the link: create().
Create(l) ==
  /\ status[l] = "asked"
  /\ status' = [k \in Link |-> IF k = l THEN "pending"
                               ELSE IF k \in Dropped THEN "gone" ELSE status[k]]
  /\ order' = Append(Without(Dropped), l)
  /\ done' = done \ Dropped
  /\ UNCHANGED <<elapsed, vaultVars, pc, link>>

\* Another TTL of a link goes by; TTLs differ, so links age independently.
Elapse(l) ==
  /\ status[l] \in InMap
  /\ elapsed[l] < 2
  /\ elapsed' = [elapsed EXCEPT ![l] = @ + 1]
  /\ UNCHANGED <<status, order, done, vaultVars, pc, link>>

\* The status tool, the pending list or the form fetches a link.
Look(l) ==
  /\ Fresh(l) # status[l]
  /\ status' = [status EXCEPT ![l] = Fresh(l)]
  /\ UNCHANGED <<elapsed, order, done, vaultVars, pc, link>>

Decline(l) ==
  /\ Fresh(l) = "pending"
  /\ status' = [status EXCEPT ![l] = "declined"]
  /\ UNCHANGED <<elapsed, order, done, vaultVars, pc, link>>

\* release(): back to pending, if the link is still in the map.
Release(p) ==
  LET l == link[p]
  IN /\ status' = [status EXCEPT ![l] = IF @ = "fulfilled" THEN "pending" ELSE @]
     /\ done' = done \ {l}
     /\ pc' = [pc EXCEPT ![p] = "ended"]
     /\ UNCHANGED <<elapsed, order, vaultVars, link>>

-----------------------------------------------------------------------------
(* The POST handler.                                                       *)

\* Mutant: a claimed link can be claimed again.
ClaimUnchecked(p, l) ==
  /\ status[l] \in {"pending", "fulfilled"}
  /\ status' = [status EXCEPT ![l] = "fulfilled"]

\* claim(): pending to fulfilled, for one caller.
Claim(p, l) ==
  /\ Fresh(l) = "pending"
  /\ status' = [status EXCEPT ![l] = "fulfilled"]

\* A POST with a live form, a valid code and well-formed values claims its
\* link.  Any other is refused, and changes nothing but what Look does.
Submit(p, l) ==
  /\ pc[p] = "idle"
  /\ Claim(p, l)
  /\ pc' = [pc EXCEPT ![p] = IF l \in Verified THEN "probe" ELSE "find"]
  /\ link' = [link EXCEPT ![p] = l]
  /\ UNCHANGED <<elapsed, order, done, vaultVars>>

\* The probe passes, or fails and the user stores the value anyway.
ProbePasses(p) ==
  /\ pc[p] = "probe"
  /\ pc' = [pc EXCEPT ![p] = "find"]
  /\ UNCHANGED <<storeVars, vaultVars, link>>

\* Mutant: a failed probe answers without releasing.
ProbeStrands(p) ==
  /\ pc[p] = "probe"
  /\ pc' = [pc EXCEPT ![p] = "ended"]
  /\ UNCHANGED <<storeVars, vaultVars, link>>

\* The probe fails, or throws.
ProbeFails(p) == pc[p] = "probe" /\ Release(p)

\* Mutant: the vault is not looked at before the write.
FindNothing(p) ==
  /\ pc[p] = "find"
  /\ pc' = [pc EXCEPT ![p] = "write"]
  /\ UNCHANGED <<storeVars, vaultVars, link>>

\* createLoginItem lists the names, updateLoginItem resolves and reads the item.
Find(p) ==
  LET items == Named(NameOf(link[p]))
      overwrite == link[p] \in Overwrite
  IN /\ pc[p] = "find"
     /\ Cardinality(items) = IF overwrite THEN 1 ELSE 0
     /\ seen' = [seen EXCEPT ![p] = IF overwrite THEN items ELSE {}]
     /\ pc' = [pc EXCEPT ![p] = "write"]
     /\ UNCHANGED <<storeVars, vault, stored, missed, link>>

\* The name is taken, or names no item, or more than one.
FindRefused(p) ==
  /\ pc[p] = "find"
  /\ Cardinality(Named(NameOf(link[p]))) # IF link[p] \in Overwrite THEN 1 ELSE 0
  /\ Release(p)

\* Mutant: the fields the link did not ask for are dropped.
WritesAll(p, item) ==
  [item EXCEPT !.fields = [f \in Field |-> IF f \in FieldsOf(link[p]) THEN p ELSE None]]

\* mergeLoginItem: the link's fields are replaced, the others kept as read.
Merged(p, item) ==
  [item EXCEPT !.fields = [f \in Field |-> IF f \in FieldsOf(link[p]) THEN p ELSE item.fields[f]]]

NewItem(p) == [id |-> p, name |-> NameOf(link[p]), fields |-> [f \in Field |-> None]]

\* bw creates the item, or edits the one that was read.
Write(p) ==
  /\ pc[p] = "write"
  /\ vault' = IF link[p] \in Overwrite
              THEN {i \in vault : \A s \in seen[p] : i.id # s.id} \cup {Merged(p, s) : s \in seen[p]}
              ELSE vault \cup {Merged(p, NewItem(p))}
  /\ seen' = [seen EXCEPT ![p] = {}]
  /\ stored' = Append(stored, p)
  /\ missed' = [q \in Post |-> IF pc[q] = "write" /\ q # p /\ NameOf(link[q]) = NameOf(link[p])
                              THEN missed[q] \cup {p} ELSE missed[q]]
  /\ pc' = [pc EXCEPT ![p] = "fingerprint"]
  /\ UNCHANGED <<storeVars, link>>

\* Mutant: the failure is caught and ignored.
VaultFailureSwallowed(p) ==
  /\ Faults /\ pc[p] \in {"find", "write"}
  /\ pc' = [pc EXCEPT ![p] = "fingerprint"]
  /\ UNCHANGED <<storeVars, vaultVars, link>>

\* A vault command fails before it changed anything, or the vault got locked.
VaultFails(p) == Faults /\ pc[p] \in {"find", "write"} /\ Release(p)

\* complete(): the outcome is attached, if the link is still in the map.
Complete(p) ==
  /\ pc[p] = "fingerprint"
  /\ done' = IF status[link[p]] = "fulfilled" THEN done \cup {link[p]} ELSE done
  /\ pc' = [pc EXCEPT ![p] = "ended"]
  /\ UNCHANGED <<status, elapsed, order, vaultVars, link>>

\* The fingerprint key cannot be saved, or the store got locked: the item is
\* written, and the handler's catch releases the link all the same.
FingerprintFails(p) == Faults /\ pc[p] = "fingerprint" /\ Release(p)

-----------------------------------------------------------------------------

Init ==
  /\ status = [l \in Link |-> "new"]
  /\ elapsed = [l \in Link |-> 0]
  /\ order = <<>>
  /\ done = {}
  /\ vault = {[id |-> n, name |-> n, fields |-> [f \in Field |-> n]] : n \in Initial}
  /\ pc = [p \in Post |-> "idle"]
  /\ link = [p \in Post |-> None]
  /\ seen = [p \in Post |-> {}]
  /\ stored = <<>>
  /\ missed = [p \in Post |-> {}]

Step(p) ==
  \/ ProbePasses(p) \/ ProbeFails(p)
  \/ Find(p) \/ FindRefused(p) \/ Write(p) \/ VaultFails(p)
  \/ Complete(p) \/ FingerprintFails(p)

Next ==
  \/ \E l \in Link : Ask(l) \/ Create(l) \/ Elapse(l) \/ Look(l) \/ Decline(l)
  \/ \E p \in Post : Step(p) \/ \E l \in Link : Submit(p, l)

Spec == Init /\ [][Next]_vars

\* Probes have a timeout, and bw commands are taken to end.
FairSpec == Spec /\ \A p \in Post : WF_vars(Step(p))

-----------------------------------------------------------------------------
(* Properties.                                                             *)

Item == [id : Post \cup Name, name : Name, fields : [Field -> Post \cup Name \cup {None}]]

\* The map holds the live links, each once, at most MaxRequests of them.
TypeOK ==
  /\ status \in [Link -> InMap \cup {"new", "asked", "gone"}]
  /\ elapsed \in [Link -> 0 .. 2]
  /\ order \in Seq(Link) /\ Len(order) <= MaxRequests
  /\ \A l \in Link : Cardinality({i \in DOMAIN order : order[i] = l})
                       = IF status[l] \in InMap THEN 1 ELSE 0
  /\ done \subseteq Link
  /\ vault \subseteq Item
  /\ pc \in [Post -> Active \cup {"idle", "ended"}]
  /\ link \in [Post -> Link \cup {None}]
  /\ seen \in [Post -> SUBSET Item]
  /\ stored \in Seq(Post) /\ missed \in [Post -> SUBSET Post]

\* "Exactly one caller": of the POSTs between their claim and their end no two
\* have the same link, and that link is claimed (or evicted) until they end,
\* whatever expires, is declined, pruned or released meanwhile.
ClaimsExclusive ==
  \A p \in Post : pc[p] \in Active =>
    /\ status[link[p]] \in {"fulfilled", "gone"} /\ link[p] \notin done
    /\ \A q \in Post : pc[q] \in Active /\ link[q] = link[p] => q = p

\* One-time links: an outcome once reported stays until the link is dropped, and
\* a link that expired or was declined never comes back.
OutcomesFinal ==
  [][\A l \in Link :
       /\ l \in done => status'[l] = "gone" \/ (status'[l] = "fulfilled" /\ l \in done')
       /\ status[l] \in {"expired", "declined"} => status'[l] \in {status[l], "gone"}
    ]_vars

Stored == {stored[k] : k \in DOMAIN stored}

\* A field p wrote was written back by a re-fill that was not asked for it, and
\* that had read the item before p wrote: the window updateLoginItem leaves.
Overtaken(p, f) == \E q \in Stored : p \in missed[q] /\ f \notin FieldsOf(link[q])

\* A link that reports an outcome has its values in the vault: an item of its
\* name with every field it asked for written by some hand-off, but for what a
\* re-fill under way at the time has taken back.
DoneMeansStored ==
  \A l \in done : \E p \in Stored, i \in Named(NameOf(l)) :
    /\ link[p] = l
    /\ \A f \in FieldsOf(l) : i.fields[f] \in Post \/ Overtaken(p, f)

\* "Names double as credentialRefs, which must resolve to exactly one item - so
\* refuse to create a second item with an existing name."
NamesUnique == \A n \in Name : Cardinality(Named(n)) <= 1

\* "Everything else on the item is kept", through any number of re-fills of
\* it: what a POST has written stays until a later one that was asked for the
\* field replaces it, but for a re-fill that read the item before that write;
\* and what no link has asked for stays as it was.
NothingTakenBack ==
  /\ \A k \in DOMAIN stored : \A f \in FieldsOf(link[stored[k]]) :
       \/ Overtaken(stored[k], f)
       \/ \E i \in Named(NameOf(link[stored[k]])), m \in k .. Len(stored) : i.fields[f] = stored[m]
  /\ \A i \in vault, f \in Field :
       (\A p \in Stored : NameOf(link[p]) = i.name => f \notin FieldsOf(link[p]))
         => i.fields[f] = IF i.id \in Name THEN i.id ELSE None

\* The same without the exception: a re-fill changes no field but those its link
\* asked for.  Two re-fills of one item break it.
RefillKeepsTheRest ==
  [][\A i \in vault : \A j \in vault' : i.id = j.id =>
       \A f \in Field : j.fields[f] # i.fields[f] =>
         \E p \in Post : j.fields[f] = p /\ pc[p] = "write" /\ f \in FieldsOf(link[p])]_vars

\* "Fulfilled - credential is in the vault", says the status tool: a fulfilled
\* link has an item of its name.
FulfilledMeansStored ==
  \A l \in Link : status[l] = "fulfilled" =>
    \E i \in Named(NameOf(l)) : \A f \in FieldsOf(l) : i.fields[f] \in Post

\* "Roll the claim back so the user can retry the same link": a link that is
\* pending has stored nothing yet.
PendingMeansUnstored ==
  \A l \in Link : status[l] = "pending" =>
    ~ \E i \in vault, f \in Field : i.fields[f] \in Post /\ link[i.fields[f]] = l

\* "Must not strand the link as claimed with nothing stored": a claim ends, in
\* an outcome, a release or the link's eviction.
ClaimsResolve ==
  \A l \in Link : status[l] = "fulfilled" ~> l \in done \/ status[l] # "fulfilled"

=============================================================================

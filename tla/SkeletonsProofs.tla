--------------------------- MODULE SkeletonsProofs ---------------------------
(***************************************************************************)
(* For any targets, jobs, downloads, keys and number of restarts: one job  *)
(* runs at a time and the status shows it, a key that reached the store's  *)
(* file is replaced by no other, every target is told of, what is listed is      *)
(* whole, and a job that is done left what it counted.                     *)
(***************************************************************************)
EXTENDS Skeletons, FiniteSetTheorems, TLAPS

Places == {"new", "key", "persist", "dir", "target", "snapshot", "write", "manifest", "restore", "end",
           "read", "served", "refused"}

\* Memory is never behind the file, and a key on its way to the file is the
\* one in memory: that is why none is generated while another is on its way.
KeyInv ==
  /\ pc \in [Process -> Places]
  /\ held \in [Process -> Key \cup {None}]
  /\ memKey \in Key \cup {None}
  /\ diskKey # None => diskKey = memKey
  /\ \A p \in Process : pc[p] = "persist" => held[p] = memKey /\ memKey # None

LEMMA KeyInvInit == Init => KeyInv
BY SkeletonAssumption DEF Init, KeyInv, Places, Process

\* What the steps of a job and a download may do to the keys.
\* What a step may do to a key in the file.
KeyStays == diskKey # None => diskKey' = diskKey \/ Overtaken

\* An update of the store's other fields, at one of its steps.
OtherUpdate == OtherSeal \/ OtherWriteKeyless \/ OtherWrite

LEMMA KeyInvStep == KeyInv /\ [Next]_vars => KeyInv' /\ KeyStays
<1> SUFFICES ASSUME KeyInv, [Next]_vars PROVE KeyInv' /\ KeyStays
  OBVIOUS
<1> USE SkeletonAssumption
<1>p. Job \subseteq Process /\ Download \subseteq Process
  BY DEF Process
<1>quiet. ASSUME UNCHANGED <<pc, held, storeVars>>
          PROVE KeyInv' /\ KeyStays
  BY <1>quiet DEF KeyInv, KeyStays, storeVars, keyVars
<1>moves. ASSUME NEW p \in Process, NEW s \in Places \ {"persist"},
                 pc' = [pc EXCEPT ![p] = s], UNCHANGED <<held, storeVars>>
          PROVE KeyInv' /\ KeyStays
  BY <1>moves DEF KeyInv, KeyStays, storeVars, keyVars
<1>1. CASE \E n \in Name : Register(n)
  BY <1>1, <1>quiet DEF Register
<1>2. CASE OtherUpdate
  BY <1>2 DEF OtherUpdate, OtherSeal, OtherWriteKeyless, OtherWrite, KeyInv, KeyStays, Overtaken, keyVars
<1>3. ASSUME NEW j \in Job, Start(j) PROVE KeyInv' /\ KeyStays
  BY <1>3, <1>p, <1>moves DEF Start, Launch, Places
<1>4. ASSUME NEW j \in Job, Body(j) PROVE KeyInv' /\ KeyStays
  <2>1. CASE MakeDir(j) BY <2>1, <1>p, <1>moves DEF MakeDir, Places
  <2>2. CASE Visit(j)
    <3>1. CASE Target(j) \in Snapshots BY <2>2, <3>1, <1>p, <1>moves DEF Visit, Places
    <3>2. CASE Target(j) \notin Snapshots BY <2>2, <3>2, <1>quiet DEF Visit
    <3> QED BY <3>1, <3>2
  <2>3. CASE SnapshotFails(j) BY <2>3, <1>p, <1>moves DEF SnapshotFails, Places
  <2>4. CASE SnapshotTaken(j) BY <2>4, <1>p, <1>moves DEF SnapshotTaken, Places
  <2>5. CASE WriteArtifact(j) BY <2>5, <1>quiet DEF WriteArtifact
  <2>6. CASE EntryDone(j) BY <2>6, <1>p, <1>moves DEF EntryDone, Places
  <2>7. CASE LoopEnds(j) BY <2>7, <1>p, <1>moves DEF LoopEnds, Places
  <2>8. CASE WriteManifest(j) BY <2>8, <1>p, <1>moves DEF WriteManifest, Places
  <2>9. CASE WriteRestore(j) BY <2>9, <1>p, <1>moves DEF WriteRestore, Ended, Places
  <2>10. CASE WriteFails(j) BY <2>10, <1>p, <1>moves DEF WriteFails, Ended, Places
  <2> QED BY <1>4, <2>1, <2>2, <2>3, <2>4, <2>5, <2>6, <2>7, <2>8, <2>9, <2>10 DEF Body
<1>5. ASSUME NEW p \in Process, KeyStep(p) PROVE KeyInv' /\ KeyStays
  <2>a. After(p) \in Places \ {"persist"}
    BY DEF After, Places
  <2>1. CASE GetKey(p) /\ memKey # None
    BY <2>1, <2>a DEF GetKey, Use, KeyInv, KeyStays, keyVars
  <2>2. CASE GetKey(p) /\ memKey = None
    <3>1. PICK k \in Key \ minted : memKey' = k /\ Use(p, k, "persist") /\ UNCHANGED diskKey
      BY <2>2 DEF GetKey, Generate
    <3>2. diskKey = None /\ \A q \in Process : pc[q] # "persist"
      BY <2>2 DEF KeyInv
    <3> QED BY <3>1, <3>2 DEF Use, KeyInv, KeyStays, Places
  <2>3. CASE KeyPersisted(p)
    BY <2>3, <2>a DEF KeyPersisted, KeyInv, KeyStays
  <2>4. CASE KeyRejected(p)
    BY <2>4, <1>moves DEF KeyRejected, Unwritten, Ended, Places
  <2> QED BY <1>5, <2>1, <2>2, <2>3, <2>4 DEF KeyStep
<1>6. ASSUME NEW d \in Download, Serve(d) PROVE KeyInv' /\ KeyStays
  <2>1. CASE Files(want[d], held[d]) \subseteq blobs BY <1>6, <2>1, <1>p, <1>moves DEF Serve, Places
  <2>2. CASE ~(Files(want[d], held[d]) \subseteq blobs) BY <1>6, <2>2, <1>p, <1>moves DEF Serve, Places
  <2> QED BY <2>1, <2>2
<1>7. ASSUME NEW d \in Download, NEW j \in Job, Ask(d, j) PROVE KeyInv' /\ KeyStays
  BY <1>7, <1>p, <1>moves DEF Ask, Places
<1>8. CASE Restart
  BY <1>8 DEF Restart, KeyInv, KeyStays, Places
<1>9. CASE UNCHANGED vars
  BY <1>9, <1>quiet DEF vars
<1> QED
  BY <1>1, <1>2, <1>3, <1>4, <1>5, <1>6, <1>7, <1>8, <1>9 DEF Next, OtherUpdate

\* A key on disk is replaced by no other, by jobs and downloads in any order, with
\* failed writes and restarts; only an update that was sealed before there was a
\* key, and lands after it, takes it off the file (property KeyKept).
THEOREM KeysAreKept == Spec => KeyKept
<1>1. Init => KeyInv BY KeyInvInit
<1>2. KeyInv /\ [Next]_vars => KeyInv' BY KeyInvStep
<1>3. KeyInv /\ [Next]_vars => [KeyStays]_vars
  BY KeyInvStep
<1>4. KeyKept <=> [][KeyStays]_vars
  BY PTL DEF KeyKept, KeyStays
<1> QED BY <1>1, <1>2, <1>3, <1>4, PTL DEF Spec

-----------------------------------------------------------------------------

\* A job at work is the one of reg.running and the newest of the history.
RunInv ==
  /\ pc \in [Process -> Places]
  /\ jobs \in Seq(Job)
  /\ \A j \in Job : Alive(j) => running = j /\ jobs # <<>> /\ jobs[Len(jobs)] = j

LEMMA RunInvInit == Init => RunInv
BY DEF Init, RunInv, Places, Process, Alive

LEMMA RunInvStep == RunInv /\ [Next]_vars => RunInv'
<1> SUFFICES ASSUME RunInv, [Next]_vars PROVE RunInv'
  OBVIOUS
<1> USE SkeletonAssumption
<1>p. Job \subseteq Process /\ Download \subseteq Process /\ Job \cap Download = {}
  BY DEF Process
<1>j. None \notin Job
  OBVIOUS
<1>quiet. ASSUME UNCHANGED <<pc, running, jobs>> PROVE RunInv'
  BY <1>quiet DEF RunInv, Alive
<1>moves. ASSUME NEW j \in Job, Alive(j), NEW s \in Places, pc' = [pc EXCEPT ![j] = s], UNCHANGED <<running, jobs>>
          PROVE RunInv'
  BY <1>moves, <1>p DEF RunInv, Alive
<1>serves. ASSUME NEW d \in Download, NEW s \in Places, pc' = [pc EXCEPT ![d] = s], UNCHANGED <<running, jobs>>
           PROVE RunInv'
  BY <1>serves, <1>p DEF RunInv, Alive
<1>ends. ASSUME NEW j \in Job, Alive(j), pc' = [pc EXCEPT ![j] = "end"], UNCHANGED jobs
         PROVE RunInv'
  <2>1. \A k \in Job : k # j => ~Alive(k)
    BY <1>ends DEF RunInv
  <2>2. \A k \in Job : ~Alive(k)'
    BY <2>1, <1>ends, <1>p DEF RunInv, Alive
  <2> QED BY <2>2, <1>ends, <1>p DEF RunInv, Places
<1>1. CASE \E n \in Name : Register(n)
  BY <1>1, <1>quiet DEF Register, jobVars
<1>2. CASE OtherUpdate
  BY <1>2, <1>quiet DEF OtherUpdate, OtherSeal, OtherWriteKeyless, OtherWrite, jobVars
<1>3. ASSUME NEW j \in Job, Start(j) PROVE RunInv'
  <2> DEFINE all == Append(jobs, j)
             from == 1 + (IF Len(all) > MaxJobHistory THEN Len(all) - MaxJobHistory ELSE 0)
  <2>1. all \in Seq(Job) /\ Len(all) = Len(jobs) + 1 /\ all[Len(all)] = j /\ Len(jobs) \in Nat
    BY DEF RunInv
  <2>2. from \in 1 .. Len(all)
    BY <2>1
  <2>3. jobs' = SubSeq(all, from, Len(all))
    BY <1>3 DEF Start, Launch
  <2> HIDE DEF all, from
  <2>4. jobs' \in Seq(Job) /\ Len(jobs') = Len(all) - from + 1 /\ jobs'[Len(jobs')] = all[Len(all)]
    BY <2>1, <2>2, <2>3
  <2>5. jobs' # <<>> /\ jobs'[Len(jobs')] = j
    BY <2>1, <2>2, <2>4
  <2>6. \A k \in Job : ~Alive(k)
    BY <1>3, <1>j DEF Start, RunInv
  <2>7. \A k \in Job : Alive(k)' => k = j
    BY <2>6, <1>3, <1>p DEF Start, Launch, RunInv, Alive
  <2>8. pc' \in [Process -> Places] /\ running' = j
    BY <1>3, <1>p DEF Start, Launch, RunInv, Places
  <2> QED BY <2>4, <2>5, <2>7, <2>8 DEF RunInv
<1>4. ASSUME NEW j \in Job, Body(j) PROVE RunInv'
  <2>1. CASE MakeDir(j) BY <2>1, <1>moves DEF MakeDir, Places, Alive, jobVars
  <2>2. CASE Visit(j)
    <3>1. CASE Target(j) \in Snapshots BY <2>2, <3>1, <1>moves DEF Visit, Places, Alive
    <3>2. CASE Target(j) \notin Snapshots BY <2>2, <3>2, <1>quiet DEF Visit
    <3> QED BY <3>1, <3>2
  <2>3. CASE SnapshotFails(j) BY <2>3, <1>moves DEF SnapshotFails, Places, Alive, jobVars
  <2>4. CASE SnapshotTaken(j) BY <2>4, <1>moves DEF SnapshotTaken, Places, Alive, jobVars
  <2>5. CASE WriteArtifact(j) BY <2>5, <1>quiet DEF WriteArtifact, jobVars
  <2>6. CASE EntryDone(j) BY <2>6, <1>moves DEF EntryDone, Places, Alive, jobVars
  <2>7. CASE LoopEnds(j) BY <2>7, <1>moves DEF LoopEnds, Places, Alive
  <2>8. CASE WriteManifest(j) BY <2>8, <1>moves DEF WriteManifest, Places, Alive, jobVars
  <2>9. CASE WriteRestore(j) BY <2>9, <1>ends DEF WriteRestore, Ended, Alive
  <2>10. CASE WriteFails(j) BY <2>10, <1>ends DEF WriteFails, Ended, Alive
  <2> QED BY <1>4, <2>1, <2>2, <2>3, <2>4, <2>5, <2>6, <2>7, <2>8, <2>9, <2>10 DEF Body
<1>5. ASSUME NEW p \in Process, KeyStep(p) PROVE RunInv'
  <2>k. pc[p] \in {"key", "persist"}
    BY <1>5 DEF KeyStep, GetKey, KeyPersisted, KeyRejected, Unwritten
  <2>m. ASSUME NEW s \in Places, pc' = [pc EXCEPT ![p] = s], UNCHANGED <<running, jobs>> PROVE RunInv'
    <3>1. CASE p \in Job BY <2>k, <2>m, <3>1, <1>moves DEF Alive
    <3>2. CASE p \in Download BY <2>m, <3>2, <1>serves
    <3> QED BY <3>1, <3>2 DEF Process
  <2>1. CASE GetKey(p) /\ memKey # None
    BY <2>1, <2>m DEF GetKey, Use, jobVars, After, Places
  <2>2. CASE GetKey(p) /\ memKey = None
    BY <2>2, <2>m DEF GetKey, Generate, Use, jobVars, Places
  <2>3. CASE KeyPersisted(p)
    BY <2>3, <2>m DEF KeyPersisted, jobVars, After, Places
  <2>4. CASE KeyRejected(p)
    <3>1. CASE p \in Job BY <2>4, <2>k, <3>1, <1>ends DEF KeyRejected, Unwritten, Ended, Alive
    <3>2. CASE p \notin Job BY <2>4, <3>2, <2>m DEF KeyRejected, Unwritten, jobVars, Places
    <3> QED BY <3>1, <3>2
  <2> QED BY <1>5, <2>1, <2>2, <2>3, <2>4 DEF KeyStep
<1>6. ASSUME NEW d \in Download, Serve(d) PROVE RunInv'
  <2>1. CASE Files(want[d], held[d]) \subseteq blobs BY <1>6, <2>1, <1>serves DEF Serve, Places, jobVars
  <2>2. CASE ~(Files(want[d], held[d]) \subseteq blobs) BY <1>6, <2>2, <1>serves DEF Serve, Places, jobVars
  <2> QED BY <2>1, <2>2
<1>7. ASSUME NEW d \in Download, NEW j \in Job, Ask(d, j) PROVE RunInv'
  BY <1>7, <1>serves DEF Ask, Places, jobVars
<1>8. CASE Restart
  <2>1. pc' \in [Process -> Places] /\ jobs' = <<>>
    BY <1>8 DEF Restart, RunInv, Places
  <2>2. \A j \in Job : ~Alive(j)'
    BY <1>8, <1>p DEF Restart, Alive
  <2> QED BY <2>1, <2>2 DEF RunInv
<1>9. CASE UNCHANGED vars
  BY <1>9, <1>quiet DEF vars, jobVars
<1> QED
  BY <1>1, <1>2, <1>3, <1>4, <1>5, <1>6, <1>7, <1>8, <1>9 DEF Next, OtherUpdate

\* Only one job runs at a time, and it is what a second start and a status
\* without an id report (property RunningReported).
THEOREM OneJobAtATime == Spec => []RunningReported
<1>1. Init => RunInv BY RunInvInit
<1>2. RunInv /\ [Next]_vars => RunInv' BY RunInvStep
<1>3. RunInv => RunningReported BY DEF RunInv, RunningReported
<1> QED BY <1>1, <1>2, <1>3, PTL DEF Spec

-----------------------------------------------------------------------------

Distinct == \A i, k \in 1 .. Len(targets) : targets[i] = targets[k] => i = k

\* The entries of a job are those of the first targets, in order, and there is
\* a target left while one is being looked at.
ListInv ==
  /\ pc \in [Process -> Places]
  /\ targets \in Seq(Name) /\ Distinct
  /\ entries \in [Job -> Seq(Entry)]
  /\ left \in [Job -> SUBSET Artifact] /\ kept \in [Job -> SUBSET Artifact]
  /\ skipped \in [Job -> BOOLEAN]
  /\ manifest \in [Job -> Seq(Entry) \cup {None}]
  /\ \A j \in Job : Len(entries[j]) <= Len(targets)
  /\ \A j \in Job : pc[j] \in {"snapshot", "write"} => Len(entries[j]) < Len(targets)
  /\ \A j \in Job : \A i \in 1 .. Len(entries[j]) : entries[j][i].name = targets[i]

\* What Append does to a sequence.
LEMMA Appended ==
  ASSUME NEW S, NEW s \in Seq(S), NEW x \in S
  PROVE  /\ Append(s, x) \in Seq(S) /\ Len(s) \in Nat
         /\ Len(Append(s, x)) = Len(s) + 1
         /\ \A i \in 1 .. Len(s) : Append(s, x)[i] = s[i]
         /\ Append(s, x)[Len(s) + 1] = x
OBVIOUS

LEMMA ListInvInit == Init => ListInv
<1> SUFFICES ASSUME Init PROVE ListInv
  OBVIOUS
<1>1. targets \in Seq(Name) /\ Len(targets) \in {0, 1}
  <2>1. CASE targets = <<>>
    BY <2>1
  <2>2. CASE \E n \in Name : targets = <<n>>
    BY <2>2
  <2> QED
    BY <2>1, <2>2 DEF Init
<1>2. Distinct
  BY <1>1 DEF Distinct
<1>3. \A j \in Job : entries[j] = <<>> /\ pc[j] = "new"
  BY DEF Init, Process
<1> QED
  BY <1>1, <1>2, <1>3 DEF Init, ListInv, Places, Process

\* A target that registers is not among those that are entered.
LEMMA RegisterList ==
  ASSUME ListInv, NEW n \in Name, Register(n) PROVE ListInv'
<1>1. /\ \A i \in 1 .. Len(targets) : targets[i] # n
      /\ targets' = Append(targets, n)
      /\ UNCHANGED <<pc, entries, left, kept, skipped, manifest>>
  BY DEF Register, bodyVars, diskVars, Range, ListInv
<1>2. /\ targets' \in Seq(Name) /\ Len(targets') = Len(targets) + 1 /\ Len(targets) \in Nat
      /\ \A i \in 1 .. Len(targets) : targets'[i] = targets[i]
      /\ targets'[Len(targets) + 1] = n
  BY <1>1 DEF ListInv
<1>3. Distinct'
  BY <1>1, <1>2 DEF ListInv, Distinct
<1>4. \A j \in Job : entries[j] \in Seq(Entry) /\ Len(entries[j]) \in Nat
  BY DEF ListInv
<1> QED
  BY <1>1, <1>2, <1>3, <1>4 DEF ListInv

\* A step that leaves entries and targets alone, and takes nobody to a target.
LEMMA QuietList ==
  ASSUME ListInv, UNCHANGED <<targets, entries, manifest>>,
         pc' \in [Process -> Places],
         left' \in [Job -> SUBSET Artifact], kept' \in [Job -> SUBSET Artifact],
         skipped' \in [Job -> BOOLEAN],
         \A j \in Job : pc'[j] \in {"snapshot", "write"} =>
            \/ pc[j] \in {"snapshot", "write"}
            \/ Len(entries[j]) < Len(targets)
  PROVE  ListInv'
BY DEF ListInv, Distinct

\* The entry of the target that a job is at is added.
LEMMA EnterList ==
  ASSUME ListInv, NEW j \in Job, NEW status \in {"ok", "partial", "error", "skipped"},
         NEW arts \in SUBSET Artifact, Entered(j, status, arts),
         Len(entries[j]) < Len(targets),
         UNCHANGED <<targets, left, kept, skipped, manifest>>,
         pc' = [pc EXCEPT ![j] = "target"]
  PROVE  ListInv'
<1> DEFINE e == [name |-> Target(j), status |-> status, artifacts |-> arts]
<1>0. j \in Process
  BY DEF Process
<1>1. /\ entries[j] \in Seq(Entry) /\ Len(entries[j]) \in Nat /\ Len(targets) \in Nat
      /\ targets \in Seq(Name)
  BY DEF ListInv
<1>2. Target(j) \in Name /\ Target(j) = targets[Len(entries[j]) + 1]
  BY <1>1 DEF Target, At
<1>3. e \in Entry /\ e.name = Target(j)
  BY <1>2 DEF Entry
<1>4. entries' = [entries EXCEPT ![j] = Append(entries[j], e)]
  BY DEF Entered
<1> HIDE DEF e
<1>5. /\ entries'[j] = Append(entries[j], e)
      /\ \A k \in Job : k # j => entries'[k] = entries[k]
      /\ entries' \in [Job -> Seq(Entry)]
  BY <1>1, <1>3, <1>4 DEF ListInv
<1>6. /\ Len(entries'[j]) = Len(entries[j]) + 1
      /\ \A i \in 1 .. Len(entries[j]) : entries'[j][i] = entries[j][i]
      /\ entries'[j][Len(entries[j]) + 1] = e
  <2>1. /\ Len(Append(entries[j], e)) = Len(entries[j]) + 1
        /\ \A i \in 1 .. Len(entries[j]) : Append(entries[j], e)[i] = entries[j][i]
        /\ Append(entries[j], e)[Len(entries[j]) + 1] = e
    BY <1>1, <1>3, Appended
  <2> QED
    BY <2>1, <1>5
<1>7. \A i \in 1 .. Len(entries'[j]) : entries'[j][i].name = targets[i]
  <2> SUFFICES ASSUME NEW i \in 1 .. Len(entries'[j]) PROVE entries'[j][i].name = targets[i]
    OBVIOUS
  <2>1. CASE i \in 1 .. Len(entries[j])
    <3>1. entries[j][i].name = targets[i]
      BY <2>1 DEF ListInv
    <3> QED BY <2>1, <3>1, <1>6
  <2>2. CASE i = Len(entries[j]) + 1
    BY <2>2, <1>2, <1>3, <1>6
  <2> QED BY <1>1, <1>6, <2>1, <2>2
<1>8. pc' \in [Process -> Places] /\ pc'[j] = "target" /\ \A k \in Job : k # j => pc'[k] = pc[k]
  BY <1>0 DEF ListInv, Places
<1>9. \A k \in Job : Len(entries'[k]) <= Len(targets)
  <2>1. Len(entries'[j]) <= Len(targets)
    BY <1>1, <1>6
  <2> QED
    BY <2>1, <1>5 DEF ListInv
<1>10. \A k \in Job : pc'[k] \in {"snapshot", "write"} => Len(entries'[k]) < Len(targets)
  BY <1>5, <1>8 DEF ListInv
<1>11. \A k \in Job : \A i \in 1 .. Len(entries'[k]) : entries'[k][i].name = targets[i]
  BY <1>5, <1>7, ZenonT(30) DEF ListInv
<1> QED
  BY <1>5, <1>8, <1>9, <1>10, <1>11 DEF ListInv, Distinct

LEMMA ListInvStep == ListInv /\ [Next]_vars => ListInv'
<1> SUFFICES ASSUME ListInv, [Next]_vars PROVE ListInv'
  OBVIOUS
<1>p. Job \subseteq Process /\ Download \subseteq Process /\ Job \cap Download = {}
  BY SkeletonAssumption DEF Process
<1>t. /\ pc \in [Process -> Places]
      /\ \A j \in Job : entries[j] \in Seq(Entry) /\ Len(entries[j]) \in Nat
      /\ Len(targets) \in Nat
  BY DEF ListInv
<1>moves. ASSUME UNCHANGED <<targets, bodyVars, manifest>>, NEW p \in Process,
                 NEW s \in Places \ {"snapshot", "write"}, pc' = [pc EXCEPT ![p] = s]
          PROVE  ListInv'
  <2>1. pc' \in [Process -> Places]
    BY <1>moves, <1>t
  <2>2. \A j \in Job : pc'[j] \in {"snapshot", "write"} => pc[j] \in {"snapshot", "write"}
    BY <1>moves, <1>t, <1>p
  <2> QED
    BY <1>moves, <2>1, <2>2, QuietList DEF bodyVars, ListInv
<1>1. ASSUME NEW n \in Name, Register(n) PROVE ListInv'
  BY <1>1, RegisterList
<1>2. CASE OtherUpdate \/ UNCHANGED vars
  BY <1>2 DEF OtherUpdate, OtherSeal, OtherWriteKeyless, OtherWrite, vars, bodyVars, diskVars, ListInv, Distinct
<1>3. ASSUME NEW j \in Job, Start(j) PROVE ListInv'
  BY <1>3, <1>p, <1>moves DEF Start, Launch, Places, diskVars
<1>4. ASSUME NEW j \in Job, Body(j) PROVE ListInv'
  <2>1. CASE MakeDir(j) BY <2>1, <1>p, <1>moves DEF MakeDir, Places, diskVars
  <2>2. CASE Visit(j)
    <3>0. Len(entries[j]) < Len(targets)
      BY <2>2, <1>t DEF Visit, Remaining, At
    <3>1. CASE Target(j) \in Snapshots
      <4>1. pc' \in [Process -> Places] /\ pc'[j] = "snapshot" /\ \A k \in Job : k # j => pc'[k] = pc[k]
        BY <2>2, <3>1, <1>t, <1>p DEF Visit, Places
      <4> QED BY <2>2, <3>0, <3>1, <4>1, QuietList DEF Visit, diskVars, ListInv
    <3>2. CASE Target(j) \notin Snapshots
      <4>1. pc' = [pc EXCEPT ![j] = "target"]
        BY <2>2, <3>2, <1>t, <1>p DEF Visit
      <4>2. Entered(j, "skipped", {}) /\ UNCHANGED <<targets, left, kept, skipped, manifest>>
        BY <2>2, <3>2 DEF Visit, diskVars
      <4>3. "skipped" \in {"ok", "partial", "error", "skipped"} /\ {} \in SUBSET Artifact
        OBVIOUS
      <4> QED BY <3>0, <4>1, <4>2, <4>3, EnterList, Zenon
    <3> QED BY <3>1, <3>2
  <2>3. CASE SnapshotFails(j)
    <3>1. Len(entries[j]) < Len(targets)
      BY <2>3 DEF SnapshotFails, ListInv
    <3>2. /\ Entered(j, "error", {}) /\ UNCHANGED <<targets, left, kept, skipped, manifest>>
          /\ pc' = [pc EXCEPT ![j] = "target"]
      BY <2>3 DEF SnapshotFails, diskVars
    <3>3. "error" \in {"ok", "partial", "error", "skipped"} /\ {} \in SUBSET Artifact
      OBVIOUS
    <3> QED BY <3>1, <3>2, <3>3, EnterList, Zenon
  <2>4. CASE SnapshotTaken(j)
    <3>1. pc' \in [Process -> Places] /\ pc'[j] = "write" /\ pc[j] = "snapshot"
          /\ \A k \in Job : k # j => pc'[k] = pc[k]
      BY <2>4, <1>t, <1>p DEF SnapshotTaken, Places
    <3>2. /\ left' \in [Job -> SUBSET Artifact] /\ kept' \in [Job -> SUBSET Artifact]
          /\ skipped' \in [Job -> BOOLEAN]
      BY <2>4 DEF SnapshotTaken, ListInv
    <3> QED BY <2>4, <3>1, <3>2, QuietList DEF SnapshotTaken, diskVars
  <2>5. CASE WriteArtifact(j)
    <3>1. left' \in [Job -> SUBSET Artifact] /\ kept' \in [Job -> SUBSET Artifact]
      BY <2>5 DEF WriteArtifact, ListInv
    <3>2. UNCHANGED <<targets, entries, manifest, pc, skipped>>
      BY <2>5 DEF WriteArtifact
    <3> QED BY <3>1, <3>2, QuietList DEF ListInv
  <2>6. CASE EntryDone(j)
    <3>1. Len(entries[j]) < Len(targets) /\ kept[j] \in SUBSET Artifact
      BY <2>6 DEF EntryDone, ListInv
    <3>2. PICK status \in {"ok", "partial", "error", "skipped"} : Entered(j, status, kept[j])
      BY <2>6 DEF EntryDone
    <3>3. UNCHANGED <<targets, left, kept, skipped, manifest>> /\ pc' = [pc EXCEPT ![j] = "target"]
      BY <2>6 DEF EntryDone, diskVars
    <3> QED BY <3>1, <3>2, <3>3, EnterList
  <2>7. CASE LoopEnds(j) BY <2>7, <1>p, <1>moves DEF LoopEnds, Places, diskVars
  <2>8. CASE WriteManifest(j)
    <3>1. manifest' \in [Job -> Seq(Entry) \cup {None}]
      BY <2>8 DEF WriteManifest, ListInv
    <3>2. pc' \in [Process -> Places]
          /\ \A k \in Job : pc'[k] \in {"snapshot", "write"} => pc[k] \in {"snapshot", "write"}
      BY <2>8, <1>t, <1>p DEF WriteManifest, Places
    <3>3. UNCHANGED <<targets, bodyVars>>
      BY <2>8 DEF WriteManifest
    <3> QED BY <3>1, <3>2, <3>3 DEF ListInv, Distinct, bodyVars
  <2>9. CASE WriteRestore(j) BY <2>9, <1>p, <1>moves DEF WriteRestore, Ended, Places, diskVars
  <2>10. CASE WriteFails(j) BY <2>10, <1>p, <1>moves DEF WriteFails, Ended, Places, diskVars
  <2> QED BY <1>4, <2>1, <2>2, <2>3, <2>4, <2>5, <2>6, <2>7, <2>8, <2>9, <2>10 DEF Body
<1>5. ASSUME NEW p \in Process, KeyStep(p) PROVE ListInv'
  <2>a. After(p) \in Places \ {"snapshot", "write"}
    BY DEF After, Places
  <2>1. UNCHANGED <<targets, bodyVars, manifest>>
    BY <1>5 DEF KeyStep, GetKey, KeyPersisted, KeyRejected, diskVars
  <2>2. \E s \in Places \ {"snapshot", "write"} : pc' = [pc EXCEPT ![p] = s]
    <3>1. CASE GetKey(p) BY <3>1, <2>a DEF GetKey, Generate, Use, Places
    <3>2. CASE KeyPersisted(p) BY <3>2, <2>a DEF KeyPersisted
    <3>3. CASE KeyRejected(p) BY <3>3 DEF KeyRejected, Unwritten, Ended, Places
    <3> QED BY <1>5, <3>1, <3>2, <3>3 DEF KeyStep
  <2> QED BY <2>1, <2>2, <1>moves
<1>6. ASSUME NEW d \in Download, Serve(d) \/ \E j \in Job : Ask(d, j) PROVE ListInv'
  <2>1. UNCHANGED <<targets, bodyVars, manifest>>
    BY <1>6 DEF Serve, Ask, diskVars
  <2>2. \E s \in Places \ {"snapshot", "write"} : pc' = [pc EXCEPT ![d] = s]
    <3>1. CASE Serve(d)
      <4>1. CASE Files(want[d], held[d]) \subseteq blobs BY <3>1, <4>1 DEF Serve, Places
      <4>2. CASE ~(Files(want[d], held[d]) \subseteq blobs) BY <3>1, <4>2 DEF Serve, Places
      <4> QED BY <4>1, <4>2
    <3>2. CASE \E j \in Job : Ask(d, j) BY <3>2 DEF Ask, Places
    <3> QED BY <1>6, <3>1, <3>2
  <2> QED BY <2>1, <2>2, <1>p, <1>moves
<1>7. CASE Restart
  <2>1. /\ UNCHANGED <<targets, bodyVars, manifest>>
        /\ pc' \in [Process -> Places]
        /\ \A j \in Job : pc'[j] \notin {"snapshot", "write"}
    BY <1>7, <1>p, <1>t DEF Restart, diskVars, Places
  <2> QED BY <2>1, QuietList DEF ListInv, bodyVars
<1> QED
  BY <1>1, <1>2, <1>3, <1>4, <1>5, <1>6, <1>7 DEF Next, OtherUpdate

\* A target is in the registry once, so it has as many targets as names.
LEMMA DistinctCount ==
  ASSUME targets \in Seq(Name), Distinct
  PROVE  Cardinality(Range(targets)) = Len(targets)
<1>1. targets \in [1 .. Len(targets) -> Range(targets)] /\ Len(targets) \in Nat
  BY DEF Range
<1>2. ExistsBijection(1 .. Len(targets), Range(targets))
  <2>1. targets \in Bijection(1 .. Len(targets), Range(targets))
    BY <1>1 DEF Distinct, Range, Bijection, Injection, Surjection, IsInjective
  <2> QED BY <2>1 DEF ExistsBijection
<1> QED BY <1>1, <1>2, FS_CountingElements

\* A job gets to its manifest by the end of its loop, and in no other way.
LEMMA LoopLeadsToManifest ==
  ASSUME ListInv, Next, NEW j \in Job, pc[j] # "manifest", pc'[j] = "manifest"
  PROVE  LoopEnds(j)
<1>p. Job \subseteq Process /\ Download \subseteq Process /\ Job \cap Download = {}
  BY SkeletonAssumption DEF Process
<1>t. pc \in [Process -> Places]
  BY DEF ListInv
<1>other. ASSUME NEW p \in Process, NEW s \in Places \ {"manifest"}, pc' = [pc EXCEPT ![p] = s]
          PROVE  FALSE
  BY <1>other, <1>t, <1>p
<1>1. ASSUME (\E n \in Name : Register(n)) \/ OtherUpdate \/ Restart PROVE FALSE
  BY <1>1, <1>t, <1>p DEF Register, OtherUpdate, OtherSeal, OtherWriteKeyless, OtherWrite, Restart
<1>2. ASSUME NEW k \in Job, Start(k) PROVE FALSE
  BY <1>2, <1>p, <1>other DEF Start, Launch, Places
<1>3. ASSUME NEW k \in Job, Body(k) PROVE LoopEnds(j)
  <2>1. CASE MakeDir(k) BY <2>1, <1>p, <1>other DEF MakeDir, Places
  <2>2. CASE Visit(k)
    <3>1. CASE Target(k) \in Snapshots BY <2>2, <3>1, <1>p, <1>other DEF Visit, Places
    <3>2. CASE Target(k) \notin Snapshots BY <2>2, <3>2 DEF Visit
    <3> QED BY <3>1, <3>2
  <2>3. CASE SnapshotFails(k) BY <2>3, <1>p, <1>other DEF SnapshotFails, Places
  <2>4. CASE SnapshotTaken(k) BY <2>4, <1>p, <1>other DEF SnapshotTaken, Places
  <2>5. CASE WriteArtifact(k) BY <2>5 DEF WriteArtifact
  <2>6. CASE EntryDone(k) BY <2>6, <1>p, <1>other DEF EntryDone, Places
  <2>7. CASE LoopEnds(k)
    <3>1. k = j BY <2>7, <1>t, <1>p DEF LoopEnds
    <3> QED BY <2>7, <3>1
  <2>8. CASE WriteManifest(k) BY <2>8, <1>p, <1>other DEF WriteManifest, Places
  <2>9. CASE WriteRestore(k) BY <2>9, <1>p, <1>other DEF WriteRestore, Ended, Places
  <2>10. CASE WriteFails(k) BY <2>10, <1>p, <1>other DEF WriteFails, Ended, Places
  <2> QED BY <1>3, <2>1, <2>2, <2>3, <2>4, <2>5, <2>6, <2>7, <2>8, <2>9, <2>10 DEF Body
<1>4. ASSUME NEW p \in Process, KeyStep(p) PROVE FALSE
  <2>a. After(p) \in Places \ {"manifest"}
    BY DEF After, Places
  <2>1. CASE GetKey(p) BY <2>1, <2>a, <1>other DEF GetKey, Generate, Use, Places
  <2>2. CASE KeyPersisted(p) BY <2>2, <2>a, <1>other DEF KeyPersisted
  <2>3. CASE KeyRejected(p) BY <2>3, <1>other DEF KeyRejected, Unwritten, Ended, Places
  <2> QED BY <1>4, <2>1, <2>2, <2>3 DEF KeyStep
<1>5. ASSUME NEW d \in Download, Serve(d) \/ \E k \in Job : Ask(d, k) PROVE FALSE
  BY <1>5, <1>t, <1>p DEF Serve, Ask
<1> QED
  BY <1>1, <1>2, <1>3, <1>4, <1>5 DEF Next, OtherUpdate

\* What EveryTargetTold says of a step.
Covers(es, ts) ==
  /\ {e.name : e \in Range(es)} = Range(ts)
  /\ Len(es) = Cardinality(Range(ts))

\* The loop ends with an entry for each target.
LEMMA LoopCovers ==
  ASSUME ListInv, NEW j \in Job, LoopEnds(j) PROVE Covers(entries'[j], targets)
<1>1. entries' = entries /\ ~(Len(entries[j]) + 1 <= Len(targets))
  BY DEF LoopEnds, Remaining, At, bodyVars
<1>2. /\ entries[j] \in Seq(Entry) /\ Len(entries[j]) \in Nat
      /\ targets \in Seq(Name) /\ Len(targets) \in Nat
      /\ Len(entries[j]) <= Len(targets)
      /\ \A i \in 1 .. Len(entries[j]) : entries[j][i].name = targets[i]
  BY DEF ListInv
<1>3. Len(entries[j]) = Len(targets)
  BY <1>1, <1>2
<1>4. Cardinality(Range(targets)) = Len(targets)
  BY DistinctCount DEF ListInv
<1>5. {e.name : e \in Range(entries[j])} = Range(targets)
  <2>1. DOMAIN entries[j] = 1 .. Len(targets) /\ DOMAIN targets = 1 .. Len(targets)
    BY <1>2, <1>3
  <2>2. \A i \in 1 .. Len(targets) : entries[j][i].name = targets[i]
    BY <1>2, <1>3
  <2> QED
    BY <2>1, <2>2, Zenon DEF Range
<1> QED
  BY <1>1, <1>3, <1>4, <1>5 DEF Covers

\* Every target that is registered when a job puts its manifest together has
\* its entry there, also one that registered while the job ran (property
\* EveryTargetTold).
THEOREM NoTargetLeftOut == Spec => EveryTargetTold
<1> DEFINE Step == \A j \in Job : pc[j] # "manifest" /\ pc'[j] = "manifest" =>
                     /\ {e.name : e \in Range(entries'[j])} = Range(targets)
                     /\ Len(entries'[j]) = Cardinality(Range(targets))
<1>1. ListInv /\ Next => Step
  BY LoopLeadsToManifest, LoopCovers DEF Covers
<1>2. ListInv /\ [Next]_vars => [Step]_vars
  BY <1>1
<1>3. Init => ListInv BY ListInvInit
<1>4. ListInv /\ [Next]_vars => ListInv' BY ListInvStep
<1> QED BY <1>2, <1>3, <1>4, PTL DEF Spec, EveryTargetTold

-----------------------------------------------------------------------------

File(j, n, a, k) == [skeleton |-> j, target |-> n, artifact |-> a, key |-> k]

\* The files that a manifest names are on disk, under key k.
OnDisk(j, es, k, files) ==
  \A i \in 1 .. Len(es) : \A a \in es[i].artifacts : File(j, es[i].name, a, k) \in files

Forming == {"dir", "target", "snapshot", "write", "manifest", "restore"}

\* A job has written, under the one key it holds, what it has entered so far and
\* what it kept of the current target.
FileInv ==
  /\ held \in [Process -> Key \cup {None}]
  /\ \A j \in Job : pc[j] = "new" => entries[j] = <<>>
  /\ \A j \in Job : pc[j] \in Forming => held[j] \in Key
  /\ \A j \in Job : pc[j] \in {"key", "persist"} => entries[j] = <<>>
  /\ \A j \in Job : pc[j] \in Forming => OnDisk(j, entries[j], held[j], blobs)
  /\ \A j \in Job : pc[j] = "write" =>
       \A a \in kept[j] : File(j, Target(j), a, held[j]) \in blobs
  /\ \A j \in Job : Listed(j) => \E k \in Key : OnDisk(j, manifest[j], k, blobs)

LEMMA FileInvInit == Init => FileInv
BY DEF Init, FileInv, Process, Forming, Listed

\* A step of p that touches no entry, manifest or key of a job that is forming.
LEMMA PlaceFile ==
  ASSUME ListInv, FileInv, NEW p \in Process, NEW s \in Places,
         pc' = [pc EXCEPT ![p] = s],
         UNCHANGED <<targets, entries, kept, held, diskVars>>,
         s # "write", s # "new",
         p \in Job /\ s \in Forming => pc[p] \in Forming,
         p \in Job /\ s \in {"key", "persist"} => pc[p] \in {"new", "key", "persist"}
  PROVE  FileInv'
<1>p. Job \subseteq Process
  BY DEF Process
<1>t. pc \in [Process -> Places]
  BY DEF ListInv
<1>1. \A j \in Job : pc'[j] = IF j = p THEN s ELSE pc[j]
  BY <1>p, <1>t
<1>2. \A j \in Job : Target(j)' = Target(j)
  BY DEF Target, At
<1> QED
  BY <1>1, <1>2 DEF FileInv, Listed, diskVars

\* What a job holds on disk stays there.
LEMMA MoreFiles ==
  ASSUME NEW j, NEW es, NEW k, NEW B, NEW C, B \subseteq C, OnDisk(j, es, k, B)
  PROVE  OnDisk(j, es, k, C)
BY DEF OnDisk

\* The entry that is added names files that are there.
LEMMA EnterFile ==
  ASSUME ListInv, FileInv, NEW j \in Job, pc[j] \in Forming,
         NEW status \in {"ok", "partial", "error", "skipped"},
         NEW arts \in SUBSET Artifact, Entered(j, status, arts),
         \A a \in arts : File(j, Target(j), a, held[j]) \in blobs,
         UNCHANGED <<targets, kept, held, diskVars>>,
         pc' = [pc EXCEPT ![j] = "target"], Target(j) \in Name
  PROVE  FileInv'
<1> DEFINE e == [name |-> Target(j), status |-> status, artifacts |-> arts]
<1>p. Job \subseteq Process
  BY DEF Process
<1>t. pc \in [Process -> Places] /\ entries \in [Job -> Seq(Entry)]
  BY DEF ListInv
<1>1. e \in Entry /\ e.name = Target(j) /\ e.artifacts = arts
  BY DEF Entry
<1>2. entries' = [entries EXCEPT ![j] = Append(entries[j], e)]
  BY DEF Entered
<1> HIDE DEF e
<1>3. entries'[j] = Append(entries[j], e) /\ \A k \in Job : k # j => entries'[k] = entries[k]
  BY <1>2, <1>t
<1>4. \A k \in Job : pc'[k] = IF k = j THEN "target" ELSE pc[k]
  BY <1>p, <1>t
<1>5. OnDisk(j, entries[j], held[j], blobs)
  BY DEF FileInv
<1>6. OnDisk(j, Append(entries[j], e), held[j], blobs)
  <2>1. /\ Len(entries[j]) \in Nat /\ Len(Append(entries[j], e)) = Len(entries[j]) + 1
        /\ \A i \in 1 .. Len(entries[j]) : Append(entries[j], e)[i] = entries[j][i]
        /\ Append(entries[j], e)[Len(entries[j]) + 1] = e
    BY <1>1, <1>t, Appended
  <2> SUFFICES ASSUME NEW i \in 1 .. Len(Append(entries[j], e)),
                      NEW a \in Append(entries[j], e)[i].artifacts
               PROVE  File(j, Append(entries[j], e)[i].name, a, held[j]) \in blobs
    BY DEF OnDisk
  <2>2. CASE i \in 1 .. Len(entries[j])
    BY <1>5, <2>1, <2>2 DEF OnDisk
  <2>3. CASE i = Len(entries[j]) + 1
    BY <1>1, <2>1, <2>3
  <2> QED BY <2>1, <2>2, <2>3
<1>7. \A k \in Job : k # j => Target(k)' = Target(k)
  BY <1>3 DEF Target, At
<1>8. \A k \in Job : pc'[k] \in Forming => OnDisk(k, entries'[k], held'[k], blobs')
  BY <1>3, <1>4, <1>6 DEF FileInv, diskVars
<1>9. \A k \in Job : pc'[k] = "write" =>
        \A a \in kept'[k] : File(k, Target(k)', a, held'[k]) \in blobs'
  BY <1>4, <1>7 DEF FileInv, diskVars
<1>10. \A k \in Job : pc'[k] \in {"new", "key", "persist"} => entries'[k] = <<>>
  BY <1>3, <1>4 DEF FileInv
<1> QED
  BY <1>4, <1>8, <1>9, <1>10 DEF FileInv, Forming, diskVars, Listed

\* A file is written, and kept.
LEMMA WriteFile ==
  ASSUME ListInv, FileInv, NEW j \in Job, WriteArtifact(j) PROVE FileInv'
<1>1. PICK a \in left[j] : /\ blobs' = blobs \cup {File(j, Target(j), a, held[j])}
                           /\ kept' = [kept EXCEPT ![j] = kept[j] \cup {a}]
  BY DEF WriteArtifact, File
<1>2. UNCHANGED <<targets, pc, held, entries, manifest>> /\ blobs \subseteq blobs'
  BY <1>1 DEF WriteArtifact
<1>3. kept'[j] = kept[j] \cup {a} /\ \A k \in Job : k # j => kept'[k] = kept[k]
  BY <1>1 DEF ListInv
<1>4. \A k \in Job : Target(k)' = Target(k)
  BY <1>2 DEF Target, At
<1>5. \A k \in Job : pc'[k] \in Forming => OnDisk(k, entries'[k], held'[k], blobs')
  <2> SUFFICES ASSUME NEW k \in Job, pc[k] \in Forming
               PROVE  OnDisk(k, entries[k], held[k], blobs')
    BY <1>2
  <2>1. OnDisk(k, entries[k], held[k], blobs)
    BY DEF FileInv
  <2> QED BY <1>2, <2>1, MoreFiles
<1>6. \A k \in Job : pc'[k] = "write" =>
        \A x \in kept'[k] : File(k, Target(k)', x, held'[k]) \in blobs'
  <2> SUFFICES ASSUME NEW k \in Job, pc[k] = "write", NEW x \in kept'[k]
               PROVE  File(k, Target(k), x, held[k]) \in blobs'
    BY <1>2, <1>4
  <2>1. CASE k = j /\ x = a BY <1>1, <2>1
  <2>2. CASE x \in kept[k] BY <1>1, <2>2 DEF FileInv
  <2> QED BY <1>3, <2>1, <2>2
<1>7. \A k \in Job : Listed(k)' => \E x \in Key : OnDisk(k, manifest'[k], x, blobs')
  <2> SUFFICES ASSUME NEW k \in Job, Listed(k)
               PROVE  \E x \in Key : OnDisk(k, manifest[k], x, blobs')
    BY <1>2 DEF Listed
  <2>1. PICK x \in Key : OnDisk(k, manifest[k], x, blobs)
    BY DEF FileInv
  <2>2. OnDisk(k, manifest[k], x, blobs')
    BY <1>2, <2>1, MoreFiles
  <2> QED BY <2>2
<1> QED BY <1>2, <1>5, <1>6, <1>7 DEF FileInv

\* The manifest that is written is the one of the entries.
LEMMA ManifestFile ==
  ASSUME ListInv, FileInv, NEW j \in Job, WriteManifest(j) PROVE FileInv'
<1>p. Job \subseteq Process
  BY DEF Process
<1>1. /\ pc[j] = "manifest" /\ pc' = [pc EXCEPT ![j] = "restore"]
      /\ manifest' = [manifest EXCEPT ![j] = entries[j]]
      /\ UNCHANGED <<targets, held, entries, kept, blobs>>
  BY DEF WriteManifest, bodyVars
<1>2. \A k \in Job : pc'[k] = IF k = j THEN "restore" ELSE pc[k]
  BY <1>1, <1>p DEF ListInv
<1>3. manifest'[j] = entries[j] /\ \A k \in Job : k # j => manifest'[k] = manifest[k]
  BY <1>1 DEF ListInv
<1>4. \A k \in Job : Target(k)' = Target(k)
  BY <1>1 DEF Target, At
<1>5. held[j] \in Key /\ OnDisk(j, entries[j], held[j], blobs)
  BY <1>1 DEF FileInv, Forming
<1>6. \A k \in Job : Listed(k)' => \E x \in Key : OnDisk(k, manifest'[k], x, blobs')
  BY <1>1, <1>3, <1>5 DEF FileInv, Listed
<1> QED BY <1>1, <1>2, <1>4, <1>6 DEF FileInv, Forming

\* A process takes the key from memory, draws it, or has it in the file.
LEMMA KeyFile ==
  ASSUME KeyInv, ListInv, FileInv, NEW p \in Process, KeyStep(p) PROVE FileInv'
<1>p. Job \subseteq Process /\ Job \cap Download = {}
  BY SkeletonAssumption DEF Process
<1>a. After(p) \in Places \ {"write", "new", "key", "persist"}
  BY DEF After, Places
<1>0. UNCHANGED <<targets, entries, kept, diskVars>> /\ pc[p] \in {"key", "persist"}
  BY DEF KeyStep, GetKey, KeyPersisted, KeyRejected, Unwritten, bodyVars
<1>t. pc \in [Process -> Places] /\ \A j \in Job : Target(j)' = Target(j)
  BY <1>0 DEF ListInv, Target, At
<1>1. ASSUME NEW k \in Key, NEW s \in Places \ {"write", "new"}, Use(p, k, s) PROVE FileInv'
  <2>1. /\ held' \in [Process -> Key \cup {None}] /\ held'[p] = k
        /\ \A q \in Process : q # p => held'[q] = held[q]
        /\ \A q \in Process : pc'[q] = IF q = p THEN s ELSE pc[q]
    BY <1>1, <1>t DEF Use, FileInv
  <2>2. \A j \in Job : j = p => entries[j] = <<>>
    BY <1>0 DEF FileInv
  <2>3. \A j \in Job : pc'[j] \in Forming => OnDisk(j, entries'[j], held'[j], blobs')
    <3> SUFFICES ASSUME NEW j \in Job, pc'[j] \in Forming
                 PROVE  OnDisk(j, entries[j], held'[j], blobs)
      BY <1>0 DEF diskVars
    <3>1. CASE j = p BY <2>2, <3>1 DEF OnDisk
    <3>2. CASE j # p BY <2>1, <3>2, <1>p DEF FileInv
    <3> QED BY <3>1, <3>2
  <2>4. \A j \in Job : pc'[j] = "write" =>
          \A a \in kept'[j] : File(j, Target(j)', a, held'[j]) \in blobs'
    BY <2>1, <1>0, <1>t, <1>p DEF FileInv, diskVars
  <2> QED BY <2>1, <2>2, <2>3, <2>4, <1>0, <1>p DEF FileInv, Listed, diskVars
<1>2. CASE GetKey(p)
  <2>1. CASE memKey # None
    BY <2>1, <1>2, <1>1, <1>a DEF GetKey, KeyInv
  <2>2. CASE memKey = None
    BY <2>2, <1>2, <1>1 DEF GetKey, Generate, Places
  <2> QED BY <2>1, <2>2
<1>3. CASE KeyPersisted(p)
  <2>1. held[p] \in Key
    BY <1>3 DEF KeyPersisted, KeyInv
  <2>2. Use(p, held[p], After(p))
    BY <1>3 DEF KeyPersisted, Use, FileInv
  <2> QED BY <2>1, <2>2, <1>1, <1>a
<1>4. CASE KeyRejected(p)
  <2>1. UNCHANGED held /\ \E s \in {"end", "refused"} : pc' = [pc EXCEPT ![p] = s]
    BY <1>4 DEF KeyRejected, Unwritten, Ended
  <2> QED BY <2>1, <1>0, PlaceFile DEF Places, Forming
<1> QED BY <1>2, <1>3, <1>4 DEF KeyStep

LEMMA FileInvStep == KeyInv /\ ListInv /\ FileInv /\ [Next]_vars => FileInv'
<1> SUFFICES ASSUME KeyInv, ListInv, FileInv, [Next]_vars PROVE FileInv'
  OBVIOUS
<1>p. Job \subseteq Process /\ Download \subseteq Process /\ Job \cap Download = {}
  BY SkeletonAssumption DEF Process
<1>t. pc \in [Process -> Places]
  BY DEF ListInv
<1>quiet. ASSUME UNCHANGED <<targets, pc, entries, kept, held, diskVars>> PROVE FileInv'
  <2>1. \A j \in Job : Target(j)' = Target(j)
    BY <1>quiet DEF Target, At
  <2> QED BY <1>quiet, <2>1 DEF FileInv, Listed, diskVars
<1>1. ASSUME NEW n \in Name, Register(n) PROVE FileInv'
  <2>1. targets' = Append(targets, n) /\ UNCHANGED <<pc, entries, kept, held, diskVars>>
    BY <1>1 DEF Register, bodyVars
  <2>2. \A j \in Job : pc[j] = "write" => Target(j)' = Target(j)
    <3> SUFFICES ASSUME NEW j \in Job, pc[j] = "write" PROVE Target(j)' = Target(j)
      OBVIOUS
    <3>1. Len(entries[j]) + 1 \in 1 .. Len(targets) /\ targets \in Seq(Name)
      BY DEF ListInv
    <3>2. targets'[Len(entries[j]) + 1] = targets[Len(entries[j]) + 1]
      BY <2>1, <3>1
    <3> QED BY <2>1, <3>2 DEF Target, At
  <2> QED BY <2>1, <2>2 DEF FileInv, Listed, diskVars
<1>2. CASE OtherUpdate \/ UNCHANGED vars
  BY <1>2, <1>quiet DEF OtherUpdate, OtherSeal, OtherWriteKeyless, OtherWrite, vars, bodyVars
<1>3. ASSUME NEW j \in Job, Start(j) PROVE FileInv'
  BY <1>3, <1>p, PlaceFile DEF Start, Launch, Places, bodyVars, Forming
<1>4. ASSUME NEW j \in Job, Body(j) PROVE FileInv'
  <2>n. pc[j] \in {"snapshot", "write"} => Target(j) \in Name
    BY DEF ListInv, Target, At
  <2>1. CASE MakeDir(j) BY <2>1, <1>p, PlaceFile DEF MakeDir, Places, bodyVars, Forming
  <2>2. CASE Visit(j)
    <3>1. CASE Target(j) \in Snapshots
      BY <2>2, <3>1, <1>p, PlaceFile DEF Visit, Places, Forming
    <3>2. CASE Target(j) \notin Snapshots
      <4>1. /\ Entered(j, "skipped", {}) /\ UNCHANGED <<targets, kept, held, diskVars>>
            /\ pc[j] = "target" /\ pc' = pc
        BY <2>2, <3>2 DEF Visit
      <4>2. pc' = [pc EXCEPT ![j] = "target"] /\ pc[j] \in Forming
        BY <4>1, <1>t, <1>p DEF Forming
      <4>3. Target(j) \in Name
        BY <2>2 DEF Visit, Remaining, ListInv, Target, At
      <4>4. "skipped" \in {"ok", "partial", "error", "skipped"} /\ {} \in SUBSET Artifact
        OBVIOUS
      <4> QED BY <4>1, <4>2, <4>3, <4>4, EnterFile, Zenon
    <3> QED BY <3>1, <3>2
  <2>3. CASE SnapshotFails(j)
    <3>1. /\ Entered(j, "error", {}) /\ UNCHANGED <<targets, kept, held, diskVars>>
          /\ pc[j] \in Forming /\ pc' = [pc EXCEPT ![j] = "target"] /\ Target(j) \in Name
      BY <2>3, <2>n DEF SnapshotFails, Forming
    <3>2. "error" \in {"ok", "partial", "error", "skipped"} /\ {} \in SUBSET Artifact
      OBVIOUS
    <3> QED BY <3>1, <3>2, EnterFile, Zenon
  <2>4. CASE SnapshotTaken(j)
    <3>1. /\ UNCHANGED <<targets, entries, held, diskVars>>
          /\ kept' = [kept EXCEPT ![j] = {}]
          /\ pc[j] = "snapshot" /\ pc' = [pc EXCEPT ![j] = "write"]
      BY <2>4 DEF SnapshotTaken
    <3>2. /\ kept'[j] = {} /\ \A k \in Job : k # j => kept'[k] = kept[k]
          /\ \A k \in Job : pc'[k] = IF k = j THEN "write" ELSE pc[k]
      BY <3>1, <1>t, <1>p DEF ListInv
    <3>3. \A k \in Job : Target(k)' = Target(k)
      BY <3>1 DEF Target, At
    <3>4. \A k \in Job : pc'[k] = "write" =>
            \A a \in kept'[k] : File(k, Target(k)', a, held'[k]) \in blobs'
      BY <3>1, <3>2, <3>3 DEF FileInv, diskVars
    <3> QED BY <3>1, <3>2, <3>4 DEF FileInv, Listed, Forming, diskVars
  <2>5. CASE WriteArtifact(j) BY <2>5, WriteFile
  <2>6. CASE EntryDone(j)
    <3>1. PICK status \in {"ok", "partial", "error", "skipped"} : Entered(j, status, kept[j])
      BY <2>6 DEF EntryDone
    <3>2. /\ UNCHANGED <<targets, kept, held, diskVars>> /\ kept[j] \in SUBSET Artifact
          /\ pc[j] = "write" /\ pc[j] \in Forming /\ pc' = [pc EXCEPT ![j] = "target"]
          /\ Target(j) \in Name
      BY <2>6, <2>n DEF EntryDone, Forming, ListInv
    <3>3. \A a \in kept[j] : File(j, Target(j), a, held[j]) \in blobs
      BY <3>2 DEF FileInv
    <3> QED BY <3>1, <3>2, <3>3, EnterFile, Zenon
  <2>7. CASE LoopEnds(j) BY <2>7, <1>p, PlaceFile DEF LoopEnds, Places, bodyVars, Forming
  <2>8. CASE WriteManifest(j) BY <2>8, ManifestFile
  <2>9. CASE WriteRestore(j)
    BY <2>9, <1>p, PlaceFile DEF WriteRestore, Ended, Places, bodyVars, Forming
  <2>10. CASE WriteFails(j)
    BY <2>10, <1>p, PlaceFile DEF WriteFails, Ended, Places, bodyVars, Forming
  <2> QED BY <1>4, <2>1, <2>2, <2>3, <2>4, <2>5, <2>6, <2>7, <2>8, <2>9, <2>10 DEF Body
<1>5. ASSUME NEW p \in Process, KeyStep(p) PROVE FileInv'
  BY <1>5, KeyFile
<1>6. ASSUME NEW d \in Download, Serve(d) \/ \E j \in Job : Ask(d, j) PROVE FileInv'
  <2>1. UNCHANGED <<targets, entries, kept, held, diskVars>>
    BY <1>6 DEF Serve, Ask, bodyVars
  <2>2. \E s \in {"key", "served", "refused"} : pc' = [pc EXCEPT ![d] = s]
    BY <1>6 DEF Serve, Ask
  <2> QED BY <2>1, <2>2, <1>p, PlaceFile DEF Places
<1>7. CASE Restart
  <2>1. /\ UNCHANGED <<targets, entries, kept, held, diskVars>>
        /\ \A j \in Job : pc'[j] \in {pc[j], "end"} /\ pc'[j] \in {"new", "end", "served", "refused"}
    BY <1>7, <1>p DEF Restart, bodyVars
  <2> QED BY <2>1 DEF FileInv, Listed, Forming, diskVars
<1> QED
  BY <1>1, <1>2, <1>3, <1>4, <1>5, <1>6, <1>7 DEF Next, OtherUpdate

\* What is listed is whole: every file its manifest names is on disk, all of
\* them under one key, whatever failed or died while it, or another, was formed
\* (property ListedIsWhole).
THEOREM ListedSkeletonsAreWhole == Spec => []ListedIsWhole
<1>1. Init => KeyInv /\ ListInv /\ FileInv
  BY KeyInvInit, ListInvInit, FileInvInit
<1>2. KeyInv /\ ListInv /\ FileInv /\ [Next]_vars => (KeyInv /\ ListInv /\ FileInv)'
  BY KeyInvStep, ListInvStep, FileInvStep
<1>3. ListInv /\ FileInv => ListedIsWhole
  <2> SUFFICES ASSUME ListInv, FileInv, NEW j \in Job, Listed(j)
               PROVE  \E k \in Key : Files(j, k) \subseteq blobs
    BY DEF ListedIsWhole
  <2>1. PICK k \in Key : OnDisk(j, manifest[j], k, blobs)
    BY DEF FileInv
  <2>2. manifest[j] \in Seq(Entry)
    BY DEF ListInv, Listed
  <2>3. Files(j, k) \subseteq blobs
    <3>1. \A i \in DOMAIN manifest[j] : \A a \in manifest[j][i].artifacts :
            File(j, manifest[j][i].name, a, k) \in blobs
      BY <2>1, <2>2 DEF OnDisk
    <3>2. \A e \in Range(manifest[j]) : \A a \in e.artifacts : File(j, e.name, a, k) \in blobs
      BY <3>1 DEF Range
    <3>3. ASSUME NEW f \in Files(j, k) PROVE f \in blobs
      <4>1. PICK e \in Range(manifest[j]) :
              f \in {[skeleton |-> j, target |-> e.name, artifact |-> a, key |-> k] : a \in e.artifacts}
        BY <3>3 DEF Files
      <4>2. PICK a \in e.artifacts : f = File(j, e.name, a, k)
        BY <4>1 DEF File
      <4> QED BY <3>2, <4>2
    <3> QED BY <3>3
  <2> QED BY <2>3
<1> QED BY <1>1, <1>2, <1>3, PTL DEF Spec

-----------------------------------------------------------------------------

Reports == [status : {"running", "done", "failed"}, progress : [done : Nat, total : Nat]]

\* A job at work has a report, which has counted every entry once the loop is
\* over; a job reported done is over and its manifest is the one of its entries.
DoneInv ==
  /\ report \in [Job -> Reports \cup {None}]
  /\ \A j \in Job : Alive(j) => report[j] \in Reports /\ report[j].status = "running"
  /\ \A j \in Job : pc[j] \in {"manifest", "restore"} =>
       /\ report[j].progress.done = Len(entries[j])
       /\ report[j].progress.total = Len(entries[j])
  /\ \A j \in Job : pc[j] = "restore" => manifest[j] = entries[j]
  /\ \A j \in Job : report[j] # None /\ report[j].status = "done" =>
       /\ pc[j] = "end" /\ manifest[j] \in Seq(Entry)
       /\ report[j].progress.done = Len(manifest[j])
       /\ report[j].progress.total = Len(manifest[j])

LEMMA DoneInvInit == Init => DoneInv
<1> SUFFICES ASSUME Init PROVE DoneInv
  OBVIOUS
<1>1. /\ report \in [Job -> Reports \cup {None}]
      /\ \A j \in Job : pc[j] = "new" /\ report[j] = None
  BY DEF Init, Process
<1> QED BY <1>1 DEF DoneInv, Alive, Init

\* A step that ends no job and reports nothing.
LEMMA PlaceDone ==
  ASSUME ListInv, DoneInv, NEW p \in Process, NEW s \in Places,
         pc' = [pc EXCEPT ![p] = s], UNCHANGED <<report, entries, manifest>>,
         s \notin {"manifest", "restore"},
         p \in Job => Alive(p)
  PROVE  DoneInv'
<1>1. \A j \in Job : pc'[j] = IF j = p THEN s ELSE pc[j]
  BY DEF ListInv, Process
<1>2. \A j \in Job : Alive(j)' => Alive(j)
  BY <1>1 DEF Alive
<1>3. \A j \in Job : pc[j] = "end" => j # p /\ pc'[j] = "end"
  BY <1>1 DEF Alive
<1> QED BY <1>1, <1>2, <1>3 DEF DoneInv

\* A job ends, and is done only if all it counted is in its manifest.
LEMMA EndDone ==
  ASSUME ListInv, DoneInv, NEW j \in Job, Alive(j), NEW status \in {"done", "failed"},
         Ended(j, status), UNCHANGED <<entries, manifest>>,
         status = "done" => pc[j] = "restore"
  PROVE  DoneInv'
<1> DEFINE r == [report[j] EXCEPT !.status = status]
<1>1. \A k \in Job : pc'[k] = IF k = j THEN "end" ELSE pc[k]
  BY DEF ListInv, Process, Ended
<1>2. report[j] \in Reports
  BY DEF DoneInv
<1>3. r \in Reports /\ r.status = status /\ r.progress = report[j].progress
  BY <1>2 DEF Reports
<1>4. report' = [report EXCEPT ![j] = r]
  BY DEF Ended
<1> HIDE DEF r
<1>5. /\ report' \in [Job -> Reports \cup {None}] /\ report'[j] = r
      /\ \A k \in Job : k # j => report'[k] = report[k]
  BY <1>3, <1>4 DEF DoneInv
<1>6. \A k \in Job : Alive(k)' => k # j /\ Alive(k)
  BY <1>1 DEF Alive
<1>7. status = "done" =>
        /\ manifest[j] \in Seq(Entry)
        /\ report[j].progress.done = Len(manifest[j])
        /\ report[j].progress.total = Len(manifest[j])
  BY DEF DoneInv, ListInv
<1>8. \A k \in Job : k # j /\ report'[k] # None /\ report'[k].status = "done" =>
       /\ pc'[k] = "end" /\ manifest[k] \in Seq(Entry)
       /\ report'[k].progress.done = Len(manifest[k])
       /\ report'[k].progress.total = Len(manifest[k])
  BY <1>1, <1>5 DEF DoneInv
<1>9. \A k \in Job : report'[k] # None /\ report'[k].status = "done" =>
       /\ pc'[k] = "end" /\ manifest'[k] \in Seq(Entry)
       /\ report'[k].progress.done = Len(manifest'[k])
       /\ report'[k].progress.total = Len(manifest'[k])
  BY <1>1, <1>3, <1>5, <1>7, <1>8
<1>10. \A k \in Job : pc'[k] \in {"manifest", "restore"} =>
         k # j /\ pc[k] \in {"manifest", "restore"} /\ pc'[k] = pc[k] /\ report'[k] = report[k]
  BY <1>1, <1>5
<1> QED BY <1>1, <1>5, <1>6, <1>9, <1>10 DEF DoneInv

\* What a job at work reports is never that it is done.
LEMMA ToldDone ==
  ASSUME ListInv, DoneInv, NEW j \in Job, Alive(j), NEW n \in Nat,
         Told(j, n), UNCHANGED manifest
  PROVE  /\ report' \in [Job -> Reports \cup {None}]
         /\ report'[j] \in Reports /\ report'[j].status = "running"
         /\ report'[j].progress.done = n /\ report'[j].progress.total = Len(targets)
         /\ \A k \in Job : k # j => report'[k] = report[k]
<1> DEFINE r == [report[j] EXCEPT !.progress = Progress(j, n)]
<1>1. report[j] \in Reports /\ report[j].status = "running"
  BY DEF DoneInv
<1>2. Progress(j, n) \in [done : Nat, total : Nat]
      /\ Progress(j, n).done = n /\ Progress(j, n).total = Len(targets)
  BY DEF Progress, ListInv
<1>3. r \in Reports /\ r.status = "running" /\ r.progress = Progress(j, n)
  BY <1>1, <1>2 DEF Reports
<1>4. report' = [report EXCEPT ![j] = r]
  BY DEF Told
<1> HIDE DEF r
<1> QED BY <1>2, <1>3, <1>4 DEF DoneInv

\* A job at work goes on in its loop, or leaves it with everything counted.
LEMMA LoopDone ==
  ASSUME ListInv, DoneInv, NEW j \in Job, Alive(j), NEW s \in Places,
         pc' = [pc EXCEPT ![j] = s], UNCHANGED manifest,
         \A k \in Job : k # j => entries'[k] = entries[k] /\ report'[k] = report[k],
         report' \in [Job -> Reports \cup {None}],
         report'[j] \in Reports, report'[j].status = "running",
         s # "restore",
         s = "manifest" => /\ report'[j].progress.done = Len(entries'[j])
                           /\ report'[j].progress.total = Len(entries'[j])
  PROVE  DoneInv'
<1>1. \A k \in Job : pc'[k] = IF k = j THEN s ELSE pc[k]
  BY DEF ListInv, Process
<1>2. \A k \in Job : k # j /\ Alive(k)' => Alive(k)
  BY <1>1 DEF Alive
<1>3. \A k \in Job : Alive(k)' => report'[k] \in Reports /\ report'[k].status = "running"
  BY <1>2 DEF DoneInv
<1>4. \A k \in Job : report'[k] # None /\ report'[k].status = "done" =>
       /\ pc'[k] = "end" /\ manifest'[k] \in Seq(Entry)
       /\ report'[k].progress.done = Len(manifest'[k])
       /\ report'[k].progress.total = Len(manifest'[k])
  BY <1>1 DEF DoneInv
<1>5. \A k \in Job : pc'[k] \in {"manifest", "restore"} =>
       /\ report'[k].progress.done = Len(entries'[k])
       /\ report'[k].progress.total = Len(entries'[k])
  BY <1>1 DEF DoneInv
<1> QED BY <1>1, <1>3, <1>4, <1>5 DEF DoneInv

LEMMA DoneInvStep == ListInv /\ DoneInv /\ [Next]_vars => DoneInv'
<1> SUFFICES ASSUME ListInv, DoneInv, [Next]_vars PROVE DoneInv'
  OBVIOUS
<1>p. Job \subseteq Process /\ Download \subseteq Process /\ Job \cap Download = {}
  BY SkeletonAssumption DEF Process
<1>t. pc \in [Process -> Places]
  BY DEF ListInv
<1>r. \A j \in Job : Alive(j) => report[j] \in Reports /\ report[j].status = "running"
  BY DEF DoneInv
<1>y. report \in [Job -> Reports \cup {None}]
  BY DEF DoneInv
<1>1. ASSUME (\E n \in Name : Register(n)) \/ OtherUpdate \/ UNCHANGED vars PROVE DoneInv'
  <2>1. UNCHANGED <<pc, report, entries, manifest>>
    BY <1>1 DEF Register, OtherUpdate, OtherSeal, OtherWriteKeyless, OtherWrite, vars, jobVars, bodyVars, diskVars
  <2> QED BY <2>1 DEF DoneInv, Alive
<1>2. ASSUME NEW j \in Job, Start(j) PROVE DoneInv'
  <2> DEFINE r == [status |-> "running", progress |-> [done |-> 0, total |-> Len(targets)]]
  <2>1. r \in Reports /\ r.status = "running"
    BY DEF Reports, ListInv
  <2>2. /\ report' = [report EXCEPT ![j] = r] /\ pc' = [pc EXCEPT ![j] = "key"] /\ pc[j] = "new"
        /\ UNCHANGED <<entries, manifest>>
    BY <1>2 DEF Start, Launch, bodyVars, diskVars
  <2> HIDE DEF r
  <2>3. /\ report' \in [Job -> Reports \cup {None}] /\ report'[j] = r
        /\ \A k \in Job : k # j => report'[k] = report[k]
        /\ \A k \in Job : pc'[k] = IF k = j THEN "key" ELSE pc[k]
    BY <2>1, <2>2, <1>t, <1>p, <1>y
  <2>4. \A k \in Job : k # j /\ Alive(k)' => Alive(k)
    BY <2>3 DEF Alive
  <2>5. \A k \in Job : Alive(k)' => report'[k] \in Reports /\ report'[k].status = "running"
    BY <2>1, <2>3, <2>4, <1>r
  <2>6. \A k \in Job : report'[k] # None /\ report'[k].status = "done" =>
         /\ pc'[k] = "end" /\ manifest'[k] \in Seq(Entry)
         /\ report'[k].progress.done = Len(manifest'[k])
         /\ report'[k].progress.total = Len(manifest'[k])
    BY <2>1, <2>2, <2>3 DEF DoneInv
  <2> QED BY <2>2, <2>3, <2>5, <2>6 DEF DoneInv
<1>3. ASSUME NEW j \in Job, Body(j) PROVE DoneInv'
  <2>a. Alive(j)
    BY <1>3 DEF Body, MakeDir, Visit, SnapshotFails, SnapshotTaken, WriteArtifact, EntryDone,
                LoopEnds, WriteManifest, WriteRestore, WriteFails, Alive
  <2>e. entries \in [Job -> Seq(Entry)] /\ Len(targets) \in Nat
        /\ \A k \in Job : Len(entries[k]) \in Nat
    BY DEF ListInv
  <2>1. CASE MakeDir(j)
    BY <2>1, <2>a, <1>p, PlaceDone DEF MakeDir, Places, jobVars, bodyVars, diskVars
  <2>2. CASE Visit(j)
    <3>1. /\ Told(j, At(j) - 1) /\ UNCHANGED manifest /\ At(j) - 1 \in Nat /\ pc[j] = "target"
      BY <2>2, <2>e DEF Visit, diskVars, At
    <3>2. \A k \in Job : k # j => entries'[k] = entries[k]
      BY <2>2, <2>e DEF Visit, Entered
    <3>3. \E s \in {"target", "snapshot"} : pc' = [pc EXCEPT ![j] = s]
      <4>1. CASE Target(j) \in Snapshots BY <2>2, <4>1 DEF Visit
      <4>2. CASE Target(j) \notin Snapshots BY <2>2, <3>1, <4>2, <1>t, <1>p DEF Visit
      <4> QED BY <4>1, <4>2
    <3>4. /\ report' \in [Job -> Reports \cup {None}]
          /\ report'[j] \in Reports /\ report'[j].status = "running"
          /\ \A k \in Job : k # j => report'[k] = report[k]
      BY <3>1, <2>a, ToldDone
    <3> QED BY <3>1, <3>2, <3>3, <3>4, <2>a, LoopDone DEF Places
  <2>3. CASE SnapshotFails(j) \/ EntryDone(j)
    <3>1. /\ UNCHANGED <<report, manifest>> /\ pc' = [pc EXCEPT ![j] = "target"]
      BY <2>3 DEF SnapshotFails, EntryDone, jobVars, diskVars
    <3>2. \A k \in Job : k # j => entries'[k] = entries[k]
      BY <2>3, <2>e DEF SnapshotFails, EntryDone, Entered
    <3> QED BY <3>1, <3>2, <2>a, <1>r, <1>y, LoopDone DEF Places
  <2>4. CASE SnapshotTaken(j)
    BY <2>4, <2>a, <1>p, PlaceDone DEF SnapshotTaken, Places, jobVars, diskVars
  <2>5. CASE WriteArtifact(j)
    BY <2>5 DEF WriteArtifact, jobVars, DoneInv, Alive
  <2>6. CASE LoopEnds(j)
    <3>1. /\ Told(j, Len(targets)) /\ UNCHANGED <<entries, manifest>>
          /\ pc' = [pc EXCEPT ![j] = "manifest"]
      BY <2>6 DEF LoopEnds, bodyVars, diskVars
    <3>2. Len(entries[j]) = Len(targets)
      <4>1. ~(Len(entries[j]) + 1 <= Len(targets)) /\ Len(entries[j]) <= Len(targets)
        BY <2>6 DEF LoopEnds, Remaining, At, ListInv
      <4> QED BY <4>1, <2>e
    <3>3. /\ report' \in [Job -> Reports \cup {None}]
          /\ report'[j] \in Reports /\ report'[j].status = "running"
          /\ report'[j].progress.done = Len(entries'[j])
          /\ report'[j].progress.total = Len(entries'[j])
          /\ \A k \in Job : k # j => report'[k] = report[k]
      BY <3>1, <3>2, <2>a, <2>e, ToldDone
    <3> QED BY <3>1, <3>3, <2>a, LoopDone DEF Places
  <2>7. CASE WriteManifest(j)
    <3>1. /\ manifest' = [manifest EXCEPT ![j] = entries[j]] /\ pc[j] = "manifest"
          /\ pc' = [pc EXCEPT ![j] = "restore"] /\ UNCHANGED <<report, entries>>
      BY <2>7 DEF WriteManifest, jobVars, bodyVars
    <3>2. /\ manifest'[j] = entries[j] /\ \A k \in Job : k # j => manifest'[k] = manifest[k]
          /\ \A k \in Job : pc'[k] = IF k = j THEN "restore" ELSE pc[k]
      BY <3>1, <1>t, <1>p DEF ListInv
    <3>3. \A k \in Job : Alive(k)' => Alive(k)
      BY <3>1, <3>2 DEF Alive
    <3>4. \A k \in Job : report[k] # None /\ report[k].status = "done" => k # j
      BY <3>1 DEF DoneInv
    <3> QED BY <3>1, <3>2, <3>3, <3>4 DEF DoneInv
  <2>8. CASE WriteRestore(j)
    <3>1. Ended(j, "done") /\ pc[j] = "restore" /\ UNCHANGED <<entries, manifest>>
      BY <2>8 DEF WriteRestore, bodyVars, diskVars
    <3> QED BY <3>1, <2>a, EndDone
  <2>9. CASE WriteFails(j)
    <3>1. Ended(j, "failed") /\ UNCHANGED <<entries, manifest>>
      BY <2>9 DEF WriteFails, bodyVars, diskVars
    <3> QED BY <3>1, <2>a, EndDone
  <2> QED BY <1>3, <2>1, <2>2, <2>3, <2>4, <2>5, <2>6, <2>7, <2>8, <2>9 DEF Body
<1>4. ASSUME NEW p \in Process, KeyStep(p) PROVE DoneInv'
  <2>a. After(p) \in Places \ {"manifest", "restore"}
    BY DEF After, Places
  <2>k. pc[p] \in {"key", "persist"} /\ (p \in Job => Alive(p))
        /\ UNCHANGED <<entries, manifest>>
    BY <1>4 DEF KeyStep, GetKey, KeyPersisted, KeyRejected, Unwritten, Alive, bodyVars, diskVars
  <2>1. CASE GetKey(p)
    <3>1. UNCHANGED report /\ \E s \in Places \ {"manifest", "restore"} : pc' = [pc EXCEPT ![p] = s]
      BY <2>1, <2>a DEF GetKey, Generate, Use, jobVars, Places
    <3> QED BY <3>1, <2>k, PlaceDone
  <2>2. CASE KeyPersisted(p)
    <3>1. UNCHANGED report /\ pc' = [pc EXCEPT ![p] = After(p)]
      BY <2>2 DEF KeyPersisted, jobVars
    <3> QED BY <3>1, <2>a, <2>k, PlaceDone
  <2>3. CASE KeyRejected(p)
    <3>1. CASE p \in Job
      <4>1. Ended(p, "failed")
        BY <2>3, <3>1 DEF KeyRejected, Unwritten
      <4> QED BY <4>1, <3>1, <2>k, EndDone
    <3>2. CASE p \notin Job
      <4>1. UNCHANGED report /\ pc' = [pc EXCEPT ![p] = "refused"]
        BY <2>3, <3>2 DEF KeyRejected, Unwritten, jobVars
      <4> QED BY <4>1, <3>2, <2>k, PlaceDone DEF Places
    <3> QED BY <3>1, <3>2
  <2> QED BY <1>4, <2>1, <2>2, <2>3 DEF KeyStep
<1>5. ASSUME NEW d \in Download, Serve(d) \/ \E j \in Job : Ask(d, j) PROVE DoneInv'
  <2>1. UNCHANGED <<report, entries, manifest>>
    BY <1>5 DEF Serve, Ask, jobVars, bodyVars, diskVars
  <2>2. \E s \in {"key", "served", "refused"} : pc' = [pc EXCEPT ![d] = s]
    BY <1>5 DEF Serve, Ask
  <2> QED BY <2>1, <2>2, <1>p, PlaceDone DEF Places
<1>6. CASE Restart
  <2>1. /\ report' = [j \in Job |-> None]
        /\ \A j \in Job : pc'[j] \in {"new", "end", "served", "refused"}
    BY <1>6, <1>p DEF Restart
  <2> QED BY <2>1 DEF DoneInv, Alive
<1> QED
  BY <1>1, <1>2, <1>3, <1>4, <1>5, <1>6 DEF Next, OtherUpdate

\* A job that is reported done has its skeleton listed, with an entry for each
\* target its report counts (property DoneMeansListed).
THEOREM DoneIsListed == Spec => []DoneMeansListed
<1>1. Init => ListInv /\ DoneInv
  BY ListInvInit, DoneInvInit
<1>2. ListInv /\ DoneInv /\ [Next]_vars => (ListInv /\ DoneInv)'
  BY ListInvStep, DoneInvStep
<1>3. DoneInv => DoneMeansListed
  BY NoManifestAssumption DEF DoneInv, DoneMeansListed, Listed
<1> QED BY <1>1, <1>2, <1>3, PTL DEF Spec
=============================================================================

------------------------------ MODULE Skeletons ------------------------------
(***************************************************************************)
(* Disaster-recovery skeletons: the background jobs of src/src/snapshots/  *)
(* jobs.ts, the snapshot each of them takes (formSkeleton of               *)
(* snapshot-service.ts), the key its artifacts are encrypted under         *)
(* (crypto.ts, held in the bootstrap store) and the downloads that decrypt *)
(* them.  Targets register while a job is under way (config/registry.ts).  *)
(*                                                                         *)
(* A job loops over the registry's own array, which grows under it; each   *)
(* action ends at an await.  An artifact file, a manifest and the store    *)
(* are replaced whole (module AtomicFile), so a write happens or fails.    *)
(* A loop iteration without an await is a step of its own here: that only  *)
(* adds interleavings.  Artifact names within a target are distinct.       *)
(***************************************************************************)
EXTENDS Naturals, Sequences, FiniteSets, Functions

CONSTANTS
  Name,           \* names of targets
  Snapshots,      \* the targets whose connector has a snapshot()
  Artifact,       \* names of artifacts
  MaxJobs,        \* jobs ever started (a bound)
  Download,       \* downloads, each made at most once (a bound)
  Key,            \* keys the generator may return
  MaxJobHistory,  \* MAX_JOB_HISTORY
  MaxRestarts,    \* process deaths (a bound)
  None

Job == 1 .. MaxJobs

ASSUME SkeletonAssumption ==
  /\ Snapshots \subseteq Name
  /\ MaxJobs \in Nat /\ MaxJobHistory \in Nat \ {0} /\ MaxRestarts \in Nat
  /\ Download \cap Job = {} /\ None \notin Key \cup Job

VARIABLES
  targets,   \* the registry's array
  running,   \* the job of reg.running, or None
  jobs,      \* the ids of reg.jobs, newest last
  report,    \* what a job's record says: its status and its progress
  pc,        \* where a job or a download stands
  held,      \* the key it works with
  entries,   \* a job's manifest so far
  left,      \* the artifacts of the current target a job has yet to write
  kept,      \* those it has written
  skipped,   \* whether an artifact of the current target was left out
  blobs,     \* the encrypted files on disk
  manifest,  \* the manifest of each skeleton on disk, or None
  want,      \* the skeleton a download is for
  memKey,    \* snapshotKey in the unlocked store
  diskKey,   \* snapshotKey in the store's file
  keyless,   \* whether a payload sealed without a snapshotKey is being written
  minted,    \* the keys generated so far
  restarts

keyVars == <<memKey, diskKey, minted>>
storeVars == <<keyVars, keyless>>
diskVars == <<blobs, manifest>>
bodyVars == <<entries, left, kept, skipped>>
jobVars == <<running, jobs, report>>
vars == <<targets, jobVars, pc, held, bodyVars, diskVars, want, storeVars, restarts>>

Process == Job \cup Download

Alive(j) == pc[j] \in {"key", "persist", "dir", "target", "snapshot", "write", "manifest", "restore"}

\* The target a job is at: entries are added one per target, in order.
At(j) == Len(entries[j]) + 1
Target(j) == targets[At(j)]

\* Mutant: the total is the one of the job's start.
ProgressStale(j, n) == [done |-> n, total |-> report[j].progress.total]

Progress(j, n) == [done |-> n, total |-> Len(targets)]

\* Mutant: the loop runs over a copy of the array.
RemainingOfCopy(j) == At(j) <= report[j].progress.total

\* for (const [i, target] of all.entries()): the array itself is asked.
Remaining(j) == At(j) <= Len(targets)

Init ==
  /\ targets \in {<<>>} \cup {<<n>> : n \in Name}
  /\ running = None /\ jobs = <<>>
  /\ report = [j \in Job |-> None]
  /\ pc = [p \in Process |-> "new"]
  /\ held = [p \in Process |-> None]
  /\ entries = [j \in Job |-> <<>>]
  /\ left = [j \in Job |-> {}] /\ kept = [j \in Job |-> {}] /\ skipped = [j \in Job |-> FALSE]
  /\ blobs = {} /\ manifest = [j \in Job |-> None]
  /\ want = [d \in Download |-> None]
  /\ memKey = None /\ diskKey = None /\ minted = {} /\ keyless = FALSE
  /\ restarts = 0

-----------------------------------------------------------------------------
(* The registry and the store.                                             *)

\* upsert() of a new target; one of a known name changes no name.
Register(n) ==
  /\ n \notin Range(targets)
  /\ targets' = Append(targets, n)
  /\ UNCHANGED <<jobVars, pc, held, bodyVars, diskVars, want, storeVars, restarts>>

\* Any other update of the store writes the whole payload, the key included.  It
\* seals what memory has before its awaits: here, while there is no key.
OtherSeal ==
  /\ memKey = None /\ ~keyless
  /\ keyless' = TRUE
  /\ UNCHANGED <<targets, jobVars, pc, held, bodyVars, diskVars, want, keyVars, restarts>>

\* What one such update sealed is in the file, or its write fails; more of them
\* may be on their way.
OtherWriteKeyless ==
  /\ keyless
  /\ diskKey' \in {None, diskKey}
  /\ keyless' \in BOOLEAN
  /\ UNCHANGED <<targets, jobVars, pc, held, bodyVars, diskVars, want, memKey, minted, restarts>>

\* An update that was sealed with the key: memory has it still.
OtherWrite ==
  /\ memKey \notin {None, diskKey}
  /\ diskKey' = memKey
  /\ UNCHANGED <<targets, jobVars, pc, held, bodyVars, diskVars, want, memKey, minted, keyless, restarts>>

-----------------------------------------------------------------------------
(* Jobs.                                                                    *)

\* Mutant: only a success clears the registry.
EndedIfDone(j, status) ==
  /\ report' = [report EXCEPT ![j].status = status]
  /\ running' = IF status = "done" THEN None ELSE running
  /\ pc' = [pc EXCEPT ![j] = "end"]
  /\ UNCHANGED jobs

\* A finished job is reported and the registry forgets that it runs.
Ended(j, status) ==
  /\ report' = [report EXCEPT ![j].status = status]
  /\ running' = None
  /\ pc' = [pc EXCEPT ![j] = "end"]
  /\ UNCHANGED jobs

Launch(j) ==
  /\ pc[j] = "new" /\ \A k \in 1 .. j - 1 : pc[k] # "new"
  /\ running' = j
  /\ jobs' = LET all == Append(jobs, j) IN
             SubSeq(all, 1 + (IF Len(all) > MaxJobHistory THEN Len(all) - MaxJobHistory ELSE 0), Len(all))
  /\ report' = [report EXCEPT ![j] = [status |-> "running", progress |-> [done |-> 0, total |-> Len(targets)]]]
  /\ pc' = [pc EXCEPT ![j] = "key"]
  /\ UNCHANGED <<targets, held, bodyVars, diskVars, want, storeVars, restarts>>

\* Mutant: every start launches a job.
StartAlways(j) == Launch(j)

\* startSkeletonJob(): a start while one runs is answered with that one.
Start(j) == running = None /\ Launch(j)

\* The snapshot directory is made and the list taken.
MakeDir(j) ==
  /\ pc[j] = "dir"
  /\ pc' = [pc EXCEPT ![j] = "target"]
  /\ UNCHANGED <<targets, jobVars, held, bodyVars, diskVars, want, storeVars, restarts>>

\* The manifest so far grows by the entry of the current target.
Entered(j, status, arts) ==
  entries' = [entries EXCEPT ![j] = Append(@, [name |-> Target(j), status |-> status, artifacts |-> arts])]

Told(j, n) == report' = [report EXCEPT ![j].progress = Progress(j, n)]

Visit(j) ==
  /\ pc[j] = "target" /\ Remaining(j)
  /\ Told(j, At(j) - 1)
  /\ IF Target(j) \in Snapshots
       THEN pc' = [pc EXCEPT ![j] = "snapshot"] /\ UNCHANGED entries
       ELSE Entered(j, "skipped", {}) /\ UNCHANGED pc
  /\ UNCHANGED <<targets, running, jobs, held, left, kept, skipped, diskVars, want, storeVars, restarts>>

\* connector.snapshot() throws: the target's failure is its own.
SnapshotFails(j) ==
  /\ pc[j] = "snapshot"
  /\ Entered(j, "error", {})
  /\ pc' = [pc EXCEPT ![j] = "target"]
  /\ UNCHANGED <<targets, jobVars, held, left, kept, skipped, diskVars, want, storeVars, restarts>>

\* It returns artifacts; some may be over the cap or the name limit.
SnapshotTaken(j) ==
  /\ pc[j] = "snapshot"
  /\ \E a \in SUBSET Artifact, over \in BOOLEAN :
       left' = [left EXCEPT ![j] = a] /\ skipped' = [skipped EXCEPT ![j] = over]
  /\ kept' = [kept EXCEPT ![j] = {}]
  /\ pc' = [pc EXCEPT ![j] = "write"]
  /\ UNCHANGED <<targets, jobVars, held, entries, diskVars, want, storeVars, restarts>>

WriteArtifact(j) ==
  /\ pc[j] = "write"
  /\ \E a \in left[j] :
       /\ blobs' = blobs \cup {[skeleton |-> j, target |-> Target(j), artifact |-> a, key |-> held[j]]}
       /\ left' = [left EXCEPT ![j] = @ \ {a}]
       /\ kept' = [kept EXCEPT ![j] = @ \cup {a}]
  /\ UNCHANGED <<targets, jobVars, pc, held, entries, skipped, manifest, want, storeVars, restarts>>

EntryDone(j) ==
  /\ pc[j] = "write" /\ left[j] = {}
  /\ Entered(j, IF ~skipped[j] THEN "ok" ELSE IF kept[j] # {} THEN "partial" ELSE "error", kept[j])
  /\ pc' = [pc EXCEPT ![j] = "target"]
  /\ UNCHANGED <<targets, jobVars, held, left, kept, skipped, diskVars, want, storeVars, restarts>>

\* The loop is over: the last report, and the manifest is put together.
LoopEnds(j) ==
  /\ pc[j] = "target" /\ ~Remaining(j)
  /\ Told(j, Len(targets))
  /\ pc' = [pc EXCEPT ![j] = "manifest"]
  /\ UNCHANGED <<targets, running, jobs, held, bodyVars, diskVars, want, storeVars, restarts>>

WriteManifest(j) ==
  /\ pc[j] = "manifest"
  /\ manifest' = [manifest EXCEPT ![j] = entries[j]]
  /\ pc' = [pc EXCEPT ![j] = "restore"]
  /\ UNCHANGED <<targets, jobVars, held, bodyVars, blobs, want, storeVars, restarts>>

WriteRestore(j) ==
  /\ pc[j] = "restore"
  /\ Ended(j, "done")
  /\ UNCHANGED <<targets, held, bodyVars, diskVars, want, storeVars, restarts>>

\* Mutant: an artifact that cannot be written is entered all the same.
WriteFailsEntered(j) ==
  \/ /\ pc[j] = "write"
     /\ \E a \in left[j] :
          left' = [left EXCEPT ![j] = @ \ {a}] /\ kept' = [kept EXCEPT ![j] = @ \cup {a}]
     /\ UNCHANGED <<targets, jobVars, pc, held, entries, skipped, diskVars, want, storeVars, restarts>>
  \/ /\ pc[j] \in {"dir", "manifest", "restore"}
     /\ Ended(j, "failed")
     /\ UNCHANGED <<targets, held, bodyVars, diskVars, want, storeVars, restarts>>

\* A directory or file of the skeleton cannot be written: the job fails.
WriteFails(j) ==
  /\ pc[j] \in {"dir", "write", "manifest", "restore"}
  /\ Ended(j, "failed")
  /\ UNCHANGED <<targets, held, bodyVars, diskVars, want, storeVars, restarts>>

-----------------------------------------------------------------------------
(* The key: getOrCreateSnapshotKey(), for jobs and downloads.              *)

After(p) == IF p \in Job THEN "dir" ELSE "read"

Use(p, k, at) == held' = [held EXCEPT ![p] = k] /\ pc' = [pc EXCEPT ![p] = at]

\* update() merges a new key into the payload and then starts to write it.
Generate(p) ==
  \E k \in Key \ minted :
    /\ memKey' = k /\ minted' = minted \cup {k}
    /\ Use(p, k, "persist")
    /\ UNCHANGED diskKey

GetKey(p) ==
  /\ pc[p] = "key"
  /\ IF memKey # None THEN Use(p, memKey, After(p)) /\ UNCHANGED keyVars ELSE Generate(p)
  /\ UNCHANGED <<targets, jobVars, bodyVars, diskVars, want, keyless, restarts>>

KeyPersisted(p) ==
  /\ pc[p] = "persist"
  /\ diskKey' = held[p]
  /\ pc' = [pc EXCEPT ![p] = After(p)]
  /\ UNCHANGED <<targets, jobVars, held, bodyVars, diskVars, want, memKey, minted, keyless, restarts>>

\* The caller of an update whose write fails.
Unwritten(p) ==
  /\ pc[p] = "persist"
  /\ IF p \in Job THEN Ended(p, "failed") ELSE pc' = [pc EXCEPT ![p] = "refused"] /\ UNCHANGED jobVars

\* Mutant: the key is taken back, though another update may have written it.
KeyRejectedTakesBack(p) ==
  /\ Unwritten(p)
  /\ memKey' = None
  /\ UNCHANGED <<targets, held, bodyVars, diskVars, want, diskKey, minted, keyless, restarts>>

\* The write fails: the caller fails, and the key stays in memory.
KeyRejected(p) ==
  /\ Unwritten(p)
  /\ UNCHANGED <<targets, held, bodyVars, diskVars, want, storeVars, restarts>>

-----------------------------------------------------------------------------
(* Downloads: streamSkeletonTar().                                          *)

Listed(j) == manifest[j] # None

\* The encrypted files a manifest names, under key k.
Files(j, k) ==
  UNION {{[skeleton |-> j, target |-> e.name, artifact |-> a, key |-> k] : a \in e.artifacts} : e \in Range(manifest[j])}

Ask(d, j) ==
  /\ pc[d] = "new" /\ Listed(j)
  /\ want' = [want EXCEPT ![d] = j]
  /\ pc' = [pc EXCEPT ![d] = "key"]
  /\ UNCHANGED <<targets, jobVars, held, bodyVars, diskVars, storeVars, restarts>>

\* Every artifact is read and decrypted before a byte is sent.
Serve(d) ==
  /\ pc[d] = "read"
  /\ pc' = [pc EXCEPT ![d] = IF Files(want[d], held[d]) \subseteq blobs THEN "served" ELSE "refused"]
  /\ UNCHANGED <<targets, jobVars, held, bodyVars, diskVars, want, storeVars, restarts>>

-----------------------------------------------------------------------------

\* The process dies: jobs live in memory, the store is read again.
Restart ==
  /\ restarts < MaxRestarts
  /\ restarts' = restarts + 1
  /\ running' = None /\ jobs' = <<>>
  /\ report' = [j \in Job |-> None]
  /\ pc' = [p \in Process |-> IF pc[p] \in {"new", "end", "served", "refused"} THEN pc[p] ELSE "end"]
  /\ memKey' = diskKey /\ keyless' = FALSE
  /\ UNCHANGED <<targets, held, bodyVars, diskVars, want, diskKey, minted>>

Body(j) ==
  \/ MakeDir(j) \/ Visit(j) \/ SnapshotFails(j) \/ SnapshotTaken(j)
  \/ WriteArtifact(j) \/ EntryDone(j) \/ LoopEnds(j)
  \/ WriteManifest(j) \/ WriteRestore(j) \/ WriteFails(j)
KeyStep(p) == GetKey(p) \/ KeyPersisted(p) \/ KeyRejected(p)

Next ==
  \/ \E n \in Name : Register(n)
  \/ \E j \in Job : Start(j) \/ Body(j)
  \/ \E p \in Process : KeyStep(p)
  \/ \E d \in Download : Serve(d) \/ \E j \in Job : Ask(d, j)
  \/ OtherSeal \/ OtherWriteKeyless \/ OtherWrite \/ Restart

Spec == Init /\ [][Next]_vars

\* Every await of a job settles: files, the store, and the connectors, whose
\* requests have time-outs of their own.
FairSpec == Spec /\ \A j \in Job : WF_vars(Body(j) \/ KeyStep(j))

-----------------------------------------------------------------------------

Entry == [name : Name, status : {"ok", "partial", "error", "skipped"}, artifacts : SUBSET Artifact]

ASSUME NoManifestAssumption == None \notin Seq(Entry)

\* Types; the history is bounded and a report's counts are those of a prefix
\* of the registry.
TypeOK ==
  /\ Range(targets) \subseteq Name
  /\ running \in Job \cup {None}
  /\ Range(jobs) \subseteq Job /\ Len(jobs) <= MaxJobHistory
  /\ \A j \in Job : report[j] # None =>
       /\ report[j].status \in {"running", "done", "failed"}
       /\ report[j].progress.done <= report[j].progress.total
       /\ report[j].progress.total <= Len(targets)
  /\ \A j \in Job : Range(entries[j]) \subseteq Entry /\ (Listed(j) => Range(manifest[j]) \subseteq Entry)
  /\ \A j \in Job : left[j] \cup kept[j] \subseteq Artifact /\ skipped[j] \in BOOLEAN
  /\ blobs \subseteq [skeleton : Job, target : Name, artifact : Artifact, key : Key]
  /\ {memKey, diskKey} \subseteq minted \cup {None} /\ minted \subseteq Key
  /\ keyless \in BOOLEAN

\* jobs.ts:10-13, "Only ONE job runs at a time": whatever job is at work, a
\* start is answered with it and a status asked without an id reports it.
RunningReported == \A j \in Job : Alive(j) => running = j /\ jobs[Len(jobs)] = j

\* A skeleton that is listed has every file its manifest names, under one key,
\* whatever failed or died while it or another was formed (listSkeletons shows
\* what has a manifest; the manifest is written last).
ListedIsWhole == \A j \in Job : Listed(j) => \E k \in Key : Files(j, k) \subseteq blobs

\* snapshot-service.ts:108, "Snapshot every registered target": when a job puts
\* its manifest together, it has an entry for each target registered by then,
\* also those that registered while it ran, and none twice.
EveryTargetTold ==
  [][\A j \in Job : pc[j] # "manifest" /\ pc'[j] = "manifest" =>
       /\ {e.name : e \in Range(entries'[j])} = Range(targets)
       /\ Len(entries'[j]) = Cardinality(Range(targets))]_vars

\* A job reported done has its skeleton listed, with an entry for each target
\* its report counts.
DoneMeansListed ==
  \A j \in Job : report[j] # None /\ report[j].status = "done" =>
    /\ Listed(j)
    /\ report[j].progress.done = report[j].progress.total
    /\ report[j].progress.total = Len(manifest[j])

\* Once a key is in the store's file no other replaces it, whichever jobs and
\* downloads ask for one at once and whichever writes fail: it leaves the file
\* only with a payload that another update sealed before there was a key, and
\* that was overtaken on its way to the file.
Overtaken == keyless /\ diskKey' = None
KeyKept == [][diskKey # None => diskKey' = diskKey \/ Overtaken]_vars

\* A job that runs ends, in a success or a failure, and the next may start.
JobEnds == \A j \in Job : running = j ~> running # j

\* crypto.ts:8-10, the key is "held inside the (already-encrypted) bootstrap
\* store": every file of a listed skeleton is under the key the store has.
ListedOpens == \A j \in Job : Listed(j) => \A b \in blobs : b.skeleton = j => b.key \in {memKey, diskKey}
=============================================================================

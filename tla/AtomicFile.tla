----------------------------- MODULE AtomicFile -----------------------------
(***************************************************************************)
(* writeFileAtomic(file, data, mode) of src/src/lib/atomic-file.ts, system *)
(* call by system call: open(tmp, "w") -> write -> fsync -> close ->       *)
(* rename(tmp, file) -> best-effort fsync of the directory.                *)
(*                                                                         *)
(* Every call for one file uses the SAME temporary name, `${file}.tmp`, so *)
(* calls that overlap share an inode.  The model keeps the two directory   *)
(* entries (file, tmp) and, for every open descriptor, where its inode is  *)
(* linked now; a rename moves the inode under whoever still has it open.   *)
(*                                                                         *)
(* The module is both a specification of its own and the file under the    *)
(* modules that compose it (BootstrapStore), which run its actions.        *)
(***************************************************************************)
EXTENDS Integers

CONSTANTS
  Writer,   \* concurrent calls of writeFileAtomic for this file
  Data,     \* what may be written, as wholes
  Size(_),  \* length of a datum: a short write does not cover a long one
  NoData,   \* "no complete datum": an empty, truncated or mixed content
  IOFails,    \* whether the disk may refuse a call (full, read-only, error)
  PowerFails  \* whether the machine itself may die, not only the process

ASSUME NoDataAssumption == NoData \notin Data
ASSUME SizeAssumption == \A d \in Data : Size(d) \in Nat \ {0}
ASSUME FaultAssumption == IOFails \in BOOLEAN /\ PowerFails \in BOOLEAN

VARIABLES
  file,   \* content the file's name resolves to
  tmp,    \* content `${file}.tmp` resolves to
  prior,  \* contents the name may fall back to if the power fails now
  at,     \* at[w]: where the inode of w's descriptor is linked
  pc,     \* pc[w]: the next system call of w
  arg     \* arg[w]: the datum w is writing

vars == <<file, tmp, prior, at, pc, arg>>

Content == [data : Data \cup {NoData}, size : Int, synced : BOOLEAN]

Absent == [data |-> NoData, size |-> -1, synced |-> TRUE]
Empty == [data |-> NoData, size |-> 0, synced |-> FALSE]

\* A content a reader can use: one datum, all of it and nothing else.
Whole(c) == c.data # NoData /\ c.size = Size(c.data)

\* write(2) at offset 0: bytes of a longer earlier content stay behind.
Overwrite(c, d) ==
  [data |-> d, size |-> IF c.size > Size(d) THEN c.size ELSE Size(d), synced |-> FALSE]

\* A failed write(2): an unknown prefix of the datum reached the inode.
Spoil(c) == [data |-> NoData, size |-> c.size, synced |-> FALSE]

\* fsync(2), or a power loss after which only what is on disk exists.
Synced(c) == [data |-> c.data, size |-> c.size, synced |-> TRUE]

\* What is left of a content when the power fails.
Survivors(c) == IF c.synced THEN {c} ELSE {c, Empty}

Goto(w, from, to) == pc[w] = from /\ pc' = [pc EXCEPT ![w] = to]

\* Apply Op to the inode w has open, wherever it is linked now.
OnDescriptor(w, Op(_)) ==
  /\ tmp' = IF at[w] = "tmp" THEN Op(tmp) ELSE tmp
  /\ file' = IF at[w] = "file" THEN Op(file) ELSE file

\* Where an inode is linked after rename(tmp, file).
Relinked(link) ==
  IF link = "tmp" THEN "file" ELSE IF link = "file" THEN "gone" ELSE link

Init ==
  /\ file = Absent
  /\ tmp = Absent
  /\ prior = {}
  /\ at = [w \in Writer |-> "closed"]
  /\ pc = [w \in Writer |-> "idle"]
  /\ arg = [w \in Writer |-> NoData]

-----------------------------------------------------------------------------
(* The calls, in order.                                                    *)

Call(w, d) ==
  /\ Goto(w, "idle", "open")
  /\ arg' = [arg EXCEPT ![w] = d]
  /\ UNCHANGED <<file, tmp, prior, at>>

\* Mutant: the temporary file is opened without truncation.
OpenNoTruncate(w) ==
  /\ Goto(w, "open", "write")
  /\ tmp' = IF tmp = Absent THEN Empty ELSE tmp
  /\ at' = [at EXCEPT ![w] = "tmp"]
  /\ UNCHANGED <<file, prior, arg>>

\* "w" truncates a tmp that is there and creates one that is not.
Open(w) ==
  /\ Goto(w, "open", "write")
  /\ tmp' = Empty
  /\ at' = [at EXCEPT ![w] = "tmp"]
  /\ UNCHANGED <<file, prior, arg>>

Write(w) ==
  /\ Goto(w, "write", "sync")
  /\ OnDescriptor(w, LAMBDA c : Overwrite(c, arg[w]))
  /\ UNCHANGED <<prior, at, arg>>

\* Mutant: no fsync before the rename.
SyncSkipped(w) ==
  /\ Goto(w, "sync", "rename")
  /\ at' = [at EXCEPT ![w] = "closed"]
  /\ UNCHANGED <<file, tmp, prior, arg>>

Sync(w) ==
  /\ Goto(w, "sync", "rename")
  /\ OnDescriptor(w, Synced)
  /\ at' = [at EXCEPT ![w] = "closed"]
  /\ UNCHANGED <<prior, arg>>

Rename(w) ==
  /\ Goto(w, "rename", "syncDir")
  /\ tmp # Absent
  /\ file' = tmp
  /\ tmp' = Absent
  /\ prior' = IF PowerFails THEN prior \cup Survivors(file) ELSE {}
  /\ at' = [v \in Writer |-> Relinked(at[v])]
  /\ UNCHANGED arg

\* The directory fsync may be unsupported: the call resolves all the same.
Return(w) ==
  /\ Goto(w, "syncDir", "idle")
  /\ prior' \in {{}, prior}
  /\ arg' = [arg EXCEPT ![w] = NoData]
  /\ UNCHANGED <<file, tmp, at>>

-----------------------------------------------------------------------------
(* Errors: nothing is unlinked, the descriptor is closed, the call rejects.*)

OpenFails(w) ==
  /\ IOFails
  /\ Goto(w, "open", "throw")
  /\ UNCHANGED <<file, tmp, prior, at, arg>>

WriteFails(w) ==
  /\ IOFails
  /\ Goto(w, "write", "throw")
  /\ OnDescriptor(w, Spoil)
  /\ at' = [at EXCEPT ![w] = "closed"]
  /\ UNCHANGED <<prior, arg>>

\* Mutant: no finally, the descriptor leaks.
SyncFailsUnclosed(w) ==
  /\ IOFails
  /\ Goto(w, "sync", "throw")
  /\ UNCHANGED <<file, tmp, prior, at, arg>>

SyncFails(w) ==
  /\ IOFails
  /\ Goto(w, "sync", "throw")
  /\ at' = [at EXCEPT ![w] = "closed"]
  /\ UNCHANGED <<file, tmp, prior, arg>>

\* Mutant: a failed rename is swallowed like the directory sync's errors.
RenameFailsSilently(w) ==
  /\ IOFails \/ tmp = Absent
  /\ Goto(w, "rename", "syncDir")
  /\ UNCHANGED <<file, tmp, prior, at, arg>>

\* Mutant: a failed rename is retried from the start.
RenameFailsRetries(w) ==
  /\ IOFails \/ tmp = Absent
  /\ Goto(w, "rename", "open")
  /\ UNCHANGED <<file, tmp, prior, at, arg>>

\* ENOENT when another call renamed the shared tmp away, or an I/O error.
RenameFails(w) ==
  /\ IOFails \/ tmp = Absent
  /\ Goto(w, "rename", "throw")
  /\ UNCHANGED <<file, tmp, prior, at, arg>>

Throw(w) ==
  /\ Goto(w, "throw", "idle")
  /\ arg' = [arg EXCEPT ![w] = NoData]
  /\ UNCHANGED <<file, tmp, prior, at>>

\* The process dies: descriptors close, the page cache stays.
Crash ==
  /\ at' = [w \in Writer |-> "closed"]
  /\ pc' = [w \in Writer |-> "idle"]
  /\ arg' = [w \in Writer |-> NoData]
  /\ UNCHANGED <<file, tmp, prior>>

\* The machine dies: unsynced data and unsynced renames may be gone too.
PowerLoss ==
  /\ PowerFails
  /\ file' \in {Synced(c) : c \in prior \cup Survivors(file)}
  /\ tmp' \in {Absent} \cup {Synced(c) : c \in Survivors(tmp)}
  /\ prior' = {}
  /\ at' = [w \in Writer |-> "closed"]
  /\ pc' = [w \in Writer |-> "idle"]
  /\ arg' = [w \in Writer |-> NoData]

-----------------------------------------------------------------------------

\* The steps of a call that change neither the caller's state nor return.
Step(w) ==
  \/ Open(w) \/ Write(w) \/ Sync(w) \/ Rename(w)
  \/ OpenFails(w) \/ WriteFails(w) \/ SyncFails(w) \/ RenameFails(w)

Finish(w) == Return(w) \/ Throw(w)

Next ==
  \/ \E w \in Writer : (\E d \in Data : Call(w, d)) \/ Step(w) \/ Finish(w)
  \/ Crash
  \/ PowerLoss

Spec == Init /\ [][Next]_vars

\* Every system call the process has issued completes.
FairSpec == Spec /\ \A w \in Writer : WF_vars(Step(w) \/ Finish(w))

-----------------------------------------------------------------------------
(* Properties.                                                             *)

TypeOK ==
  /\ file \in Content /\ tmp \in Content
  /\ prior \subseteq Content
  /\ at \in [Writer -> {"closed", "tmp", "file", "gone"}]
  /\ pc \in [Writer -> {"idle", "open", "write", "sync", "rename", "syncDir", "throw"}]
  /\ arg \in [Writer -> Data \cup {NoData}]
  /\ \A w \in Writer :
       /\ arg[w] = NoData <=> pc[w] = "idle"
       /\ at[w] = "closed" <=> pc[w] \notin {"write", "sync"}

\* "A crash or power loss at any point leaves either the old complete file or
\* the new complete file - never a truncated one": what the name resolves to,
\* and everything it may resolve to after a power loss, is complete (or the
\* file was never there).
NeverTruncated ==
  \A c \in {file} \cup prior \cup Survivors(file) : c = Absent \/ Whole(c)

\* The promise of DurableFile: a call is "installed" once its rename is done.
AbstractCall(w) ==
  [phase |-> IF pc[w] = "idle" THEN "idle"
             ELSE IF pc[w] = "syncDir" THEN "installed" ELSE "calling",
   data |-> arg[w]]

Abstract == INSTANCE DurableFile WITH
  content <- file.data,
  fallback <- {c.data : c \in prior},
  call <- [w \in Writer |-> AbstractCall(w)]

\* One writer's calls replace the file atomically: each call takes effect at
\* one instant or not at all, whatever tmp an earlier crash left behind.
ImplementsDurableFile == Abstract!Spec

\* Every call ends, also when another call took the shared tmp away.
CallsReturn == \A w \in Writer : pc[w] # "idle" ~> pc[w] = "idle"

=============================================================================

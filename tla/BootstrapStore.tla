--------------------------- MODULE BootstrapStore ---------------------------
(***************************************************************************)
(* The encrypted bootstrap store (src/src/secrets/bootstrap-store.ts), its *)
(* auto-unlock key file (unlock-key-file.ts), and the requests and the     *)
(* boot that use them (web/routes.ts, server.ts).                          *)
(*                                                                         *)
(* Node runs one continuation at a time, so an action is the code between  *)
(* two awaits; whatever a request has read before an await may be stale    *)
(* after it.  Nothing serialises the requests: each runs its own persist() *)
(* and both files are written through AtomicFile, with one tmp per file.   *)
(*                                                                         *)
(* Cryptography is perfect: a key is a number, a keyslot wraps the data    *)
(* key it names under the key it names, and a payload opens with its key.  *)
(* The payload is the set of the patches that were merged into it.         *)
(***************************************************************************)
EXTENDS Integers, FiniteSets

CONSTANTS
  Op,        \* requests in flight at the same time
  Patch,     \* patches given to update(): other fields of the payload
  NoData,
  MaxBegun,  \* bound: requests that ever begin
  Kinds,     \* the requests of this instance
  IOFails    \* whether the disk may refuse a call

ASSUME MaxBegunAssumption == MaxBegun \in Nat
ASSUME KindsAssumption == Kinds \subseteq {"init", "unlock", "update", "enable", "disable"}
ASSUME FaultAssumption == IOFails \in BOOLEAN

VARIABLES
  dataKey,  \* this.dataKey, 0 while locked
  cache,    \* this.cache
  slots,    \* this.slots: a reference into heap
  heap,     \* the slots objects
  op,       \* op[o]: the request o is serving
  minted,   \* random keys drawn so far
  sFile, sTmp, sAt, sPc, sArg,  \* the store file (AtomicFile)
  kFile, kTmp, kAt, kPc, kArg,  \* the unlock key file (AtomicFile)
  \* history, read by the properties only
  begun,    \* requests begun
  acked,    \* patches whose update() resolved
  issued,   \* unlock keys handed to the key file: these may have been copied
  promise,  \* what the last settled enable or disable told the admin
  replacing \* memory has a new store, made beside one that is on disk

memory == <<dataKey, cache, slots, heap, minted>>
storeFile == <<sFile, sTmp, sAt, sPc, sArg>>
keyFile == <<kFile, kTmp, kAt, kPc, kArg>>
history == <<begun, acked, issued, promise, replacing>>
vars == <<memory, op, storeFile, keyFile, history>>

-----------------------------------------------------------------------------
(* Data.                                                                   *)

Key == 0 .. MaxBegun + 2
NoSlot == [kek |-> 0, key |-> 0]
UnlockSlot == [kek : Key, key : Key]
Slots == [pass : Key, unlock : UnlockSlot]   \* pass: the data key it wraps
NoSlots == [pass |-> 0, unlock |-> NoSlot]

\* The file's content: keyslots beside the payload sealed under `key`.  A v1
\* file has no keyslots; its payload opens with the passphrase itself.
Image == [v : {1, 2}, slots : Slots, key : Key, cache : SUBSET Patch]

ImageSize(i) ==
  1 + Cardinality(i.cache) + (IF i.slots.unlock = NoSlot THEN 0 ELSE 1)

KeySize(k) == 1

ASSUME FinitenessAssumption == IsFiniteSet(Op) /\ IsFiniteSet(Patch)
ASSUME NoDataAssumption == NoData \notin Image /\ NoData \notin Key

Store == INSTANCE AtomicFile WITH
  Writer <- Op, Data <- Image, Size <- ImageSize, PowerFails <- FALSE, prior <- {},
  file <- sFile, tmp <- sTmp, at <- sAt, pc <- sPc, arg <- sArg

KeyFile == INSTANCE AtomicFile WITH
  Writer <- Op, Data <- Key \ {0}, Size <- KeySize, PowerFails <- FALSE, prior <- {},
  file <- kFile, tmp <- kTmp, at <- kAt, pc <- kPc, arg <- kArg

Ref == 1 .. Cardinality(Op) + 2

\* A request: what it is, where it waits, and the locals it keeps across awaits.
Quiet ==
  [kind |-> "none", pc |-> "idle",
   ref |-> 0, key |-> 0, cache |-> {},  \* persist(): `out`, its slots by reference
   got |-> Store!Absent,                \* what readFile returned
   prev |-> NoSlot, kek |-> 0,          \* `previous` slot, the new unlock key
   patch |-> {}]                        \* what update() merged

Locked == dataKey = 0

Disk == sFile.data
DiskUnlockSlot == IF Store!Whole(sFile) THEN Disk.slots.unlock ELSE NoSlot

FreshRef == CHOOSE r \in Ref : r # slots /\ \A o \in Op : op[o].ref # r

\* Installed complete file a process finds at start.
Installed(i) == [data |-> i, size |-> ImageSize(i), synced |-> TRUE]

V1Image == [v |-> 1, slots |-> NoSlots, key |-> 1, cache |-> {}]
V2Image(u) == [v |-> 2, slots |-> [pass |-> 1, unlock |-> u], key |-> 1, cache |-> {}]
Key2File == [data |-> 2, size |-> 1, synced |-> TRUE]

\* A fresh install, a v1 file, a v2 file without and with auto-unlock.
Init ==
  /\ dataKey = 0 /\ cache = {} /\ slots = 0
  /\ heap = [r \in Ref |-> NoSlots]
  /\ op = [o \in Op |-> Quiet]
  /\ minted = 2
  /\ \/ sFile = Store!Absent /\ kFile = KeyFile!Absent
     \/ sFile = Installed(V1Image) /\ kFile = KeyFile!Absent
     \/ sFile = Installed(V2Image(NoSlot)) /\ kFile = KeyFile!Absent
     \/ sFile = Installed(V2Image([kek |-> 2, key |-> 1])) /\ kFile = Key2File
  /\ sTmp = Store!Absent
  /\ sAt = [o \in Op |-> "closed"] /\ sPc = [o \in Op |-> "idle"] /\ sArg = [o \in Op |-> NoData]
  /\ kTmp = KeyFile!Absent
  /\ kAt = [o \in Op |-> "closed"] /\ kPc = [o \in Op |-> "idle"] /\ kArg = [o \in Op |-> NoData]
  /\ begun = 0 /\ acked = {} /\ issued = {2}
  /\ promise = "none" /\ replacing = FALSE

-----------------------------------------------------------------------------
(* A request begins, waits, and is answered.                               *)

Begin(o, kind) ==
  /\ kind \in Kinds
  /\ op[o] = Quiet
  /\ begun < MaxBegun
  /\ begun' = begun + 1

End(o) == op' = [op EXCEPT ![o] = Quiet]

\* this.slots := a new object
NewSlots(s) == slots' = FreshRef /\ heap' = [heap EXCEPT ![FreshRef] = s]

SetUnlockSlot(u) == heap' = [heap EXCEPT ![slots].unlock = u]

\* The synchronous head of persist(): the payload is sealed now, the slots are
\* kept by reference; then it awaits mkdir.
Persist(o, kind, locals) ==
  op' = [op EXCEPT ![o] = [locals EXCEPT !.kind = kind, !.pc = "mkdir",
                             !.ref = slots', !.key = dataKey', !.cache = cache']]

Waiting(o, kinds, pc) == op[o].kind \in kinds /\ op[o].pc = pc

-----------------------------------------------------------------------------
(* initialize() and unlock(): both first read the file.                    *)

BeginRead(o) ==
  \E kind \in {"init", "unlock"} :
    /\ Begin(o, kind)
    \* unlockWithPassphrase: passphraseInFlight admits one unlock at a time
    /\ kind = "unlock" => \A v \in Op : op[v].kind \notin {"unlock", "migrate"}
    /\ op' = [op EXCEPT ![o] = [Quiet EXCEPT !.kind = kind, !.pc = "read"]]
    /\ UNCHANGED <<memory, storeFile, keyFile, acked, issued, promise, replacing>>

\* What a read may find: exists() takes every error of readFile for no store.
Reads == {sFile} \cup (IF IOFails THEN {Store!Absent} ELSE {})

\* The routes ask exists() before initialize() or unlock() reads again: an error
\* that comes and goes refuses the request, one that stays is read twice.
ReadStore(o) ==
  /\ Waiting(o, {"init", "unlock"}, "read")
  /\ \E seen \in Reads : op' = [op EXCEPT ![o].pc = "decide", ![o].got = seen]
  /\ UNCHANGED <<memory, storeFile, keyFile, history>>

\* No store was found, which need not mean that there is none.
Initialize(o) ==
  /\ Waiting(o, {"init"}, "decide")
  /\ op[o].got = Store!Absent
  /\ replacing' = (sFile # Store!Absent)
  /\ minted' = minted + 1
  /\ dataKey' = minted'
  /\ cache' = {}
  /\ NewSlots([pass |-> minted', unlock |-> NoSlot])
  /\ Persist(o, "init", Quiet)
  /\ UNCHANGED <<storeFile, keyFile, begun, acked, issued, promise>>

\* Mutant: this.slots is not assigned.
AdoptKeepsSlots(o) ==
  /\ Waiting(o, {"unlock"}, "decide")
  /\ Store!Whole(op[o].got) /\ op[o].got.data.v = 2
  /\ dataKey' = op[o].got.data.key /\ cache' = op[o].got.data.cache
  /\ replacing' = FALSE
  /\ End(o)
  /\ UNCHANGED <<slots, heap, minted, storeFile, keyFile, begun, acked, issued, promise>>

\* A v2 file and the right passphrase: take over its keys and its payload,
\* whether or not this process was unlocked before.
Adopt(o) ==
  /\ Waiting(o, {"unlock"}, "decide")
  /\ Store!Whole(op[o].got)
  /\ LET image == op[o].got.data
     IN /\ image.v = 2
        /\ image.slots.pass = image.key   \* openPayload succeeds
        /\ dataKey' = image.key
        /\ cache' = image.cache
        /\ NewSlots(image.slots)
  /\ replacing' = FALSE
  /\ End(o)
  /\ UNCHANGED <<minted, storeFile, keyFile, begun, acked, issued, promise>>

\* Mutant: the passphrase slot is made before the new data key is drawn.
MigrateWrapsOldKey(o) ==
  /\ Waiting(o, {"unlock"}, "decide")
  /\ Store!Whole(op[o].got) /\ op[o].got.data.v = 1
  /\ minted' = minted + 1 /\ dataKey' = minted' /\ cache' = op[o].got.data.cache
  /\ NewSlots([pass |-> dataKey, unlock |-> NoSlot])
  /\ replacing' = FALSE
  /\ Persist(o, "migrate", Quiet)
  /\ UNCHANGED <<storeFile, keyFile, begun, acked, issued, promise>>

\* A v1 file: a random data key replaces the passphrase key, then rewrite.
Migrate(o) ==
  /\ Waiting(o, {"unlock"}, "decide")
  /\ Store!Whole(op[o].got)
  /\ op[o].got.data.v = 1
  /\ minted' = minted + 1
  /\ dataKey' = minted'
  /\ cache' = op[o].got.data.cache
  /\ NewSlots([pass |-> minted', unlock |-> NoSlot])
  /\ replacing' = FALSE
  /\ Persist(o, "migrate", Quiet)
  /\ UNCHANGED <<storeFile, keyFile, begun, acked, issued, promise>>

\* 409 (a store exists), a wrong passphrase, a missing or unreadable file.
Refuse(o) ==
  /\ Waiting(o, {"init", "unlock"}, "decide")
  /\ op[o].kind = "init" => op[o].got # Store!Absent
  /\ End(o)
  /\ UNCHANGED <<memory, storeFile, keyFile, history>>

-----------------------------------------------------------------------------
(* update(), enableAutoUnlock(), disableAutoUnlock(): change, then persist.*)

\* Mutant: persists first, merges afterwards.
UpdateSealsFirst(o, p) ==
  /\ Begin(o, "update") /\ ~Locked /\ p \notin cache
  /\ cache' = cache \cup {p}
  /\ UNCHANGED <<dataKey, slots, heap, minted>>
  /\ op' = [op EXCEPT ![o] = [Quiet EXCEPT !.kind = "update", !.pc = "mkdir",
                                !.ref = slots, !.key = dataKey, !.cache = cache, !.patch = {p}]]
  /\ UNCHANGED <<storeFile, keyFile, acked, issued, promise, replacing>>

\* Nothing takes the merge back if persist fails.
Update(o, p) ==
  /\ Begin(o, "update")
  /\ ~Locked
  /\ p \notin cache
  /\ cache' = cache \cup {p}
  /\ UNCHANGED <<dataKey, slots, heap, minted>>
  /\ Persist(o, "update", [Quiet EXCEPT !.patch = {p}])
  /\ UNCHANGED <<storeFile, keyFile, acked, issued, promise, replacing>>

EnableAutoUnlock(o) ==
  /\ Begin(o, "enable")
  /\ ~Locked
  /\ minted' = minted + 1
  /\ SetUnlockSlot([kek |-> minted', key |-> dataKey])
  /\ UNCHANGED <<dataKey, cache, slots>>
  /\ Persist(o, "enable", [Quiet EXCEPT !.prev = heap[slots].unlock, !.kek = minted'])
  /\ promise' = "none"
  /\ UNCHANGED <<storeFile, keyFile, acked, issued, replacing>>

\* Mutant: only the key file is removed.
DisableKeepsSlot(o) ==
  /\ Begin(o, "disable") /\ ~Locked
  /\ op' = [op EXCEPT ![o] = [Quiet EXCEPT !.kind = "disable", !.pc = "unlink"]]
  /\ promise' = "none"
  /\ UNCHANGED <<memory, storeFile, keyFile, acked, issued, replacing>>

\* Without a slot there is nothing to persist: only the key file is removed.
DisableAutoUnlock(o) ==
  /\ Begin(o, "disable")
  /\ ~Locked
  /\ UNCHANGED <<dataKey, cache, slots, minted>>
  /\ IF heap[slots].unlock = NoSlot
     THEN /\ op' = [op EXCEPT ![o] = [Quiet EXCEPT !.kind = "disable", !.pc = "unlink"]]
          /\ UNCHANGED heap
     ELSE /\ SetUnlockSlot(NoSlot)
          /\ Persist(o, "disable", [Quiet EXCEPT !.prev = heap[slots].unlock])
  /\ promise' = "none"
  /\ UNCHANGED <<storeFile, keyFile, acked, issued, replacing>>

-----------------------------------------------------------------------------
(* The rest of persist(): mkdir, then JSON.stringify of what `out` refers  *)
(* to NOW, then the atomic write.                                          *)

\* Mutant: only the mandatory slot is written.
SerialiseDropsUnlockSlot(o) ==
  /\ op[o].pc = "mkdir"
  /\ Store!Call(o, [v |-> 2, slots |-> [heap[op[o].ref] EXCEPT !.unlock = NoSlot],
                    key |-> op[o].key, cache |-> op[o].cache])
  /\ op' = [op EXCEPT ![o].pc = "write", ![o].ref = 0, ![o].key = 0, ![o].cache = {}]
  /\ UNCHANGED <<memory, keyFile, history>>

Serialise(o) ==
  /\ op[o].pc = "mkdir"
  /\ Store!Call(o, [v |-> 2, slots |-> heap[op[o].ref], key |-> op[o].key, cache |-> op[o].cache])
  /\ op' = [op EXCEPT ![o].pc = "write", ![o].ref = 0, ![o].key = 0, ![o].cache = {}]
  /\ UNCHANGED <<memory, keyFile, history>>

\* The rename of a store made beside the one on disk ends what was said of it.
WriteStep(o) ==
  /\ Store!Step(o)
  /\ IF replacing /\ Store!Rename(o)
     THEN acked' = {} /\ promise' = (IF promise = "on" THEN "none" ELSE promise) /\ replacing' = FALSE
     ELSE UNCHANGED <<acked, promise, replacing>>
  /\ UNCHANGED <<memory, op, keyFile, begun, issued>>

\* What runs when persist() resolves, in the request that awaited it.
PersistResolves(o) ==
  /\ op[o].pc = "write"
  /\ Store!Return(o)
  /\ \/ /\ op[o].kind \in {"init", "migrate", "undo"}
        /\ End(o)
        /\ UNCHANGED <<keyFile, acked, issued>>
     \/ /\ op[o].kind = "update"
        /\ acked' = acked \cup op[o].patch
        /\ End(o)
        /\ UNCHANGED <<keyFile, issued>>
     \/ /\ op[o].kind = "enable"       \* saveUnlockKey(file, key)
        /\ KeyFile!Call(o, op[o].kek)
        /\ issued' = issued \cup {op[o].kek}
        /\ op' = [op EXCEPT ![o].pc = "saveKey"]
        /\ UNCHANGED acked
     \/ /\ op[o].kind = "disable"      \* removeUnlockKey(file)
        /\ op' = [op EXCEPT ![o].pc = "unlink"]
        /\ UNCHANGED <<keyFile, acked, issued>>
  /\ UNCHANGED <<memory, begun, promise, replacing>>

\* Mutant: the slot change is not taken back.
PersistRejectsNoRollback(o) ==
  /\ \/ IOFails /\ op[o].pc = "mkdir" /\ UNCHANGED storeFile
     \/ op[o].pc = "write" /\ Store!Throw(o)
  /\ End(o)
  /\ UNCHANGED <<memory, keyFile, history>>

\* Mutant: a rejected write is never awaited.
PersistRejectsAtMkdirOnly(o) ==
  /\ IOFails /\ op[o].pc = "mkdir" /\ UNCHANGED storeFile
  /\ End(o)
  /\ UNCHANGED <<memory, keyFile, history>>

\* ... and when it rejects: a slot change is taken back, a merge is not.
PersistRejects(o) ==
  /\ \/ IOFails /\ op[o].pc = "mkdir" /\ UNCHANGED storeFile
     \/ op[o].pc = "write" /\ Store!Throw(o)
  /\ IF op[o].kind \in {"enable", "disable", "undo"}
     THEN SetUnlockSlot(op[o].prev)
     ELSE UNCHANGED heap
  /\ End(o)
  /\ UNCHANGED <<dataKey, cache, slots, minted, keyFile, history>>

-----------------------------------------------------------------------------
(* The key file, after the slot is on disk.                                *)

SaveKeyStep(o) ==
  /\ KeyFile!Step(o)
  /\ UNCHANGED <<memory, op, storeFile, history>>

\* No other enable or disable is under way that could change the answer.
Settles(o) == \A v \in Op \ {o} : op[v].kind \notin {"enable", "disable", "undo"}

KeySaved(o) ==
  /\ op[o].pc = "saveKey"
  /\ KeyFile!Return(o)
  /\ End(o)
  /\ promise' = IF Settles(o) THEN "on" ELSE promise
  /\ UNCHANGED <<memory, storeFile, begun, acked, issued, replacing>>

\* The route rolls back with disableAutoUnlock().catch(): the slot goes, also
\* one that this enable only rotated.
KeySaveFails(o) ==
  /\ op[o].pc = "saveKey"
  /\ KeyFile!Throw(o)
  /\ UNCHANGED <<dataKey, cache, slots, minted>>
  /\ IF heap[slots].unlock = NoSlot
     THEN End(o) /\ UNCHANGED heap
     ELSE /\ SetUnlockSlot(NoSlot)
          /\ Persist(o, "undo", [Quiet EXCEPT !.prev = heap[slots].unlock])
  /\ UNCHANGED <<storeFile, history>>

\* Removal is best effort: the answer is the same when unlink fails.
RemoveKey(o) ==
  /\ Waiting(o, {"disable"}, "unlink")
  /\ \/ (IOFails \/ kFile = KeyFile!Absent) /\ UNCHANGED keyFile
     \/ /\ kFile' = KeyFile!Absent
        /\ kAt' = [v \in Op |-> IF kAt[v] = "file" THEN "gone" ELSE kAt[v]]
        /\ UNCHANGED <<kTmp, kPc, kArg>>
  /\ End(o)
  /\ promise' = IF Settles(o) /\ ~replacing THEN "off" ELSE promise
  /\ UNCHANGED <<memory, storeFile, begun, acked, issued, replacing>>

-----------------------------------------------------------------------------
(* The process dies at any point and starts again.  Boot runs before the   *)
(* server listens: it unlocks with the key file if that fits the slot, and *)
(* stays locked when it cannot read the store or the key.                  *)

KeyFits ==
  /\ Store!Whole(sFile) /\ Disk.v = 2
  /\ Disk.slots.unlock # NoSlot
  /\ KeyFile!Whole(kFile)
  /\ kFile.data = Disk.slots.unlock.kek
  /\ Disk.slots.unlock.key = Disk.key

Restart ==
  /\ op' = [o \in Op |-> Quiet]
  /\ Store!Crash
  /\ KeyFile!Crash
  /\ \/ /\ KeyFits
        /\ dataKey' = Disk.key /\ cache' = Disk.cache /\ slots' = 1
        /\ heap' = [r \in Ref |-> IF r = 1 THEN Disk.slots ELSE NoSlots]
     \/ /\ KeyFits => IOFails
        /\ dataKey' = 0 /\ cache' = {} /\ slots' = 0
        /\ heap' = [r \in Ref |-> NoSlots]
  /\ replacing' = FALSE
  /\ UNCHANGED <<minted, begun, acked, issued, promise>>

-----------------------------------------------------------------------------

Request(o) ==
  \/ BeginRead(o) \/ ReadStore(o) \/ Initialize(o) \/ Adopt(o) \/ Migrate(o) \/ Refuse(o)
  \/ (\E p \in Patch : Update(o, p)) \/ EnableAutoUnlock(o) \/ DisableAutoUnlock(o)
  \/ Serialise(o) \/ WriteStep(o) \/ PersistResolves(o) \/ PersistRejects(o)
  \/ SaveKeyStep(o) \/ KeySaved(o) \/ KeySaveFails(o) \/ RemoveKey(o)

Next == (\E o \in Op : Request(o)) \/ Restart

Spec == Init /\ [][Next]_vars

\* What a request waits for - file system calls and its own continuation -
\* happens; that a client sends one is not promised.
FairSpec ==
  Spec /\ \A o \in Op : WF_vars(op[o] # Quiet /\ Request(o))

-----------------------------------------------------------------------------
(* Properties.                                                             *)

\* Memory is consistent: an unlocked store has slots, made for its data key, and
\* a request waits for a file write exactly while it has one under way.
TypeOK ==
  /\ dataKey \in Key /\ cache \subseteq Patch /\ slots \in Ref \cup {0}
  /\ heap \in [Ref -> Slots]
  /\ IF Locked THEN slots = 0 ELSE slots # 0 /\ heap[slots].pass = dataKey
  /\ \A o \in Op : (op[o].pc = "write") <=> (sPc[o] # "idle")
  /\ \A o \in Op : (op[o].pc = "saveKey") <=> (kPc[o] # "idle")
  /\ acked \subseteq Patch /\ issued \subseteq Key /\ replacing \in BOOLEAN

\* A complete store file always opens: its passphrase slot, and its unlock
\* slot if it has one, wrap the very key its payload is sealed under.
Openable ==
  Store!Whole(sFile) /\ Disk.v = 2 =>
    /\ Disk.slots.pass = Disk.key
    /\ Disk.slots.unlock = NoSlot \/ Disk.slots.unlock.key = Disk.key

\* "A crash or power loss can't destroy or truncate the only copy": with no
\* request under way the store file is complete (or was never created).
OnlyCopySurvives ==
  (\A o \in Op : op[o] = Quiet) => sFile = Store!Absent \/ Store!Whole(sFile)

\* "Create a brand-new store ... Fails if one exists": initialize() never
\* replaces a store file that is there.  It does, after a read error.
NeverOverwritesStore ==
  [][\A o \in Op : Store!Rename(o) /\ op[o].kind = "init" => sFile = Store!Absent]_vars

\* A patch whose update() resolved is in the file from then on, across slot
\* changes, failed reads and writes, unlocks and restarts: until a store that
\* was initialized in place of one that could not be read is written over it.
AckedDurable == acked # {} => Store!Whole(sFile) /\ acked \subseteq Disk.cache

\* "in-memory state never disagrees with disk": with no request under way, an
\* unlocked store's unlock slot is the one in the file, unless memory has a
\* store made after a read error whose write has failed.
SlotAgreesWithDisk ==
  ~Locked /\ ~replacing /\ (\A o \in Op : op[o] = Quiet) => heap[slots].unlock = DiskUnlockSlot

\* "Disabling removes the keyslot ...; a leaked copy of the old key is useless
\* afterwards": once a disable was answered by the store that is on disk, and
\* until another enable or disable begins, no key that was ever in the key file
\* opens the store.
DisabledStaysDisabled == promise = "off" => DiskUnlockSlot.kek \notin issued

\* "At boot, that key unlocks the store": once an enable was answered, and
\* until another enable or disable begins or the store is replaced, a restart
\* that can read its two files unlocks by itself.
EnabledBootsUnlocked == promise = "on" => KeyFits

\* Every request is answered, also when another request's rename took the
\* temporary file away under it.
RequestsEnd == \A o \in Op : op[o] # Quiet ~> op[o] = Quiet

=============================================================================

--------------------------- MODULE BootstrapStoreProofs ---------------------------
(***************************************************************************)
(* Two things about the bootstrap store.                                   *)
(*                                                                         *)
(* One request at a time: whatever is asked of it in whatever order,       *)
(* wherever the disk refuses and wherever the process dies and starts      *)
(* again, a complete file opens, an answered update is durable, memory and *)
(* file agree on the unlock slot, and enabled and disabled mean what they  *)
(* say.  How the two files are written is not looked at there: what a lone *)
(* call of writeFileAtomic does is taken from the proofs of AtomicFile,    *)
(* once for the store file (SF) and once for the key file (KF).            *)
(*                                                                         *)
(* Requests that overlap: of all that, one thing is left, that a complete  *)
(* file opens.  There the calls of writeFileAtomic share their temporary   *)
(* file, and every system call counts.                                     *)
(***************************************************************************)
EXTENDS BootstrapStore, FiniteSetTheorems, TLAPS

SF == INSTANCE AtomicFileProofs WITH
  Writer <- Op, Data <- Image, Size <- ImageSize, PowerFails <- FALSE, prior <- {},
  file <- sFile, tmp <- sTmp, at <- sAt, pc <- sPc, arg <- sArg

KF == INSTANCE AtomicFileProofs WITH
  Writer <- Op, Data <- Key \ {0}, Size <- KeySize, PowerFails <- FALSE, prior <- {},
  file <- kFile, tmp <- kTmp, at <- kAt, pc <- kPc, arg <- kArg

\* What the first part is about.  (With requests that overlap TLC refutes most of
\* it: StoreRaces.cfg.)
OneAtATime == \A v, w \in Op : v = w

-----------------------------------------------------------------------------
(* The invariant.                                                          *)

SlotKinds == {"enable", "disable", "undo"}
Places == {"idle", "read", "decide", "mkdir", "write", "saveKey", "unlink"}

\* Slots and locals of requests, over some keys and contents of files.
SlotsOf(K) == [pass : K, unlock : [kek : K, key : K]]

LocalsOf(K, C) ==
  [kind : {"none", "init", "unlock", "migrate", "update"} \cup SlotKinds, pc : Places,
   ref : Ref \cup {0}, key : K, cache : SUBSET Patch, got : C,
   prev : [kek : K, key : K], kek : K, patch : SUBSET Patch]

Locals == LocalsOf(Key, Store!Content)

Types ==
  /\ dataKey \in Key /\ cache \subseteq Patch /\ slots \in Ref \cup {0}
  /\ heap \in [Ref -> Slots] /\ op \in [Op -> Locals]
  /\ begun \in 0 .. MaxBegun /\ minted \in 2 .. begun + 2
  /\ acked \subseteq Patch /\ issued \subseteq Key \ {0}
  /\ promise \in {"none", "on", "off"} /\ replacing \in BOOLEAN

\* Slots that open what is sealed under k.
Fit(s, k) == k # 0 /\ s.pass = k /\ (s.unlock = NoSlot \/ s.unlock.key = k)

MemoryFits == IF Locked THEN slots = 0 ELSE slots # 0 /\ Fit(heap[slots], dataKey)

FileFits ==
  Store!Whole(sFile) =>
    IF Disk.v = 1 THEN Disk.slots.unlock = NoSlot ELSE Fit(Disk.slots, Disk.key)

\* What persist() is about to write, or is writing.
Now == [v |-> 2, slots |-> heap[slots], key |-> dataKey, cache |-> cache]

\* Where a request stands, and what its locals have to do with memory and files.
Stands(o) ==
  /\ op[o].pc = "write" <=> sPc[o] # "idle"
  /\ op[o].pc = "saveKey" <=> kPc[o] # "idle"
  /\ op[o].pc = "idle" <=> op[o].kind = "none"
  /\ op[o].pc = "idle" => op[o] = Quiet
  /\ op[o].pc \in {"read", "decide"} =>
       op[o].kind \in {"init", "unlock"} /\ minted < begun + 2
  /\ op[o].pc = "decide" => op[o].got = sFile \/ op[o].got = Store!Absent
  /\ op[o].pc \in {"mkdir", "write", "saveKey", "unlink"} => ~Locked
  /\ op[o].pc \in {"mkdir", "write"} => op[o].kind # "unlock"
  /\ op[o].pc = "mkdir" => op[o].ref = slots /\ op[o].key = dataKey /\ op[o].cache = cache
  /\ op[o].pc = "write" => sArg[o] = Now
  /\ sPc[o] = "syncDir" => Store!Whole(sFile) /\ Disk = Now /\ ~replacing
  /\ op[o].pc = "saveKey" => op[o].kind = "enable" /\ kArg[o] = op[o].kek /\ ~replacing
  /\ kPc[o] = "syncDir" => KeyFile!Whole(kFile) /\ kFile.data = op[o].kek
  /\ op[o].pc = "unlink" => op[o].kind = "disable"
  /\ op[o].kind = "enable" => op[o].kek # 0 /\ heap[slots].unlock = [kek |-> op[o].kek, key |-> dataKey]
  /\ op[o].kind \in {"disable", "undo"} => heap[slots].unlock = NoSlot
  /\ op[o].kind = "update" => op[o].patch \subseteq cache
  /\ op[o].kind \in SlotKinds => promise = "none" /\ (op[o].prev = NoSlot \/ op[o].prev.key = dataKey)

\* The unlock slot in memory is the one in the file, except while a change of it
\* has not been written: then the file has the one it would go back to.
Pending(o) == op[o].kind \in SlotKinds /\ (op[o].pc = "mkdir" \/ (op[o].pc = "write" /\ sPc[o] # "syncDir"))

SlotsAgree ==
  ~replacing =>
    /\ \A o \in Op : Pending(o) => DiskUnlockSlot = op[o].prev
    /\ ~Locked /\ (\A o \in Op : ~Pending(o)) => DiskUnlockSlot = heap[slots].unlock

AckedKept ==
  /\ AckedDurable
  /\ ~Locked /\ ~replacing => acked \subseteq cache

\* A store made beside the one on disk is in memory, and has an unlock slot only
\* while one is being enabled.
ReplacingFits == replacing => ~Locked /\ (promise = "off" => heap[slots].unlock = NoSlot)

PromiseKept ==
  /\ promise = "off" => DiskUnlockSlot = NoSlot
  /\ promise = "on" => KeyFits

SerialInv ==
  /\ Types /\ SF!IInv /\ KF!IInv
  /\ MemoryFits /\ FileFits /\ (\A o \in Op : Stands(o))
  /\ SlotsAgree /\ AckedKept /\ PromiseKept /\ ReplacingFits

-----------------------------------------------------------------------------
(* The two files.                                                          *)

LEMMA Sizes ==
  /\ NoData \notin Image /\ \A i \in Image : ImageSize(i) \in Nat \ {0}
  /\ NoData \notin Key \ {0} /\ \A k \in Key \ {0} : KeySize(k) \in Nat \ {0}
<1>1. ASSUME NEW i \in Image PROVE ImageSize(i) \in Nat \ {0}
  <2>1. i.cache \subseteq Patch
    BY DEF Image
  <2>2. Cardinality(i.cache) \in Nat
    BY <2>1, FinitenessAssumption, FS_Subset, FS_CardinalityType
  <2> QED BY <2>2 DEF ImageSize
<1> QED BY <1>1, NoDataAssumption DEF KeySize

LEMMA Alone ==
  ASSUME OneAtATime, NEW o \in Op
  PROVE  SF!OneCaller /\ KF!OneCaller /\ Ref = 1 .. 3
<1>1. Op = {o}
  BY DEF OneAtATime
<1>2. Cardinality({o}) = 1
  BY FS_Singleton, Zenon
<1>3. Cardinality(Op) = 1
  BY <1>1, <1>2
<1> QED BY <1>3 DEF OneAtATime, SF!OneCaller, KF!OneCaller, Ref

LEMMA StoreTypes ==
  ASSUME SF!IInv
  PROVE  /\ sPc \in [Op -> {"idle", "open", "write", "sync", "rename", "syncDir", "throw"}]
         /\ sArg \in [Op -> Image \cup {NoData}]
         /\ sFile \in Store!Content
         /\ sFile = Store!Absent \/ Store!Whole(sFile)
BY DEF SF!IInv, SF!TypeOK, SF!Content, Store!Content, SF!Absent, Store!Absent, SF!Whole, Store!Whole

LEMMA KeyTypes ==
  ASSUME KF!IInv
  PROVE  /\ kPc \in [Op -> {"idle", "open", "write", "sync", "rename", "syncDir", "throw"}]
         /\ kArg \in [Op -> (Key \ {0}) \cup {NoData}]
         /\ kFile = KeyFile!Absent \/ KeyFile!Whole(kFile)
BY DEF KF!IInv, KF!TypeOK, KF!Absent, KeyFile!Absent, KF!Whole, KeyFile!Whole

\* What an action does to the store file, as far as the invariant is concerned.
LEMMA StoreKept ==
  ASSUME SF!OneCaller, SF!IInv, [SF!Next]_(SF!vars) PROVE SF!IInv'
BY SF!InvStep, Sizes, FaultAssumption

LEMMA StoreCall ==
  ASSUME SF!OneCaller, SF!IInv, NEW o \in Op, NEW i \in Image, Store!Call(o, i)
  PROVE  SF!IInv' /\ sFile' = sFile /\ sPc[o] = "idle" /\ sPc'[o] = "open" /\ sArg'[o] = i
<1>1. SF!Next
  BY DEF SF!Next, SF!Call, SF!Goto, Store!Call, Store!Goto
<1> QED BY <1>1, StoreKept, StoreTypes DEF Store!Call, Store!Goto

LEMMA StoreStep ==
  ASSUME SF!OneCaller, SF!IInv, NEW o \in Op, Store!Step(o)
  PROVE  /\ SF!IInv' /\ sArg' = sArg /\ sPc[o] \notin {"idle", "syncDir", "throw"} /\ sPc'[o] # "idle"
         /\ \/ sPc'[o] = "syncDir" /\ Store!Whole(sFile)' /\ sFile'.data = sArg[o]
            \/ sPc'[o] # "syncDir" /\ sFile' = sFile
<1>1. SF!Step(o)
  BY DEF Store!Step, SF!Step, Store!Open, SF!Open, Store!Write, SF!Write, Store!Sync, SF!Sync,
         Store!Rename, SF!Rename, Store!OpenFails, SF!OpenFails, Store!WriteFails, SF!WriteFails,
         Store!SyncFails, SF!SyncFails, Store!RenameFails, SF!RenameFails, Store!Goto, SF!Goto,
         Store!OnDescriptor, SF!OnDescriptor, Store!Overwrite, SF!Overwrite, Store!Spoil, SF!Spoil,
         Store!Synced, SF!Synced, Store!Empty, SF!Empty, Store!Absent, SF!Absent,
         Store!Relinked, SF!Relinked, Store!Survivors, SF!Survivors
<1>2. SF!Next
  BY <1>1 DEF SF!Next
<1>3. SF!Whole(sFile)' <=> Store!Whole(sFile)'
  BY DEF SF!Whole, Store!Whole
<1> QED BY <1>1, <1>2, <1>3, StoreKept, SF!StepEffect, Sizes, FaultAssumption

LEMMA StoreEnds ==
  ASSUME SF!OneCaller, SF!IInv, NEW o \in Op, Store!Return(o) \/ Store!Throw(o)
  PROVE  SF!IInv' /\ sFile' = sFile /\ sPc[o] \in {"syncDir", "throw"} /\ sPc'[o] = "idle"
<1>1. SF!Next
  BY DEF SF!Next, SF!Finish, SF!Return, SF!Throw, SF!Goto, Store!Return, Store!Throw, Store!Goto
<1> QED BY <1>1, StoreKept, StoreTypes DEF Store!Return, Store!Throw, Store!Goto

LEMMA StoreCrash ==
  ASSUME SF!OneCaller, SF!IInv, Store!Crash
  PROVE  SF!IInv' /\ sFile' = sFile /\ \A o \in Op : sPc'[o] = "idle"
<1>1. SF!Next
  BY DEF SF!Next, SF!Crash, Store!Crash
<1> QED BY <1>1, StoreKept DEF Store!Crash

LEMMA StoreStill ==
  ASSUME SF!OneCaller, SF!IInv, UNCHANGED storeFile PROVE SF!IInv'
BY StoreKept DEF storeFile, SF!vars

\* The same for the key file.
LEMMA KeyKept ==
  ASSUME KF!OneCaller, KF!IInv, [KF!Next]_(KF!vars) PROVE KF!IInv'
BY KF!InvStep, Sizes, FaultAssumption

LEMMA KeyCall ==
  ASSUME KF!OneCaller, KF!IInv, NEW o \in Op, NEW k \in Key \ {0}, KeyFile!Call(o, k)
  PROVE  KF!IInv' /\ kFile' = kFile /\ kPc[o] = "idle" /\ kPc'[o] = "open" /\ kArg'[o] = k
<1>1. KF!Next
  BY DEF KF!Next, KF!Call, KF!Goto, KeyFile!Call, KeyFile!Goto
<1> QED BY <1>1, KeyKept, KeyTypes DEF KeyFile!Call, KeyFile!Goto

LEMMA KeyStep ==
  ASSUME KF!OneCaller, KF!IInv, NEW o \in Op, KeyFile!Step(o)
  PROVE  /\ KF!IInv' /\ kArg' = kArg /\ kPc[o] \notin {"idle", "syncDir", "throw"} /\ kPc'[o] # "idle"
         /\ \/ kPc'[o] = "syncDir" /\ KeyFile!Whole(kFile)' /\ kFile'.data = kArg[o]
            \/ kPc'[o] # "syncDir" /\ kFile' = kFile
<1>1. KF!Step(o)
  BY DEF KeyFile!Step, KF!Step, KeyFile!Open, KF!Open, KeyFile!Write, KF!Write, KeyFile!Sync, KF!Sync,
         KeyFile!Rename, KF!Rename, KeyFile!OpenFails, KF!OpenFails, KeyFile!WriteFails, KF!WriteFails,
         KeyFile!SyncFails, KF!SyncFails, KeyFile!RenameFails, KF!RenameFails, KeyFile!Goto, KF!Goto,
         KeyFile!OnDescriptor, KF!OnDescriptor, KeyFile!Overwrite, KF!Overwrite, KeyFile!Spoil, KF!Spoil,
         KeyFile!Synced, KF!Synced, KeyFile!Empty, KF!Empty, KeyFile!Absent, KF!Absent,
         KeyFile!Relinked, KF!Relinked, KeyFile!Survivors, KF!Survivors
<1>2. KF!Next
  BY <1>1 DEF KF!Next
<1>3. KF!Whole(kFile)' <=> KeyFile!Whole(kFile)'
  BY DEF KF!Whole, KeyFile!Whole
<1> QED BY <1>1, <1>2, <1>3, KeyKept, KF!StepEffect, Sizes, FaultAssumption

LEMMA KeyEnds ==
  ASSUME KF!OneCaller, KF!IInv, NEW o \in Op, KeyFile!Return(o) \/ KeyFile!Throw(o)
  PROVE  KF!IInv' /\ kFile' = kFile /\ kPc[o] \in {"syncDir", "throw"} /\ kPc'[o] = "idle"
<1>1. KF!Next
  BY DEF KF!Next, KF!Finish, KF!Return, KF!Throw, KF!Goto, KeyFile!Return, KeyFile!Throw, KeyFile!Goto
<1> QED BY <1>1, KeyKept, KeyTypes DEF KeyFile!Return, KeyFile!Throw, KeyFile!Goto

LEMMA KeyCrash ==
  ASSUME KF!OneCaller, KF!IInv, KeyFile!Crash
  PROVE  KF!IInv' /\ kFile' = kFile /\ \A o \in Op : kPc'[o] = "idle"
<1>1. KF!Next
  BY DEF KF!Next, KF!Crash, KeyFile!Crash
<1> QED BY <1>1, KeyKept DEF KeyFile!Crash

LEMMA KeyStill ==
  ASSUME KF!OneCaller, KF!IInv, UNCHANGED keyFile PROVE KF!IInv'
BY KeyKept DEF keyFile, KF!vars

-----------------------------------------------------------------------------
(* The requests.                                                           *)

LEMMA SameStoreFile ==
  sFile' = sFile => /\ Disk' = Disk /\ DiskUnlockSlot' = DiskUnlockSlot
                    /\ FileFits' = FileFits /\ Store!Whole(sFile)' = Store!Whole(sFile)
BY DEF Disk, DiskUnlockSlot, FileFits, Store!Whole, Fit

LEMMA SameFiles ==
  sFile' = sFile /\ kFile' = kFile => KeyFits' = KeyFits
BY DEF KeyFits, Disk, Store!Whole, KeyFile!Whole

LEMMA QuietLocals == Quiet \in Locals /\ NoSlot \in UnlockSlot /\ NoSlots \in Slots
<1>1. Store!Absent \in Store!Content
  BY DEF Store!Absent, Store!Content
<1>2. 0 \in Key
  BY MaxBegunAssumption DEF Key
<1> QED BY <1>1, <1>2 DEF Quiet, Locals, LocalsOf, UnlockSlot, SlotKinds, Places, NoSlot, NoSlots, Slots

LEMMA BeginReadInv ==
  ASSUME OneAtATime, SerialInv, NEW o \in Op, BeginRead(o) PROVE SerialInv'
<1> USE DEF SerialInv
<1>0. /\ SF!OneCaller /\ KF!OneCaller /\ \A v \in Op : v = o
  BY Alone DEF OneAtATime
<1>1. PICK kind \in {"init", "unlock"} : BeginRead(o)!(kind)
  BY DEF BeginRead
<1>2. /\ op[o] = Quiet /\ begun < MaxBegun /\ begun' = begun + 1
      /\ op' = [op EXCEPT ![o] = [Quiet EXCEPT !.kind = kind, !.pc = "read"]]
      /\ UNCHANGED <<dataKey, cache, slots, heap, minted, sFile, sPc, sArg, kFile, kPc, kArg, acked, issued, promise, replacing>>
  BY <1>1 DEF Begin, memory, storeFile, keyFile
<1>3. SF!IInv' /\ KF!IInv'
  BY <1>0, <1>1, StoreStill, KeyStill
<1>4. [Quiet EXCEPT !.kind = kind, !.pc = "read"] \in Locals
  BY QuietLocals DEF Locals, LocalsOf, UnlockSlot, Places
<1>5. op' \in [Op -> Locals] /\ op'[o].kind = kind /\ op'[o].pc = "read"
  BY <1>2, <1>4, QuietLocals DEF Types, Locals, LocalsOf, UnlockSlot, Quiet
<1>6. Types'
  BY <1>2, <1>5, MaxBegunAssumption DEF Types
<1>7. MemoryFits' /\ FileFits' /\ AckedKept' /\ PromiseKept' /\ ReplacingFits'
  BY <1>2, SameStoreFile, SameFiles DEF MemoryFits, Locked, AckedKept, AckedDurable, PromiseKept, ReplacingFits
<1>8. op[o].pc = "idle" /\ op[o].kind = "none"
  BY <1>2 DEF Quiet
<1>9. Stands(o)'
  BY <1>2, <1>5, <1>8, MaxBegunAssumption DEF Stands, SlotKinds, Types
<1>10. SlotsAgree'
  BY <1>0, <1>2, <1>5, <1>8, SameStoreFile DEF SlotsAgree, Pending, Locked, SlotKinds
<1> QED BY <1>0, <1>3, <1>6, <1>7, <1>9, <1>10

LEMMA ReadStoreInv ==
  ASSUME OneAtATime, SerialInv, NEW o \in Op, ReadStore(o) PROVE SerialInv'
<1> USE DEF SerialInv
<1>0. /\ SF!OneCaller /\ KF!OneCaller /\ \A v \in Op : v = o
  BY Alone DEF OneAtATime
<1>1. PICK seen \in {sFile, Store!Absent} : op' = [op EXCEPT ![o].pc = "decide", ![o].got = seen]
  BY DEF ReadStore, Reads
<1>2. /\ op[o].kind \in {"init", "unlock"} /\ op[o].pc = "read"
      /\ UNCHANGED <<dataKey, cache, slots, heap, minted, sFile, sPc, sArg, kFile, kPc, kArg, begun, acked, issued, promise, replacing>>
  BY DEF ReadStore, Waiting, memory, storeFile, keyFile, history
<1>3. SF!IInv' /\ KF!IInv'
  BY <1>0, StoreStill, KeyStill DEF ReadStore
<1>4. op[o] \in Locals /\ seen \in Store!Content
  <2>1. Store!Absent \in Store!Content
    BY DEF Store!Absent, Store!Content
  <2> QED BY <2>1, StoreTypes DEF Types
<1>5. op' \in [Op -> Locals] /\ op'[o].kind = op[o].kind /\ op'[o].pc = "decide" /\ op'[o].got = seen
  BY <1>1, <1>2, <1>4 DEF Types, Locals, LocalsOf, UnlockSlot, Places
<1>6. Types'
  BY <1>2, <1>5 DEF Types
<1>7. MemoryFits' /\ FileFits' /\ AckedKept' /\ PromiseKept' /\ ReplacingFits'
  BY <1>2, SameStoreFile, SameFiles DEF MemoryFits, Locked, AckedKept, AckedDurable, PromiseKept, ReplacingFits
<1>9. Stands(o)'
  BY <1>2, <1>5 DEF Stands, SlotKinds
<1>10. SlotsAgree'
  BY <1>0, <1>2, <1>5, SameStoreFile DEF SlotsAgree, Pending, Locked, SlotKinds
<1> QED BY <1>0, <1>3, <1>6, <1>7, <1>9, <1>10

\* The next lemmas are about any keys K and contents C.
LEMMA NewSlotsIs ==
  ASSUME NEW K, NEW s \in SlotsOf(K), heap \in [Ref -> SlotsOf(K)], NewSlots(s)
  PROVE  /\ slots' \in Ref /\ slots' # 0 /\ heap' \in [Ref -> SlotsOf(K)] /\ heap'[slots'] = s
         /\ \A o \in Op : op[o].ref # slots'
         /\ \A r \in Ref : r # slots' => heap'[r] = heap[r]
<1> DEFINE Used == {op[o].ref : o \in Op} \cup {slots}
<1>1. IsFiniteSet(Used) /\ Cardinality(Used) <= Cardinality(Op) + 1 /\ Cardinality(Op) \in Nat
  <2> DEFINE f == [o \in Op |-> op[o].ref]
             I == {f[o] : o \in Op}
  <2>1. I = {op[o].ref : o \in Op}
    OBVIOUS
  <2>2. IsFiniteSet(I) /\ Cardinality(I) <= Cardinality(Op)
    <3>1. f \in Surjection(Op, I)
      BY DEF Surjection
    <3> HIDE DEF f, I
    <3> QED BY <3>1, FinitenessAssumption, FS_Surjection
  <2> HIDE DEF f
  <2>3. IsFiniteSet(I \cup {slots}) /\ Cardinality(I \cup {slots}) <= Cardinality(I) + 1 /\ Cardinality(I) \in Nat
    <3> HIDE DEF I
    <3> QED BY <2>2, FS_AddElement, FS_CardinalityType
  <2>4. Cardinality(Op) \in Nat /\ Cardinality(I \cup {slots}) \in Nat
    BY <2>3, FinitenessAssumption, FS_CardinalityType
  <2>5. Used = I \cup {slots}
    BY <2>1
  <2> HIDE DEF I, Used
  <2> QED BY <2>2, <2>3, <2>4, <2>5
<1>2. \E r \in Ref : r \notin Used
  <2> HIDE DEF Used
  <2> SUFFICES ASSUME Ref \subseteq Used PROVE FALSE
    OBVIOUS
  <2>1. Cardinality(Ref) <= Cardinality(Used)
    BY <1>1, FS_Subset
  <2>2. Cardinality(Ref) = Cardinality(Op) + 2
    <3>1. Cardinality(Op) + 2 \in Nat /\ 1 \in Int /\ Cardinality(Op) + 2 \in Int
      BY <1>1
    <3>2. Cardinality(1 .. (Cardinality(Op) + 2)) = (IF 1 > Cardinality(Op) + 2 THEN 0 ELSE (Cardinality(Op) + 2) - 1 + 1)
      BY <3>1, FS_Interval, Zenon
    <3> QED BY <1>1, <3>2 DEF Ref
  <2>3. Cardinality(Used) \in Nat
    BY <1>1, FS_CardinalityType
  <2> QED BY <1>1, <2>1, <2>2, <2>3
<1>3. \E r \in Ref : r # slots /\ \A o \in Op : op[o].ref # r
  BY <1>2
<1> HIDE DEF Used
<1>4. FreshRef \in Ref /\ \A o \in Op : op[o].ref # FreshRef
  BY <1>3 DEF FreshRef
<1>5. FreshRef # 0
  BY <1>1, <1>4 DEF Ref
<1> HIDE DEF FreshRef
<1> QED BY <1>4, <1>5 DEF NewSlots

LEMMA PersistIs ==
  ASSUME NEW K, NEW C, op \in [Op -> LocalsOf(K, C)], NEW o \in Op, NEW locals \in LocalsOf(K, C),
         NEW kind \in {"init", "migrate", "update"} \cup SlotKinds,
         slots' \in Ref, dataKey' \in K, cache' \subseteq Patch, Persist(o, kind, locals)
  PROVE  /\ op' \in [Op -> LocalsOf(K, C)] /\ \A v \in Op : v # o => op'[v] = op[v]
         /\ op'[o].kind = kind /\ op'[o].pc = "mkdir"
         /\ op'[o].ref = slots' /\ op'[o].key = dataKey' /\ op'[o].cache = cache'
         /\ op'[o].prev = locals.prev /\ op'[o].kek = locals.kek /\ op'[o].patch = locals.patch
<1> DEFINE new == [locals EXCEPT !.kind = kind, !.pc = "mkdir", !.ref = slots', !.key = dataKey', !.cache = cache']
<1>1. new \in LocalsOf(K, C)
  BY DEF LocalsOf, Places, SlotKinds
<1>2. /\ new.kind = kind /\ new.pc = "mkdir" /\ new.ref = slots' /\ new.key = dataKey' /\ new.cache = cache'
      /\ new.prev = locals.prev /\ new.kek = locals.kek /\ new.patch = locals.patch
  BY DEF LocalsOf
<1>3. op' = [op EXCEPT ![o] = new]
  BY DEF Persist
<1> HIDE DEF new
<1> QED BY <1>1, <1>2, <1>3

\* A request that is answered leaves the locals of an idle one.
LEMMA EndIs ==
  ASSUME NEW K, NEW C, op \in [Op -> LocalsOf(K, C)], Quiet \in LocalsOf(K, C), NEW o \in Op, End(o)
  PROVE  /\ op' \in [Op -> LocalsOf(K, C)] /\ \A v \in Op : v # o => op'[v] = op[v]
         /\ op'[o] = Quiet /\ op'[o].kind = "none" /\ op'[o].pc = "idle"
<1>1. Quiet.kind = "none" /\ Quiet.pc = "idle"
  BY DEF Quiet
<1> HIDE DEF Quiet
<1> QED BY <1>1 DEF End

LEMMA SetIs ==
  ASSUME NEW K, NEW u \in [kek : K, key : K], heap \in [Ref -> SlotsOf(K)], slots \in Ref, SetUnlockSlot(u)
  PROVE  /\ heap' \in [Ref -> SlotsOf(K)] /\ heap'[slots].pass = heap[slots].pass /\ heap'[slots].unlock = u
         /\ \A r \in Ref : r # slots => heap'[r] = heap[r]
<1> DEFINE s == [heap[slots] EXCEPT !.unlock = u]
<1>1. s \in SlotsOf(K) /\ s.unlock = u /\ s.pass = heap[slots].pass
  BY DEF SlotsOf
<1>2. heap' = [heap EXCEPT ![slots] = s]
  BY DEF SetUnlockSlot
<1> HIDE DEF s
<1> QED BY <1>1, <1>2

\* ... here about the keys and contents there are one request at a time.
LEMMA SerialSorts ==
  /\ Slots = SlotsOf(Key) /\ UnlockSlot = [kek : Key, key : Key]
  /\ Locals = LocalsOf(Key, Store!Content)
BY DEF Slots, SlotsOf, UnlockSlot, Locals

\* What an idle request asks of the invariant.
LEMMA QuietStands ==
  ASSUME OneAtATime, NEW o \in Op, Stands(o), op'[o] = Quiet, sPc'[o] = "idle", kPc'[o] = "idle"
  PROVE  Stands(o)' /\ (SlotsAgree' <=> (~Locked /\ ~replacing => DiskUnlockSlot = heap[slots].unlock)')
<1>1. op'[o].kind = "none" /\ op'[o].pc = "idle" /\ \A v \in Op : v = o
  BY DEF Quiet, OneAtATime
<1> QED BY <1>1 DEF Stands, SlotsAgree, Pending, SlotKinds

LEMMA FreshStoreInv ==
  ASSUME OneAtATime, SerialInv, NEW o \in Op, Initialize(o) \/ Migrate(o) PROVE SerialInv'
<1> USE DEF SerialInv
<1>0. /\ SF!OneCaller /\ KF!OneCaller /\ \A v \in Op : v = o
  BY Alone DEF OneAtATime
<1>1. PICK kind \in {"init", "migrate"} : Persist(o, kind, Quiet)
  BY DEF Initialize, Migrate
<1>2. /\ op[o].pc = "decide" /\ op[o].kind \in {"init", "unlock"}
      /\ minted' = minted + 1 /\ dataKey' = minted'
      /\ NewSlots([pass |-> minted', unlock |-> NoSlot])
      /\ UNCHANGED <<sFile, sPc, sArg, kFile, kPc, kArg, begun, acked, issued, promise>>
      /\ UNCHANGED <<storeFile, keyFile>>
  BY DEF Initialize, Migrate, Waiting, storeFile, keyFile
<1>3. SF!IInv' /\ KF!IInv'
  BY <1>0, <1>2, StoreStill, KeyStill
<1>4. minted' \in Key /\ minted' # 0 /\ minted' \in 2 .. begun + 2
  <2>1. minted < begun + 2
    BY <1>2 DEF Stands
  <2>2. begun \in 0 .. MaxBegun /\ minted \in 2 .. begun + 2
    BY DEF Types
  <2> QED BY <1>2, <2>1, <2>2, MaxBegunAssumption DEF Key
<1>5. [pass |-> minted', unlock |-> NoSlot] \in Slots
  BY <1>4, QuietLocals DEF Slots
<1>6. /\ slots' \in Ref /\ slots' # 0 /\ heap' \in [Ref -> Slots]
      /\ heap'[slots'].pass = dataKey' /\ heap'[slots'].unlock = NoSlot
  BY <1>2, <1>5, NewSlotsIs, SerialSorts, QuietLocals DEF Types
<1>7. op[o].got = sFile \/ op[o].got = Store!Absent
  BY <1>2 DEF Stands
\* No file is there, or one of the first version, which has no unlock slot; or
\* this store is made beside one that could not be read.
<1>8. /\ cache' \subseteq Patch /\ replacing' \in BOOLEAN
      /\ ~replacing' => acked \subseteq cache' /\ (~Store!Whole(sFile) \/ Disk.v = 1)
  <2>1. CASE Initialize(o)
    <3>1. replacing' = (sFile # Store!Absent) /\ cache' = {}
      BY <2>1 DEF Initialize
    <3>2. sFile = Store!Absent => ~Store!Whole(sFile)
      BY DEF Store!Whole, Store!Absent
    <3> QED BY <3>1, <3>2 DEF AckedKept, AckedDurable
  <2>2. CASE Migrate(o)
    <3>1. Store!Whole(op[o].got) /\ ~Store!Whole(Store!Absent)
      BY <2>2 DEF Migrate, Store!Whole, Store!Absent
    <3>2. op[o].got = sFile
      BY <1>7, <3>1
    <3>3. Store!Whole(sFile) /\ Disk.v = 1 /\ cache' = Disk.cache /\ replacing' = FALSE
      BY <2>2, <3>1, <3>2 DEF Migrate, Disk
    <3>4. Disk \in Image
      BY <3>3, StoreTypes DEF Store!Whole, Store!Content, Disk
    <3> QED BY <3>3, <3>4 DEF AckedKept, AckedDurable, Image
  <2> QED BY <2>1, <2>2
<1>9. ~replacing' => DiskUnlockSlot = NoSlot
  BY <1>8 DEF DiskUnlockSlot, FileFits
<1>10. /\ op' \in [Op -> Locals] /\ op'[o].kind = kind /\ op'[o].pc = "mkdir"
       /\ op'[o].ref = slots' /\ op'[o].key = dataKey' /\ op'[o].cache = cache'
  BY <1>1, <1>2, <1>4, <1>6, <1>8, PersistIs, SerialSorts, QuietLocals DEF Types
<1>11. Types'
  BY <1>2, <1>4, <1>6, <1>8, <1>10 DEF Types
<1>12. MemoryFits' /\ FileFits' /\ AckedKept' /\ PromiseKept' /\ ReplacingFits'
  BY <1>2, <1>4, <1>6, <1>8, SameStoreFile, SameFiles
     DEF MemoryFits, Locked, AckedKept, AckedDurable, PromiseKept, ReplacingFits, Fit
<1>13. Stands(o)'
  BY <1>2, <1>4, <1>10 DEF Stands, SlotKinds, Locked
<1>14. SlotsAgree'
  BY <1>0, <1>2, <1>6, <1>9, <1>10, SameStoreFile DEF SlotsAgree, Pending, SlotKinds
<1> QED BY <1>0, <1>3, <1>11, <1>12, <1>13, <1>14

LEMMA AdoptInv ==
  ASSUME OneAtATime, SerialInv, NEW o \in Op, Adopt(o) PROVE SerialInv'
<1> USE DEF SerialInv
<1>0. /\ SF!OneCaller /\ KF!OneCaller /\ \A v \in Op : v = o
  BY Alone DEF OneAtATime
<1>2. /\ op[o].pc = "decide" /\ End(o) /\ replacing' = FALSE
      /\ UNCHANGED <<minted, sFile, sPc, sArg, kFile, kPc, kArg, begun, acked, issued, promise>>
      /\ UNCHANGED <<storeFile, keyFile>>
  BY DEF Adopt, Waiting, storeFile, keyFile
<1>3. SF!IInv' /\ KF!IInv'
  BY <1>0, <1>2, StoreStill, KeyStill
<1>4. op[o].got = sFile
  <2>1. Store!Whole(op[o].got) /\ ~Store!Whole(Store!Absent)
    BY DEF Adopt, Store!Whole, Store!Absent
  <2>2. op[o].got = sFile \/ op[o].got = Store!Absent
    BY <1>2 DEF Stands
  <2> QED BY <2>1, <2>2
<1>5. /\ Store!Whole(sFile) /\ Disk.v = 2 /\ Disk.slots.pass = Disk.key
      /\ dataKey' = Disk.key /\ cache' = Disk.cache /\ NewSlots(Disk.slots)
  BY <1>4 DEF Adopt, Disk
<1>6. Disk \in Image
  BY <1>5, StoreTypes DEF Store!Whole, Store!Content, Disk
<1>7. Disk.slots \in Slots /\ Disk.key \in Key /\ Disk.cache \subseteq Patch
  BY <1>6 DEF Image
<1>8. slots' \in Ref /\ slots' # 0 /\ heap' \in [Ref -> Slots] /\ heap'[slots'] = Disk.slots
  BY <1>5, <1>7, NewSlotsIs, SerialSorts, QuietLocals DEF Types
<1>9. op' \in [Op -> Locals] /\ op'[o] = Quiet
  BY <1>2, EndIs, SerialSorts, QuietLocals DEF Types
<1>10. Types'
  BY <1>2, <1>5, <1>7, <1>8, <1>9 DEF Types
<1>11. Fit(Disk.slots, Disk.key) /\ DiskUnlockSlot = Disk.slots.unlock
  BY <1>5 DEF FileFits, DiskUnlockSlot
<1>12. MemoryFits' /\ FileFits' /\ AckedKept' /\ PromiseKept' /\ ReplacingFits'
  <2>1. MemoryFits'
    BY <1>5, <1>8, <1>11 DEF MemoryFits, Locked, Fit
  <2> QED BY <1>2, <1>5, <2>1, SameStoreFile, SameFiles DEF AckedKept, AckedDurable, PromiseKept, ReplacingFits
<1>13. Stands(o)' /\ SlotsAgree'
  BY <1>0, <1>2, <1>8, <1>9, <1>11, QuietStands, SameStoreFile DEF Stands
<1> QED BY <1>0, <1>3, <1>10, <1>12, <1>13

LEMMA RefuseInv ==
  ASSUME OneAtATime, SerialInv, NEW o \in Op, Refuse(o) PROVE SerialInv'
<1> USE DEF SerialInv
<1>0. /\ SF!OneCaller /\ KF!OneCaller /\ \A v \in Op : v = o
  BY Alone DEF OneAtATime
<1>2. /\ op[o].pc = "decide" /\ op[o].kind \in {"init", "unlock"} /\ End(o)
      /\ UNCHANGED <<dataKey, cache, slots, heap, minted, sFile, sPc, sArg, kFile, kPc, kArg, begun, acked, issued, promise, replacing>>
      /\ UNCHANGED <<storeFile, keyFile>>
  BY DEF Refuse, Waiting, memory, storeFile, keyFile, history
<1>3. SF!IInv' /\ KF!IInv'
  BY <1>0, <1>2, StoreStill, KeyStill
<1>4. op' \in [Op -> Locals] /\ op'[o] = Quiet
  BY <1>2, EndIs, SerialSorts, QuietLocals DEF Types
<1>5. Types'
  BY <1>2, <1>4 DEF Types
<1>6. MemoryFits' /\ FileFits' /\ AckedKept' /\ PromiseKept' /\ ReplacingFits'
  BY <1>2, SameStoreFile, SameFiles DEF MemoryFits, Locked, AckedKept, AckedDurable, PromiseKept, ReplacingFits
<1>7. ~Locked /\ ~replacing => DiskUnlockSlot = heap[slots].unlock
  BY <1>0, <1>2 DEF SlotsAgree, Pending, SlotKinds
<1>8. Stands(o)' /\ SlotsAgree'
  BY <1>0, <1>2, <1>4, <1>7, QuietStands, SameStoreFile DEF Stands, Locked
<1> QED BY <1>0, <1>3, <1>5, <1>6, <1>8

LEMMA UpdateInv ==
  ASSUME OneAtATime, SerialInv, NEW o \in Op, NEW p \in Patch, Update(o, p) PROVE SerialInv'
<1> USE DEF SerialInv
<1>0. /\ SF!OneCaller /\ KF!OneCaller /\ \A v \in Op : v = o
  BY Alone DEF OneAtATime
<1>2. /\ op[o] = Quiet /\ begun < MaxBegun /\ begun' = begun + 1 /\ ~Locked
      /\ cache' = cache \cup {p} /\ Persist(o, "update", [Quiet EXCEPT !.patch = {p}])
      /\ UNCHANGED <<dataKey, slots, heap, minted, sFile, sPc, sArg, kFile, kPc, kArg, acked, issued, promise, replacing>>
      /\ UNCHANGED <<storeFile, keyFile>>
  BY DEF Update, Begin, storeFile, keyFile
<1>3. SF!IInv' /\ KF!IInv'
  BY <1>0, <1>2, StoreStill, KeyStill
<1>4. [Quiet EXCEPT !.patch = {p}] \in Locals /\ [Quiet EXCEPT !.patch = {p}].patch = {p}
  BY QuietLocals DEF Locals, LocalsOf, UnlockSlot, Quiet
<1>5. slots \in Ref /\ dataKey \in Key /\ cache' \subseteq Patch
  BY <1>2 DEF MemoryFits, Types
<1>6. /\ op' \in [Op -> Locals] /\ op'[o].kind = "update" /\ op'[o].pc = "mkdir"
      /\ op'[o].ref = slots /\ op'[o].key = dataKey /\ op'[o].cache = cache' /\ op'[o].patch = {p}
  <2>1. slots' \in Ref /\ dataKey' \in Key /\ "update" \in {"init", "migrate", "update"} \cup SlotKinds
    BY <1>2, <1>5
  <2> DEFINE locals == [Quiet EXCEPT !.patch = {p}]
  <2>2. locals \in Locals /\ locals.patch = {p} /\ Persist(o, "update", locals)
    BY <1>2, <1>4
  <2> HIDE DEF locals
  <2> QED BY <1>2, <1>5, <2>1, <2>2, PersistIs, SerialSorts, QuietLocals DEF Types
<1>7. op[o].pc = "idle" /\ op[o].kind = "none"
  BY <1>2 DEF Quiet
<1>8. Types'
  BY <1>2, <1>5, <1>6, MaxBegunAssumption DEF Types
<1>9. MemoryFits' /\ FileFits' /\ AckedKept' /\ PromiseKept' /\ ReplacingFits'
  BY <1>2, SameStoreFile, SameFiles DEF MemoryFits, Locked, AckedKept, AckedDurable, PromiseKept, ReplacingFits
<1>10. Stands(o)'
  BY <1>2, <1>6, <1>7 DEF Stands, SlotKinds, Locked
<1>11. SlotsAgree'
  BY <1>0, <1>2, <1>6, <1>7, SameStoreFile DEF SlotsAgree, Pending, SlotKinds, Locked
<1> QED BY <1>0, <1>3, <1>8, <1>9, <1>10, <1>11

LEMMA EnableInv ==
  ASSUME OneAtATime, SerialInv, NEW o \in Op, EnableAutoUnlock(o) PROVE SerialInv'
<1> USE DEF SerialInv
<1>0. /\ SF!OneCaller /\ KF!OneCaller /\ \A v \in Op : v = o
  BY Alone DEF OneAtATime
<1> DEFINE locals == [Quiet EXCEPT !.prev = heap[slots].unlock, !.kek = minted']
<1>2. /\ op[o] = Quiet /\ begun < MaxBegun /\ begun' = begun + 1 /\ ~Locked
      /\ minted' = minted + 1 /\ SetUnlockSlot([kek |-> minted', key |-> dataKey])
      /\ Persist(o, "enable", locals) /\ promise' = "none"
      /\ UNCHANGED <<dataKey, cache, slots, sFile, sPc, sArg, kFile, kPc, kArg, acked, issued, replacing>>
      /\ UNCHANGED <<storeFile, keyFile>>
  BY DEF EnableAutoUnlock, Begin, storeFile, keyFile
<1>3. SF!IInv' /\ KF!IInv'
  BY <1>0, <1>2, StoreStill, KeyStill
<1>4. /\ slots \in Ref /\ dataKey \in Key /\ dataKey # 0 /\ heap[slots] \in Slots
      /\ Fit(heap[slots], dataKey) /\ heap[slots].unlock \in UnlockSlot
  BY <1>2 DEF MemoryFits, Types, Slots, Locked
<1>5. minted' \in Key /\ minted' # 0 /\ minted' \in 2 .. begun' + 2 /\ begun' \in 0 .. MaxBegun
  <2>1. begun \in 0 .. MaxBegun /\ minted \in 2 .. begun + 2
    BY DEF Types
  <2> QED BY <1>2, <2>1, MaxBegunAssumption DEF Key
<1>6. [kek |-> minted', key |-> dataKey] \in UnlockSlot
  BY <1>4, <1>5 DEF UnlockSlot
<1>7. /\ heap' \in [Ref -> Slots] /\ heap'[slots].pass = heap[slots].pass
      /\ heap'[slots].unlock = [kek |-> minted', key |-> dataKey]
  BY <1>2, <1>4, <1>6, SetIs, SerialSorts, QuietLocals DEF Types
<1>8. locals \in Locals /\ locals.prev = heap[slots].unlock /\ locals.kek = minted'
  BY <1>4, <1>5, QuietLocals DEF Locals, LocalsOf, UnlockSlot, Quiet
<1> HIDE DEF locals
<1>9. /\ op' \in [Op -> Locals] /\ op'[o].kind = "enable" /\ op'[o].pc = "mkdir"
      /\ op'[o].ref = slots /\ op'[o].key = dataKey /\ op'[o].cache = cache
      /\ op'[o].prev = heap[slots].unlock /\ op'[o].kek = minted'
  <2>1. cache' \subseteq Patch /\ slots' \in Ref /\ dataKey' \in Key /\ "enable" \in {"init", "migrate", "update"} \cup SlotKinds
    BY <1>2, <1>4 DEF Types, SlotKinds
  <2> QED BY <1>2, <1>8, <2>1, PersistIs, SerialSorts, QuietLocals DEF Types
<1>10. op[o].pc = "idle" /\ op[o].kind = "none"
  BY <1>2 DEF Quiet
<1>11. Types'
  BY <1>2, <1>5, <1>7, <1>9 DEF Types
<1>12. MemoryFits' /\ FileFits' /\ AckedKept' /\ PromiseKept' /\ ReplacingFits'
  BY <1>2, <1>4, <1>7, SameStoreFile DEF MemoryFits, Locked, AckedKept, AckedDurable, PromiseKept, ReplacingFits, Fit
<1>13. Stands(o)'
  BY <1>2, <1>4, <1>5, <1>7, <1>9, <1>10 DEF Stands, SlotKinds, Locked, Fit
<1>14. ~Locked /\ ~replacing => DiskUnlockSlot = heap[slots].unlock
  BY <1>0, <1>10 DEF SlotsAgree, Pending, SlotKinds
<1>15. SlotsAgree'
  BY <1>0, <1>2, <1>9, <1>14, SameStoreFile DEF SlotsAgree, Pending, SlotKinds
<1> QED BY <1>0, <1>3, <1>11, <1>12, <1>13, <1>15

LEMMA DisableInv ==
  ASSUME OneAtATime, SerialInv, NEW o \in Op, DisableAutoUnlock(o) PROVE SerialInv'
<1> USE DEF SerialInv
<1>0. /\ SF!OneCaller /\ KF!OneCaller /\ \A v \in Op : v = o
  BY Alone DEF OneAtATime
<1>2. /\ op[o] = Quiet /\ begun < MaxBegun /\ begun' = begun + 1 /\ ~Locked /\ promise' = "none"
      /\ UNCHANGED <<dataKey, cache, slots, minted, sFile, sPc, sArg, kFile, kPc, kArg, acked, issued, replacing>>
      /\ UNCHANGED <<storeFile, keyFile>>
  BY DEF DisableAutoUnlock, Begin, storeFile, keyFile
<1>3. SF!IInv' /\ KF!IInv'
  BY <1>0, <1>2, StoreStill, KeyStill
<1>4. /\ slots \in Ref /\ dataKey \in Key /\ dataKey # 0 /\ heap[slots] \in Slots
      /\ Fit(heap[slots], dataKey) /\ heap[slots].unlock \in UnlockSlot
  BY <1>2 DEF MemoryFits, Types, Slots, Locked
<1>5. op[o].pc = "idle" /\ op[o].kind = "none"
  BY <1>2 DEF Quiet
<1>6. ~Locked /\ ~replacing => DiskUnlockSlot = heap[slots].unlock
  BY <1>0, <1>5 DEF SlotsAgree, Pending, SlotKinds
<1>7. /\ heap' \in [Ref -> Slots] /\ heap'[slots].pass = heap[slots].pass /\ heap'[slots].unlock = NoSlot
      /\ op' \in [Op -> Locals] /\ op'[o].kind = "disable"
      /\ (op'[o].prev = NoSlot \/ op'[o].prev.key = dataKey)
      /\ \/ op'[o].pc = "unlink" /\ heap[slots].unlock = NoSlot
         \/ /\ op'[o].pc = "mkdir" /\ op'[o].prev = heap[slots].unlock
            /\ op'[o].ref = slots /\ op'[o].key = dataKey /\ op'[o].cache = cache
  <2>1. CASE heap[slots].unlock = NoSlot
    <3>1. heap' = heap /\ op' = [op EXCEPT ![o] = [Quiet EXCEPT !.kind = "disable", !.pc = "unlink"]]
      BY <2>1 DEF DisableAutoUnlock
    <3>2. [Quiet EXCEPT !.kind = "disable", !.pc = "unlink"] \in Locals
      BY QuietLocals DEF Locals, LocalsOf, UnlockSlot, Places, SlotKinds
    <3>3. op' \in [Op -> Locals] /\ op'[o].kind = "disable" /\ op'[o].pc = "unlink" /\ op'[o].prev = NoSlot
      BY <3>1, <3>2 DEF Types, Quiet
    <3> QED BY <2>1, <3>1, <3>3 DEF Types
  <2>2. CASE heap[slots].unlock # NoSlot
    <3> DEFINE locals == [Quiet EXCEPT !.prev = heap[slots].unlock]
    <3>1. SetUnlockSlot(NoSlot) /\ Persist(o, "disable", locals)
      BY <2>2 DEF DisableAutoUnlock
    <3>2. heap' \in [Ref -> Slots] /\ heap'[slots].pass = heap[slots].pass /\ heap'[slots].unlock = NoSlot
      BY <1>4, <3>1, SetIs, SerialSorts, QuietLocals DEF Types
    <3>3. locals \in Locals /\ locals.prev = heap[slots].unlock
      BY <1>4, QuietLocals DEF Locals, LocalsOf, UnlockSlot, Quiet
    <3>4. cache' \subseteq Patch /\ slots' \in Ref /\ dataKey' \in Key /\ "disable" \in {"init", "migrate", "update"} \cup SlotKinds
      BY <1>2, <1>4 DEF Types, SlotKinds
    <3> HIDE DEF locals
    <3>5. /\ op' \in [Op -> Locals] /\ op'[o].kind = "disable" /\ op'[o].pc = "mkdir" /\ op'[o].prev = locals.prev
          /\ op'[o].ref = slots' /\ op'[o].key = dataKey' /\ op'[o].cache = cache'
      BY <3>1, <3>3, <3>4, PersistIs, SerialSorts, QuietLocals DEF Types
    <3> QED BY <1>2, <1>4, <3>2, <3>3, <3>5 DEF Fit
  <2> QED BY <2>1, <2>2
<1>8. Types'
  BY <1>2, <1>7, MaxBegunAssumption DEF Types
<1>9. MemoryFits' /\ FileFits' /\ AckedKept' /\ PromiseKept' /\ ReplacingFits'
  BY <1>2, <1>4, <1>7, SameStoreFile DEF MemoryFits, Locked, AckedKept, AckedDurable, PromiseKept, ReplacingFits, Fit
<1>10. Stands(o)'
  BY <1>2, <1>5, <1>7 DEF Stands, SlotKinds, Locked
<1>11. SlotsAgree'
  BY <1>0, <1>2, <1>6, <1>7, SameStoreFile DEF SlotsAgree, Pending, SlotKinds
<1> QED BY <1>0, <1>3, <1>8, <1>9, <1>10, <1>11

LEMMA SerialiseInv ==
  ASSUME OneAtATime, SerialInv, NEW o \in Op, Serialise(o) PROVE SerialInv'
<1> USE DEF SerialInv
<1>0. /\ SF!OneCaller /\ KF!OneCaller /\ \A v \in Op : v = o
  BY Alone DEF OneAtATime
<1>1. /\ op[o].pc = "mkdir"
      /\ Store!Call(o, [v |-> 2, slots |-> heap[op[o].ref], key |-> op[o].key, cache |-> op[o].cache])
      /\ op' = [op EXCEPT ![o].pc = "write", ![o].ref = 0, ![o].key = 0, ![o].cache = {}]
      /\ UNCHANGED <<dataKey, cache, slots, heap, minted, kFile, kPc, kArg, begun, acked, issued, promise, replacing>>
      /\ UNCHANGED keyFile
  BY DEF Serialise, memory, keyFile, history
<1>2. op[o].ref = slots /\ op[o].key = dataKey /\ op[o].cache = cache /\ ~Locked /\ op[o].kind # "unlock"
  BY <1>1 DEF Stands
<1>3. slots \in Ref /\ heap[slots] \in Slots /\ dataKey \in Key /\ cache \subseteq Patch
  BY <1>2 DEF MemoryFits, Types
<1>4. Store!Call(o, Now) /\ Now \in Image
  BY <1>1, <1>2, <1>3 DEF Now, Image
<1>5. SF!IInv' /\ sFile' = sFile /\ sPc[o] = "idle" /\ sPc'[o] = "open" /\ sArg'[o] = Now
  BY <1>0, <1>4, StoreCall
<1>6. KF!IInv'
  BY <1>0, <1>1, KeyStill
<1>7. op[o] \in Locals /\ 0 \in Key
  BY MaxBegunAssumption DEF Types, Key
<1>8. /\ op' \in [Op -> Locals] /\ op'[o].pc = "write" /\ op'[o].kind = op[o].kind
      /\ op'[o].prev = op[o].prev /\ op'[o].kek = op[o].kek /\ op'[o].patch = op[o].patch
  BY <1>1, <1>7 DEF Types, Locals, LocalsOf, UnlockSlot, Places
<1>9. Types'
  BY <1>1, <1>8 DEF Types
<1>10. MemoryFits' /\ FileFits' /\ AckedKept' /\ PromiseKept' /\ ReplacingFits'
  BY <1>1, <1>5, SameStoreFile, SameFiles DEF MemoryFits, Locked, AckedKept, AckedDurable, PromiseKept, ReplacingFits
<1>11. Now' = Now
  BY <1>1 DEF Now
<1>12. Stands(o)'
  BY <1>1, <1>2, <1>5, <1>8, <1>11 DEF Stands, SlotKinds, Locked
<1>13. SlotsAgree'
  BY <1>0, <1>1, <1>5, <1>8, SameStoreFile DEF SlotsAgree, Pending, SlotKinds, Locked
<1> QED BY <1>0, <1>5, <1>6, <1>9, <1>10, <1>12, <1>13

\* A rename is where the file becomes what persist() was called for.
LEMMA WriteStepInv ==
  ASSUME OneAtATime, SerialInv, NEW o \in Op, WriteStep(o) PROVE SerialInv'
<1> USE DEF SerialInv
<1>0. /\ SF!OneCaller /\ KF!OneCaller /\ \A v \in Op : v = o
  BY Alone DEF OneAtATime
<1>1. /\ Store!Step(o)
      /\ UNCHANGED <<dataKey, cache, slots, heap, minted, op, kFile, kPc, kArg, begun, issued>>
      /\ UNCHANGED keyFile
      /\ IF replacing /\ Store!Rename(o)
         THEN acked' = {} /\ promise' = (IF promise = "on" THEN "none" ELSE promise) /\ replacing' = FALSE
         ELSE UNCHANGED <<acked, promise, replacing>>
  BY DEF WriteStep, memory, keyFile
<1>2. /\ SF!IInv' /\ sArg' = sArg /\ sPc[o] \notin {"idle", "syncDir", "throw"} /\ sPc'[o] # "idle"
      /\ \/ sPc'[o] = "syncDir" /\ Store!Whole(sFile)' /\ sFile'.data = sArg[o]
         \/ sPc'[o] # "syncDir" /\ sFile' = sFile
  BY <1>0, <1>1, StoreStep
<1>3. KF!IInv'
  BY <1>0, <1>1, KeyStill
<1>4. op[o].pc = "write" /\ ~Locked /\ sArg[o] = Now /\ Now' = Now
  BY <1>1, <1>2 DEF Stands, Now
<1>r. (sPc'[o] = "syncDir") <=> Store!Rename(o)
  <2>1. sPc \in [Op -> {"idle", "open", "write", "sync", "rename", "syncDir", "throw"}]
    BY StoreTypes
  <2> QED BY <1>1, <1>2, <2>1
    DEF Store!Step, Store!Open, Store!Write, Store!Sync, Store!Rename, Store!OpenFails, Store!WriteFails,
        Store!SyncFails, Store!RenameFails, Store!Goto
<1>5. Types'
  BY <1>1 DEF Types
<1>6. MemoryFits' /\ (Locked' <=> Locked)
  BY <1>1 DEF MemoryFits, Locked
<1>7. CASE sPc'[o] # "syncDir" /\ sFile' = sFile
  <2>0. UNCHANGED <<acked, promise, replacing>>
    BY <1>1, <1>7, <1>r
  <2>1. FileFits' /\ AckedKept' /\ PromiseKept' /\ ReplacingFits'
    BY <1>1, <1>7, <2>0, SameStoreFile, SameFiles DEF Locked, AckedKept, AckedDurable, PromiseKept, ReplacingFits
  <2>2. Stands(o)'
    BY <1>1, <1>2, <1>4, <1>6, <1>7, <2>0 DEF Stands
  <2>3. SlotsAgree'
    BY <1>0, <1>1, <1>2, <1>6, <1>7, <2>0, SameStoreFile DEF SlotsAgree, Pending
  <2> QED BY <1>0, <1>2, <1>3, <1>5, <1>6, <2>1, <2>2, <2>3
<1>8. CASE sPc'[o] = "syncDir" /\ Store!Whole(sFile)' /\ sFile'.data = sArg[o]
  <2>0. /\ replacing' = FALSE
        /\ replacing => acked' = {} /\ promise' = (IF promise = "on" THEN "none" ELSE promise)
        /\ ~replacing => acked' = acked /\ promise' = promise
    BY <1>1, <1>8, <1>r DEF Types
  <2>1. /\ Disk' = Now /\ Now.v = 2 /\ Now.slots = heap[slots] /\ Now.key = dataKey /\ Now.cache = cache
    BY <1>4, <1>8 DEF Disk, Now
  <2>2. DiskUnlockSlot' = heap[slots].unlock
    BY <1>8, <2>1 DEF DiskUnlockSlot
  <2>3. Fit(heap[slots], dataKey)
    BY <1>4 DEF MemoryFits
  <2>4. FileFits'
    BY <1>8, <2>1, <2>3 DEF FileFits, Fit
  <2>5. AckedKept'
    BY <1>1, <1>4, <1>6, <1>8, <2>0, <2>1 DEF AckedKept, AckedDurable
  <2>6. op[o].kind \notin SlotKinds /\ ~replacing => DiskUnlockSlot = heap[slots].unlock
    BY <1>0, <1>4 DEF SlotsAgree, Pending
  <2>7. PromiseKept'
    <3>1. CASE op[o].kind \in SlotKinds
      BY <1>1, <2>0, <3>1 DEF Stands, PromiseKept
    <3>3. CASE replacing
      BY <1>1, <2>0, <2>2, <3>3 DEF PromiseKept, ReplacingFits, Types
    <3>2. CASE op[o].kind \notin SlotKinds /\ ~replacing
      <4>1. promise = "on" => KeyFits'
        <5> SUFFICES ASSUME promise = "on" PROVE KeyFits'
          OBVIOUS
        <5>1. KeyFits /\ DiskUnlockSlot = Disk.slots.unlock
          BY DEF PromiseKept, KeyFits, DiskUnlockSlot
        <5>2. heap[slots].unlock # NoSlot /\ KeyFile!Whole(kFile) /\ kFile.data = heap[slots].unlock.kek
          BY <2>6, <3>2, <5>1 DEF KeyFits
        <5>3. KeyFile!Whole(kFile)' /\ kFile' = kFile
          BY <1>1, <5>2 DEF KeyFile!Whole
        <5> QED BY <1>8, <2>1, <2>3, <5>2, <5>3 DEF KeyFits, Fit
      <4> QED BY <1>1, <2>0, <2>2, <2>6, <3>2, <4>1 DEF PromiseKept
    <3> QED BY <3>1, <3>2, <3>3
  <2>8. Stands(o)'
    BY <1>1, <1>2, <1>4, <1>6, <1>8, <2>0, <2>1 DEF Stands
  <2>r. ReplacingFits'
    BY <2>0 DEF ReplacingFits
  <2>9. SlotsAgree'
    BY <1>0, <1>1, <1>4, <1>8, <2>2 DEF SlotsAgree, Pending
  <2> QED BY <1>0, <1>2, <1>3, <1>5, <1>6, <2>4, <2>5, <2>7, <2>8, <2>9, <2>r
<1> QED BY <1>2, <1>7, <1>8

LEMMA PersistResolvesInv ==
  ASSUME OneAtATime, SerialInv, NEW o \in Op, PersistResolves(o) PROVE SerialInv'
<1> USE DEF SerialInv
<1>0. /\ SF!OneCaller /\ KF!OneCaller /\ \A v \in Op : v = o
  BY Alone DEF OneAtATime
<1>1. /\ op[o].pc = "write" /\ Store!Return(o)
      /\ UNCHANGED <<dataKey, cache, slots, heap, minted, begun, promise, replacing>>
  BY DEF PersistResolves, memory
<1>2. SF!IInv' /\ sFile' = sFile /\ sPc[o] \in {"syncDir", "throw"} /\ sPc'[o] = "idle"
  BY <1>0, <1>1, StoreEnds
<1>3. sPc[o] = "syncDir"
  BY <1>1 DEF Store!Return, Store!Goto
<1>4. ~Locked /\ Store!Whole(sFile) /\ Disk = Now /\ kPc[o] = "idle"
  BY <1>1, <1>3 DEF Stands
<1>r. ~replacing /\ replacing' = FALSE
  BY <1>1, <1>3 DEF Stands, Types
<1>5. /\ Disk.cache = cache /\ DiskUnlockSlot = heap[slots].unlock
  BY <1>4 DEF Now, DiskUnlockSlot
<1>6. MemoryFits' /\ FileFits'
  BY <1>1, <1>2, SameStoreFile DEF MemoryFits, Locked
<1>7. CASE op[o].kind \in {"init", "migrate", "undo", "update"}
  <2>1. /\ End(o) /\ UNCHANGED <<kFile, kPc, kArg, issued>> /\ UNCHANGED keyFile
        /\ acked' = acked \/ (acked' = acked \cup op[o].patch /\ op[o].kind = "update")
    BY <1>7 DEF PersistResolves, keyFile
  <2>2. KF!IInv' /\ op' \in [Op -> Locals] /\ op'[o] = Quiet
    BY <1>0, <2>1, KeyStill, EndIs, SerialSorts, QuietLocals DEF Types
  <2>3. acked' \subseteq cache /\ cache \subseteq Patch
    BY <1>4, <1>r, <2>1 DEF AckedKept, Stands, Types
  <2>4. Types'
    BY <1>1, <2>1, <2>2, <2>3 DEF Types
  <2>5. AckedKept'
    BY <1>1, <1>2, <1>4, <1>5, <2>3, SameStoreFile DEF AckedKept, AckedDurable
  <2>6. PromiseKept'
    BY <1>1, <1>2, <2>1, SameStoreFile, SameFiles DEF PromiseKept
  <2>r. ReplacingFits'
    BY <1>r DEF ReplacingFits
  <2>7. Stands(o)' /\ SlotsAgree'
    BY <1>1, <1>2, <1>4, <1>5, <2>1, <2>2, QuietStands, SameStoreFile
  <2> QED BY <1>0, <1>2, <1>6, <2>2, <2>4, <2>5, <2>6, <2>7, <2>r
<1>8. CASE op[o].kind \in {"enable", "disable"}
  <2>1. op[o] \in Locals /\ promise = "none"
    BY <1>8 DEF Types, Stands, SlotKinds
  <2>2. /\ acked' = acked
        /\ \/ /\ op[o].kind = "enable" /\ KeyFile!Call(o, op[o].kek)
              /\ issued' = issued \cup {op[o].kek} /\ op' = [op EXCEPT ![o].pc = "saveKey"]
           \/ /\ op[o].kind = "disable" /\ UNCHANGED <<keyFile, issued>> /\ op' = [op EXCEPT ![o].pc = "unlink"]
    BY <1>8 DEF PersistResolves
  <2>3. /\ op' \in [Op -> Locals] /\ op'[o].kind = op[o].kind /\ op'[o].prev = op[o].prev /\ op'[o].kek = op[o].kek
        /\ op'[o].pc = (IF op[o].kind = "enable" THEN "saveKey" ELSE "unlink")
    BY <1>8, <2>1, <2>2 DEF Types, Locals, LocalsOf, UnlockSlot, Places
  <2>4. op[o].kind = "enable" => op[o].kek \in Key \ {0}
    BY <2>1 DEF Stands, Locals, LocalsOf, UnlockSlot
  <2>5. /\ KF!IInv' /\ kFile' = kFile
        /\ op[o].kind = "enable" => kPc'[o] = "open" /\ kArg'[o] = op[o].kek
        /\ op[o].kind = "disable" => kPc'[o] = "idle"
    <3>1. CASE op[o].kind = "enable"
      BY <1>0, <2>2, <2>4, <3>1, KeyCall
    <3>2. CASE op[o].kind = "disable"
      <4>1. UNCHANGED keyFile
        BY <2>2, <3>2
      <4>2. UNCHANGED <<kFile, kPc>>
        BY <4>1 DEF keyFile
      <4> QED BY <1>0, <1>4, <3>2, <4>1, <4>2, KeyStill
    <3> QED BY <1>8, <3>1, <3>2
  <2>6. Types'
    BY <1>1, <2>2, <2>3, <2>4 DEF Types
  <2>7. AckedKept' /\ PromiseKept' /\ ReplacingFits'
    BY <1>1, <1>2, <1>r, <2>1, <2>2, SameStoreFile DEF AckedKept, AckedDurable, PromiseKept, ReplacingFits, Locked
  <2>8. Stands(o)'
    BY <1>1, <1>2, <1>4, <1>8, <1>r, <2>1, <2>3, <2>5 DEF Stands, SlotKinds, Locked
  <2>9. SlotsAgree'
    BY <1>0, <1>1, <1>2, <1>5, <2>3, SameStoreFile DEF SlotsAgree, Pending
  <2> QED BY <1>0, <1>2, <1>6, <2>5, <2>6, <2>7, <2>8, <2>9
<1> QED BY <1>7, <1>8 DEF PersistResolves

LEMMA PersistRejectsInv ==
  ASSUME OneAtATime, SerialInv, NEW o \in Op, PersistRejects(o) PROVE SerialInv'
<1> USE DEF SerialInv
<1>0. /\ SF!OneCaller /\ KF!OneCaller /\ \A v \in Op : v = o
  BY Alone DEF OneAtATime
<1>1. /\ op[o].pc \in {"mkdir", "write"} /\ End(o)
      /\ (op[o].pc = "mkdir" /\ UNCHANGED storeFile) \/ (op[o].pc = "write" /\ Store!Throw(o))
      /\ UNCHANGED <<dataKey, cache, slots, minted, kFile, kPc, kArg, begun, acked, issued, promise, replacing>>
      /\ UNCHANGED keyFile
  BY DEF PersistRejects, keyFile, history
<1>2. /\ SF!IInv' /\ sFile' = sFile /\ sPc'[o] = "idle" /\ sPc[o] # "syncDir"
  <2>1. CASE op[o].pc = "mkdir" /\ UNCHANGED storeFile
    BY <1>0, <2>1, StoreStill DEF storeFile, Stands
  <2>2. CASE op[o].pc = "write" /\ Store!Throw(o)
    <3>1. sPc[o] = "throw"
      BY <2>2 DEF Store!Throw, Store!Goto
    <3> QED BY <1>0, <2>2, <3>1, StoreEnds
  <2> QED BY <1>1, <2>1, <2>2
<1>3. KF!IInv' /\ ~Locked /\ kPc[o] = "idle" /\ slots \in Ref /\ Fit(heap[slots], dataKey)
  BY <1>0, <1>1, KeyStill DEF Stands, MemoryFits, Types
<1>4. op' \in [Op -> Locals] /\ op'[o] = Quiet
  BY <1>1, EndIs, SerialSorts, QuietLocals DEF Types
<1>5. /\ heap' \in [Ref -> Slots] /\ Fit(heap'[slots], dataKey)
      /\ ~replacing => heap'[slots].unlock = DiskUnlockSlot
      /\ op[o].kind \notin SlotKinds => heap' = heap
  <2>1. CASE op[o].kind \in SlotKinds
    <3>1. SetUnlockSlot(op[o].prev) /\ op[o].prev \in UnlockSlot
      BY <2>1 DEF PersistRejects, Types, Locals, LocalsOf, UnlockSlot, SlotKinds
    <3>2. ~replacing => DiskUnlockSlot = op[o].prev
      BY <1>1, <1>2, <2>1 DEF SlotsAgree, Pending
    <3>3. op[o].prev = NoSlot \/ op[o].prev.key = dataKey
      BY <2>1 DEF Stands
    <3>4. heap' \in [Ref -> Slots] /\ heap'[slots].pass = heap[slots].pass /\ heap'[slots].unlock = op[o].prev
      BY <1>3, <3>1, SetIs, SerialSorts, QuietLocals DEF Types
    <3> QED BY <1>3, <2>1, <3>2, <3>3, <3>4 DEF Fit
  <2>2. CASE op[o].kind \notin SlotKinds
    <3>1. heap' = heap
      BY <2>2 DEF PersistRejects, SlotKinds
    <3> QED BY <1>0, <1>3, <2>2, <3>1 DEF SlotsAgree, Pending, Types
  <2> QED BY <2>1, <2>2
<1>6. Types'
  BY <1>1, <1>4, <1>5 DEF Types
<1>p. op[o].kind \in SlotKinds => promise = "none"
  BY DEF Stands
<1>7. MemoryFits' /\ FileFits' /\ AckedKept' /\ PromiseKept' /\ ReplacingFits'
  BY <1>1, <1>2, <1>3, <1>5, <1>p, SameStoreFile, SameFiles DEF MemoryFits, Locked, AckedKept, AckedDurable, PromiseKept, ReplacingFits
<1>8. Stands(o)' /\ SlotsAgree'
  BY <1>1, <1>2, <1>3, <1>4, <1>5, QuietStands, SameStoreFile
<1> QED BY <1>0, <1>2, <1>3, <1>6, <1>7, <1>8

LEMMA SaveKeyStepInv ==
  ASSUME OneAtATime, SerialInv, NEW o \in Op, SaveKeyStep(o) PROVE SerialInv'
<1> USE DEF SerialInv
<1>0. /\ SF!OneCaller /\ KF!OneCaller /\ \A v \in Op : v = o
  BY Alone DEF OneAtATime
<1>1. /\ KeyFile!Step(o)
      /\ UNCHANGED <<dataKey, cache, slots, heap, minted, op, sFile, sPc, sArg, begun, acked, issued, promise, replacing>>
      /\ UNCHANGED storeFile
  BY DEF SaveKeyStep, memory, storeFile, history
<1>2. /\ KF!IInv' /\ kArg' = kArg /\ kPc[o] \notin {"idle", "syncDir", "throw"} /\ kPc'[o] # "idle"
      /\ \/ kPc'[o] = "syncDir" /\ KeyFile!Whole(kFile)' /\ kFile'.data = kArg[o]
         \/ kPc'[o] # "syncDir" /\ kFile' = kFile
  BY <1>0, <1>1, KeyStep
<1>3. SF!IInv'
  BY <1>0, <1>1, StoreStill
<1>4. op[o].pc = "saveKey" /\ op[o].kind = "enable" /\ kArg[o] = op[o].kek /\ promise = "none"
  BY <1>2 DEF Stands, SlotKinds
<1>5. Types' /\ MemoryFits' /\ FileFits' /\ AckedKept' /\ PromiseKept' /\ ReplacingFits'
  BY <1>1, <1>4, SameStoreFile DEF Types, MemoryFits, Locked, AckedKept, AckedDurable, PromiseKept, ReplacingFits
<1>6. Now' = Now /\ Disk' = Disk /\ (Store!Whole(sFile)' <=> Store!Whole(sFile)) /\ (Locked' <=> Locked)
  BY <1>1, SameStoreFile DEF Now, Locked
<1>7. Stands(o)'
  BY <1>1, <1>2, <1>4, <1>6 DEF Stands
<1>8. SlotsAgree'
  BY <1>0, <1>1, <1>6, SameStoreFile DEF SlotsAgree, Pending
<1> QED BY <1>0, <1>2, <1>3, <1>5, <1>7, <1>8

LEMMA KeySavedInv ==
  ASSUME OneAtATime, SerialInv, NEW o \in Op, KeySaved(o) PROVE SerialInv'
<1> USE DEF SerialInv
<1>0. /\ SF!OneCaller /\ KF!OneCaller /\ \A v \in Op : v = o
  BY Alone DEF OneAtATime
<1>1. /\ op[o].pc = "saveKey" /\ KeyFile!Return(o) /\ End(o) /\ promise' \in {"on", promise}
      /\ UNCHANGED <<dataKey, cache, slots, heap, minted, sFile, sPc, sArg, begun, acked, issued, replacing>>
      /\ UNCHANGED storeFile
  BY DEF KeySaved, memory, storeFile
<1>2. KF!IInv' /\ kFile' = kFile /\ kPc'[o] = "idle"
  BY <1>0, <1>1, KeyEnds
<1>3. kPc[o] = "syncDir"
  BY <1>1 DEF KeyFile!Return, KeyFile!Goto
<1>4. /\ op[o].kind = "enable" /\ ~Locked /\ sPc[o] = "idle" /\ op[o].kek # 0
      /\ heap[slots].unlock = [kek |-> op[o].kek, key |-> dataKey]
      /\ KeyFile!Whole(kFile) /\ kFile.data = op[o].kek /\ promise = "none" /\ ~replacing
  BY <1>1, <1>3 DEF Stands, SlotKinds
<1>5. SF!IInv'
  BY <1>0, <1>1, StoreStill
<1>6. op' \in [Op -> Locals] /\ op'[o] = Quiet
  BY <1>1, EndIs, SerialSorts, QuietLocals DEF Types
<1>7. DiskUnlockSlot = heap[slots].unlock
  BY <1>0, <1>1, <1>4 DEF SlotsAgree, Pending
<1>8. KeyFits
  <2>1. DiskUnlockSlot # NoSlot /\ DiskUnlockSlot.kek = op[o].kek
    BY <1>4, <1>7 DEF NoSlot
  <2>2. Store!Whole(sFile) /\ DiskUnlockSlot = Disk.slots.unlock
    BY <2>1 DEF DiskUnlockSlot
  <2>3. Disk \in Image
    BY <2>2, StoreTypes DEF Store!Whole, Store!Content, Disk
  <2>4. Disk.v = 2 /\ Fit(Disk.slots, Disk.key)
    BY <2>1, <2>2, <2>3 DEF FileFits, Image
  <2> QED BY <1>4, <2>1, <2>2, <2>4 DEF KeyFits, Fit
<1>9. Types'
  BY <1>1, <1>6 DEF Types
<1>10. MemoryFits' /\ FileFits' /\ AckedKept' /\ PromiseKept' /\ ReplacingFits'
  BY <1>1, <1>2, <1>4, <1>8, SameStoreFile, SameFiles DEF MemoryFits, Locked, AckedKept, AckedDurable, PromiseKept, ReplacingFits
<1>11. Stands(o)' /\ SlotsAgree'
  BY <1>1, <1>2, <1>4, <1>6, <1>7, QuietStands, SameStoreFile
<1> QED BY <1>0, <1>2, <1>5, <1>9, <1>10, <1>11

LEMMA KeySaveFailsInv ==
  ASSUME OneAtATime, SerialInv, NEW o \in Op, KeySaveFails(o) PROVE SerialInv'
<1> USE DEF SerialInv
<1>0. /\ SF!OneCaller /\ KF!OneCaller /\ \A v \in Op : v = o
  BY Alone DEF OneAtATime
<1>1. /\ op[o].pc = "saveKey" /\ KeyFile!Throw(o)
      /\ UNCHANGED <<dataKey, cache, slots, minted, sFile, sPc, sArg, begun, acked, issued, promise, replacing>>
      /\ UNCHANGED storeFile
  BY DEF KeySaveFails, storeFile, history
<1>2. KF!IInv' /\ kFile' = kFile /\ kPc'[o] = "idle"
  BY <1>0, <1>1, KeyEnds
<1>3. SF!IInv'
  BY <1>0, <1>1, StoreStill
<1>4. /\ op[o].kind = "enable" /\ ~Locked /\ sPc[o] = "idle" /\ op[o].kek # 0 /\ promise = "none" /\ ~replacing
      /\ heap[slots].unlock = [kek |-> op[o].kek, key |-> dataKey]
  BY <1>1 DEF Stands, SlotKinds
<1>5. DiskUnlockSlot = heap[slots].unlock /\ heap[slots].unlock # NoSlot
  BY <1>0, <1>1, <1>4 DEF SlotsAgree, Pending, NoSlot
<1>6. /\ slots \in Ref /\ dataKey \in Key /\ dataKey # 0 /\ heap[slots] \in Slots
      /\ Fit(heap[slots], dataKey) /\ heap[slots].unlock \in UnlockSlot
  BY <1>4 DEF MemoryFits, Types, Slots, Locked
<1> DEFINE locals == [Quiet EXCEPT !.prev = heap[slots].unlock]
<1>7. SetUnlockSlot(NoSlot) /\ Persist(o, "undo", locals)
  BY <1>5 DEF KeySaveFails
<1>8. heap' \in [Ref -> Slots] /\ heap'[slots].pass = heap[slots].pass /\ heap'[slots].unlock = NoSlot
  BY <1>6, <1>7, SetIs, SerialSorts, QuietLocals DEF Types
<1>9. locals \in Locals /\ locals.prev = heap[slots].unlock
  BY <1>6, QuietLocals DEF Locals, LocalsOf, UnlockSlot, Quiet
<1>10. cache' \subseteq Patch /\ slots' \in Ref /\ dataKey' \in Key /\ "undo" \in {"init", "migrate", "update"} \cup SlotKinds
  BY <1>1, <1>6 DEF Types, SlotKinds
<1> HIDE DEF locals
<1>11. /\ op' \in [Op -> Locals] /\ op'[o].kind = "undo" /\ op'[o].pc = "mkdir" /\ op'[o].prev = heap[slots].unlock
       /\ op'[o].ref = slots' /\ op'[o].key = dataKey' /\ op'[o].cache = cache'
  BY <1>7, <1>9, <1>10, PersistIs, SerialSorts, QuietLocals DEF Types
<1>12. Types'
  BY <1>1, <1>8, <1>11 DEF Types
<1>13. MemoryFits' /\ FileFits' /\ AckedKept' /\ PromiseKept' /\ ReplacingFits'
  BY <1>1, <1>4, <1>6, <1>8, SameStoreFile DEF MemoryFits, Locked, AckedKept, AckedDurable, PromiseKept, ReplacingFits, Fit
<1>14. Stands(o)'
  BY <1>1, <1>2, <1>4, <1>6, <1>8, <1>11 DEF Stands, SlotKinds, Locked, Fit
<1>15. SlotsAgree'
  BY <1>0, <1>1, <1>5, <1>11, SameStoreFile DEF SlotsAgree, Pending, SlotKinds
<1> QED BY <1>0, <1>2, <1>3, <1>12, <1>13, <1>14, <1>15

LEMMA RemoveKeyInv ==
  ASSUME OneAtATime, SerialInv, NEW o \in Op, RemoveKey(o) PROVE SerialInv'
<1> USE DEF SerialInv
<1>0. /\ SF!OneCaller /\ KF!OneCaller /\ \A v \in Op : v = o
  BY Alone DEF OneAtATime
<1>1. /\ op[o].kind = "disable" /\ op[o].pc = "unlink" /\ End(o) /\ promise' \in {"off", promise}
      /\ replacing => promise' = promise
      /\ UNCHANGED <<dataKey, cache, slots, heap, minted, sFile, sPc, sArg, begun, acked, issued, replacing>>
      /\ UNCHANGED storeFile
      /\ \/ UNCHANGED keyFile
         \/ /\ kFile' = KeyFile!Absent /\ UNCHANGED <<kTmp, kPc, kArg>>
            /\ kAt' = [v \in Op |-> IF kAt[v] = "file" THEN "gone" ELSE kAt[v]]
  BY DEF RemoveKey, Waiting, memory, storeFile
<1>2. /\ ~Locked /\ sPc[o] = "idle" /\ kPc[o] = "idle" /\ promise = "none"
      /\ heap[slots].unlock = NoSlot
  BY <1>1 DEF Stands, SlotKinds
<1>3. SF!IInv'
  BY <1>0, <1>1, StoreStill
<1>4. KF!IInv' /\ kPc'[o] = "idle"
  <2>1. CASE UNCHANGED keyFile
    BY <1>0, <1>2, <2>1, KeyStill DEF keyFile
  <2>2. CASE /\ kFile' = KeyFile!Absent /\ UNCHANGED <<kTmp, kPc, kArg>>
             /\ kAt' = [v \in Op |-> IF kAt[v] = "file" THEN "gone" ELSE kAt[v]]
    <3>1. kAt[o] = "closed" /\ kAt' = kAt
      BY <1>0, <1>2, <2>2 DEF KF!IInv, KF!TypeOK
    <3>2. kFile' = KF!Absent /\ KF!Absent \in KF!Content
      BY <2>2 DEF KF!Absent, KeyFile!Absent, KF!Content
    <3>3. KF!TypeOK'
      BY <2>2, <3>1, <3>2 DEF KF!IInv, KF!TypeOK
    <3>4. KF!Progress(o)'
      BY <1>2, <2>2, <3>1 DEF KF!IInv, KF!Progress
    <3> QED BY <1>0, <1>2, <2>2, <3>2, <3>3, <3>4 DEF KF!IInv
  <2> QED BY <1>1, <2>1, <2>2
<1>5. op' \in [Op -> Locals] /\ op'[o] = Quiet
  BY <1>1, EndIs, SerialSorts, QuietLocals DEF Types
<1>6. ~replacing => DiskUnlockSlot = heap[slots].unlock
  BY <1>0, <1>1, <1>2 DEF SlotsAgree, Pending
<1>7. Types'
  BY <1>1, <1>5 DEF Types
<1>8. MemoryFits' /\ FileFits' /\ AckedKept' /\ PromiseKept' /\ ReplacingFits'
  BY <1>1, <1>2, <1>6, SameStoreFile DEF MemoryFits, Locked, AckedKept, AckedDurable, PromiseKept, ReplacingFits
<1>9. Stands(o)' /\ SlotsAgree'
  BY <1>1, <1>2, <1>4, <1>5, <1>6, QuietStands, SameStoreFile
<1> QED BY <1>0, <1>3, <1>4, <1>7, <1>8, <1>9

LEMMA RestartInv ==
  ASSUME OneAtATime, SerialInv, Restart PROVE SerialInv'
<1> USE DEF SerialInv
<1>n. SF!OneCaller /\ KF!OneCaller
  BY DEF OneAtATime, SF!OneCaller, KF!OneCaller
<1>1. /\ op' = [o \in Op |-> Quiet] /\ Store!Crash /\ KeyFile!Crash /\ replacing' = FALSE
      /\ UNCHANGED <<minted, begun, acked, issued, promise>>
  BY DEF Restart
<1>2. SF!IInv' /\ sFile' = sFile /\ \A o \in Op : sPc'[o] = "idle"
  BY <1>n, <1>1, StoreCrash
<1>3. KF!IInv' /\ kFile' = kFile /\ \A o \in Op : kPc'[o] = "idle"
  BY <1>n, <1>1, KeyCrash
<1>4. /\ dataKey' \in Key /\ cache' \subseteq Patch /\ slots' \in Ref \cup {0}
      /\ heap' \in [Ref -> Slots] /\ MemoryFits' /\ AckedKept'
      /\ (~Locked => DiskUnlockSlot = heap[slots].unlock)'
  <2>1. CASE /\ KeyFits /\ dataKey' = Disk.key /\ cache' = Disk.cache /\ slots' = 1
             /\ heap' = [r \in Ref |-> IF r = 1 THEN Disk.slots ELSE NoSlots]
    <3>1. Store!Whole(sFile) /\ Disk.v = 2 /\ Fit(Disk.slots, Disk.key)
      BY <2>1 DEF KeyFits, FileFits
    <3>2. Disk \in Image
      BY <3>1, StoreTypes DEF Store!Whole, Store!Content, Disk
    <3>3. Disk.slots \in Slots /\ Disk.key \in Key /\ Disk.cache \subseteq Patch
      BY <3>2 DEF Image
    <3>4. 1 \in Ref
      <4>1. CASE Op = {}
        <5>1. Cardinality(Op) = 0
          BY <4>1, FS_EmptySet
        <5> QED BY <5>1 DEF Ref
      <4>2. CASE Op # {}
        BY <4>2, Alone
      <4> QED BY <4>1, <4>2
    <3>5. /\ dataKey' = Disk.key /\ cache' = Disk.cache /\ slots' = 1
          /\ heap' = [r \in Ref |-> IF r = 1 THEN Disk.slots ELSE NoSlots]
      BY <2>1
    <3>6. heap' \in [Ref -> Slots] /\ heap'[slots'] = Disk.slots
      BY <3>3, <3>4, <3>5, QuietLocals
    <3>7. DiskUnlockSlot' = Disk.slots.unlock
      BY <1>2, <3>1, SameStoreFile DEF DiskUnlockSlot
    <3>8. MemoryFits'
      BY <3>1, <3>5, <3>6 DEF MemoryFits, Locked, Fit
    <3> QED BY <1>1, <1>2, <3>1, <3>3, <3>4, <3>5, <3>6, <3>7, <3>8, SameStoreFile DEF AckedKept, AckedDurable
  <2>2. CASE dataKey' = 0 /\ cache' = {} /\ slots' = 0 /\ heap' = [r \in Ref |-> NoSlots]
    <3>1. dataKey' = 0 /\ cache' = {} /\ slots' = 0 /\ heap' = [r \in Ref |-> NoSlots] /\ 0 \in Key
      BY <2>2, MaxBegunAssumption DEF Key
    <3> QED BY <1>1, <1>2, <3>1, QuietLocals, SameStoreFile DEF MemoryFits, Locked, AckedKept, AckedDurable
  <2> QED BY <2>1, <2>2 DEF Restart
<1>5. op' \in [Op -> Locals] /\ \A o \in Op : op'[o] = Quiet
  BY <1>1, QuietLocals
<1>6. Types'
  BY <1>1, <1>4, <1>5 DEF Types
<1>7. FileFits' /\ PromiseKept' /\ ReplacingFits'
  BY <1>1, <1>2, <1>3, SameStoreFile, SameFiles DEF PromiseKept, ReplacingFits
<1>8. \A o \in Op : Stands(o)'
  BY <1>2, <1>3, <1>5, QuietStands
<1>9. SlotsAgree'
  BY <1>4, <1>5 DEF SlotsAgree, Pending, Quiet, SlotKinds
<1> QED BY <1>2, <1>3, <1>4, <1>6, <1>7, <1>8, <1>9

LEMMA StillInv ==
  ASSUME OneAtATime, SerialInv, UNCHANGED vars PROVE SerialInv'
<1> USE DEF SerialInv
<1>n. SF!OneCaller /\ KF!OneCaller
  BY DEF OneAtATime, SF!OneCaller, KF!OneCaller
<1>1. /\ UNCHANGED <<dataKey, cache, slots, heap, minted, op, sFile, sPc, sArg, kFile, kPc, kArg, begun, acked, issued, promise, replacing>>
      /\ UNCHANGED <<storeFile, keyFile>>
  BY DEF vars, memory, storeFile, keyFile, history
<1>2. SF!IInv' /\ KF!IInv'
  BY <1>n, <1>1, StoreStill, KeyStill
<1>3. Types' /\ MemoryFits' /\ FileFits' /\ AckedKept' /\ PromiseKept' /\ ReplacingFits'
  BY <1>1, SameStoreFile, SameFiles DEF Types, MemoryFits, Locked, AckedKept, AckedDurable, PromiseKept, ReplacingFits
<1>4. \A o \in Op : Stands(o)'
  BY <1>1 DEF Stands, Now, Disk, Locked, Store!Whole, KeyFile!Whole
<1>5. SlotsAgree'
  BY <1>1, SameStoreFile DEF SlotsAgree, Pending, Locked
<1> QED BY <1>2, <1>3, <1>4, <1>5

LEMMA SerialStep ==
  ASSUME OneAtATime, SerialInv, [Next]_vars PROVE SerialInv'
<1>1. ASSUME NEW o \in Op, Request(o) PROVE SerialInv'
  <2>1. CASE BeginRead(o) \/ ReadStore(o) \/ Initialize(o) \/ Migrate(o) \/ Adopt(o) \/ Refuse(o)
    BY <2>1, BeginReadInv, ReadStoreInv, FreshStoreInv, AdoptInv, RefuseInv
  <2>2. CASE (\E p \in Patch : Update(o, p)) \/ EnableAutoUnlock(o) \/ DisableAutoUnlock(o)
    BY <2>2, UpdateInv, EnableInv, DisableInv
  <2>3. CASE Serialise(o) \/ WriteStep(o) \/ PersistResolves(o) \/ PersistRejects(o)
    BY <2>3, SerialiseInv, WriteStepInv, PersistResolvesInv, PersistRejectsInv
  <2>4. CASE SaveKeyStep(o) \/ KeySaved(o) \/ KeySaveFails(o) \/ RemoveKey(o)
    BY <2>4, SaveKeyStepInv, KeySavedInv, KeySaveFailsInv, RemoveKeyInv
  <2> QED BY <1>1, <2>1, <2>2, <2>3, <2>4 DEF Request
<1> QED BY <1>1, RestartInv, StillInv DEF Next

LEMMA InitImages ==
  ASSUME NEW i \in {V1Image, V2Image(NoSlot), V2Image([kek |-> 2, key |-> 1])}
  PROVE  /\ i \in Image /\ i.v \in {1, 2} /\ i.key = 1 /\ i.cache = {}
         /\ i.v = 1 => i.slots.unlock = NoSlot
         /\ i.v = 2 => Fit(i.slots, i.key)
<1>1. 0 \in Key /\ 1 \in Key /\ 2 \in Key
  BY MaxBegunAssumption DEF Key
<1>2. [kek |-> 2, key |-> 1] \in UnlockSlot
  BY <1>1 DEF UnlockSlot
<1> QED BY <1>1, <1>2, QuietLocals DEF V1Image, V2Image, Image, Slots, NoSlots, Fit

LEMMA SerialInit == Init => SerialInv
<1> SUFFICES ASSUME Init PROVE SerialInv
  OBVIOUS
<1>1. /\ dataKey = 0 /\ cache = {} /\ slots = 0 /\ heap = [r \in Ref |-> NoSlots]
      /\ op = [o \in Op |-> Quiet] /\ minted = 2 /\ begun = 0 /\ acked = {} /\ issued = {2} /\ promise = "none" /\ replacing = FALSE
      /\ sTmp = Store!Absent /\ kTmp = KeyFile!Absent
      /\ sAt = [o \in Op |-> "closed"] /\ sPc = [o \in Op |-> "idle"] /\ sArg = [o \in Op |-> NoData]
      /\ kAt = [o \in Op |-> "closed"] /\ kPc = [o \in Op |-> "idle"] /\ kArg = [o \in Op |-> NoData]
      /\ kFile \in {KeyFile!Absent, Key2File}
      /\ \/ sFile = Store!Absent
         \/ \E i \in {V1Image, V2Image(NoSlot), V2Image([kek |-> 2, key |-> 1])} : sFile = Installed(i)
  BY DEF Init
<1>2. 0 \in Key /\ 2 \in Key
  BY MaxBegunAssumption DEF Key
<1>r. replacing \in BOOLEAN /\ promise \in {"none", "on", "off"}
  BY <1>1
<1>3. Types
  BY <1>1, <1>2, <1>r, QuietLocals, MaxBegunAssumption DEF Types
<1>4. /\ sFile \in SF!Content /\ (sFile = SF!Absent \/ (SF!Whole(sFile) /\ sFile.synced))
      /\ FileFits
  <2>1. CASE sFile = Store!Absent
    BY <2>1 DEF Store!Absent, SF!Absent, SF!Content, FileFits, Store!Whole
  <2>2. ASSUME NEW i \in {V1Image, V2Image(NoSlot), V2Image([kek |-> 2, key |-> 1])}, sFile = Installed(i)
        PROVE  /\ sFile \in SF!Content /\ (sFile = SF!Absent \/ (SF!Whole(sFile) /\ sFile.synced))
               /\ FileFits
    <3>1. i \in Image /\ ImageSize(i) \in Nat \ {0} /\ i # NoData
      BY <2>2, InitImages, Sizes
    <3>2. sFile.data = i /\ sFile.size = ImageSize(i) /\ sFile.synced = TRUE /\ sFile \in SF!Content
      BY <2>2, <3>1 DEF Installed, SF!Content
    <3>3. FileFits
      BY <3>2, InitImages DEF FileFits, Disk
    <3> QED BY <3>1, <3>2, <3>3 DEF SF!Whole
  <2> QED BY <1>1, <2>1, <2>2
<1>5. SF!IInv
  <2>1. sTmp = SF!Absent /\ SF!Absent \in SF!Content
    BY <1>1 DEF SF!Absent, Store!Absent, SF!Content
  <2>2. SF!TypeOK
    BY <1>1, <1>4, <2>1, NoDataAssumption DEF SF!TypeOK
  <2> QED BY <1>1, <1>4, <2>2 DEF SF!IInv, SF!Progress
<1>6. KF!IInv
  <2>1. kTmp = KF!Absent /\ KF!Absent \in KF!Content
    BY <1>1 DEF KF!Absent, KeyFile!Absent, KF!Content
  <2>2. /\ kFile \in KF!Content /\ (kFile = KF!Absent \/ (KF!Whole(kFile) /\ kFile.synced))
    <3>1. CASE kFile = KeyFile!Absent
      BY <3>1 DEF KeyFile!Absent, KF!Absent, KF!Content
    <3>2. CASE kFile = Key2File
      <4>1. 2 # NoData
        BY <1>2, NoDataAssumption
      <4> QED BY <1>2, <3>2, <4>1 DEF Key2File, KF!Content, KF!Whole, KeySize
    <3> QED BY <1>1, <3>1, <3>2
  <2>3. KF!TypeOK
    BY <1>1, <2>1, <2>2, NoDataAssumption DEF KF!TypeOK
  <2> QED BY <1>1, <2>2, <2>3 DEF KF!IInv, KF!Progress
<1>7. MemoryFits /\ SlotsAgree /\ AckedKept /\ PromiseKept /\ ReplacingFits
  BY <1>1 DEF MemoryFits, SlotsAgree, AckedKept, AckedDurable, PromiseKept, ReplacingFits, Locked, Pending, Quiet, SlotKinds
<1>8. \A o \in Op : Stands(o)
  BY <1>1 DEF Stands, Quiet, SlotKinds
<1> QED BY <1>3, <1>4, <1>5, <1>6, <1>7, <1>8 DEF SerialInv

-----------------------------------------------------------------------------
(* What it gives, one request at a time.                                   *)

LEMMA SerialAlways == ASSUME OneAtATime PROVE Spec => []SerialInv
<1>1. Init => SerialInv
  BY SerialInit
<1>2. SerialInv /\ [Next]_vars => SerialInv'
  BY SerialStep
<1> QED BY <1>1, <1>2, PTL DEF Spec

\* Memory is consistent and a request waits for a file exactly while it writes
\* one (TypeOK).
THEOREM MemoryConsistent == ASSUME OneAtATime PROVE Spec => []TypeOK
<1>1. SerialInv => TypeOK
  <2> SUFFICES ASSUME SerialInv PROVE TypeOK
    OBVIOUS
  <2>1. Types /\ MemoryFits /\ \A o \in Op : Stands(o)
    BY DEF SerialInv
  <2> QED BY <2>1 DEF TypeOK, Types, MemoryFits, Stands, Fit
<1> QED BY <1>1, SerialAlways, PTL

\* A complete store file opens with the passphrase, and with the unlock key if
\* it has a slot for one, whatever failed or died while it was written
\* (property Openable).
THEOREM FileAlwaysOpens == ASSUME OneAtATime PROVE Spec => []Openable
<1>1. SerialInv => Openable
  BY DEF SerialInv, FileFits, Openable, Fit
<1> QED BY <1>1, SerialAlways, PTL

\* An update() that resolved is in the file from then on, across slot changes,
\* failed reads and writes, unlocks and restarts, until a store initialized
\* after a read error is written over it (property AckedDurable).
THEOREM AnswersAreDurable == ASSUME OneAtATime PROVE Spec => []AckedDurable
<1>1. SerialInv => AckedDurable
  BY DEF SerialInv, AckedKept
<1> QED BY <1>1, SerialAlways, PTL

\* Memory never disagrees with the file about the unlock slot once a request is
\* through, except where it has a store made after a read error that was not
\* written (property SlotAgreesWithDisk).
THEOREM MemoryAgreesWithFile == ASSUME OneAtATime PROVE Spec => []SlotAgreesWithDisk
<1>1. SerialInv => SlotAgreesWithDisk
  <2> SUFFICES ASSUME SerialInv, ~Locked, ~replacing, \A o \in Op : op[o] = Quiet
               PROVE  heap[slots].unlock = DiskUnlockSlot
    BY DEF SlotAgreesWithDisk
  <2>1. \A o \in Op : ~Pending(o)
    BY DEF Pending, Quiet, SlotKinds
  <2> QED BY <2>1 DEF SerialInv, SlotsAgree
<1> QED BY <1>1, SerialAlways, PTL

\* After "disabled" no key that was ever in the key file opens the store, until
\* the next enable or disable begins (property DisabledStaysDisabled).
THEOREM DisabledIsDisabled == ASSUME OneAtATime PROVE Spec => []DisabledStaysDisabled
<1>1. SerialInv => DisabledStaysDisabled
  BY DEF SerialInv, PromiseKept, Types, DisabledStaysDisabled, NoSlot
<1> QED BY <1>1, SerialAlways, PTL

\* After "enabled" a restart that can read its files unlocks by itself, until the
\* next enable or disable begins or the store is replaced (property
\* EnabledBootsUnlocked).
THEOREM EnabledIsEnabled == ASSUME OneAtATime PROVE Spec => []EnabledBootsUnlocked
<1>1. SerialInv => EnabledBootsUnlocked
  BY DEF SerialInv, PromiseKept, EnabledBootsUnlocked
<1> QED BY <1>1, SerialAlways, PTL

-----------------------------------------------------------------------------
(* Requests that overlap.  What the file holds is then no longer what was  *)
(* answered.  But once there is a store, a file that is complete still     *)
(* opens: everyone writes slots and payload under the one data key there   *)
(* is, whichever temporary content is renamed in the end.                  *)

\* A store is there.  If the disk may fail it is of the second version - a
\* migration whose write failed leaves a key in memory that the next attempt
\* replaces - and nobody initializes, as an error would have it replaced.
StoreThere == Store!Whole(sFile) /\ (IOFails => Disk.v = 2 /\ "init" \notin Kinds)

AnyImage == [v : {1, 2}, slots : SlotsOf(Nat), key : Nat, cache : SUBSET Patch]
AnyContent == [data : AnyImage \cup {NoData}, size : Int, synced : BOOLEAN]

OverlapTypes ==
  /\ dataKey \in Nat /\ cache \subseteq Patch /\ slots \in Ref \cup {0} /\ minted \in Nat
  /\ heap \in [Ref -> SlotsOf(Nat)] /\ op \in [Op -> LocalsOf(Nat, AnyContent)]
  /\ sFile \in AnyContent /\ sTmp \in AnyContent
  /\ sAt \in [Op -> {"closed", "tmp", "file", "gone"}]
  /\ sPc \in [Op -> {"idle", "open", "write", "sync", "rename", "syncDir", "throw"}]
  /\ sArg \in [Op -> AnyImage \cup {NoData}]

\* What a content has to do with the keys, if it is one datum, or parts of one.
OfVersion1(c) == c.data # NoData /\ c.data.v = 1
Opens(c) == c.data # NoData /\ c.data.v = 2 => Fit(c.data.slots, c.data.key)
Keyed(c) == c.data # NoData /\ c.data.v = 2 => c.data.key = dataKey

\* Where a call of writeFileAtomic stands: what it writes opens with the data
\* key, and so does what is in the temporary file once one call has opened it.
Writes(o) ==
  /\ op[o].pc = "write" <=> sPc[o] # "idle"
  /\ sPc[o] # "idle" =>
       sArg[o] \in AnyImage /\ sArg[o].v = 2 /\ sArg[o].key = dataKey /\ Fit(sArg[o].slots, dataKey)
  /\ sPc[o] \in {"write", "sync", "rename"} => Keyed(sTmp)
  /\ sAt[o] = "tmp" => sTmp # Store!Absent /\ sPc[o] \in {"write", "sync"}
  /\ sAt[o] = "file" => sPc[o] \in {"write", "sync"}
  /\ sPc[o] \in {"syncDir", "throw"} => ~OfVersion1(sFile)
  /\ sPc[o] \in {"write", "sync", "rename"} /\ sTmp = Store!Absent => ~OfVersion1(sFile)

\* Where a request stands, and what its locals still have to do with memory.
Holds(o) ==
  /\ op[o].pc = "idle" => op[o] = Quiet
  /\ op[o].pc \in {"read", "decide"} => op[o].kind \in {"init", "unlock"}
  /\ op[o].pc \in {"mkdir", "write", "saveKey", "unlink"} => ~Locked /\ op[o].kind # "unlock"
  /\ op[o].pc = "saveKey" => op[o].kind = "enable"
  /\ op[o].pc = "decide" => Opens(op[o].got)
  /\ op[o].kind = "init" => ~IOFails /\ (op[o].pc = "decide" => op[o].got # Store!Absent)
  /\ op[o].pc = "decide" /\ op[o].kind = "unlock" /\ Locked => op[o].got = sFile \/ op[o].got = Store!Absent
  /\ op[o].pc = "decide" /\ op[o].kind = "unlock" /\ ~Locked => Keyed(op[o].got) /\ ~OfVersion1(op[o].got)
  /\ op[o].pc = "mkdir" => op[o].ref # 0 /\ op[o].key = dataKey /\ Fit(heap[op[o].ref], dataKey)
  /\ op[o].kind \in SlotKinds => op[o].prev = NoSlot \/ op[o].prev.key = dataKey

\* passphraseInFlight
OneUnlock ==
  \A v, w \in Op : op[v].kind \in {"unlock", "migrate"} /\ op[w].kind \in {"unlock", "migrate"} => v = w

\* A file of the first version is there only until its migration is written.
Migrating == \E o \in Op : op[o].kind = "migrate"

FilesOpen ==
  /\ sFile.size >= 0 /\ (sTmp = Store!Absent \/ sTmp.size >= 0)
  /\ Opens(sFile) /\ Opens(sTmp) /\ ~OfVersion1(sTmp)
  /\ ~Locked => Keyed(sFile)
  /\ OfVersion1(sFile) => ~IOFails /\ (Locked \/ Migrating)

OverlapInv ==
  /\ OverlapTypes /\ MemoryFits /\ OneUnlock /\ FilesOpen
  /\ IOFails => "init" \notin Kinds
  /\ \A o \in Op : Writes(o) /\ Holds(o)

LEMMA OverlapSorts ==
  /\ Store!Absent \in AnyContent /\ Store!Empty \in AnyContent
  /\ Quiet \in LocalsOf(Nat, AnyContent) /\ NoSlot \in [kek : Nat, key : Nat] /\ NoSlots \in SlotsOf(Nat)
<1>1. Store!Absent \in AnyContent /\ Store!Empty \in AnyContent
  BY DEF Store!Absent, Store!Empty, AnyContent
<1> QED BY <1>1 DEF Quiet, LocalsOf, SlotKinds, Places, NoSlot, NoSlots, SlotsOf

LEMMA AnySize == \A i \in AnyImage : ImageSize(i) \in Nat
<1> SUFFICES ASSUME NEW i \in AnyImage PROVE ImageSize(i) \in Nat
  OBVIOUS
<1>1. i.cache \subseteq Patch
  BY DEF AnyImage
<1>2. Cardinality(i.cache) \in Nat
  BY <1>1, FinitenessAssumption, FS_Subset, FS_CardinalityType
<1> QED BY <1>2 DEF ImageSize

\* A request that leaves the store file and the data key alone.
LEMMA MemoryOnly ==
  ASSUME OverlapInv, NEW o \in Op, UNCHANGED <<dataKey, storeFile>>,
         cache' \subseteq Patch, slots' \in Ref \cup {0}, minted' \in Nat, heap' \in [Ref -> SlotsOf(Nat)],
         op' \in [Op -> LocalsOf(Nat, AnyContent)], \A v \in Op : v # o => op'[v] = op[v],
         MemoryFits', OneUnlock', Holds(o)', op'[o].pc = "write" <=> op[o].pc = "write",
         op[o].kind = "migrate" => op'[o].kind = "migrate" \/ ~OfVersion1(sFile),
         \A v \in Op : v # o /\ op[v].pc = "mkdir" => Fit(heap'[op[v].ref], dataKey)
  PROVE  OverlapInv'
<1>1. /\ dataKey' = dataKey /\ (Locked' <=> Locked)
      /\ UNCHANGED <<sFile, sTmp, sAt, sPc, sArg>>
  BY DEF storeFile, Locked
<1>2. OverlapTypes'
  BY <1>1 DEF OverlapInv, OverlapTypes
<1>3. \A v \in Op : Writes(v)'
  <2> TAKE v \in Op
  <2>1. Writes(v) /\ (op'[v].pc = "write" <=> op[v].pc = "write")
    BY DEF OverlapInv
  <2> QED BY <1>1, <2>1 DEF Writes, Keyed, OfVersion1, Fit
<1>4. \A v \in Op : v # o => Holds(v)'
  <2> SUFFICES ASSUME NEW v \in Op, v # o PROVE Holds(v)'
    OBVIOUS
  <2>1. Holds(v) /\ op'[v] = op[v]
    BY DEF OverlapInv
  <2>2. Keyed(op[v].got) => Keyed(op[v].got)'
    BY <1>1, <2>1 DEF Keyed
  <2>3. op[v].pc = "mkdir" => Fit(heap'[op[v].ref], dataKey)
    OBVIOUS
  <2> QED BY <1>1, <2>1, <2>2, <2>3 DEF Holds, Opens, OfVersion1, Keyed, Fit
<1>5. FilesOpen'
  <2>1. OfVersion1(sFile) => (Migrating => Migrating')
    BY DEF Migrating
  <2> QED BY <1>1, <2>1 DEF OverlapInv, FilesOpen, Opens, OfVersion1, Keyed, Fit
<1> QED BY <1>2, <1>3, <1>4, <1>5 DEF OverlapInv

LEMMA BeginReadOpens ==
  ASSUME OverlapInv, NEW o \in Op, BeginRead(o) PROVE OverlapInv'
<1> USE DEF OverlapInv
<1>1. PICK kind \in {"init", "unlock"} : BeginRead(o)!(kind)
  BY DEF BeginRead
<1>2. /\ op[o] = Quiet /\ kind \in Kinds
      /\ kind = "unlock" => \A v \in Op : op[v].kind \notin {"unlock", "migrate"}
      /\ op' = [op EXCEPT ![o] = [Quiet EXCEPT !.kind = kind, !.pc = "read"]]
      /\ UNCHANGED <<dataKey, cache, slots, heap, minted, storeFile>>
  BY <1>1 DEF Begin, memory
<1> DEFINE new == [Quiet EXCEPT !.kind = kind, !.pc = "read"]
<1>3. new \in LocalsOf(Nat, AnyContent) /\ new.kind = kind /\ new.pc = "read"
  BY OverlapSorts DEF LocalsOf, Places
<1>4. op' = [op EXCEPT ![o] = new]
  BY <1>2
<1> HIDE DEF new
<1>5. /\ op' \in [Op -> LocalsOf(Nat, AnyContent)] /\ \A v \in Op : v # o => op'[v] = op[v]
      /\ op'[o].kind = kind /\ op'[o].pc = "read"
  BY <1>3, <1>4 DEF OverlapTypes
<1>6. op[o].kind = "none" /\ op[o].pc = "idle"
  BY <1>2 DEF Quiet
<1>7. OneUnlock'
  BY <1>2, <1>5 DEF OneUnlock
<1>8. Holds(o)'
  BY <1>2, <1>5 DEF Holds, SlotKinds
<1>9. MemoryFits' /\ \A v \in Op : op[v].pc = "mkdir" => Fit(heap'[op[v].ref], dataKey)
  BY <1>2 DEF MemoryFits, Locked, Holds
<1> QED BY <1>2, <1>5, <1>6, <1>7, <1>8, <1>9, MemoryOnly DEF OverlapTypes

LEMMA ReadStoreOpens ==
  ASSUME OverlapInv, NEW o \in Op, ReadStore(o) PROVE OverlapInv'
<1> USE DEF OverlapInv
<1>1. /\ op[o].kind \in {"init", "unlock"} /\ op[o].pc = "read"
      /\ UNCHANGED <<dataKey, cache, slots, heap, minted, storeFile, sFile>>
  BY DEF ReadStore, Waiting, memory, storeFile
<1>r. PICK seen \in {sFile, Store!Absent} :
        /\ op' = [op EXCEPT ![o].pc = "decide", ![o].got = seen]
        /\ seen = sFile \/ IOFails
  BY DEF ReadStore, Reads
<1>2. op[o] \in LocalsOf(Nat, AnyContent) /\ seen \in AnyContent
  BY OverlapSorts DEF OverlapTypes
<1>3. /\ op' \in [Op -> LocalsOf(Nat, AnyContent)] /\ \A v \in Op : v # o => op'[v] = op[v]
      /\ op'[o].kind = op[o].kind /\ op'[o].pc = "decide" /\ op'[o].got = seen
  BY <1>1, <1>2, <1>r DEF OverlapTypes, LocalsOf, Places
<1>4. OneUnlock'
  BY <1>3 DEF OneUnlock
\* No migration runs beside an unlock, so the store is locked if the file is of
\* the first version.
<1>5. op[o].kind = "unlock" /\ ~Locked => ~OfVersion1(seen)
  BY DEF OneUnlock, FilesOpen, Migrating, OfVersion1, Store!Absent
<1>6. Opens(seen) /\ (~Locked => Keyed(seen))
  BY DEF FilesOpen, Opens, Keyed, Store!Absent
<1>s. op[o].kind = "init" => ~IOFails /\ seen # Store!Absent
  BY <1>r DEF FilesOpen, Holds, Store!Absent
<1>7. Holds(o)'
  BY <1>1, <1>3, <1>5, <1>6, <1>s DEF Holds, SlotKinds, Locked, Keyed, Opens, OfVersion1, Fit
<1>8. MemoryFits' /\ \A v \in Op : op[v].pc = "mkdir" => Fit(heap'[op[v].ref], dataKey)
  BY <1>1 DEF MemoryFits, Locked, Holds
<1> QED BY <1>1, <1>3, <1>4, <1>7, <1>8, MemoryOnly DEF OverlapTypes

LEMMA QuietHolds ==
  ASSUME NEW o \in Op, op'[o] = Quiet PROVE Holds(o)'
BY DEF Holds, Quiet, SlotKinds

LEMMA RefuseOpens ==
  ASSUME OverlapInv, NEW o \in Op, Refuse(o) PROVE OverlapInv'
<1> USE DEF OverlapInv
<1>1. /\ op[o].kind \in {"init", "unlock"} /\ op[o].pc = "decide" /\ End(o)
      /\ UNCHANGED <<dataKey, cache, slots, heap, minted, storeFile>>
  BY DEF Refuse, Waiting, memory
<1>2. /\ op' \in [Op -> LocalsOf(Nat, AnyContent)] /\ \A v \in Op : v # o => op'[v] = op[v]
      /\ op'[o] = Quiet /\ op'[o].kind = "none" /\ op'[o].pc = "idle"
  BY <1>1, EndIs, OverlapSorts DEF OverlapTypes
<1>3. OneUnlock' /\ Holds(o)'
  BY <1>2, QuietHolds DEF OneUnlock
<1>4. MemoryFits' /\ \A v \in Op : op[v].pc = "mkdir" => Fit(heap'[op[v].ref], dataKey)
  BY <1>1 DEF MemoryFits, Locked, Holds
<1> QED BY <1>1, <1>2, <1>3, <1>4, MemoryOnly DEF OverlapTypes

\* With a store that is there no request finds none.
LEMMA InitializeOpens ==
  ASSUME OverlapInv, NEW o \in Op, Initialize(o) PROVE FALSE
BY DEF OverlapInv, Holds, Initialize, Waiting

\* An unlock takes the keys of the file over.  With the store unlocked they are
\* the ones it has; with the store locked nothing else is under way.
LEMMA AdoptOpens ==
  ASSUME OverlapInv, NEW o \in Op, Adopt(o) PROVE OverlapInv'
<1> USE DEF OverlapInv
<1> DEFINE image == op[o].got.data
<1>1. /\ op[o].kind = "unlock" /\ op[o].pc = "decide" /\ End(o) /\ op[o].got.data # NoData
      /\ image.v = 2 /\ dataKey' = image.key /\ cache' = image.cache /\ NewSlots(image.slots)
      /\ UNCHANGED <<minted, storeFile>> /\ UNCHANGED <<sFile, sTmp, sAt, sPc, sArg>>
  BY DEF Adopt, Waiting, Store!Whole, storeFile
<1>2. image \in AnyImage
  BY <1>1 DEF OverlapTypes, LocalsOf, AnyContent
<1>3. image.slots \in SlotsOf(Nat) /\ image.key \in Nat /\ image.cache \subseteq Patch
  BY <1>2 DEF AnyImage
<1>4. Fit(image.slots, image.key)
  BY <1>1 DEF Holds, Opens
<1> HIDE DEF image
<1>5. /\ op' \in [Op -> LocalsOf(Nat, AnyContent)] /\ \A v \in Op : v # o => op'[v] = op[v]
      /\ op'[o] = Quiet /\ op'[o].kind = "none" /\ op'[o].pc = "idle"
  BY <1>1, EndIs, OverlapSorts DEF OverlapTypes
<1>6. /\ slots' \in Ref /\ slots' # 0 /\ heap' \in [Ref -> SlotsOf(Nat)] /\ heap'[slots'] = image.slots
      /\ \A v \in Op : op[v].ref # slots'
      /\ \A r \in Ref : r # slots' => heap'[r] = heap[r]
  BY <1>1, <1>3, NewSlotsIs DEF OverlapTypes
<1>7. OneUnlock' /\ Holds(o)'
  BY <1>5, QuietHolds DEF OneUnlock
<1>8. MemoryFits'
  BY <1>1, <1>3, <1>4, <1>6 DEF MemoryFits, Locked, Fit
<1>9. CASE ~Locked
  <2>1. dataKey' = dataKey
    BY <1>1, <1>9 DEF Holds, Keyed, image
  <2>2. \A v \in Op : op[v].pc = "mkdir" => Fit(heap'[op[v].ref], dataKey)
    <3> SUFFICES ASSUME NEW v \in Op, op[v].pc = "mkdir" PROVE Fit(heap'[op[v].ref], dataKey)
      OBVIOUS
    <3>1. op[v].ref \in Ref /\ Fit(heap[op[v].ref], dataKey)
      BY DEF Holds, OverlapTypes, LocalsOf
    <3> QED BY <1>6, <3>1
  <2> QED BY <1>1, <1>3, <1>5, <1>6, <1>7, <1>8, <2>1, <2>2, MemoryOnly DEF OverlapTypes
<1>10. CASE Locked
  <2>1. \A v \in Op : op[v].pc \notin {"mkdir", "write", "saveKey", "unlink"} /\ sPc[v] = "idle"
    BY <1>10 DEF Holds, Writes
  <2>2. sFile.data = image /\ image # NoData
    BY <1>1, <1>10 DEF Holds, image, Store!Absent
  <2>3. OverlapTypes'
    BY <1>1, <1>3, <1>5, <1>6 DEF OverlapTypes
  <2>4. FilesOpen'
    BY <1>1, <1>8, <2>2 DEF FilesOpen, Keyed, Opens, OfVersion1, Fit
  <2>5. \A v \in Op : Writes(v)'
    BY <1>1, <1>5, <2>1 DEF Writes
  <2>6. \A v \in Op : v # o => Holds(v)'
    <3> SUFFICES ASSUME NEW v \in Op, v # o PROVE Holds(v)'
      OBVIOUS
    <3>1. op[v].kind \notin {"unlock", "migrate"} /\ op[v].pc \in {"idle", "read", "decide"}
      BY <1>1, <2>1 DEF OneUnlock, OverlapTypes, LocalsOf, Places
    <3>2. op[v].kind \notin SlotKinds
      <4>1. op[v].pc = "idle" => op[v].kind = "none"
        BY DEF Holds, Quiet
      <4> QED BY <3>1, <4>1 DEF Holds, SlotKinds
    <3> QED BY <1>5, <3>1, <3>2 DEF Holds, Opens, Fit
  <2> QED BY <1>7, <1>8, <2>3, <2>4, <2>5, <2>6
<1> QED BY <1>9, <1>10

LEMMA MigrateOpens ==
  ASSUME OverlapInv, NEW o \in Op, Migrate(o) PROVE OverlapInv'
<1> USE DEF OverlapInv
<1>1. /\ op[o].kind = "unlock" /\ op[o].pc = "decide" /\ OfVersion1(op[o].got)
      /\ minted' = minted + 1 /\ dataKey' = minted' /\ cache' = op[o].got.data.cache
      /\ NewSlots([pass |-> minted', unlock |-> NoSlot]) /\ Persist(o, "migrate", Quiet)
      /\ UNCHANGED <<sFile, sTmp, sAt, sPc, sArg>>
  BY DEF Migrate, Waiting, Store!Whole, OfVersion1, storeFile
<1>2. Locked /\ op[o].got = sFile
  BY <1>1 DEF Holds, OfVersion1, Store!Absent
<1>3. minted' \in Nat /\ minted' # 0 /\ cache' \subseteq Patch
  BY <1>1, <1>2 DEF OverlapTypes, OfVersion1, AnyContent, AnyImage
<1>4. [pass |-> minted', unlock |-> NoSlot] \in SlotsOf(Nat)
  BY <1>3, OverlapSorts DEF SlotsOf
<1>5. /\ slots' \in Ref /\ slots' # 0 /\ heap' \in [Ref -> SlotsOf(Nat)]
      /\ heap'[slots'].pass = minted' /\ heap'[slots'].unlock = NoSlot
  BY <1>1, <1>4, NewSlotsIs DEF OverlapTypes
<1>6. /\ op' \in [Op -> LocalsOf(Nat, AnyContent)] /\ \A v \in Op : v # o => op'[v] = op[v]
      /\ op'[o].kind = "migrate" /\ op'[o].pc = "mkdir"
      /\ op'[o].ref = slots' /\ op'[o].key = dataKey'
  <2>1. dataKey' \in Nat /\ "migrate" \in {"init", "migrate", "update"} \cup SlotKinds
    BY <1>1, <1>3
  <2> QED BY <1>1, <1>3, <1>5, <2>1, PersistIs, OverlapSorts DEF OverlapTypes
<1>7. \A v \in Op : op[v].pc \notin {"mkdir", "write", "saveKey", "unlink"} /\ sPc[v] = "idle"
  BY <1>2 DEF Holds, Writes
<1>8. OverlapTypes'
  BY <1>1, <1>3, <1>5, <1>6 DEF OverlapTypes
<1>9. MemoryFits' /\ ~Locked'
  BY <1>1, <1>3, <1>5 DEF MemoryFits, Locked, Fit
<1>10. OneUnlock'
  BY <1>1, <1>6 DEF OneUnlock
<1>11. FilesOpen'
  <2>1. Migrating'
    BY <1>6 DEF Migrating
  <2>2. Keyed(sFile)'
    BY <1>1, <1>2 DEF Keyed, OfVersion1
  <2> QED BY <1>1, <2>1, <2>2 DEF FilesOpen, Opens, OfVersion1, Fit
<1>12. \A v \in Op : Writes(v)'
  BY <1>1, <1>6, <1>7 DEF Writes
<1>13. Holds(o)'
  BY <1>1, <1>3, <1>5, <1>6, <1>9 DEF Holds, SlotKinds, Fit
<1>14. \A v \in Op : v # o => Holds(v)'
  <2> SUFFICES ASSUME NEW v \in Op, v # o PROVE Holds(v)'
    OBVIOUS
  <2>1. op[v].kind \notin {"unlock", "migrate"} /\ op[v].pc \in {"idle", "read", "decide"}
    BY <1>1, <1>7 DEF OneUnlock, OverlapTypes, LocalsOf, Places
  <2>2. op[v].kind \notin SlotKinds
    <3>1. op[v].pc = "idle" => op[v].kind = "none"
      BY DEF Holds, Quiet
    <3> QED BY <2>1, <3>1 DEF Holds, SlotKinds
  <2> QED BY <1>6, <2>1, <2>2 DEF Holds, Opens, Fit
<1> QED BY <1>8, <1>9, <1>10, <1>11, <1>12, <1>13, <1>14

\* Slots in use keep fitting when the unlock slot of the current ones changes.
LEMMA OthersFit ==
  ASSUME OverlapInv, ~Locked, NEW u \in [kek : Nat, key : Nat], u = NoSlot \/ u.key = dataKey,
         SetUnlockSlot(u), UNCHANGED <<dataKey, slots>>
  PROVE  /\ heap' \in [Ref -> SlotsOf(Nat)] /\ MemoryFits' /\ slots' \in Ref
         /\ Fit(heap'[slots], dataKey)
         /\ \A v \in Op : op[v].pc = "mkdir" => Fit(heap'[op[v].ref], dataKey)
<1> USE DEF OverlapInv
<1>1. slots \in Ref /\ Fit(heap[slots], dataKey)
  BY DEF MemoryFits, OverlapTypes
<1>2. /\ heap' \in [Ref -> SlotsOf(Nat)] /\ heap'[slots].pass = heap[slots].pass /\ heap'[slots].unlock = u
      /\ \A r \in Ref : r # slots => heap'[r] = heap[r]
  BY <1>1, SetIs DEF OverlapTypes
<1>3. Fit(heap'[slots], dataKey)
  BY <1>1, <1>2 DEF Fit
<1>4. \A v \in Op : op[v].pc = "mkdir" => Fit(heap'[op[v].ref], dataKey)
  <2> SUFFICES ASSUME NEW v \in Op, op[v].pc = "mkdir" PROVE Fit(heap'[op[v].ref], dataKey)
    OBVIOUS
  <2>1. op[v].ref \in Ref /\ Fit(heap[op[v].ref], dataKey)
    BY DEF Holds, OverlapTypes, LocalsOf
  <2> QED BY <1>2, <1>3, <2>1
<1>5. MemoryFits'
  BY <1>1, <1>3 DEF MemoryFits, Locked
<1> QED BY <1>1, <1>2, <1>3, <1>4, <1>5

\* The slot that memory has is one to go back to.
LEMMA SlotInMemory ==
  ASSUME OverlapInv, ~Locked
  PROVE  /\ slots \in Ref /\ dataKey \in Nat /\ dataKey # 0 /\ Fit(heap[slots], dataKey)
         /\ heap[slots].unlock \in [kek : Nat, key : Nat]
         /\ heap[slots].unlock = NoSlot \/ heap[slots].unlock.key = dataKey
         /\ \A v \in Op : op[v].pc = "mkdir" => Fit(heap[op[v].ref], dataKey)
<1>1. slots \in Ref /\ Fit(heap[slots], dataKey) /\ heap[slots] \in SlotsOf(Nat)
  BY DEF OverlapInv, MemoryFits, OverlapTypes
<1> QED BY <1>1 DEF OverlapInv, OverlapTypes, Fit, SlotsOf, Holds, Locked

\* A request that has changed memory and begins to persist it.
LEMMA PersistOpens ==
  ASSUME OverlapInv, ~Locked, NEW o \in Op, UNCHANGED <<dataKey, slots, storeFile>>,
         cache' \subseteq Patch, minted' \in Nat, heap' \in [Ref -> SlotsOf(Nat)], MemoryFits',
         Fit(heap'[slots], dataKey),
         \A v \in Op : op[v].pc = "mkdir" => Fit(heap'[op[v].ref], dataKey),
         op[o].pc \in {"idle", "saveKey"}, op[o].kind # "migrate",
         NEW kind \in {"update"} \cup SlotKinds, NEW locals \in LocalsOf(Nat, AnyContent),
         Persist(o, kind, locals), locals.prev = NoSlot \/ locals.prev.key = dataKey
  PROVE  OverlapInv'
<1> USE DEF OverlapInv
<1>1. slots \in Ref /\ slots # 0 /\ slots' \in Ref /\ dataKey' \in Nat
  BY DEF MemoryFits, OverlapTypes
<1>2. kind \in {"init", "migrate", "update"} \cup SlotKinds /\ kind \notin {"unlock", "migrate", "init"}
  BY DEF SlotKinds
<1>3. /\ op' \in [Op -> LocalsOf(Nat, AnyContent)] /\ \A v \in Op : v # o => op'[v] = op[v]
      /\ op'[o].kind = kind /\ op'[o].pc = "mkdir" /\ op'[o].ref = slots' /\ op'[o].key = dataKey'
      /\ op'[o].prev = locals.prev
  BY <1>1, <1>2, PersistIs DEF OverlapTypes
<1>4. OneUnlock'
  BY <1>2, <1>3 DEF OneUnlock
<1>5. Holds(o)'
  BY <1>1, <1>2, <1>3 DEF Holds, Locked, Fit
<1> QED BY <1>1, <1>3, <1>4, <1>5, MemoryOnly

LEMMA UpdateOpens ==
  ASSUME OverlapInv, NEW o \in Op, NEW p \in Patch, Update(o, p) PROVE OverlapInv'
<1> DEFINE locals == [Quiet EXCEPT !.patch = {p}]
<1>1. /\ op[o] = Quiet /\ ~Locked /\ cache' = cache \cup {p} /\ Persist(o, "update", locals)
      /\ UNCHANGED <<dataKey, slots, heap, minted, storeFile>>
  BY DEF Update, Begin
<1>2. locals \in LocalsOf(Nat, AnyContent) /\ locals.prev = NoSlot
  BY OverlapSorts DEF LocalsOf, Quiet
<1>3. op[o].pc = "idle" /\ op[o].kind = "none"
  BY <1>1 DEF Quiet
<1>4. cache' \subseteq Patch /\ minted' \in Nat /\ heap' \in [Ref -> SlotsOf(Nat)]
  BY <1>1 DEF OverlapInv, OverlapTypes
<1>5. MemoryFits' /\ Fit(heap'[slots], dataKey) /\ \A v \in Op : op[v].pc = "mkdir" => Fit(heap'[op[v].ref], dataKey)
  BY <1>1, SlotInMemory DEF OverlapInv, MemoryFits, Locked
<1> HIDE DEF locals
<1> QED BY <1>1, <1>2, <1>3, <1>4, <1>5, PersistOpens

LEMMA EnableOpens ==
  ASSUME OverlapInv, NEW o \in Op, EnableAutoUnlock(o) PROVE OverlapInv'
<1> DEFINE locals == [Quiet EXCEPT !.prev = heap[slots].unlock, !.kek = minted']
<1>1. /\ op[o] = Quiet /\ ~Locked /\ minted' = minted + 1
      /\ SetUnlockSlot([kek |-> minted', key |-> dataKey]) /\ Persist(o, "enable", locals)
      /\ UNCHANGED <<dataKey, cache, slots, storeFile>>
  BY DEF EnableAutoUnlock, Begin
<1>2. minted' \in Nat /\ cache' \subseteq Patch
  BY <1>1 DEF OverlapInv, OverlapTypes
<1>3. locals \in LocalsOf(Nat, AnyContent) /\ locals.prev = heap[slots].unlock
  BY <1>1, <1>2, OverlapSorts, SlotInMemory DEF LocalsOf, Quiet
<1>4. locals.prev = NoSlot \/ locals.prev.key = dataKey
  BY <1>1, <1>3, SlotInMemory
<1>5. op[o].pc = "idle" /\ op[o].kind = "none"
  BY <1>1 DEF Quiet
<1>6. [kek |-> minted', key |-> dataKey] \in [kek : Nat, key : Nat] /\ [kek |-> minted', key |-> dataKey].key = dataKey
  BY <1>1, <1>2, SlotInMemory
<1>7. /\ heap' \in [Ref -> SlotsOf(Nat)] /\ MemoryFits' /\ Fit(heap'[slots], dataKey)
      /\ \A v \in Op : op[v].pc = "mkdir" => Fit(heap'[op[v].ref], dataKey)
  BY <1>1, <1>6, OthersFit
<1> HIDE DEF locals
<1> QED BY <1>1, <1>2, <1>3, <1>4, <1>5, <1>7, PersistOpens DEF SlotKinds

LEMMA DisableOpens ==
  ASSUME OverlapInv, NEW o \in Op, DisableAutoUnlock(o) PROVE OverlapInv'
<1>1. /\ op[o] = Quiet /\ ~Locked /\ UNCHANGED <<dataKey, cache, slots, minted, storeFile>>
  BY DEF DisableAutoUnlock, Begin
<1>2. minted' \in Nat /\ cache' \subseteq Patch
  BY <1>1 DEF OverlapInv, OverlapTypes
<1>3. op[o].pc = "idle" /\ op[o].kind = "none"
  BY <1>1 DEF Quiet
<1>4. CASE heap[slots].unlock = NoSlot
  <2> DEFINE new == [Quiet EXCEPT !.kind = "disable", !.pc = "unlink"]
  <2>1. heap' = heap /\ op' = [op EXCEPT ![o] = new]
    BY <1>4 DEF DisableAutoUnlock
  <2>2. new \in LocalsOf(Nat, AnyContent) /\ new.kind = "disable" /\ new.pc = "unlink" /\ new.prev = NoSlot
    BY OverlapSorts DEF LocalsOf, Places, SlotKinds, Quiet
  <2> HIDE DEF new
  <2>3. /\ op' \in [Op -> LocalsOf(Nat, AnyContent)] /\ \A v \in Op : v # o => op'[v] = op[v]
        /\ op'[o].kind = "disable" /\ op'[o].pc = "unlink" /\ op'[o].prev = NoSlot
    BY <2>1, <2>2 DEF OverlapInv, OverlapTypes
  <2>4. OneUnlock' /\ Holds(o)'
    BY <1>1, <2>3 DEF OverlapInv, OneUnlock, Holds, Locked
  <2>5. MemoryFits' /\ slots' \in Ref \cup {0} /\ heap' \in [Ref -> SlotsOf(Nat)]
    BY <1>1, <2>1 DEF OverlapInv, MemoryFits, Locked, OverlapTypes
  <2>6. \A v \in Op : op[v].pc = "mkdir" => Fit(heap'[op[v].ref], dataKey)
    BY <1>1, <2>1, SlotInMemory
  <2> QED BY <1>1, <1>2, <1>3, <2>3, <2>4, <2>5, <2>6, MemoryOnly
<1>5. CASE heap[slots].unlock # NoSlot
  <2> DEFINE locals == [Quiet EXCEPT !.prev = heap[slots].unlock]
  <2>1. SetUnlockSlot(NoSlot) /\ Persist(o, "disable", locals)
    BY <1>5 DEF DisableAutoUnlock
  <2>2. locals \in LocalsOf(Nat, AnyContent) /\ locals.prev = heap[slots].unlock
    BY <1>1, OverlapSorts, SlotInMemory DEF LocalsOf, Quiet
  <2>3. locals.prev = NoSlot \/ locals.prev.key = dataKey
    BY <1>1, <2>2, SlotInMemory
  <2>4. /\ heap' \in [Ref -> SlotsOf(Nat)] /\ MemoryFits' /\ Fit(heap'[slots], dataKey)
        /\ \A v \in Op : op[v].pc = "mkdir" => Fit(heap'[op[v].ref], dataKey)
    BY <1>1, <2>1, OthersFit, OverlapSorts
  <2> HIDE DEF locals
  <2> QED BY <1>1, <1>2, <1>3, <2>1, <2>2, <2>3, <2>4, PersistOpens DEF SlotKinds
<1> QED BY <1>4, <1>5

\* A request that ends, with the store file as it is.
LEMMA EndOpens ==
  ASSUME OverlapInv, NEW o \in Op, End(o), op[o].pc # "write",
         UNCHANGED <<dataKey, cache, slots, heap, minted, storeFile>>,
         op[o].kind = "migrate" => ~OfVersion1(sFile)
  PROVE  OverlapInv'
<1> USE DEF OverlapInv
<1>1. /\ op' \in [Op -> LocalsOf(Nat, AnyContent)] /\ \A v \in Op : v # o => op'[v] = op[v]
      /\ op'[o] = Quiet /\ op'[o].kind = "none" /\ op'[o].pc = "idle"
  BY EndIs, OverlapSorts DEF OverlapTypes
<1>2. OneUnlock' /\ Holds(o)'
  BY <1>1, QuietHolds DEF OneUnlock
<1>3. MemoryFits' /\ \A v \in Op : op[v].pc = "mkdir" => Fit(heap'[op[v].ref], dataKey)
  BY DEF MemoryFits, Locked, Holds
<1> QED BY <1>1, <1>2, <1>3, MemoryOnly DEF OverlapTypes

LEMMA KeyFileOpens ==
  ASSUME OverlapInv, NEW o \in Op, SaveKeyStep(o) \/ KeySaved(o) \/ KeySaveFails(o) \/ RemoveKey(o)
  PROVE  OverlapInv'
<1>1. CASE SaveKeyStep(o)
  <2>1. UNCHANGED <<dataKey, cache, slots, heap, minted, op, storeFile>>
    BY <1>1 DEF SaveKeyStep, memory
  <2>2. MemoryFits' /\ OneUnlock' /\ \A v \in Op : op[v].pc = "mkdir" => Fit(heap'[op[v].ref], dataKey)
    BY <2>1 DEF OverlapInv, MemoryFits, Locked, Holds, OneUnlock
  <2>3. Holds(o)'
    <3>1. UNCHANGED sFile
      BY <2>1 DEF storeFile
    <3> QED BY <2>1, <3>1 DEF OverlapInv, Holds, Locked, Opens, Keyed, OfVersion1, Fit
  <2> QED BY <2>1, <2>2, <2>3, MemoryOnly DEF OverlapInv, OverlapTypes
<1>2. CASE KeySaved(o) \/ RemoveKey(o)
  <2>1. /\ UNCHANGED <<dataKey, cache, slots, heap, minted, storeFile>>
        /\ End(o) /\ op[o].pc \in {"saveKey", "unlink"}
        /\ op[o].pc = "unlink" => op[o].kind = "disable"
    BY <1>2 DEF KeySaved, RemoveKey, Waiting, memory
  <2>2. op[o].kind # "migrate"
    BY <2>1 DEF OverlapInv, Holds
  <2> QED BY <2>1, <2>2, EndOpens
<1>3. CASE KeySaveFails(o)
  <2>1. /\ op[o].pc = "saveKey" /\ UNCHANGED <<dataKey, cache, slots, minted, storeFile>>
    BY <1>3 DEF KeySaveFails
  <2>2. op[o].kind = "enable" /\ ~Locked
    BY <2>1 DEF OverlapInv, Holds
  <2>3. CASE heap[slots].unlock = NoSlot
    <3>1. End(o) /\ UNCHANGED heap
      BY <1>3, <2>3 DEF KeySaveFails
    <3> QED BY <2>1, <2>2, <3>1, EndOpens
  <2>4. CASE heap[slots].unlock # NoSlot
    <3> DEFINE locals == [Quiet EXCEPT !.prev = heap[slots].unlock]
    <3>1. SetUnlockSlot(NoSlot) /\ Persist(o, "undo", locals)
      BY <1>3, <2>4 DEF KeySaveFails
    <3>2. locals \in LocalsOf(Nat, AnyContent) /\ locals.prev = heap[slots].unlock
      BY <2>2, OverlapSorts, SlotInMemory DEF LocalsOf, Quiet
    <3>3. locals.prev = NoSlot \/ locals.prev.key = dataKey
      BY <2>2, <3>2, SlotInMemory
    <3>4. /\ heap' \in [Ref -> SlotsOf(Nat)] /\ MemoryFits' /\ Fit(heap'[slots], dataKey)
          /\ \A v \in Op : op[v].pc = "mkdir" => Fit(heap'[op[v].ref], dataKey)
      BY <2>1, <2>2, <3>1, OthersFit, OverlapSorts
    <3>5. cache' \subseteq Patch /\ minted' \in Nat
      BY <2>1 DEF OverlapInv, OverlapTypes
    <3> HIDE DEF locals
    <3> QED BY <2>1, <2>2, <3>1, <3>2, <3>3, <3>4, <3>5, PersistOpens DEF SlotKinds
  <2> QED BY <2>3, <2>4
<1> QED BY <1>1, <1>2, <1>3


\* A step of a call of writeFileAtomic: only the store file moves.
LEMMA FileOnly ==
  ASSUME OverlapInv, NEW o \in Op, sPc[o] # "idle", UNCHANGED <<dataKey, cache, slots, heap, minted, op>>,
         sFile' \in AnyContent, sTmp' \in AnyContent, sArg' = sArg,
         sAt' \in [Op -> {"closed", "tmp", "file", "gone"}],
         sPc' \in [Op -> {"idle", "open", "write", "sync", "rename", "syncDir", "throw"}],
         FilesOpen', \A v \in Op : Writes(v)'
  PROVE  OverlapInv'
<1> USE DEF OverlapInv
<1>1. ~Locked /\ ~Locked'
  BY DEF Writes, Holds, Locked
<1>2. \A v \in Op : Holds(v)'
  BY <1>1 DEF Holds, Locked, Opens, OfVersion1, Keyed, Fit
<1>3. MemoryFits' /\ OneUnlock'
  BY <1>1 DEF MemoryFits, Locked, OneUnlock
<1> QED BY <1>2, <1>3 DEF OverlapTypes

LEMMA WritesOther ==
  ASSUME OverlapInv, NEW v \in Op, UNCHANGED <<dataKey, op>>, sArg' = sArg, sPc'[v] = sPc[v],
         Keyed(sTmp)' \/ sTmp' = sTmp,
         ~OfVersion1(sFile)' \/ (sFile' = sFile /\ (sTmp' # Store!Absent \/ sTmp' = sTmp)),
         sAt'[v] \in {"closed", "gone"} \/ (sAt'[v] = sAt[v] /\ (sTmp' # Store!Absent \/ sTmp' = sTmp))
           \/ (sAt'[v] = "file" /\ sPc[v] \in {"write", "sync"})
  PROVE  Writes(v)'
BY DEF OverlapInv, Writes, Keyed, OfVersion1, Fit

LEMMA OpenOpens ==
  ASSUME OverlapInv, NEW o \in Op, Store!Open(o), UNCHANGED <<dataKey, cache, slots, heap, minted, op>>
  PROVE  OverlapInv'
<1> USE DEF OverlapInv
<1>1. /\ sPc[o] = "open" /\ sPc' = [sPc EXCEPT ![o] = "write"] /\ sTmp' = Store!Empty
      /\ sAt' = [sAt EXCEPT ![o] = "tmp"] /\ UNCHANGED <<sFile, sArg>>
  BY DEF Store!Open, Store!Goto
<1>2. sTmp' \in AnyContent /\ sTmp'.data = NoData /\ sTmp'.size = 0 /\ sTmp' # Store!Absent
  BY <1>1, OverlapSorts DEF Store!Empty, Store!Absent
<1>3. FilesOpen'
  BY <1>1, <1>2 DEF FilesOpen, Opens, OfVersion1, Keyed, Locked, Fit, Migrating
<1>4. Writes(o)'
  BY <1>1, <1>2 DEF Writes, Keyed, OfVersion1, Fit, OverlapTypes
<1>5. \A v \in Op : v # o => Writes(v)'
  BY <1>1, <1>2, WritesOther DEF Keyed, OverlapTypes
<1> QED BY <1>1, <1>2, <1>3, <1>4, <1>5, FileOnly DEF OverlapTypes

\* What a write or a sync leaves in the inode of its descriptor.
LEMMA WriteOpens ==
  ASSUME OverlapInv, NEW o \in Op, Store!Write(o), UNCHANGED <<dataKey, cache, slots, heap, minted, op>>
  PROVE  OverlapInv'
<1> USE DEF OverlapInv
<1> DEFINE Over(c) == [data |-> sArg[o], size |-> IF c.size > ImageSize(sArg[o]) THEN c.size ELSE ImageSize(sArg[o]),
                       synced |-> FALSE]
<1>1. /\ sPc[o] = "write" /\ sPc' = [sPc EXCEPT ![o] = "sync"]
      /\ sTmp' = IF sAt[o] = "tmp" THEN Over(sTmp) ELSE sTmp
      /\ sFile' = IF sAt[o] = "file" THEN Over(sFile) ELSE sFile
      /\ UNCHANGED <<sAt, sArg>>
  BY DEF Store!Write, Store!Goto, Store!OnDescriptor, Store!Overwrite
<1>2. /\ sArg[o] \in AnyImage /\ sArg[o].v = 2 /\ sArg[o].key = dataKey /\ Fit(sArg[o].slots, dataKey)
      /\ Keyed(sTmp)
  BY <1>1 DEF Writes
<1>3. ImageSize(sArg[o]) \in Nat
  BY <1>2, AnySize
<1>4. ASSUME NEW c \in AnyContent, c.size >= 0
      PROVE  /\ Over(c) \in AnyContent /\ Over(c).data = sArg[o] /\ Over(c).size >= 0 /\ Over(c) # Store!Absent
             /\ Opens(Over(c)) /\ Keyed(Over(c)) /\ ~OfVersion1(Over(c))
  <2>1. Over(c).size \in Int /\ Over(c).size >= 0 /\ Over(c).data = sArg[o]
    BY <1>3, <1>4 DEF AnyContent
  <2>2. Over(c) \in AnyContent
    BY <1>2, <2>1 DEF AnyContent
  <2> HIDE DEF Over
  <2> QED BY <1>2, <2>1, <2>2 DEF Opens, Keyed, OfVersion1, Store!Absent
<1> HIDE DEF Over
<1>5. /\ sFile' \in AnyContent /\ sFile'.size >= 0 /\ Opens(sFile') /\ (sFile' = sFile \/ ~OfVersion1(sFile'))
      /\ Keyed(sFile')
  BY <1>1, <1>4, <1>2 DEF OverlapTypes, FilesOpen, Holds, Writes
<1>6. /\ sTmp' \in AnyContent /\ (sTmp' = Store!Absent \/ sTmp'.size >= 0) /\ Opens(sTmp') /\ ~OfVersion1(sTmp')
      /\ (sTmp' = sTmp \/ sTmp' # Store!Absent) /\ Keyed(sTmp')
  BY <1>1, <1>2, <1>4 DEF OverlapTypes, FilesOpen, Writes
<1>7. FilesOpen'
  BY <1>1, <1>5, <1>6 DEF FilesOpen, Opens, OfVersion1, Keyed, Locked, Fit, Migrating
<1>8. /\ Keyed(sTmp)' /\ (sFile' = sFile \/ ~OfVersion1(sFile)')
  BY <1>5, <1>6 DEF Keyed, OfVersion1
<1>9. Writes(o)'
  BY <1>1, <1>2, <1>5, <1>6, <1>8 DEF Writes, Keyed, OfVersion1, Fit, OverlapTypes
<1>10. \A v \in Op : v # o => Writes(v)'
  BY <1>1, <1>6, <1>8, WritesOther DEF OverlapTypes
<1> QED BY <1>1, <1>5, <1>6, <1>7, <1>9, <1>10, FileOnly DEF OverlapTypes

LEMMA SyncOpens ==
  ASSUME OverlapInv, NEW o \in Op, Store!Sync(o), UNCHANGED <<dataKey, cache, slots, heap, minted, op>>
  PROVE  OverlapInv'
<1> USE DEF OverlapInv
<1> DEFINE S(c) == [data |-> c.data, size |-> c.size, synced |-> TRUE]
<1>1. /\ sPc[o] = "sync" /\ sPc' = [sPc EXCEPT ![o] = "rename"]
      /\ sTmp' = IF sAt[o] = "tmp" THEN S(sTmp) ELSE sTmp
      /\ sFile' = IF sAt[o] = "file" THEN S(sFile) ELSE sFile
      /\ sAt' = [sAt EXCEPT ![o] = "closed"] /\ UNCHANGED sArg
  BY DEF Store!Sync, Store!Goto, Store!OnDescriptor, Store!Synced
<1>2. ASSUME NEW c \in AnyContent
      PROVE  S(c) \in AnyContent /\ S(c).data = c.data /\ S(c).size = c.size
  BY DEF AnyContent
<1>3. ASSUME NEW c \in AnyContent, c.size >= 0 PROVE S(c) # Store!Absent
  BY <1>3 DEF AnyContent, Store!Absent
<1> HIDE DEF S
<1>4. /\ sFile' \in AnyContent /\ sFile'.data = sFile.data /\ sFile'.size = sFile.size
      /\ sTmp' \in AnyContent /\ sTmp'.data = sTmp.data /\ sTmp'.size = sTmp.size
      /\ sTmp' = Store!Absent => sTmp = Store!Absent
  BY <1>1, <1>2, <1>3 DEF OverlapTypes, FilesOpen, Writes
<1>5. FilesOpen'
  <2>1. sTmp = Store!Absent => sTmp' = Store!Absent
    BY <1>1 DEF Writes
  <2> QED BY <1>1, <1>4, <2>1 DEF FilesOpen, Opens, OfVersion1, Keyed, Locked, Fit, Migrating
<1>6. \A v \in Op : Writes(v)'
  <2> SUFFICES ASSUME NEW v \in Op PROVE Writes(v)'
    OBVIOUS
  <2>1. Writes(v) /\ Writes(o)
    OBVIOUS
  <2>2. v = o \/ (sPc'[v] = sPc[v] /\ sAt'[v] = sAt[v])
    BY <1>1 DEF OverlapTypes
  <2>3. sPc'[o] = "rename" /\ sAt'[o] = "closed"
    BY <1>1 DEF OverlapTypes
  <2>4. (Keyed(sTmp)' <=> Keyed(sTmp)) /\ (OfVersion1(sFile)' <=> OfVersion1(sFile))
    BY <1>4 DEF Keyed, OfVersion1
  <2> QED BY <1>1, <1>4, <2>1, <2>2, <2>3, <2>4 DEF Writes, Fit
<1> QED BY <1>1, <1>4, <1>5, <1>6, FileOnly DEF OverlapTypes

\* Whoever's content is renamed, it opens with the data key.
LEMMA RenameOpens ==
  ASSUME OverlapInv, NEW o \in Op, Store!Rename(o), UNCHANGED <<dataKey, cache, slots, heap, minted, op>>
  PROVE  OverlapInv'
<1> USE DEF OverlapInv
<1>1. /\ sPc[o] = "rename" /\ sPc' = [sPc EXCEPT ![o] = "syncDir"] /\ sTmp # Store!Absent
      /\ sFile' = sTmp /\ sTmp' = Store!Absent /\ UNCHANGED sArg
      /\ sAt' = [v \in Op |-> Store!Relinked(sAt[v])]
  BY DEF Store!Rename, Store!Goto
<1>2. /\ sAt' \in [Op -> {"closed", "tmp", "file", "gone"}]
      /\ \A v \in Op : sAt'[v] \in {"closed", "gone"} \/ (sAt'[v] = "file" /\ sPc[v] \in {"write", "sync"})
  BY <1>1 DEF Store!Relinked, OverlapTypes, Writes
<1>3. Keyed(sTmp) /\ ~OfVersion1(sTmp) /\ Opens(sTmp) /\ sTmp.size >= 0
  BY <1>1 DEF Writes, FilesOpen
<1>4. sTmp' \in AnyContent /\ Store!Absent.data = NoData
  BY <1>1, OverlapSorts DEF Store!Absent
<1>5. FilesOpen'
  BY <1>1, <1>3, <1>4 DEF FilesOpen, Opens, OfVersion1, Keyed, Locked, Fit, Migrating
<1>6. Keyed(sTmp)' /\ ~OfVersion1(sFile)'
  BY <1>1, <1>3, <1>4 DEF Keyed, OfVersion1
<1>7. Writes(o)'
  BY <1>1, <1>2, <1>6 DEF Writes, Keyed, OfVersion1, Fit, OverlapTypes
<1>8. \A v \in Op : v # o => Writes(v)'
  BY <1>1, <1>2, <1>6, WritesOther DEF OverlapTypes
<1> QED BY <1>1, <1>2, <1>4, <1>5, <1>7, <1>8, FileOnly DEF OverlapTypes

\* A call that fails: the disk refused, or the temporary file was renamed away.
LEMMA FailureOpens ==
  ASSUME OverlapInv, NEW o \in Op,
         Store!OpenFails(o) \/ Store!WriteFails(o) \/ Store!SyncFails(o) \/ Store!RenameFails(o),
         UNCHANGED <<dataKey, cache, slots, heap, minted, op>>
  PROVE  OverlapInv'
<1> USE DEF OverlapInv
<1> DEFINE S(c) == [data |-> NoData, size |-> c.size, synced |-> FALSE]
<1>1. /\ sPc[o] \in {"open", "write", "sync", "rename"} /\ sPc' = [sPc EXCEPT ![o] = "throw"]
      /\ IOFails \/ (sPc[o] = "rename" /\ sTmp = Store!Absent)
      /\ sTmp' = sTmp \/ (sTmp' = S(sTmp) /\ sAt[o] = "tmp")
      /\ sFile' = sFile \/ (sFile' = S(sFile) /\ sAt[o] = "file")
      /\ sAt' = sAt \/ sAt' = [sAt EXCEPT ![o] = "closed"]
      /\ sPc[o] \in {"write", "sync"} => sAt' = [sAt EXCEPT ![o] = "closed"]
      /\ UNCHANGED sArg
  BY DEF Store!OpenFails, Store!WriteFails, Store!SyncFails, Store!RenameFails, Store!Goto,
         Store!OnDescriptor, Store!Spoil
<1>2. ~OfVersion1(sFile)
  BY <1>1 DEF Writes, FilesOpen
<1>3. ASSUME NEW c \in AnyContent
      PROVE  S(c) \in AnyContent /\ S(c).data = NoData /\ S(c).size = c.size /\ S(c) # Store!Absent
  BY DEF AnyContent, Store!Absent
<1> HIDE DEF S
<1>4. /\ sFile' \in AnyContent /\ sFile'.size = sFile.size /\ sFile'.data \in {sFile.data, NoData}
      /\ sTmp' \in AnyContent /\ sTmp'.size = sTmp.size /\ sTmp'.data \in {sTmp.data, NoData}
      /\ sTmp' # Store!Absent \/ sTmp' = sTmp
      /\ sTmp = Store!Absent => sTmp' = sTmp
  BY <1>1, <1>3 DEF OverlapTypes, Writes
<1>5. FilesOpen'
  BY <1>1, <1>2, <1>4 DEF FilesOpen, Opens, OfVersion1, Keyed, Locked, Fit, Migrating
<1>6. ~OfVersion1(sFile)' /\ (Keyed(sTmp)' \/ sTmp' = sTmp)
  BY <1>1, <1>2, <1>3 DEF OfVersion1, Keyed, OverlapTypes
<1>7. sPc'[o] = "throw" /\ sAt'[o] \notin {"tmp", "file"} /\ \A v \in Op : v # o => sPc'[v] = sPc[v] /\ sAt'[v] = sAt[v]
  BY <1>1 DEF OverlapTypes, Writes
<1>8. Writes(o)'
  BY <1>1, <1>6, <1>7 DEF Writes, Keyed, OfVersion1, Fit
<1>9. \A v \in Op : v # o => Writes(v)'
  BY <1>1, <1>4, <1>6, <1>7, WritesOther
<1>10. /\ sAt' \in [Op -> {"closed", "tmp", "file", "gone"}]
       /\ sPc' \in [Op -> {"idle", "open", "write", "sync", "rename", "syncDir", "throw"}]
  BY <1>1 DEF OverlapTypes
<1> QED BY <1>1, <1>4, <1>5, <1>8, <1>9, <1>10, FileOnly

LEMMA WriteStepOpens ==
  ASSUME OverlapInv, NEW o \in Op, WriteStep(o) PROVE OverlapInv'
<1>1. Store!Step(o) /\ UNCHANGED <<dataKey, cache, slots, heap, minted, op>>
  BY DEF WriteStep, memory
<1> QED BY <1>1, OpenOpens, WriteOpens, SyncOpens, RenameOpens, FailureOpens DEF Store!Step

\* stringify: what is about to be written opens with the data key.
LEMMA SerialiseOpens ==
  ASSUME OverlapInv, NEW o \in Op, Serialise(o) PROVE OverlapInv'
<1> USE DEF OverlapInv
<1> DEFINE image == [v |-> 2, slots |-> heap[op[o].ref], key |-> op[o].key, cache |-> op[o].cache]
<1>1. /\ op[o].pc = "mkdir" /\ sPc[o] = "idle" /\ sPc' = [sPc EXCEPT ![o] = "open"]
      /\ sArg' = [sArg EXCEPT ![o] = image]
      /\ op' = [op EXCEPT ![o].pc = "write", ![o].ref = 0, ![o].key = 0, ![o].cache = {}]
      /\ UNCHANGED <<dataKey, cache, slots, heap, minted, sFile, sTmp, sAt>>
  BY DEF Serialise, Store!Call, Store!Goto, memory
<1>2. /\ op[o] \in LocalsOf(Nat, AnyContent) /\ op[o].ref \in Ref /\ op[o].key = dataKey
      /\ Fit(heap[op[o].ref], dataKey) /\ ~Locked /\ op[o].kind # "unlock"
  BY <1>1 DEF OverlapTypes, Holds, LocalsOf
<1>3. image \in AnyImage /\ image.v = 2 /\ image.key = dataKey /\ Fit(image.slots, dataKey)
  BY <1>2 DEF OverlapTypes, AnyImage, LocalsOf
<1> HIDE DEF image
<1>4. /\ op' \in [Op -> LocalsOf(Nat, AnyContent)] /\ \A v \in Op : v # o => op'[v] = op[v]
      /\ op'[o].pc = "write" /\ op'[o].kind = op[o].kind /\ op'[o].prev = op[o].prev
  BY <1>1, <1>2 DEF OverlapTypes, LocalsOf, Places
<1>5. OverlapTypes'
  BY <1>1, <1>3, <1>4 DEF OverlapTypes
<1>6. Writes(o)'
  BY <1>1, <1>3, <1>4 DEF Writes, Keyed, OfVersion1, Fit, OverlapTypes
<1>7. \A v \in Op : v # o => Writes(v)'
  BY <1>1, <1>4 DEF Writes, Keyed, OfVersion1, Fit, OverlapTypes
<1>8. Holds(o)'
  BY <1>1, <1>2, <1>4, SMTT(20) DEF Holds, Locked
<1>9. \A v \in Op : v # o => Holds(v)'
  <2> SUFFICES ASSUME NEW v \in Op, v # o PROVE Holds(v)'
    OBVIOUS
  <2>1. Holds(v) /\ op'[v] = op[v]
    BY <1>4
  <2>2. ~Locked' /\ (Keyed(op[v].got) => Keyed(op[v].got)')
    BY <1>1, <1>2, <2>1 DEF Keyed, Locked
  <2> QED BY <1>1, <1>2, <2>1, <2>2 DEF Holds, Opens, OfVersion1, Keyed, Fit
<1>10. MemoryFits' /\ OneUnlock'
  BY <1>1, <1>4 DEF MemoryFits, Locked, OneUnlock
<1>11. FilesOpen'
  <2>1. Migrating => Migrating'
    BY <1>4 DEF Migrating
  <2> QED BY <1>1, <2>1 DEF FilesOpen, Opens, OfVersion1, Keyed, Locked, Fit
<1> QED BY <1>5, <1>6, <1>7, <1>8, <1>9, <1>10, <1>11

\* A call that is over, and what its request does next.
LEMMA WriteOverOpens ==
  ASSUME OverlapInv, NEW o \in Op, sPc[o] \in {"syncDir", "throw"}, sPc' = [sPc EXCEPT ![o] = "idle"],
         sArg' = [sArg EXCEPT ![o] = NoData], UNCHANGED <<sFile, sTmp, sAt, dataKey, cache, slots, minted>>,
         heap' \in [Ref -> SlotsOf(Nat)], MemoryFits', OneUnlock', Holds(o)', op'[o].pc # "write",
         op' \in [Op -> LocalsOf(Nat, AnyContent)], \A v \in Op : v # o => op'[v] = op[v],
         \A v \in Op : op[v].pc = "mkdir" => Fit(heap'[op[v].ref], dataKey)
  PROVE  OverlapInv'
<1> USE DEF OverlapInv
<1>1. ~OfVersion1(sFile) /\ ~Locked
  BY DEF Writes, Holds
<1>2. OverlapTypes'
  BY DEF OverlapTypes
<1>3. FilesOpen'
  BY <1>1 DEF FilesOpen, Opens, OfVersion1, Keyed, Locked, Fit
<1>4. \A v \in Op : Writes(v)'
  <2> SUFFICES ASSUME NEW v \in Op PROVE Writes(v)'
    OBVIOUS
  <2>1. CASE v = o
    BY <2>1 DEF Writes, OverlapTypes
  <2>2. CASE v # o
    BY <2>2 DEF Writes, Keyed, OfVersion1, Fit, OverlapTypes
  <2> QED BY <2>1, <2>2
<1>5. \A v \in Op : v # o => Holds(v)'
  BY <1>1 DEF Holds, Locked, Opens, OfVersion1, Keyed, Fit
<1> QED BY <1>2, <1>3, <1>4, <1>5

LEMMA PersistResolvesOpens ==
  ASSUME OverlapInv, NEW o \in Op, PersistResolves(o) PROVE OverlapInv'
<1> USE DEF OverlapInv
<1>1. /\ op[o].pc = "write" /\ sPc[o] = "syncDir" /\ sPc' = [sPc EXCEPT ![o] = "idle"]
      /\ sArg' = [sArg EXCEPT ![o] = NoData]
      /\ UNCHANGED <<sFile, sTmp, sAt, dataKey, cache, slots, heap, minted>>
  BY DEF PersistResolves, Store!Return, Store!Goto, memory
<1>2. \/ End(o)
      \/ op[o].kind = "enable" /\ op' = [op EXCEPT ![o].pc = "saveKey"]
      \/ op[o].kind = "disable" /\ op' = [op EXCEPT ![o].pc = "unlink"]
  BY DEF PersistResolves
<1>3. op[o] \in LocalsOf(Nat, AnyContent) /\ ~Locked /\ Holds(o)
  BY <1>1 DEF OverlapTypes, Holds
<1>4. MemoryFits' /\ heap' \in [Ref -> SlotsOf(Nat)] /\ \A v \in Op : op[v].pc = "mkdir" => Fit(heap'[op[v].ref], dataKey)
  BY <1>1 DEF MemoryFits, Locked, Holds, OverlapTypes
<1>5. /\ op' \in [Op -> LocalsOf(Nat, AnyContent)] /\ \A v \in Op : v # o => op'[v] = op[v]
      /\ op'[o].pc # "write" /\ OneUnlock' /\ Holds(o)'
  <2>1. CASE End(o)
    <3>1. /\ op' \in [Op -> LocalsOf(Nat, AnyContent)] /\ \A v \in Op : v # o => op'[v] = op[v]
          /\ op'[o] = Quiet /\ op'[o].kind = "none" /\ op'[o].pc = "idle"
      BY <2>1, EndIs, OverlapSorts DEF OverlapTypes
    <3> QED BY <3>1, QuietHolds DEF OneUnlock
  <2>2. CASE op[o].kind = "enable" /\ op' = [op EXCEPT ![o].pc = "saveKey"]
    <3>1. /\ op' \in [Op -> LocalsOf(Nat, AnyContent)] /\ \A v \in Op : v # o => op'[v] = op[v]
          /\ op'[o].pc = "saveKey" /\ op'[o].kind = "enable" /\ op'[o].prev = op[o].prev
      BY <1>3, <2>2 DEF OverlapTypes, LocalsOf, Places
    <3>2. op[o].prev = NoSlot \/ op[o].prev.key = dataKey
      BY <1>3, <2>2 DEF Holds, SlotKinds
    <3>3. Holds(o)'
      BY <1>1, <1>3, <3>1, <3>2 DEF Holds, Locked
    <3> QED BY <2>2, <3>1, <3>3 DEF OneUnlock
  <2>3. CASE op[o].kind = "disable" /\ op' = [op EXCEPT ![o].pc = "unlink"]
    <3>1. /\ op' \in [Op -> LocalsOf(Nat, AnyContent)] /\ \A v \in Op : v # o => op'[v] = op[v]
          /\ op'[o].pc = "unlink" /\ op'[o].kind = "disable" /\ op'[o].prev = op[o].prev
      BY <1>3, <2>3 DEF OverlapTypes, LocalsOf, Places
    <3>2. op[o].prev = NoSlot \/ op[o].prev.key = dataKey
      BY <1>3, <2>3 DEF Holds, SlotKinds
    <3>3. Holds(o)'
      BY <1>1, <1>3, <3>1, <3>2 DEF Holds, Locked
    <3> QED BY <2>3, <3>1, <3>3 DEF OneUnlock
  <2> QED BY <1>2, <2>1, <2>2, <2>3
<1> QED BY <1>1, <1>4, <1>5, WriteOverOpens

LEMMA PersistRejectsOpens ==
  ASSUME OverlapInv, NEW o \in Op, PersistRejects(o) PROVE OverlapInv'
<1> USE DEF OverlapInv
<1>1. /\ op[o].pc \in {"mkdir", "write"} /\ End(o) /\ UNCHANGED <<dataKey, cache, slots, minted>>
      /\ IF op[o].kind \in SlotKinds THEN SetUnlockSlot(op[o].prev) ELSE UNCHANGED heap
  BY DEF PersistRejects, SlotKinds
<1>2. /\ op[o] \in LocalsOf(Nat, AnyContent) /\ ~Locked
      /\ op[o].kind \in SlotKinds => op[o].prev = NoSlot \/ op[o].prev.key = dataKey
  BY <1>1 DEF OverlapTypes, Holds
<1>3. op[o].prev \in [kek : Nat, key : Nat]
  BY <1>2 DEF LocalsOf
<1>4. /\ MemoryFits' /\ heap' \in [Ref -> SlotsOf(Nat)]
      /\ \A v \in Op : op[v].pc = "mkdir" => Fit(heap'[op[v].ref], dataKey)
  <2>1. CASE op[o].kind \in SlotKinds
    BY <1>1, <1>2, <1>3, <2>1, OthersFit
  <2>2. CASE op[o].kind \notin SlotKinds
    BY <1>1, <2>2 DEF MemoryFits, Locked, Holds, OverlapTypes
  <2> QED BY <2>1, <2>2
<1>5. /\ op' \in [Op -> LocalsOf(Nat, AnyContent)] /\ \A v \in Op : v # o => op'[v] = op[v]
      /\ op'[o] = Quiet /\ op'[o].kind = "none" /\ op'[o].pc = "idle"
  BY <1>1, EndIs, OverlapSorts DEF OverlapTypes
<1>6. OneUnlock' /\ Holds(o)'
  BY <1>5, QuietHolds DEF OneUnlock
<1>7. CASE IOFails /\ op[o].pc = "mkdir" /\ UNCHANGED storeFile
  <2>1. ~OfVersion1(sFile)
    BY <1>7 DEF FilesOpen
  <2>2. cache' \subseteq Patch /\ slots' \in Ref \cup {0} /\ minted' \in Nat
    BY <1>1 DEF OverlapTypes
  <2> QED BY <1>1, <1>4, <1>5, <1>6, <1>7, <2>1, <2>2, MemoryOnly
<1>8. CASE op[o].pc = "write" /\ Store!Throw(o)
  <2>1. /\ sPc[o] = "throw" /\ sPc' = [sPc EXCEPT ![o] = "idle"]
        /\ sArg' = [sArg EXCEPT ![o] = NoData] /\ UNCHANGED <<sFile, sTmp, sAt>>
    BY <1>8 DEF Store!Throw, Store!Goto
  <2> QED BY <1>1, <1>4, <1>5, <1>6, <2>1, WriteOverOpens
<1> QED BY <1>7, <1>8 DEF PersistRejects

\* Boot takes its keys from the file, and nothing is under way.
LEMMA RestartOpens ==
  ASSUME OverlapInv, Restart PROVE OverlapInv'
<1> USE DEF OverlapInv
<1>1. /\ op' = [o \in Op |-> Quiet] /\ UNCHANGED <<sFile, sTmp, minted>>
      /\ sAt' = [o \in Op |-> "closed"] /\ sPc' = [o \in Op |-> "idle"] /\ sArg' = [o \in Op |-> NoData]
      /\ \/ /\ KeyFits
            /\ dataKey' = Disk.key /\ cache' = Disk.cache /\ slots' = 1
            /\ heap' = [r \in Ref |-> IF r = 1 THEN Disk.slots ELSE NoSlots]
         \/ dataKey' = 0 /\ cache' = {} /\ slots' = 0 /\ heap' = [r \in Ref |-> NoSlots]
  BY DEF Restart, Store!Crash
<1>2. 1 \in Ref
  BY FinitenessAssumption, FS_CardinalityType DEF Ref
<1>3. KeyFits => /\ Disk \in AnyImage /\ Disk.v = 2 /\ Fit(Disk.slots, Disk.key)
  <2>1. KeyFits => Disk # NoData /\ Disk.v = 2
    BY DEF KeyFits, Store!Whole, Disk
  <2> QED BY <2>1 DEF Opens, FilesOpen, OverlapTypes, AnyContent, Disk
<1>4. KeyFits => Disk.slots \in SlotsOf(Nat) /\ Disk.key \in Nat /\ Disk.cache \subseteq Patch
  BY <1>3 DEF AnyImage
<1>5. \A o \in Op : op'[o] = Quiet /\ op'[o].kind = "none" /\ op'[o].pc = "idle"
  BY <1>1 DEF Quiet
<1>6. OverlapTypes'
  <2>1. heap' \in [Ref -> SlotsOf(Nat)] /\ dataKey' \in Nat /\ cache' \subseteq Patch /\ slots' \in Ref \cup {0}
    BY <1>1, <1>2, <1>4, OverlapSorts
  <2>2. op' \in [Op -> LocalsOf(Nat, AnyContent)]
    BY <1>1, OverlapSorts
  <2> QED BY <1>1, <2>1, <2>2 DEF OverlapTypes
<1>7. MemoryFits'
  BY <1>1, <1>2, <1>3, <1>4 DEF MemoryFits, Locked, Fit
<1>8. FilesOpen'
  <2>1. Keyed(sFile)' \/ Locked'
    BY <1>1 DEF Keyed, Locked, Disk
  <2>2. OfVersion1(sFile) => Locked'
    BY <1>1, <1>3 DEF Locked, OfVersion1, Disk
  <2> QED BY <1>1, <2>1, <2>2 DEF FilesOpen, Opens, OfVersion1, Fit
<1>9. OneUnlock' /\ \A o \in Op : Holds(o)'
  BY <1>5, QuietHolds DEF OneUnlock
<1>10. \A o \in Op : Writes(o)'
  BY <1>1, <1>5 DEF Writes
<1> QED BY <1>6, <1>7, <1>8, <1>9, <1>10

LEMMA StillOpens ==
  ASSUME OverlapInv, UNCHANGED vars PROVE OverlapInv'
<1>1. UNCHANGED <<dataKey, cache, slots, heap, minted, op, sFile, sTmp, sAt, sPc, sArg>>
  BY DEF vars, memory, storeFile
<1> USE DEF OverlapInv
<1>2. OverlapTypes' /\ MemoryFits' /\ OneUnlock'
  BY <1>1 DEF OverlapTypes, MemoryFits, Locked, OneUnlock
<1>3. FilesOpen'
  BY <1>1 DEF FilesOpen, Opens, OfVersion1, Keyed, Locked, Fit, Migrating
<1>4. \A o \in Op : Writes(o)' /\ Holds(o)'
  BY <1>1 DEF Writes, Holds, Locked, Opens, OfVersion1, Keyed, Fit
<1> QED BY <1>2, <1>3, <1>4

LEMMA OverlapStep == OverlapInv /\ [Next]_vars => OverlapInv'
<1> SUFFICES ASSUME OverlapInv, [Next]_vars PROVE OverlapInv'
  OBVIOUS
<1>1. ASSUME NEW o \in Op, Request(o) PROVE OverlapInv'
  <2>1. ASSUME NEW p \in Patch, Update(o, p) PROVE OverlapInv'
    BY <2>1, UpdateOpens
  <2> QED
    BY <1>1, <2>1, BeginReadOpens, ReadStoreOpens, InitializeOpens, AdoptOpens, MigrateOpens, RefuseOpens,
       EnableOpens, DisableOpens, SerialiseOpens, WriteStepOpens, PersistResolvesOpens, PersistRejectsOpens,
       KeyFileOpens DEF Request
<1> QED BY <1>1, RestartOpens, StillOpens DEF Next

LEMMA OverlapInit == Init /\ StoreThere => OverlapInv
<1> SUFFICES ASSUME Init, StoreThere PROVE OverlapInv
  OBVIOUS
<1>1. /\ dataKey = 0 /\ cache = {} /\ slots = 0 /\ heap = [r \in Ref |-> NoSlots]
      /\ op = [o \in Op |-> Quiet] /\ minted = 2 /\ sTmp = Store!Absent
      /\ sAt = [o \in Op |-> "closed"] /\ sPc = [o \in Op |-> "idle"] /\ sArg = [o \in Op |-> NoData]
  BY DEF Init
<1>2. PICK i \in {V1Image, V2Image(NoSlot), V2Image([kek |-> 2, key |-> 1])} : sFile = Installed(i)
  BY DEF Init, StoreThere, Store!Whole, Store!Absent
<1>3. i \in Image /\ i.v \in {1, 2} /\ (i.v = 2 => Fit(i.slots, i.key))
  BY InitImages
<1>4. i \in AnyImage
  <2>1. Key \subseteq Nat
    BY MaxBegunAssumption DEF Key
  <2>2. i.slots \in Slots /\ i.key \in Key /\ i.cache \in SUBSET Patch
    BY <1>3 DEF Image
  <2>3. i.slots \in SlotsOf(Nat)
    BY <2>1, <2>2 DEF Slots, UnlockSlot, SlotsOf
  <2> QED BY <1>3, <2>1, <2>2, <2>3 DEF Image, AnyImage
<1>5. sFile.data = i /\ sFile.size \in Nat /\ sFile \in AnyContent
  <2>1. ImageSize(i) \in Nat
    BY <1>4, AnySize
  <2> QED BY <1>2, <1>4, <2>1 DEF Installed, AnyContent
<1>6. OverlapTypes
  BY <1>1, <1>5, OverlapSorts DEF OverlapTypes
<1>7. FilesOpen
  BY <1>1, <1>3, <1>5 DEF FilesOpen, StoreThere, Opens, OfVersion1, Locked, Store!Absent, Disk
<1>8. \A o \in Op : op[o].pc = "idle" /\ op[o].kind = "none" /\ op[o] = Quiet
  BY <1>1 DEF Quiet
<1>9. MemoryFits /\ OneUnlock /\ \A o \in Op : Writes(o) /\ Holds(o)
  BY <1>1, <1>8 DEF MemoryFits, Locked, OneUnlock, Writes, Holds, SlotKinds
<1> QED BY <1>6, <1>7, <1>9 DEF OverlapInv, StoreThere

\* With any number of requests that overlap in any way: a complete file of a
\* store that is there always opens (property Openable).
THEOREM OpensWhateverOverlaps == Spec /\ StoreThere => []Openable
<1>1. Init /\ StoreThere => OverlapInv
  BY OverlapInit
<1>2. OverlapInv /\ [Next]_vars => OverlapInv'
  BY OverlapStep
<1>3. OverlapInv => Openable
  BY DEF OverlapInv, FilesOpen, Opens, Openable, Store!Whole, Fit, Disk
<1> QED BY <1>1, <1>2, <1>3, PTL DEF Spec

==============================================================================

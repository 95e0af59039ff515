-------------------------- MODULE AtomicFileProofs --------------------------
(***************************************************************************)
(* Theorems about AtomicFile, for every set of data and every length.      *)
(*                                                                         *)
(* The first holds for any number of concurrent callers.  The others are   *)
(* for calls that do not overlap (OneCaller), the only use the design is   *)
(* right for: with two callers TLC refutes NeverTruncated.                 *)
(***************************************************************************)
EXTENDS AtomicFile, TLAPS

OneCaller == \A v, w \in Writer : v = w

\* What a single caller keeps true between its system calls: the name holds a
\* synced complete file, and tmp is as far as the call has come with it.
Progress(w) ==
  /\ at[w] \in {"closed", "tmp"}
  /\ pc[w] = "write" => tmp = Empty
  /\ pc[w] \in {"sync", "rename"} => Whole(tmp) /\ tmp.data = arg[w]
  /\ pc[w] = "rename" => tmp.synced

IInv ==
  /\ TypeOK
  /\ file = Absent \/ (Whole(file) /\ file.synced)
  /\ \A c \in prior : c = Absent \/ Whole(c)
  /\ \A w \in Writer : Progress(w)

-----------------------------------------------------------------------------

LEMMA SizeNat == \A d \in Data : Size(d) \in Int /\ Size(d) > 0
BY SizeAssumption

LEMMA ContentTypes ==
  /\ Absent \in Content
  /\ Empty \in Content
  /\ \A c \in Content, d \in Data : Overwrite(c, d) \in Content
  /\ \A c \in Content : Spoil(c) \in Content /\ Synced(c) \in Content
  /\ \A c \in Content : Survivors(c) \subseteq Content
<1>1. Absent \in Content /\ Empty \in Content
  BY DEF Content, Absent, Empty
<1>2. ASSUME NEW c \in Content, NEW d \in Data PROVE Overwrite(c, d) \in Content
  BY SizeNat DEF Content, Overwrite
<1>3. ASSUME NEW c \in Content PROVE Spoil(c) \in Content /\ Synced(c) \in Content
  BY DEF Content, Spoil, Synced
<1> QED
  BY <1>1, <1>2, <1>3 DEF Survivors

LEMMA TypeStep == TypeOK /\ [Next]_vars => TypeOK'
<1> SUFFICES ASSUME TypeOK, [Next]_vars PROVE TypeOK'
  OBVIOUS
<1> USE NoDataAssumption, ContentTypes DEF TypeOK, Goto
<1>1. ASSUME NEW w \in Writer, NEW d \in Data, Call(w, d) PROVE TypeOK'
  BY <1>1 DEF Call
<1>2. ASSUME NEW w \in Writer, Step(w) PROVE TypeOK'
  <2>1. CASE Open(w)
    BY <2>1 DEF Open
  <2>2. CASE Write(w)
    BY <2>2 DEF Write, OnDescriptor
  <2>3. CASE Sync(w)
    BY <2>3 DEF Sync, OnDescriptor
  <2>4. CASE Rename(w)
    BY <2>4 DEF Rename, Relinked
  <2>5. CASE OpenFails(w)
    BY <2>5 DEF OpenFails
  <2>6. CASE WriteFails(w)
    BY <2>6 DEF WriteFails, OnDescriptor
  <2>7. CASE SyncFails(w)
    BY <2>7 DEF SyncFails
  <2>8. CASE RenameFails(w)
    BY <2>8 DEF RenameFails
  <2> QED
    BY <1>2, <2>1, <2>2, <2>3, <2>4, <2>5, <2>6, <2>7, <2>8 DEF Step
<1>3. ASSUME NEW w \in Writer, Finish(w) PROVE TypeOK'
  BY <1>3 DEF Finish, Return, Throw
<1>4. CASE Crash
  BY <1>4 DEF Crash
<1>5. CASE PowerLoss
  BY <1>5 DEF PowerLoss
<1>6. CASE UNCHANGED vars
  BY <1>6 DEF vars
<1> QED
  BY <1>1, <1>2, <1>3, <1>4, <1>5, <1>6 DEF Next

\* Every content, descriptor and program counter keeps its type, and a
\* descriptor is open exactly during the calls that use it, for any number of
\* concurrent calls of writeFileAtomic.
THEOREM TypeCorrect == Spec => []TypeOK
<1>1. Init => TypeOK
  BY ContentTypes, NoDataAssumption DEF Init, TypeOK
<1> QED
  BY <1>1, TypeStep, PTL DEF Spec

LEMMA WholeWritten == \A c, d : d \in Data /\ c = Empty => Whole(Overwrite(c, d)) /\ Overwrite(c, d).data = d
BY SizeNat, NoDataAssumption DEF Whole, Overwrite, Empty

LEMMA InvInit == Init => IInv
<1>1. Init => TypeOK
  BY ContentTypes, NoDataAssumption DEF Init, TypeOK
<1> QED
  BY <1>1 DEF Init, IInv, Progress

LEMMA InvStep == OneCaller /\ IInv /\ [Next]_vars => IInv'
<1> SUFFICES ASSUME OneCaller, IInv, [Next]_vars PROVE IInv'
  OBVIOUS
<1>t. TypeOK /\ TypeOK'
  BY TypeStep DEF IInv
<1> USE DEF OneCaller, Goto
<1>1. ASSUME NEW w \in Writer, NEW d \in Data, Call(w, d) PROVE IInv'
  BY <1>1, <1>t DEF Call, IInv, Progress, TypeOK
<1>2. ASSUME NEW w \in Writer, Step(w) PROVE IInv'
  <2>u. \A v \in Writer : v = w
    OBVIOUS
  <2>1. CASE Open(w)
    BY <2>1, <2>u, <1>t DEF Open, IInv, Progress, TypeOK
  <2>2. CASE Write(w)
    <3>1. at[w] = "tmp" /\ tmp = Empty /\ arg[w] \in Data
      BY <2>2, <1>t DEF Write, IInv, Progress, TypeOK
    <3>2. Whole(tmp') /\ tmp'.data = arg[w]
      BY <2>2, <3>1, WholeWritten DEF Write, OnDescriptor
    <3> QED
      BY <2>2, <2>u, <3>1, <3>2, <1>t DEF Write, OnDescriptor, IInv, Progress, TypeOK
  <2>3. CASE Sync(w)
    <3>1. at[w] = "tmp" /\ Whole(tmp) /\ tmp.data = arg[w]
      BY <2>3, <1>t DEF Sync, IInv, Progress, TypeOK
    <3>2. Whole(tmp') /\ tmp'.data = arg[w] /\ tmp'.synced
      BY <2>3, <3>1 DEF Sync, OnDescriptor, Synced, Whole
    <3> QED
      BY <2>3, <2>u, <3>1, <3>2, <1>t DEF Sync, OnDescriptor, IInv, Progress, TypeOK
  <2>4. CASE Rename(w)
    <3>1. Whole(file') /\ file'.synced /\ at[w] = "closed"
      BY <2>4, <1>t DEF Rename, IInv, Progress, TypeOK
    <3>2. \A c \in prior' : c = Absent \/ Whole(c)
      BY <2>4 DEF Rename, IInv, Survivors, Absent
    <3> QED
      BY <2>4, <2>u, <3>1, <3>2, <1>t DEF Rename, Relinked, IInv, Progress, TypeOK
  <2>5. CASE OpenFails(w)
    BY <2>5, <2>u, <1>t DEF OpenFails, IInv, Progress, TypeOK
  <2>6. CASE WriteFails(w)
    BY <2>6, <2>u, <1>t DEF WriteFails, OnDescriptor, IInv, Progress, TypeOK
  <2>7. CASE SyncFails(w)
    BY <2>7, <2>u, <1>t DEF SyncFails, IInv, Progress, TypeOK
  <2>8. CASE RenameFails(w)
    BY <2>8, <2>u, <1>t DEF RenameFails, IInv, Progress, TypeOK
  <2> QED
    BY <1>2, <2>1, <2>2, <2>3, <2>4, <2>5, <2>6, <2>7, <2>8 DEF Step
<1>3. ASSUME NEW w \in Writer, Finish(w) PROVE IInv'
  BY <1>3, <1>t DEF Finish, Return, Throw, IInv, Progress, TypeOK
<1>4. CASE Crash
  BY <1>4, <1>t DEF Crash, IInv, Progress, TypeOK
<1>5. CASE PowerLoss
  <2>1. file' = Absent \/ (Whole(file') /\ file'.synced)
    BY <1>5 DEF PowerLoss, IInv, Survivors, Synced, Whole, Absent
  <2> QED
    BY <1>5, <2>1, <1>t DEF PowerLoss, IInv, Progress, TypeOK
<1>6. CASE UNCHANGED vars
  BY <1>6, <1>t DEF vars, IInv, Progress
<1> QED
  BY <1>1, <1>2, <1>3, <1>4, <1>5, <1>6 DEF Next

\* What a step of a lone call does to the file: nothing before the rename, and
\* the rename installs the datum whole.
LEMMA StepEffect ==
  ASSUME OneCaller, IInv, NEW w \in Writer, Step(w)
  PROVE  /\ arg' = arg /\ pc[w] \notin {"idle", "syncDir", "throw"} /\ pc'[w] # "idle"
         /\ \/ pc'[w] = "syncDir" /\ Whole(file') /\ file'.data = arg[w]
            \/ pc'[w] # "syncDir" /\ file' = file
<1> USE DEF Goto, IInv, TypeOK, Progress, OnDescriptor
<1>1. CASE Open(w) \/ OpenFails(w) \/ SyncFails(w) \/ RenameFails(w)
  BY <1>1 DEF Open, OpenFails, SyncFails, RenameFails
<1>2. CASE Write(w) \/ Sync(w) \/ WriteFails(w)
  BY <1>2 DEF Write, Sync, WriteFails
<1>3. CASE Rename(w)
  BY <1>3 DEF Rename
<1> QED
  BY <1>1, <1>2, <1>3 DEF Step

\* Callers that take turns never expose a truncated file: not in the running
\* system, not after a crash of the process, not after a power loss.
THEOREM NeverTruncatedByOne ==
  ASSUME OneCaller
  PROVE  Spec => []NeverTruncated
<1>1. IInv => NeverTruncated
  BY DEF IInv, NeverTruncated, Survivors, Absent
<1>2. IInv /\ [Next]_vars => IInv'
  BY InvStep
<1> QED
  BY <1>1, <1>2, InvInit, PTL DEF Spec

-----------------------------------------------------------------------------
(* The step-by-step simulation of DurableFile.                             *)

LEMMA RefineInit == Init => Abstract!Init
BY DEF Init, Abstract!Init, Abstract!Quiet, AbstractCall, Absent

LEMMA RefineStep ==
  OneCaller /\ PowerFails /\ IInv /\ IInv' /\ [Next]_vars => [Abstract!Next]_Abstract!vars
<1> SUFFICES ASSUME OneCaller, PowerFails, IInv, IInv', [Next]_vars
             PROVE  [Abstract!Next]_Abstract!vars
  OBVIOUS
<1> USE DEF OneCaller, Goto, IInv, TypeOK, Progress, AbstractCall
<1>1. ASSUME NEW w \in Writer, NEW d \in Data, Call(w, d) PROVE Abstract!Begin(w, d)
  BY <1>1 DEF Call, Abstract!Begin, Abstract!Quiet
<1>2. ASSUME NEW w \in Writer, Rename(w) PROVE Abstract!Install(w)
  <2>1. prior' = prior \cup {file}
    BY <1>2 DEF Rename, Survivors, Absent
  <2> QED
    BY <1>2, <2>1 DEF Rename, Abstract!Install
<1>3. ASSUME NEW w \in Writer, Return(w) PROVE Abstract!Return(w)
  BY <1>3 DEF Return, Abstract!Return, Abstract!Quiet
<1>4. ASSUME NEW w \in Writer, Throw(w) PROVE Abstract!Reject(w)
  BY <1>4 DEF Throw, Abstract!Reject, Abstract!Quiet
<1>5. ASSUME Crash PROVE Abstract!Crash
  BY <1>5 DEF Crash, Abstract!Crash, Abstract!Quiet
<1>6. ASSUME PowerLoss PROVE Abstract!PowerLoss
  <2>1. \E c \in prior \cup {file} : file' = Synced(c)
    BY <1>6 DEF PowerLoss, Survivors, Absent
  <2>2. file'.data \in {file.data} \cup {c.data : c \in prior}
    BY <2>1 DEF Synced
  <2> QED
    BY <1>6, <2>2 DEF PowerLoss, Abstract!PowerLoss, Abstract!Quiet
<1>7. ASSUME NEW w \in Writer, Step(w), ~Rename(w) PROVE UNCHANGED Abstract!vars
  <2>1. file' = file /\ prior' = prior /\ arg' = arg
    BY <1>7 DEF Step, Open, Write, Sync, OpenFails, WriteFails, SyncFails, RenameFails, OnDescriptor
  <2>2. \A v \in Writer : AbstractCall(v)' = AbstractCall(v)
    BY <1>7 DEF Step, Open, Write, Sync, OpenFails, WriteFails, SyncFails, RenameFails
  <2> QED
    BY <2>1, <2>2 DEF Abstract!vars
<1>8. CASE UNCHANGED vars
  BY <1>8 DEF vars, Abstract!vars
<1> QED
  BY <1>1, <1>2, <1>3, <1>4, <1>5, <1>6, <1>7, <1>8 DEF Next, Finish, Abstract!Next

\* To a caller whose calls do not overlap with others, writeFileAtomic is the
\* atomic replacement of DurableFile: old or new, in one instant, all or none.
THEOREM OneCallerImplementsDurableFile ==
  ASSUME OneCaller, PowerFails
  PROVE  Spec => ImplementsDurableFile
<1>1. IInv /\ [Next]_vars => IInv'
  BY InvStep
<1>2. IInv /\ IInv' /\ [Next]_vars => [Abstract!Next]_Abstract!vars
  BY RefineStep
<1> QED
  BY <1>1, <1>2, InvInit, RefineInit, PTL DEF Spec, ImplementsDurableFile, Abstract!Spec

=============================================================================

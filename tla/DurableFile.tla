----------------------------- MODULE DurableFile ----------------------------
(***************************************************************************)
(* What src/src/lib/atomic-file.ts promises its callers, without its       *)
(* temporary file: a name holds one complete datum, a call replaces it in  *)
(* a single instant between its start and its end, a call that rejects     *)
(* changed nothing, and a power loss can at most undo replacements whose   *)
(* directory entry was not yet synced.  AtomicFile implements it when      *)
(* calls do not overlap.                                                   *)
(***************************************************************************)
CONSTANTS Writer, Data, NoData

VARIABLES
  content,   \* the datum under the name, NoData when there is no file
  fallback,  \* older data a power loss may bring back
  call       \* call[w]: phase and datum of w's call

vars == <<content, fallback, call>>

Quiet == [phase |-> "idle", data |-> NoData]

Init ==
  /\ content = NoData
  /\ fallback = {}
  /\ call = [w \in Writer |-> Quiet]

Begin(w, d) ==
  /\ call[w] = Quiet
  /\ call' = [call EXCEPT ![w] = [phase |-> "calling", data |-> d]]
  /\ UNCHANGED <<content, fallback>>

Install(w) ==
  /\ call[w].phase = "calling"
  /\ call' = [call EXCEPT ![w].phase = "installed"]
  /\ content' = call[w].data
  /\ fallback' = fallback \cup {content}

Return(w) ==
  /\ call[w].phase = "installed"
  /\ call' = [call EXCEPT ![w] = Quiet]
  /\ fallback' \in {{}, fallback}
  /\ UNCHANGED content

Reject(w) ==
  /\ call[w].phase = "calling"
  /\ call' = [call EXCEPT ![w] = Quiet]
  /\ UNCHANGED <<content, fallback>>

Crash ==
  /\ call' = [w \in Writer |-> Quiet]
  /\ UNCHANGED <<content, fallback>>

PowerLoss ==
  /\ content' \in {content} \cup fallback
  /\ fallback' = {}
  /\ call' = [w \in Writer |-> Quiet]

Next ==
  \/ \E w \in Writer : (\E d \in Data : Begin(w, d)) \/ Install(w) \/ Return(w) \/ Reject(w)
  \/ Crash
  \/ PowerLoss

Spec == Init /\ [][Next]_vars

=============================================================================

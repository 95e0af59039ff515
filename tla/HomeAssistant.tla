---------------------------- MODULE HomeAssistant ----------------------------
(***************************************************************************)
(* The Home Assistant connector: reads through an allow-list of paths, and  *)
(* services, which are not idempotent and whose outcome may be unknown.     *)
(***************************************************************************)
EXTENDS ToolCall, SequencesExt

CONSTANTS Paths,      \* sequences of path segments a caller may pass
          Bodies,     \* sequences of the sizes of the chunks of an answer
          MaxBytes    \* the cap on what is read of an answer

ASSUME HomeAssistantAssumption ==
  /\ MaxBytes \in Nat /\ \A b \in Bodies : b \in Seq(Nat)
  /\ \A p \in Paths : p \in Seq([name : STRING, encoded : Nat])

-----------------------------------------------------------------------------
(* Paths.  A segment is a name and how many times over it is percent-encoded;*)
(* an escape that cannot be decoded is a name of its own.                    *)

Seg(name, encoded) == [name |-> name, encoded |-> encoded]

canonicalizePath(path) ==
  LET out[i \in 0..Len(path)] ==
        IF i = 0 THEN <<>>
        ELSE IF path[i].name \in {"", "."} THEN out[i - 1]
        ELSE IF path[i].name = ".."
        THEN IF out[i - 1] = <<>> THEN <<>>
             ELSE SubSeq(out[i - 1], 1, Len(out[i - 1]) - 1)
        ELSE Append(out[i - 1], path[i].name)
  IN out[Len(path)]

HA_GET_ALLOW_PREFIXES == { <<"api", "states">> }

isAllowedReadPath(path) ==
  LET canon == canonicalizePath(path) IN
  /\ \A i \in DOMAIN canon : canon[i] # "%"
  /\ \/ canon = <<"api">>
     \/ \E prefix \in HA_GET_ALLOW_PREFIXES : IsPrefix(prefix, canon)

\* The endpoint the URL parser and the server make of a path: dot segments are
\* resolved when they are plain or encoded once, everything else is decoded
\* once, and what is still encoded or empty then matches no endpoint.
Served(path) ==
  LET dots(i) == path[i].name \in {".", ".."} /\ path[i].encoded <= 1
      out[i \in 0..Len(path)] ==
        IF i = 0 THEN <<>>
        ELSE IF dots(i)
        THEN IF path[i].name = "." \/ out[i - 1] = <<>> THEN out[i - 1]
             ELSE SubSeq(out[i - 1], 1, Len(out[i - 1]) - 1)
        ELSE Append(out[i - 1], IF path[i].encoded > 1 \/ path[i].name = "%"
                                THEN "unknown" ELSE path[i].name)
  IN out[Len(path)]

\* It reaches the endpoint under which automations are fired.
FiresAutomation(path) == IsPrefix(<<"api", "webhook">>, Served(path))

\* The allow-list and the server agree on what each ".." takes away: up to the last
\* of them no segment is empty and no dot segment is encoded more than once.
InStep(path) ==
  \A i, j \in DOMAIN path :
    j <= i /\ path[i].name = ".." =>
      path[j].name # "" /\ (path[j].name \in {".", ".."} => path[j].encoded <= 1)

-----------------------------------------------------------------------------
(* Answers are read up to a number of bytes.                                 *)

readBounded(chunks) ==
  LET seen[i \in 0..Len(chunks)] ==
        IF i = 0 THEN [total |-> 0, truncated |-> FALSE]
        ELSE LET b == seen[i - 1] IN
             IF b.truncated THEN b
             ELSE IF chunks[i] > MaxBytes - b.total
             THEN [total |-> MaxBytes, truncated |-> TRUE]
             ELSE [b EXCEPT !.total = @ + chunks[i]]
  IN seen[Len(chunks)]

-----------------------------------------------------------------------------
HAGetCalls == { [tool |-> "ha_get", path |-> p] : p \in Paths }

HAServiceCalls ==
  { [tool |-> "ha_call_service", identifier |-> i, returnResponse |-> r] :
      i \in BOOLEAN, r \in BOOLEAN }
  \cup { [tool |-> t] : t \in {"ha_backup", "ha_snapshot"} }

HAReadCalls == { [tool |-> t] : t \in {"ha_states", "ha_logbook"} }

HomeAssistantTools == { a.tool : a \in HAGetCalls \cup HAServiceCalls \cup HAReadCalls }

HomeAssistantCalls ==
  CASE remote.topic = "get" -> HAGetCalls
    [] remote.topic = "services" -> HAServiceCalls
    [] OTHER -> HAReadCalls

\* A read-tier GET of a path on the allow-list.
getRaw(c) ==
  /\ Does(c, "ha_get")
  /\ \/ IF isAllowedReadPath(args[c].path)
        THEN Change(c, "begin", remote,
                    IF FiresAutomation(args[c].path) THEN {"automation"} ELSE {},
                    None, "have")
        ELSE Reply(c, "begin", "refused")
     \/ Reply(c, "have", "ok")

\* An answer that is cut short, or is not a list, is never shown as an empty one.
statesOrLogbook(c) ==
  /\ Running(c) /\ args[c].tool \in {"ha_states", "ha_logbook"}
  /\ \/ \E chunks \in Bodies, list \in BOOLEAN :
          Learn(c, "begin", [chunks |-> chunks, list |-> list,
                             read |-> readBounded(chunks)], "have")
     \/ /\ at[c] = "have"
        /\ Reply(c, "have", IF got[c].read.truncated \/ ~got[c].list
                            THEN "error" ELSE "ok")

\* A service is called; what answers may be something in front of Home
\* Assistant, and only the shape of the answer tells.
callService(c) ==
  /\ Running(c)
  /\ args[c].tool \in {"ha_call_service", "ha_backup", "ha_snapshot"}
  /\ \/ /\ at[c] = "begin"
        /\ args[c].tool = "ha_call_service" /\ ~args[c].identifier
        /\ Reply(c, "begin", "refused")
     \/ /\ at[c] = "begin"
        /\ args[c].tool = "ha_call_service" => args[c].identifier
        /\ \/ Change(c, "begin", [remote EXCEPT !.applied = TRUE], {"service"},
                     None, "served")
           \/ Move(c, "begin", "elsewhere")

CleanAnswer == {"states"}

\* `states` stands for the documented shape: the list of changed states, or
\* with return_response that list and the response.
serviceAnswered(c) ==
  /\ Running(c)
  /\ args[c].tool \in {"ha_call_service", "ha_backup"}
  /\ \/ \E body \in {"states", "too large", "unexpected"} :
          Reply(c, "served", IF body \in CleanAnswer THEN "ok" ELSE "unknown")
     \/ \E body \in {"too large", "unexpected"} :
          Reply(c, "elsewhere", IF body \in CleanAnswer THEN "ok" ELSE "unknown")

\* The abort after REQUEST_TIMEOUT_MS of a request that is not a GET.
homeAssistantTimesOut(c) ==
  /\ Running(c)
  /\ args[c].tool \in {"ha_call_service", "ha_backup"}
  /\ args[c].tool = "ha_call_service" => args[c].identifier
  /\ Reply(c, at[c], "unknown")

\* Both artifacts of a snapshot are best effort: the trigger's result, whatever
\* it was, and the configuration.
haSnapshot(c) ==
  /\ Does(c, "ha_snapshot")
  /\ \E here \in {"served", "elsewhere"}, config \in SUBSET {"config.json"} :
       Learn(c, here, {"backup-status.txt"} \cup config, "put")

haSnapshotDone(c) == Does(c, "ha_snapshot") /\ Reply(c, "put", "ok")

HomeAssistantStep(c) ==
  \/ Alone(c) /\ Begin(c, HomeAssistantCalls)
  \/ getRaw(c)
  \/ statesOrLogbook(c)
  \/ callService(c)
  \/ serviceAnswered(c)
  \/ homeAssistantTimesOut(c)
  \/ haSnapshot(c)
  \/ haSnapshotDone(c)
  \/ Breaks(c, HomeAssistantTools)

HomeAssistantInit ==
  \E topic \in {"get", "services", "reads"} :
    remote = [system |-> "home-assistant", topic |-> topic, applied |-> FALSE]
=============================================================================

------------------------------ MODULE Portainer ------------------------------
(***************************************************************************)
(* The Portainer connector: stacks with their compose file and environment, *)
(* containers, commands run inside one, and the output of its log stream.   *)
(***************************************************************************)
EXTENDS ToolCall, Integers, TLC

CONSTANTS StackIds,     \* ids Portainer may give to stacks
          StackNames,
          LogStreams    \* what the log endpoint may send

PlainEnvs == { [debug |-> "plain"] }
SecretEnvs == { <<>>, [password |-> "vault"] }

-----------------------------------------------------------------------------
(* The log stream: without a terminal each chunk is preceded by a header     *)
(* that says how long it is.  A stream is a sequence whose items are a       *)
(* header (its size) or a byte of output: one that is a character by itself, *)
(* or the first or the second byte of a character that takes two.            *)

Headers == Nat
Byte == -1
Lead == -2
Trail == -3
Bad == -4     \* what is shown of a byte that belongs to no whole character
StreamItems == Headers \cup {Byte, Lead, Trail, Bad}

ASSUME PortainerAssumption == \A s \in LogStreams : s \in Seq(StreamItems)

Whole(bytes, i) ==
  /\ bytes[i] = Lead => i + 1 \in DOMAIN bytes /\ bytes[i + 1] = Trail
  /\ bytes[i] = Trail => i - 1 \in DOMAIN bytes /\ bytes[i - 1] = Lead

\* Bytes read as text: half a character is replaced.
toString(bytes) == [i \in DOMAIN bytes |-> IF Whole(bytes, i) THEN bytes[i] ELSE Bad]

\* Each frame, without its header, as text by itself; or the stream as it is when
\* it is not made of whole frames.
demuxDockerLogs(buf) ==
  LET n == Len(buf)
      rest[i \in 1..(n + 1)] ==
        IF i = n + 1 THEN <<>>
        ELSE IF buf[i] \notin Headers \/ i + buf[i] > n THEN None
        ELSE LET tail == rest[i + 1 + buf[i]]
             IN IF tail = None THEN None
                ELSE toString(SubSeq(buf, i + 1, i + buf[i])) \o tail
  IN IF rest[1] = None THEN toString(buf) ELSE rest[1]

-----------------------------------------------------------------------------
(* The calls the tool schemas accept.                                        *)

StackCalls ==
  { [tool |-> "create_stack", name |-> n, env |-> e, secret |-> s] :
      n \in StackNames, e \in PlainEnvs, s \in SecretEnvs }
  \cup
  { [tool |-> "update_stack", id |-> i, marked |-> m, env |-> e, secret |-> s] :
      i \in StackIds, m \in BOOLEAN, e \in PlainEnvs, s \in SecretEnvs }
  \cup
  { [tool |-> "remove_stack", id |-> i, name |-> n] :
      i \in StackIds, n \in StackNames }

ContainerCalls ==
  { [tool |-> t] : t \in {"start_container", "stop_container",
                          "restart_container"} }
  \cup { [tool |-> "exec_container", command |-> k] :
           k \in {"plain", "destructive"} }

PortainerReadCalls ==
  { [tool |-> t] : t \in {"list_endpoints", "list_containers", "list_stacks",
       "get_stack_file", "container_inspect", "portainer_snapshot"} }

LogCalls == { [tool |-> "container_logs"] }

PortainerCalls ==
  CASE remote.topic = "stacks" -> StackCalls
    [] remote.topic = "containers" -> ContainerCalls \cup PortainerReadCalls
    [] OTHER -> LogCalls

PortainerTools == { a.tool : a \in StackCalls \cup ContainerCalls
                                    \cup PortainerReadCalls \cup LogCalls }

-----------------------------------------------------------------------------
(* The handlers.                                                             *)

\* A call first resolves the environment of the container host: the option,
\* else one that is up and runs Docker, else one that is up, else the first.
endpointId(endpoints) ==
  LET up == { e \in endpoints : e.up }
      docker == { e \in up : e.docker }
  IN IF docker # {} THEN docker ELSE IF up # {} THEN up ELSE endpoints

\* Later lists win.
mergeEnv(first, second, third) == Patched(third, Patched(second, first))

StacksThere == { s \in StackIds : remote.stacks[s] # None }

\* Without its marker the file of a stack is written by a human.  Portainer
\* numbers its stacks and gives no number twice.
createStack(c) ==
  LET a == args[c]
      stack == [name |-> a.name, marked |-> TRUE, made |-> TRUE,
                env |-> mergeEnv(<<>>, a.env, a.secret)]
  IN /\ Does(c, "create_stack")
     /\ \/ Learn(c, "begin", endpointId(remote.endpoints), "have")
        \/ /\ at[c] = "have"
           /\ got[c] # {}
           /\ \A s \in StacksThere : remote.stacks[s].name # a.name
           /\ \E s \in remote.unused :
                Change(c, "have",
                       [remote EXCEPT !.stacks[s] = stack, !.unused = @ \ {s}],
                       {"stack"}, None, "put")
        \/ Reply(c, "put", "ok")

\* The file is what the caller passed; the environment is carried forward.
updateStack(c) ==
  LET a == args[c] IN
  /\ Does(c, "update_stack")
  /\ \/ /\ a.id \in StacksThere
        /\ Learn(c, "begin", remote.stacks[a.id], "have")
     \/ LET merged == mergeEnv(got[c].env, a.env, a.secret) IN
        /\ at[c] = "have"
        /\ a.id \in StacksThere
        /\ Change(c, "have",
                  [remote EXCEPT !.stacks[a.id].marked = a.marked,
                                 !.stacks[a.id].env = merged],
                  {"stack"}, merged, "put")
     \/ Reply(c, "put", "ok")

SameStack(stack, expectedName) == stack.name = expectedName

removeStack(c) ==
  LET a == args[c] IN
  /\ Does(c, "remove_stack")
  /\ a.id \in StacksThere \/ at[c] = "put"
  /\ \/ Learn(c, "begin", remote.stacks[a.id], "have")
     \/ /\ at[c] = "have"
        /\ IF SameStack(got[c], a.name)
           THEN Learn(c, "have",
                      [got[c] EXCEPT !.marked = remote.stacks[a.id].marked], "file")
           ELSE Reply(c, "have", "refused")
     \/ /\ at[c] = "file"
        /\ IF got[c].marked
           THEN Change(c, "file", [remote EXCEPT !.stacks[a.id] = None],
                       {"stack"}, None, "put")
           ELSE Reply(c, "file", "refused")
     \/ Reply(c, "put", "ok")

\* Asking for the state a container is in already is an answer like any other.
containerAction(c) ==
  LET state == IF args[c].tool = "stop_container" THEN "exited" ELSE "running"
  IN /\ Running(c)
     /\ args[c].tool \in {"start_container", "stop_container",
                          "restart_container"}
     /\ \/ Learn(c, "begin", endpointId(remote.endpoints), "have")
        \/ Change(c, "have", [remote EXCEPT !.container = state],
                  {"container"}, None, "put")
        \/ Reply(c, "put", "ok")

\* An exec is created, then started; a command the policy refuses is neither.
exec(c) ==
  /\ Does(c, "exec_container")
  /\ \/ IF args[c].command = "destructive" THEN Reply(c, "begin", "refused")
        ELSE Learn(c, "begin", endpointId(remote.endpoints), "have")
     \/ Learn(c, "have", "exec id", "created")
     \/ Change(c, "created", [remote EXCEPT !.ran = TRUE], {"command"}, None, "put")
     \/ Reply(c, "put", "ok")

\* Environment variables are shown by name, never by value.
redactEnv(env) == DOMAIN env

portainerReads(c) ==
  /\ Running(c)
  /\ args[c].tool \in {a.tool : a \in PortainerReadCalls} \ {"portainer_snapshot"}
  /\ \/ Learn(c, "begin", [s \in StacksThere |-> redactEnv(remote.stacks[s].env)],
              "have")
     \/ Reply(c, "have", "ok")

containerLogs(c) ==
  /\ Does(c, "container_logs")
  /\ \/ \E stream \in LogStreams :
          Learn(c, "begin", [stream |-> stream, shown |-> demuxDockerLogs(stream)],
                "have")
     \/ Reply(c, "have", "ok")

\* A stack whose file, or a container whose details, cannot be read is left out.
portainerSnapshot(c) ==
  /\ Does(c, "portainer_snapshot")
  /\ \/ Learn(c, "begin", {"endpoints", "stacks"}, "have")
     \/ \E files \in SUBSET StacksThere :
          Learn(c, "have", got[c] \cup files, "files")
     \/ \E inspects \in SUBSET {"container"} :
          Learn(c, "files", got[c] \cup {"containers"} \cup inspects, "put")
     \/ Reply(c, "put", "ok")

portainerEdit ==
  /\ remote.topic = "stacks"
  /\ \E s \in StacksThere :
       \/ Edit([remote EXCEPT !.stacks[s].env = Patched([port |-> "edited"], @)])
       \/ Edit([remote EXCEPT !.stacks[s] = None])

PortainerStep(c) ==
  \/ (remote.topic = "logs" => Alone(c)) /\ Begin(c, PortainerCalls)
  \/ createStack(c)
  \/ updateStack(c)
  \/ removeStack(c)
  \/ containerAction(c)
  \/ exec(c)
  \/ portainerReads(c)
  \/ containerLogs(c)
  \/ portainerSnapshot(c)
  \/ Breaks(c, PortainerTools)

\* One stack written by a human, with a variable that is kept outside the
\* calls' arguments.
PortainerInit ==
  \E topic \in {"stacks", "containers", "logs"}, human \in StackIds, n \in StackNames :
    /\ topic # "stacks" =>
         <<human, n>> = CHOOSE any \in StackIds \X StackNames : TRUE
    /\ remote =
             [system |-> "portainer", topic |-> topic,
              endpoints |-> { [up |-> TRUE, docker |-> TRUE],
                              [up |-> FALSE, docker |-> TRUE] },
              container |-> "running", ran |-> FALSE,
              unused |-> StackIds \ {human},
              stacks |-> [s \in StackIds |->
                IF s = human
                THEN [name |-> n, marked |-> FALSE, made |-> FALSE,
                      env |-> [port |-> "first"]]
                ELSE None]]
=============================================================================

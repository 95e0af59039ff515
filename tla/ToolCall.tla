------------------------------ MODULE ToolCall ------------------------------
(***************************************************************************)
(* What every tool call of a connector has in common.  A handler is an      *)
(* asynchronous function: it waits for one answer after another from the    *)
(* system its target names (a UniFi controller, a Portainer, a game panel)  *)
(* and is interleaved, at every await, with other calls and with people     *)
(* working in that system's own interface.  One action is one request as    *)
(* the other system serves it, followed by the code up to the next await.   *)
(*                                                                         *)
(* The connector modules extend this one.  They name the state of the other *)
(* system, the calls a tool's schema admits and one action for each         *)
(* handler, and are put together by module Connectors.                      *)
(***************************************************************************)
EXTENDS Naturals, Sequences, FiniteSets

CONSTANTS Calls,      \* the tool calls that may be in flight
          MaxEdits,   \* bound on the edits other people make meanwhile
          None        \* no value

VARIABLES remote,     \* the state of the other system, a record
          args,       \* [Calls -> the tool and its validated arguments]
          at,         \* [Calls -> where the handler waits]
          got,        \* [Calls -> what the handler last read and relies on]
          sent,       \* [Calls -> the whole record it wrote back last]
          answer,     \* [Calls -> what the caller was told]
          touched,    \* [Calls -> the lasting effects it had, a history set]
          edits       \* how many edits others have made

callVars == <<remote, args, at, got, sent, answer, touched, edits>>

(***************************************************************************)
(* What the text of a result says: it worked; the handler declined before   *)
(* it wrote; something failed; the handler does not know whether its write  *)
(* took effect; part of it worked and the text names which.                 *)
(***************************************************************************)
Answers == {"ok", "refused", "error", "unknown", "partial", "nothing to do"}

\* No value is not an answer.
ASSUME CallAssumption == None \notin Answers

CallInit ==
  /\ args = [c \in Calls |-> None]
  /\ at = [c \in Calls |-> "idle"]
  /\ got = [c \in Calls |-> None]
  /\ sent = [c \in Calls |-> None]
  /\ answer = [c \in Calls |-> None]
  /\ touched = [c \in Calls |-> {}]
  /\ edits = 0

Running(c) == at[c] \notin {"idle", "done"}
Does(c, tool) == Running(c) /\ args[c].tool = tool

Now(f, c, v) == [f EXCEPT ![c] = v]

\* A document with the fields of `change` set and the others as they are: TLC's
\* change @@ doc, spelt out because the provers know nothing of @@.
Patched(change, doc) ==
  [f \in DOMAIN change \cup DOMAIN doc |->
     IF f \in DOMAIN change THEN change[f] ELSE doc[f]]

\* A call that shares no state with the others is looked at on its own.
Alone(c) == \A d \in Calls \ {c} : at[d] = "idle"

\* A call arrives with arguments its schema accepts.
Begin(c, accepted) ==
  /\ at[c] = "idle"
  /\ \E a \in accepted : args' = Now(args, c, a)
  /\ at' = Now(at, c, "begin")
  /\ UNCHANGED <<remote, got, sent, answer, touched, edits>>

\* The handler, waiting at `here`, is given `value` and waits at `there`.
Learn(c, here, value, there) ==
  /\ at[c] = here
  /\ got' = Now(got, c, value)
  /\ at' = Now(at, c, there)
  /\ UNCHANGED <<remote, args, sent, answer, touched, edits>>

\* The handler, waiting at `here`, changes the other system to `new`, an
\* effect called `effect`, sending the whole record `body` when it has one.
Change(c, here, new, effect, body, there) ==
  /\ at[c] = here
  /\ remote' = new
  /\ sent' = Now(sent, c, body)
  /\ touched' = Now(touched, c, touched[c] \cup effect)
  /\ at' = Now(at, c, there)
  /\ UNCHANGED <<args, got, answer, edits>>

\* The handler, waiting at `here`, returns.
Reply(c, here, said) ==
  /\ at[c] = here
  /\ answer' = Now(answer, c, said)
  /\ at' = Now(at, c, "done")
  /\ UNCHANGED <<remote, args, got, sent, touched, edits>>

\* Nothing but the place the handler waits at changes.
Move(c, here, there) ==
  /\ at[c] = here
  /\ at' = Now(at, c, there)
  /\ UNCHANGED <<remote, args, got, sent, answer, touched, edits>>

\* The answer the handler waits for is an error, or never comes: the handlers
\* of `tools` let it propagate, and the result carries its message.  At a step
\* after a write the write has already happened.
Breaks(c, tools) ==
  /\ Running(c)
  /\ args[c].tool \in tools
  /\ Reply(c, at[c], "error")

\* Somebody edits the other system through its own interface.
Edit(new) ==
  /\ edits < MaxEdits
  /\ new # remote
  /\ remote' = new
  /\ edits' = edits + 1
  /\ UNCHANGED <<args, at, got, sent, answer, touched>>
=============================================================================

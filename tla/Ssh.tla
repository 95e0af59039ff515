---------------------------------- MODULE Ssh ----------------------------------
(***************************************************************************)
(* The SSH connector: the policy a shell line is held against before it is  *)
(* sent, and the tools that send one.  A line is a sequence of tokens set   *)
(* apart by blanks, save that a backslash touches what follows it.          *)
(***************************************************************************)
EXTENDS ToolCall, TLC

CONSTANTS CommandLines   \* the lines a caller may pass

ASSUME SshAssumption == \A line \in CommandLines : line \in Seq(STRING)

\* Programs by what they do: "look" only reads and is on the read-only list,
\* "edit" is not, "wipe" is one of the destructive ones and "wi\\pe" the same with a
\* part of its name escaped or quoted; "-w" makes "look" write.
Programs == {"look", "edit", "wipe", "wi\\pe"}

Separators == {";", "|", "&&"}

-----------------------------------------------------------------------------
(* The policy.                                                               *)

\* What is refused outright when it stands outside single quotes, and what is
\* refused outside any quotes.  ">null" is the redirection to /dev/null.
Substitutions == {"$(", "backtick"}
Unvetted == {"&", ">", "<", "(", ")"}

\* The split so far: the commands found, the one being read, the open quote,
\* whether the next token is escaped, and whether the line was refused.
SplitStep(s, t) ==
  LET kept == [s EXCEPT !.cur = Append(@, t)]
      pushed == [s EXCEPT !.segments = IF s.cur = <<>> THEN @ ELSE Append(@, s.cur),
                          !.cur = <<>>]
      no == [s EXCEPT !.refused = TRUE]
  IN IF s.refused THEN s
     ELSE IF s.quote = "'" THEN [kept EXCEPT !.quote = IF t = "'" THEN "none" ELSE @]
     ELSE IF s.escaped THEN [kept EXCEPT !.escaped = FALSE]
     ELSE IF t = "\\" THEN [kept EXCEPT !.escaped = TRUE]
     ELSE IF t \in Substitutions THEN no
     ELSE IF s.quote = "\"" THEN [kept EXCEPT !.quote = IF t = "\"" THEN "none" ELSE @]
     ELSE IF t \in {"'", "\""} THEN [kept EXCEPT !.quote = t]
     ELSE IF t \in Separators THEN pushed
     ELSE IF t \in Unvetted THEN no
     ELSE kept

\* The simple commands of a line, None when it cannot be vetted.
splitCompound(line) ==
  LET read[i \in 0..Len(line)] ==
        IF i = 0 THEN [segments |-> <<>>, cur |-> <<>>, quote |-> "none",
                       escaped |-> FALSE, refused |-> FALSE]
        ELSE SplitStep(read[i - 1], line[i])
      last == read[Len(line)]
  IN IF last.refused \/ last.quote # "none" THEN None
     ELSE IF last.cur = <<>> THEN last.segments ELSE Append(last.segments, last.cur)

Mentions(line, t) == \E i \in DOMAIN line : line[i] = t

Allowed(segment) == segment[1] = "look"

\* The patterns for options are held against the raw text of a command: one with a
\* backslash to it, which stands for every option that is quoted or escaped in
\* whole or in part, is not one they know.
SegmentDenied(segment) ==
  \E i \in DOMAIN segment : segment[i] = "-w" /\ (i = 1 \/ segment[i - 1] # "\\")

\* An option that is written so, and a destructive program that is.
EscapedOption(line) ==
  \E i \in DOMAIN line : line[i] = "-w" /\ i # 1 /\ line[i - 1] = "\\"
EscapedProgram(line) == Mentions(line, "wi\\pe")

\* Mutant: only the first command of a line is held against the list.
FirstOnly(line, allowlist) ==
  /\ line # <<>> /\ ~Mentions(line, "wipe")
  /\ allowlist => /\ splitCompound(line) # None
                  /\ splitCompound(line) # <<>>
                  /\ Allowed(splitCompound(line)[1])
                  /\ ~SegmentDenied(splitCompound(line)[1])

\* The deny patterns are looked for anywhere in the line, the list is asked of
\* every command of it.
checkCommand(line, allowlist) ==
  /\ line # <<>> /\ ~Mentions(line, "wipe")
  /\ allowlist => /\ splitCompound(line) # None
                  /\ \A i \in DOMAIN splitCompound(line) :
                       /\ Allowed(splitCompound(line)[i])
                       /\ ~SegmentDenied(splitCompound(line)[i])

checkReadonly(line) == checkCommand(line, TRUE)

\* `sudo -n` is put before the first command when its program is one that must
\* run as root; the rest of a pipeline is not.
wrapCommand(line, sudoPrefixes) ==
  IF line[1] \in sudoPrefixes THEN <<"sudo">> \o line ELSE line

\* A private key, recognised by its shape wherever it is kept, else a password.
resolveSshAuth(cred) ==
  IF cred.key THEN "key" ELSE IF cred.password THEN "password" ELSE None

-----------------------------------------------------------------------------
(* What a shell does with a line.                                            *)

\* The quote open before each token, and whether the token is escaped.
Lexed(line) ==
  LET before[i \in 1..Len(line)] ==
        IF i = 1 THEN [quote |-> "none", escaped |-> FALSE]
        ELSE LET b == before[i - 1]
                 t == line[i - 1]
             IN IF b.escaped \/ (t = "\\" /\ b.quote # "'")
                THEN [b EXCEPT !.escaped = ~b.escaped]
                ELSE IF b.quote = "none" /\ t \in {"'", "\""} THEN [b EXCEPT !.quote = t]
                ELSE IF b.quote = t THEN [b EXCEPT !.quote = "none"] ELSE b
  IN before

\* The tokens that stand for themselves in the grammar of the shell.
Bare(line) == { i \in DOMAIN line : /\ Lexed(line)[i].quote = "none"
                                    /\ ~Lexed(line)[i].escaped }

\* Where a command begins.
Begins(line) ==
  { i \in DOMAIN line :
      \/ i = 1
      \/ i - 1 \in Bare(line) /\ line[i - 1] \in Separators \cup {"(", "&"}
      \/ /\ line[i - 1] \in Substitutions
         /\ Lexed(line)[i - 1].quote # "'" /\ ~Lexed(line)[i - 1].escaped }

\* A program is started by the first word of a command, also when that is escaped.
Starts(line) ==
  { i \in DOMAIN line :
      /\ line[i] \in Programs
      /\ i \in Begins(line) \/ (i - 1 \in Begins(line) /\ line[i - 1] = "\\") }

\* A token is a word of its own, once the backslash is gone that escapes it, when
\* no other touches it.
IsWord(line, i) ==
  LET first == IF Lexed(line)[i].escaped THEN i - 1 ELSE i
  IN Lexed(line)[i].quote = "none" /\ (first = 1 \/ line[first - 1] # "\\")

\* Nothing is started that could write, and nothing is redirected to a file.
OnlyReads(line) ==
  /\ \A i \in Starts(line) : line[i] = "look"
  /\ \A i \in DOMAIN line : line[i] = "-w" => ~IsWord(line, i)
  /\ \A i \in Bare(line) : line[i] # ">"

Destroys(line) == \E i \in Starts(line) : line[i] \in {"wipe", "wi\\pe"}

-----------------------------------------------------------------------------
SshCalls ==
  { [tool |-> t] : t \in {"run_readonly", "run_command", "restart_service",
       "tail_log", "journalctl", "service_status", "disk_usage", "grep_logs",
       "ssh_snapshot"} }

SshTools == { a.tool : a \in SshCalls }

\* The line a call sends: the caller's, or a fixed one with quoted arguments.
LineOf(tool) ==
  CASE tool \in {"run_readonly", "run_command", "ssh_snapshot"} -> remote.line
    [] tool = "restart_service" -> <<"edit">>
    [] OTHER -> <<"look">>

policyFor(tool) ==
  CASE tool = "run_readonly" -> checkReadonly(remote.line)
    [] tool \in {"run_command", "ssh_snapshot"} ->
         checkCommand(remote.line, remote.allowlist)
    [] OTHER -> TRUE

\* One connection for one command: it may be refused, and the timeout, which
\* covers the connection and the command, ends the connection only.
runSsh(c, here, there) ==
  /\ resolveSshAuth(remote.cred) # None
  /\ Change(c, here, [remote EXCEPT !.ran = @ \cup {wrapCommand(LineOf(args[c].tool),
                                                              remote.sudo)}],
            IF OnlyReads(LineOf(args[c].tool)) THEN {}
            ELSE {IF Destroys(LineOf(args[c].tool)) THEN "destroyed" ELSE "wrote"},
            None, there)

execSsh(c) ==
  /\ Running(c) /\ args[c].tool \in SshTools \ {"ssh_snapshot"}
  /\ \/ ~policyFor(args[c].tool) /\ Reply(c, "begin", "refused")
     \/ policyFor(args[c].tool) /\ runSsh(c, "begin", "sent")
     \/ \E code \in {0, 1} : Reply(c, "sent", IF code = 0 THEN "ok" ELSE "error")

\* A custom command is held against the policy and its refusal is recorded in
\* its place; what fails is left out, and so is a Pi-hole backup.
sshSnapshot(c) ==
  /\ Does(c, "ssh_snapshot")
  /\ \/ ~policyFor("ssh_snapshot") /\ Learn(c, "begin", {"refusal"}, "pihole")
     \/ policyFor("ssh_snapshot") /\ runSsh(c, "begin", "sent")
     \/ \E body \in SUBSET {"cmd-1.txt"} : Learn(c, "sent", body, "pihole")
     \/ \E backup \in SUBSET {"teleporter"} :
          Learn(c, "pihole", got[c] \cup backup, "put")
     \/ Reply(c, "put", "ok")

SshStep(c) ==
  \/ Alone(c) /\ Begin(c, SshCalls)
  \/ execSsh(c)
  \/ sshSnapshot(c)
  \/ Breaks(c, SshTools)

SshInit ==
  \E line \in CommandLines, allowlist \in BOOLEAN, key \in BOOLEAN :
    /\ key \/ line = <<"look">>
    /\ remote = [system |-> "ssh", line |-> line, allowlist |-> allowlist,
                 cred |-> [key |-> key, password |-> ~key], sudo |-> {"look"},
                 ran |-> {}]
=============================================================================

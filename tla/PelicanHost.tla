----------------------------- MODULE PelicanHost -----------------------------
(***************************************************************************)
(* The Pelican connector's tools for the host the panel runs on: the        *)
(* upgrade of the panel, its PHP runtime and its daemon Wings.  Each sends  *)
(* one command to a root helper on that host, over SSH; the helper is a     *)
(* process of its own, and an upgrade goes on when the session is lost.     *)
(* `bak` is the copy it keeps of the site's configuration when it switches  *)
(* the socket, one for all runs.                                            *)
(***************************************************************************)
EXTENDS ToolCall, SequencesExt, TLC

CONSTANT InitialHosts

Idle == [job |-> None, n |-> 0, state |-> "idle"]

\* No helper is at work when the calls begin.
ASSUME HostAssumption ==
  \A k \in InitialHosts : /\ {"system", "run"} \subseteq DOMAIN k /\ k.system = "host"
                          /\ k.run = [c \in Calls |-> Idle]

Releases == {1, 2}          \* of the panel: the installed one and the latest
PhpMinors == {3, 4}         \* PHP 8.3 and 8.4
PhpPatches == 0..2          \* of a minor; 2 is the newest

-----------------------------------------------------------------------------
(* A PHP version is <<major, minor, patch>>; a requirement is a set of        *)
(* alternatives, an alternative a set of tokens [op, v] with one to three     *)
(* numbers in v.                                                              *)

cmpTriple(a, b) ==
  LET d == { i \in 1..3 : a[i] # b[i] }
  IN IF d = {} THEN 0
     ELSE LET i == CHOOSE j \in d : \A k \in d : j <= k
          IN IF a[i] < b[i] THEN -1 ELSE 1

Part(v, i) == IF i <= Len(v) THEN v[i] ELSE 0
parseVersionParts(v) == <<Part(v, 1), Part(v, 2), Part(v, 3)>>

bump(v, part) == IF part = 1 THEN <<v[1] + 1, 0, 0>> ELSE <<v[1], v[2] + 1, 0>>

Bound(v, inclusive) == [v |-> v, inclusive |-> inclusive]

Within(v, part) == [lo |-> Bound(v, TRUE), hi |-> Bound(bump(v, part), FALSE)]

\* Mutant: a tilde with three numbers goes up to the next major.
TildeMajor(token) ==
  LET v == parseVersionParts(token.v)
  IN CASE token.op \in {"^", "~"} -> Within(v, 1)
       [] token.op = ">=" -> [lo |-> Bound(v, TRUE), hi |-> None]
       [] token.op = "<" -> [lo |-> None, hi |-> Bound(v, FALSE)]
       [] token.op = "*" -> Within(v, Len(token.v))
       [] OTHER -> None

\* The range of a token, None when it is not understood.  A bare version with
\* fewer than three numbers means the same as with a wildcard, and so does the
\* upper end of a hyphen range.
parseConstraintToken(token) ==
  LET v == parseVersionParts(token.v)
      n == Len(token.v)
  IN CASE token.op = "^" -> Within(v, IF v[1] > 0 THEN 1 ELSE 2)
       [] token.op = "~" -> Within(v, IF n = 3 THEN 2 ELSE 1)
       [] token.op = "*" /\ n < 3 -> Within(v, n)
       [] token.op = "any" -> [lo |-> None, hi |-> None]
       [] token.op = ">=" -> [lo |-> Bound(v, TRUE), hi |-> None]
       [] token.op = ">" -> [lo |-> Bound(v, FALSE), hi |-> None]
       [] token.op = "<" -> [lo |-> None, hi |-> Bound(v, FALSE)]
       [] token.op = "upto" /\ n < 3 -> [lo |-> None, hi |-> Bound(bump(v, n), FALSE)]
       [] token.op = "<=" \/ (token.op = "upto" /\ n = 3) ->
            [lo |-> None, hi |-> Bound(v, TRUE)]
       [] token.op = "bare" /\ n < 3 -> Within(v, n)
       [] token.op = "=" \/ (token.op = "bare" /\ n = 3) ->
            [lo |-> Bound(v, TRUE), hi |-> Bound(v, TRUE)]
       [] OTHER -> None

inRange(v, r) ==
  /\ r.lo # None => cmpTriple(v, r.lo.v) >= IF r.lo.inclusive THEN 0 ELSE 1
  /\ r.hi # None => cmpTriple(v, r.hi.v) <= IF r.hi.inclusive THEN 0 ELSE -1

\* "no" for a requirement that cannot be interpreted, which satisfies nothing.
phpSatisfies(requirement, v) ==
  IF \E alt \in requirement : \E t \in alt : parseConstraintToken(t) = None
  THEN "no"
  ELSE IF \E alt \in requirement :
            \A t \in alt : inRange(v, parseConstraintToken(t))
       THEN "yes" ELSE "no"

\* The lowest PHP 8 minor a requirement admits, named in the refusals.
phpVersionFor(requirement) ==
  LET admitted == { m \in 0..9 : phpSatisfies(requirement, <<8, m, 0>>) = "yes" }
  IN IF admitted = {} THEN None
     ELSE CHOOSE m \in admitted : \A n \in admitted : m <= n

\* No value is not a bound, and a requirement is written with the operators and
\* up to three numbers below a hundred.  The panel runs on the PHP it is found
\* with; the site and the command line have the same one; and no release asks for
\* an old patch, so that one which admits a minor admits the newest of it.
ASSUME RuntimeAssumption ==
  /\ None \notin [v : Nat \X Nat \X Nat, inclusive : BOOLEAN]
  /\ \A k \in InitialHosts :
       /\ {"installed", "php", "socket", "bak", "requires"} \subseteq DOMAIN k
       /\ k.installed \in Releases /\ k.bak = None
       /\ k.php \in {8} \X PhpMinors \X PhpPatches /\ k.socket = k.php[2]
       /\ phpSatisfies(k.requires[k.installed], k.php) = "yes"
       /\ \A r \in Releases :
            /\ \A alt \in k.requires[r] : \A t \in alt :
                 /\ {"op", "v"} \subseteq DOMAIN t
                 /\ Len(t.v) \in 1..3 /\ \A i \in 1..Len(t.v) : t.v[i] \in 0..99
            /\ \A m \in PhpMinors, p \in PhpPatches :
                 phpSatisfies(k.requires[r], <<8, m, p>>) = "yes" =>
                   phpSatisfies(k.requires[r], <<8, m, 2>>) = "yes"

\* The panel's own requirement, by release installed.
currentPhpRequirement == remote.requires[remote.installed]

-----------------------------------------------------------------------------
HostCalls ==
  { [tool |-> "panel_upgrade", expect |-> e, pinned |-> p] :
      e \in Releases, p \in BOOLEAN }
  \cup { [tool |-> "panel_prepare_runtime", minor |-> m, patch |-> p, release |-> r] :
           m \in PhpMinors, p \in BOOLEAN, r \in Releases \cup {None} }
  \cup { [tool |-> "wings_update", expect |-> e, tag |-> 2] : e \in Releases }
  \cup { [tool |-> "panel_version"] }

HostTools == { a.tool : a \in HostCalls }

\* The target of type ssh that the option names, with a credential.
panelHost(c) ==
  /\ Running(c) /\ args[c].tool \in HostTools
  /\ ~remote.reachable
  /\ Reply(c, "begin", "refused")

\* The helper answers, or the refusal says what to install or allow.
hostStatusProblem == remote.helper # "ok"

\* One fixed command to the helper; only validated arguments are in it.
helperCommand(c, here, job, why) ==
  Change(c, here, [remote EXCEPT !.run[c] = [job |-> job, n |-> 0, state |-> "runs"]],
         {job}, why, "helper")

-----------------------------------------------------------------------------
(* The helper's subcommands, as the process that runs them.                  *)

PANEL_UPGRADE_STEP_NAMES ==
  <<"download-release", "download-checksum", "preflight-platform", "db-backup",
    "maintenance-mode", "extract", "fix-permissions", "composer-install",
    "migrate", "clear-caches", "restart-queue", "exit-maintenance">>

StepAt(n) == PANEL_UPGRADE_STEP_NAMES[n]

\* What a step that works does to the panel.
step(n) ==
  CASE StepAt(n) = "maintenance-mode" -> [remote EXCEPT !.down = TRUE]
    [] StepAt(n) = "extract" -> [remote EXCEPT !.installed = 2]
    [] StepAt(n) = "exit-maintenance" -> [remote EXCEPT !.down = FALSE]
    [] OTHER -> remote

helperTurns(c, new, run) ==
  /\ remote' = [new EXCEPT !.run[c] = run]
  /\ UNCHANGED <<args, at, got, sent, answer, touched, edits>>

\* The installed version is checked again, then step follows step; the first
\* that fails ends the run.
cmdPanelUpgrade(c) ==
  LET run == remote.run[c]
      last == Len(PANEL_UPGRADE_STEP_NAMES)
  IN /\ run.job = "panel-upgrade" /\ run.state = "runs"
     /\ \/ /\ run.n = 0 /\ remote.installed # args[c].expect
           /\ helperTurns(c, remote, [run EXCEPT !.state = "refused"])
        \/ /\ run.n > 0 \/ remote.installed = args[c].expect
           /\ \/ helperTurns(c, step(run.n + 1),
                   [run EXCEPT !.n = @ + 1,
                               !.state = IF run.n + 1 = last THEN "done" ELSE "runs"])
              \/ helperTurns(c, remote, [run EXCEPT !.state = "failed"])

\* The site's configuration is copied before its socket is switched, if it has
\* another one, and comes back from that copy.
SocketSwitched(minor) ==
  IF remote.socket = minor THEN remote
  ELSE [remote EXCEPT !.bak = remote.socket, !.socket = minor]

SocketRestored ==
  IF remote.bak = None THEN remote
  ELSE [remote EXCEPT !.socket = remote.bak, !.bak = None]

\* The newest packages, the default of the command line, the socket of the site, a
\* test of its configuration and the restart.  A step that fails ends the run; only
\* the test undoes anything, the switch of the socket if this run made it.
cmdPhpPrepare(c) ==
  LET run == remote.run[c]
      minor == args[c].minor
      next == [run EXCEPT !.n = @ + 1]
      failed == [run EXCEPT !.state = "failed"]
  IN /\ run.job = "php-prepare" /\ run.state = "runs"
     /\ \/ run.n \in {0, 3} /\ helperTurns(c, remote, next)
        \/ run.n = 1 /\ helperTurns(c, [remote EXCEPT !.php = <<8, minor, 2>>], next)
        \/ run.n = 2 /\ helperTurns(c, SocketSwitched(minor),
                           Patched([switched |-> remote.socket # minor], next))
        \/ run.n = 3 /\ helperTurns(c, IF run.switched THEN SocketRestored ELSE remote,
                                    failed)
        \/ run.n = 4 /\ helperTurns(c, remote, [next EXCEPT !.state = "done"])
        \/ run.n # 3 /\ helperTurns(c, remote, failed)

\* Nothing to do when the release is there already; else download and verify,
\* keep the old binary and swap, restart.  A unit that does not come up gets the
\* kept binary back, unless a rollback has used it up.
cmdWingsUpdate(c) ==
  LET run == remote.run[c]
      tag == args[c].tag
      next == [run EXCEPT !.n = @ + 1]
      failed == [run EXCEPT !.state = "failed"]
  IN /\ run.job = "wings-update" /\ run.state = "runs"
     /\ \/ /\ run.n = 0
           /\ helperTurns(c, remote, IF remote.wings = tag
                                     THEN [run EXCEPT !.state = "done"] ELSE next)
        \/ run.n < 2 /\ helperTurns(c, remote, failed)
        \/ /\ run.n = 1
           /\ helperTurns(c, [remote EXCEPT !.wings = tag, !.prev = remote.wings],
                          next)
        \/ run.n = 2 /\ helperTurns(c, remote, [run EXCEPT !.state = "done"])
        \/ /\ run.n = 2
           /\ helperTurns(c, IF remote.prev = None THEN remote
                             ELSE [remote EXCEPT !.wings = remote.prev, !.prev = None],
                          failed)

-----------------------------------------------------------------------------
(* The handlers.                                                             *)

\* What the output of an upgrade says.  The session may end, after
\* MAX_SSH_TIMEOUT_MS, while the helper goes on: then nothing is claimed.
parseUpgradeResult(run) ==
  CASE run.state = "runs" -> "unknown"
    [] run.state = "refused" -> "refused"
    [] run.state = "done" -> "ok"
    [] OTHER -> IF run.n >= 5 THEN "partial" ELSE "error"

\* The tag is the latest release unless one is pinned; both are release 2.
panelUpgrade(c) ==
  LET a == args[c] IN
  /\ Does(c, "panel_upgrade") /\ remote.reachable
  /\ \/ /\ at[c] = "begin"
        /\ IF remote.installed # a.expect \/ (~a.pinned /\ ~remote.github)
           THEN Reply(c, "begin", "refused")
           ELSE IF remote.installed = 2 THEN Reply(c, "begin", "nothing to do")
           ELSE Move(c, "begin", "require")
     \/ remote.github /\ Learn(c, "require", remote.requires[2], "status")
     \/ ~remote.github /\ Reply(c, "require", "refused")
     \/ /\ at[c] = "status"
        /\ IF phpSatisfies(got[c], remote.php) = "no" \/ hostStatusProblem
           THEN Reply(c, "status", "refused")
           ELSE Learn(c, "status", [req |-> got[c], php |-> remote.php], "ready")
     \/ at[c] = "ready" /\ helperCommand(c, "ready", "panel-upgrade", got[c])
     \/ at[c] = "helper" /\ Reply(c, "helper", parseUpgradeResult(remote.run[c]))

\* The serving release is the one of the site's socket.
servingPhpMinor == remote.socket

\* The release a switch is to prepare for: the one that is named, else the latest.
ReleaseOf(a) == IF a.release = None THEN 2 ELSE a.release

\* The runtime is switched only to one that the release to come and the panel
\* installed now both run on.  A release's requirement is fetched from GitHub, also
\* when the release is named.
panelPrepareRuntime(c) ==
  LET v == <<8, args[c].minor, 0>> IN
  /\ Does(c, "panel_prepare_runtime") /\ remote.reachable /\ ~args[c].patch
  /\ \/ ~remote.github /\ Reply(c, "begin", "refused")
     \/ /\ remote.github
        /\ Learn(c, "begin", remote.requires[ReleaseOf(args[c])], "status")
     \/ /\ at[c] = "status"
        /\ IF phpSatisfies(got[c], v) = "no" THEN Reply(c, "status", "refused")
           ELSE IF /\ phpSatisfies(got[c], remote.php) = "yes"
                   /\ remote.socket = args[c].minor
           THEN Reply(c, "status", "nothing to do")
           ELSE Move(c, "status", "current")
     \/ /\ at[c] = "current"
        /\ IF phpSatisfies(currentPhpRequirement, v) = "no" \/ hostStatusProblem
           THEN Reply(c, "current", "refused")
           ELSE Learn(c, "current", [req |-> got[c], php |-> v], "ready")
     \/ at[c] = "ready" /\ helperCommand(c, "ready", "php-prepare", got[c])

\* A patch is of what serves, so no release goes with it.
panelPatchRuntime(c) ==
  /\ Does(c, "panel_prepare_runtime") /\ remote.reachable /\ args[c].patch
  /\ \/ /\ at[c] = "begin"
        /\ IF \/ args[c].release # None
              \/ hostStatusProblem \/ servingPhpMinor # args[c].minor
           THEN Reply(c, "begin", "refused")
           ELSE Learn(c, "begin", None, "ready")
     \/ at[c] = "ready" /\ helperCommand(c, "ready", "php-prepare", None)

wingsUpdate(c) ==
  LET a == args[c] IN
  /\ Does(c, "wings_update") /\ remote.reachable
  /\ \/ /\ at[c] = "begin"
        /\ IF hostStatusProblem \/ remote.wings # a.expect
           THEN Reply(c, "begin", "refused")
           ELSE IF remote.wings = a.tag THEN Reply(c, "begin", "nothing to do")
           ELSE Move(c, "begin", "ready")
     \/ at[c] = "ready" /\ helperCommand(c, "ready", "wings-update", None)

\* php-prepare and wings-update are awaited for less long, and a session that
\* ends before them is an error.
helperAnswers(c) ==
  /\ Running(c) /\ args[c].tool \in {"panel_prepare_runtime", "wings_update"}
  /\ at[c] = "helper" /\ remote.run[c].state # "runs"
  /\ Reply(c, "helper", IF remote.run[c].state = "done" THEN "ok" ELSE "error")

\* The version read; the runtime part is reported, never fatal.
panelVersion(c) ==
  /\ Does(c, "panel_version") /\ remote.reachable
  /\ \/ Learn(c, "begin", remote.installed, "have")
     \/ \E part \in SUBSET {"release", "helper", "requirement", "wings"} :
          /\ "helper" \in part => ~hostStatusProblem
          /\ "release" \in part => remote.github
          /\ Learn(c, "have", part, "report")
     \/ Reply(c, "report", "ok")

PelicanHostStep(c) ==
  \/ Begin(c, HostCalls)
  \/ panelHost(c)
  \/ panelUpgrade(c)
  \/ panelPrepareRuntime(c)
  \/ panelPatchRuntime(c)
  \/ wingsUpdate(c)
  \/ helperAnswers(c)
  \/ panelVersion(c)
  \/ Breaks(c, HostTools)

helperRuns(c) ==
  \/ cmdPanelUpgrade(c)
  \/ cmdPhpPrepare(c)
  \/ cmdWingsUpdate(c)

PelicanHostInit == remote \in InitialHosts
=============================================================================

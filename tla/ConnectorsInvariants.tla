------------------------ MODULE ConnectorsInvariants ------------------------
(***************************************************************************)
(* What the proofs about Connectors speak of: BaseInv, which holds for      *)
(* every connector, the inductive invariant behind each property, and, for  *)
(* the texts that are judged token by token, what is known of one whose     *)
(* first k tokens were read.  Nothing here models code.                     *)
(***************************************************************************)
EXTENDS Connectors

-----------------------------------------------------------------------------
(* What is common to all connectors.                                         *)

\* The variables that have an entry for each call.
FrameOK ==
  /\ DOMAIN args = Calls /\ DOMAIN at = Calls /\ DOMAIN got = Calls
  /\ DOMAIN sent = Calls /\ DOMAIN answer = Calls /\ DOMAIN touched = Calls

\* What other calls know and where they wait is untouched by a step of c.
Only(c) ==
  /\ FrameOK' /\ edits' = edits
  /\ \A d \in Calls \ {c} :
       /\ args'[d] = args[d] /\ at'[d] = at[d] /\ got'[d] = got[d]
       /\ sent'[d] = sent[d] /\ answer'[d] = answer[d] /\ touched'[d] = touched[d]

\* The other system stays the one it is, and so does what it is looked at for.
SameKind ==
  /\ DOMAIN remote' = DOMAIN remote
  /\ \A x \in {"system", "topic"} \cap DOMAIN remote : remote'[x] = remote[x]

\* A step of call c alone: its arguments are new and accepted, or those it has.
Proper(c, accepted) ==
  /\ Only(c) /\ SameKind /\ at'[c] # "idle"
  /\ \/ at[c] = "idle" /\ args'[c] \in accepted /\ answer' = answer
     \/ at[c] # "idle" /\ args'[c] = args[c]

\* The calls the schemas of the connector at work accept.
Accepted ==
  CASE remote.system = "unifi" -> UniFiCalls
    [] remote.system = "portainer" -> PortainerCalls
    [] remote.system = "proxmox" -> GuestCalls \cup ProxmoxReadCalls
    [] remote.system = "home-assistant" -> HomeAssistantCalls
    [] remote.system = "uptime-kuma" -> UptimeKumaCalls
    [] remote.system = "pelican" -> PanelCalls
    [] remote.system = "host" -> HostCalls
    [] OTHER -> SshCalls

(***************************************************************************)
(* What every proof below starts from: each variable has an entry for each  *)
(* call, the other system says which one it is, and a call that was begun   *)
(* has arguments that a schema of that system accepts.                      *)
(***************************************************************************)
BaseInv ==
  /\ FrameOK
  /\ edits \in Nat /\ "system" \in DOMAIN remote
  /\ remote.system \notin {"host", "ssh"} => "topic" \in DOMAIN remote
  /\ \A c \in Calls : at[c] # "idle" => args[c] \in Accepted

\* A record of the other system of the same kind as the one that is there.
Alike(new) ==
  /\ DOMAIN new = DOMAIN remote
  /\ \A x \in {"system", "topic"} \cap DOMAIN remote : new[x] = remote[x]

-----------------------------------------------------------------------------
(* Paused monitors.                                                          *)

\* What the record of Uptime Kuma holds, in each of its topics.
KumaTypeOK ==
  /\ {"system", "topic", "matched", "monitor", "handle", "server"} \subseteq DOMAIN remote
  /\ remote.matched \subseteq Monitors
  /\ remote.monitor \in [Monitors -> {"active", "paused", "gone"}]
  /\ remote.handle \in [Handles -> HandleRecords \cup {None}]
  /\ remote.server \in [state : PowerStates, todo : Seq(PowerStates), born : Nat]

\* The tools that open a session.
SessionTools == {"pause_monitor", "resume_monitor", "maintenance", "end_maintenance",
                 "white_glove"}

\* A call has a session from its first answer on.  Only maintenance writes a
\* handle; who ends one has seen it, and looks up its monitors before it resumes.
CallOK(c) ==
  /\ at[c] \in {"idle", "begin"} => got[c] = None
  /\ at[c] # "idle" /\ args[c].tool \in SessionTools =>
       /\ got[c] \in Sessions \cup PowerSessions \cup {None}
       /\ at[c] \notin {"begin", "done"} => got[c] # None
  /\ at[c] \in {"pausing", "waiting", "acted"} /\ args[c].tool \in SessionTools => got[c].still = {}
  /\ at[c] # "idle" /\ args[c].tool = "pause_monitor" /\ got[c] # None =>
       got[c].todo \cup got[c].paused \cup got[c].failed \subseteq {args[c].monitor}
  /\ remote.handle[c] # None => at[c] \in {"recorded", "done"} /\ args[c].tool = "maintenance"
  /\ at[c] \in {"open", "resuming", "closed"} /\ args[c].tool = "end_maintenance" =>
       remote.handle[args[c].handle] # None
  /\ at[c] = "open" /\ args[c].tool = "end_maintenance" =>
       got[c].todo = remote.handle[args[c].handle].monitors

\* A handle that is open names m, and whoever is about to close it still has m
\* to resume, or a failure that keeps it from closing.
HandleHas(h, m) ==
  /\ remote.handle[h] # None /\ remote.handle[h].open /\ m \in remote.handle[h].monitors
  /\ \A c \in Calls :
       at[c] = "resuming" /\ args[c].tool = "end_maintenance" /\ args[c].handle = h =>
         m \in got[c].todo \/ got[c].still # {}

\* Some open handle answers for the monitor.
Handled(m) == \E h \in Handles : HandleHas(h, m)

\* Call c was asked to pause m, says that it failed on m, or will resume it.
HeldBy(c, m) ==
  /\ at[c] # "idle"
  /\ \/ args[c].tool = "pause_monitor" /\ args[c].monitor = m
     \/ /\ args[c].tool \in {"maintenance", "white_glove"} /\ got[c] # None
        /\ \/ m \in got[c].failed \cup got[c].still
           \/ m \in got[c].paused /\ at[c] \in {"pausing", "waiting", "acted"}
           \/ m \in got[c].todo /\ at[c] \in {"rollback", "resuming"}

\* A paused monitor has somebody who will resume it, or was asked for or told of.
Answered(m) == Handled(m) \/ \E c \in Calls : HeldBy(c, m)

\* The invariant behind PausedIsAccounted: it also says who is about to resume what.
KumaInv ==
  /\ KumaTypeOK
  /\ \A c \in Calls : CallOK(c)
  /\ \A m \in PausedNow : Answered(m)

\* What has to be shown of the step of a call.
Keeps(c) ==
  /\ Only(c) /\ KumaTypeOK' /\ CallOK(c)'
  /\ \A h \in Handles : remote.handle[h] # None =>
       remote'.handle[h] # None /\ remote'.handle[h].monitors = remote.handle[h].monitors
  /\ \A d \in Calls \ {c} : remote'.handle[d] # None => remote.handle[d] # None
  /\ \A m \in PausedNow' :
       /\ m \in PausedNow \/ HeldBy(c, m)'
       /\ HeldBy(c, m) => HeldBy(c, m)' \/ Handled(m)'
       /\ Handled(m) => HeldBy(c, m)' \/ Handled(m)'

\* The invariant holds where it means something.
KumaHolds == remote.system = "uptime-kuma" => KumaInv

-----------------------------------------------------------------------------
(* Documents that are written back whole.                                    *)

\* The body holds what was asked for and, in every other field, what was read.
Faithful(c, body) ==
  /\ DOMAIN Base(c) \cup DOMAIN Wanted(c) \subseteq DOMAIN body
  /\ \A f \in DOMAIN body :
       body[f] = IF f \in DOMAIN Wanted(c) THEN Wanted(c)[f] ELSE Base(c)[f]

\* What was sent stays faithful until the call ends: arguments and knowledge do not change.
Rest(c) ==
  /\ sent[c] # None => /\ at[c] \in {"put", "done"}
                       /\ at[c] = "put" => Faithful(c, sent[c])
  /\ at[c] = "extras" /\ args[c].tool = "create_server" =>
       KnownVariables(args[c].server.set)

\* The invariant behind KeepsTheRest; the host's commands are no documents.
RestInv == remote.system # "host" => \A c \in Calls : Rest(c)

-----------------------------------------------------------------------------
(* Port forwards.                                                            *)

\* A call that is past its first answer has passed the checks on its rule, and
\* each id has its place among the rules.
ForwardsInv ==
  remote.system = "unifi" =>
    /\ \A c \in Calls : at[c] = "have" /\ args[c].tool = "create_port_forward" =>
         assertForwardAllowed(args[c].rule)
    /\ remote.topic = "forwards" => "rules" \in DOMAIN remote /\ DOMAIN remote.rules = RuleIds

\* A rule that appears or changes is disabled or safe.
RulesScreened ==
  /\ "rules" \in DOMAIN remote' /\ DOMAIN remote'.rules = RuleIds
  /\ \A r \in RuleIds :
       LET new == remote'.rules[r] IN
       new # remote.rules[r] /\ new # None /\ new.enabled => SafeForward(new)

-----------------------------------------------------------------------------
(* What is removed by its name.                                              *)

\* A removal that has looked at its stack: the id was given to that stack, whose
\* name no one changes, and is not given again.
Removal(c) ==
  args[c].tool = "remove_stack" /\ at[c] \in {"have", "file"} =>
    /\ args[c].id \in StackIds \ remote.unused
    /\ "name" \in DOMAIN got[c]
    /\ remote.stacks[args[c].id] # None =>
         remote.stacks[args[c].id].name = got[c].name
    /\ at[c] = "file" => got[c].name = args[c].name

\* An id that names a stack was given, and the stack has a name.
StacksOK ==
  /\ {"stacks", "unused"} \subseteq DOMAIN remote /\ DOMAIN remote.stacks = StackIds
  /\ \A s \in StacksThere : s \notin remote.unused /\ "name" \in DOMAIN remote.stacks[s]

\* The invariant behind the removal of a stack.
StacksInv == remote.system = "portainer" => StacksOK /\ \A c \in Calls : Removal(c)

\* A stack that is there afterwards was there under the same name, or has an id
\* that had not been given.
StacksMove ==
  /\ StacksOK' /\ remote'.unused \subseteq remote.unused
  /\ \A s \in StackIds : remote'.stacks[s] # None =>
       \/ s \in remote.unused
       \/ remote.stacks[s] # None /\ remote'.stacks[s].name = remote.stacks[s].name

\* The step that deletes or powers, if this is one, hits what the caller named.
Hits(c) ==
  at[c] \in {"have", "file"} /\ at'[c] = "put" =>
    LET a == args[c] IN
    /\ a.tool = "delete_port_forward" =>
         \A r \in Stored(remote.rules) \ Stored(remote'.rules) :
           \/ remote.rules[r] # got[c][r]
           \/ /\ remote.rules[r].wan = a.expect.wan
              /\ remote.rules[r].fwd = a.expect.fwd
              /\ a.ref \in {r, remote.rules[r].name}
    /\ a.tool = "remove_stack" => remote.stacks[a.id].name = a.name
    /\ a.tool = "guest_power" =>
         \/ remote.guests[a.vmid] # got[c]
         \/ /\ remote.guests[a.vmid].name = a.name
            /\ remote.guests[a.vmid].node = a.node
    /\ a.tool = "delete_schedule" =>
         \/ remote.schedules[a.id] # got[c]
         \/ remote.schedules[a.id].name = a.name

\* The tools that name what they hit by more than an id.
ByName == {"delete_port_forward", "remove_stack", "guest_power", "delete_schedule"}

-----------------------------------------------------------------------------
(* What an "ok" stands for.                                                  *)

\* Home Assistant: an answer comes from the service only after it was called.
ServiceCalled(c) ==
  at[c] = "served" /\ args[c].tool = "ha_call_service" => touched[c] # {}

\* Pelican: a call that sets one variable after the other knows which it has set.
VariablesSet(c) ==
  /\ at[c] = "idle" => touched[c] = {}
  /\ at[c] # "idle" /\ args[c].tool = "update_startup_variables" =>
       /\ at[c] = "begin" => touched[c] = {}
       /\ at[c] = "next" => touched[c] = got[c] /\ got[c] \subseteq DOMAIN args[c].set

\* The panel's files: calls come one after the other, what the volume holds is at
\* most what the download will come to, and a settled request means all of it.
FilesOK ==
  /\ {"file", "upstream"} \subseteq DOMAIN remote
  /\ DOMAIN remote.file = {"size"}
  /\ remote.file.size \in Nat /\ remote.upstream \in Nat
  /\ remote.file.size <= remote.upstream

\* A file that has settled, by the polls of a call, has all its bytes.
Download(c) ==
  args[c].tool = "pull_file" /\ at[c] = "poll" =>
    /\ {"settled", "last", "stable"} \subseteq DOMAIN got[c]
    /\ got[c].settled => remote.file.size = remote.upstream

\* The invariant behind pull_file: one call at a time looks at the file.
FilesInv ==
  remote.system = "pelican" /\ remote.topic = "files" =>
    /\ FilesOK
    /\ \A c, d \in Calls : at[c] # "idle" /\ at[d] # "idle" => c = d
    /\ \A c \in Calls : Download(c)

\* The panel's host: the helper that runs an upgrade is done after its last step.
Upgrade(c) ==
  args[c].tool = "panel_upgrade" /\ at[c] = "helper" =>
    /\ DOMAIN remote.run[c] = {"job", "n", "state"}
    /\ remote.run[c].job = "panel-upgrade"
    /\ remote.run[c].state = "done" => remote.run[c].n = Len(PANEL_UPGRADE_STEP_NAMES)

\* Each call has a place for its process of the helper.
RunsOK == "run" \in DOMAIN remote /\ DOMAIN remote.run = Calls

\* The invariant behind panel_upgrade.
HostInv == remote.system = "host" => RunsOK /\ \A c \in Calls : Upgrade(c)

\* At most one call was begun.
Active == \A x, y \in Calls : at[x] # "idle" /\ at[y] # "idle" => x = y

\* A server that is offline starts next, if anything, and one that is to run has
\* been starting just before.
Follows(a, b) == (a = "offline" => b = "starting") /\ (b = "running" => a = "starting")

\* What server s has ahead of it are states of which each follows the one before.
Paced(s) ==
  /\ s.todo \in Seq(PowerStates)
  /\ s.todo # <<>> => Follows(s.state, s.todo[1])
  /\ \A i \in 1..Len(s.todo) - 1 : Follows(s.todo[i], s.todo[i + 1])

\* After a stop, server s is not to start again, or was to when the signal came.
StopHolds(mine, s) ==
  \/ mine.restarting
  \/ /\ \A i \in 1..Len(s.todo) : s.todo[i] # "starting"
     /\ mine.reached => s.state = "offline"

\* After a restart, a wait that has seen server s in another state than running has
\* not seen it in the process it wants replaced, unless that was being started.
RestartHolds(mine, s) ==
  \/ mine.was = "starting"
  \/ /\ mine.born <= s.born
     /\ mine.born = s.born => s.state # "starting" /\ (mine.saw => s.state # "running")
     /\ mine.reached => mine.born < s.born

\* What a session of a power action holds.
PowerFields == {"todo", "paused", "failed", "still", "lost", "polls", "saw", "born", "was",
                "restarting", "reached"}

\* A power action that reached its state has seen the server on its way there.
PowerOK(c) ==
  args[c].tool = "white_glove" /\ at[c] \in {"waiting", "acted", "resuming"} =>
    /\ DOMAIN got[c] = PowerFields /\ got[c].born \in Nat
    /\ args[c].signal = "stop" => StopHolds(got[c], remote.server)
    /\ args[c].signal # "stop" => RestartHolds(got[c], remote.server)

\* The invariant behind white_glove.
PowerInv ==
  remote.system = "uptime-kuma" /\ remote.topic # "windows" =>
    /\ "server" \in DOMAIN remote /\ remote.server.born \in Nat
    /\ DOMAIN remote.server = {"state", "todo", "born"} /\ Paced(remote.server)
    /\ Active
    /\ \A c \in Calls : PowerOK(c)

\* The part of it that is about the server.
ServerOK ==
  /\ "server" \in DOMAIN remote /\ remote.server.born \in Nat
  /\ DOMAIN remote.server = {"state", "todo", "born"} /\ Paced(remote.server)

\* The invariant behind SuccessIsReal, a conjunct for each tool that claims something.
RealInv ==
  /\ remote.system = "home-assistant" => \A c \in Calls : ServiceCalled(c)
  /\ remote.system = "pelican" => \A c \in Calls : VariablesSet(c)
  /\ FilesInv
  /\ HostInv
  /\ PowerInv

\* What "ok" tells the caller of a tool.
Real(c) ==
  LET a == args[c] IN
  /\ a.tool \in {"set_gateway_feature", "set_remote_logging"} =>
       \A f \in DOMAIN a.set : remote[a.group][f] = a.set[f]
  /\ a.tool = "ha_call_service" => touched[c] # {}
  /\ a.tool = "white_glove" =>
       /\ a.signal = "restart" =>
            remote.server.born > got[c].born \/ got[c].was = "starting"
       /\ a.signal = "stop" =>
            remote.server.state = "offline" \/ got[c].restarting
  /\ a.tool = "pull_file" =>
       \/ remote.file.size = remote.upstream
       \/ a.pull.expected = None /\ ~got[c].settled
       \/ a.pull.expected # None /\ a.pull.expected < remote.upstream
  /\ a.tool = "update_startup_variables" => DOMAIN a.set = touched[c]
  /\ a.tool = "panel_upgrade" =>
       remote.run[c].n = Len(PANEL_UPGRADE_STEP_NAMES)

\* The tools that tell something by it.
Claiming == {"set_gateway_feature", "set_remote_logging", "ha_call_service", "white_glove",
             "pull_file", "update_startup_variables", "panel_upgrade"}

-----------------------------------------------------------------------------
(* Versions, and the requirements on them.                                   *)

\* The order of versions, stated without the comparison of the code.
Triples == Nat \X Nat \X Nat

\* a is before b.
Less(a, b) ==
  \/ a[1] < b[1]
  \/ a[1] = b[1] /\ a[2] < b[2]
  \/ a[1] = b[1] /\ a[2] = b[2] /\ a[3] < b[3]

\* A token as a requirement has it.
IsToken(t) ==
  /\ {"op", "v"} \subseteq DOMAIN t
  /\ Len(t.v) \in 1..3 /\ \A i \in 1..Len(t.v) : t.v[i] \in 0..99

\* The versions of PHP that the host may have.
Versions == {8} \X PhpMinors \X PhpPatches

\* The range r of a token with this operator, version and count of numbers.
IsRange(op, v, n, r) ==
  /\ op = "^" => r = Within(v, IF v[1] > 0 THEN 1 ELSE 2)
  /\ op = "~" => r = Within(v, IF n = 3 THEN 2 ELSE 1)
  /\ op \in {"*", "bare"} /\ n < 3 => r = Within(v, n)
  /\ op = "*" /\ n = 3 => r = None
  /\ op = ">=" => r = [lo |-> Bound(v, TRUE), hi |-> None]
  /\ op = ">" => r = [lo |-> Bound(v, FALSE), hi |-> None]
  /\ op = "<" => r = [lo |-> None, hi |-> Bound(v, FALSE)]
  /\ op = "upto" /\ n < 3 => r = [lo |-> None, hi |-> Bound(bump(v, n), FALSE)]
  /\ op = "<=" => r = [lo |-> None, hi |-> Bound(v, TRUE)]
  /\ op = "upto" /\ n = 3 => r = [lo |-> None, hi |-> Bound(v, TRUE)]
  /\ op = "=" => r = [lo |-> Bound(v, TRUE), hi |-> Bound(v, TRUE)]
  /\ op = "bare" /\ n = 3 => r = [lo |-> Bound(v, TRUE), hi |-> Bound(v, TRUE)]
  /\ op \notin {"^", "~", "*", "bare", ">=", ">", "<", "<=", "upto", "=", "any"} => r = None

\* What a requirement is satisfied by, it admits.
IsRequirement(q) == \A alt \in q : \A t \in alt : IsToken(t)

-----------------------------------------------------------------------------
(* The runtime of the panel.                                                 *)

\* The command line has the minor, or some switch has set it since.
Came(m) == remote.php[2] = m \/ \E d \in Calls : HasSetPhp(d) /\ ~args[d].patch

\* The installed release and those to come run on the version.
Runs(v) ==
  \A r \in Releases : r >= remote.installed => phpSatisfies(remote.requires[r], v) = "yes"

\* The installed release runs on the version, unless an upgrade has replaced it since.
Fits(v) ==
  \/ phpSatisfies(remote.requires[remote.installed], v) = "yes"
  \/ \E d \in Calls : Extracted(d)

\* The command line's minor was set by a switch that named the older release.
Loose ==
  \E c \in Calls : /\ HasSetPhp(c) /\ ~args[c].patch /\ args[c].minor = remote.php[2]
                   /\ args[c].release = 1

\* What an upgrade relies on: release 2 runs on the command line's PHP.
Prepared == phpSatisfies(remote.requires[2], remote.php) = "yes" \/ PatchedBack \/ Loose

\* The newest patch of a minor does for whom any patch of it does.
Renewed(q) ==
  \A m \in PhpMinors, p \in PhpPatches :
    phpSatisfies(q, <<8, m, p>>) = "yes" => phpSatisfies(q, <<8, m, 2>>) = "yes"

\* What the record of the host holds.
HostTypeOK ==
  /\ {"installed", "php", "socket", "bak", "requires", "run"} \subseteq DOMAIN remote
  /\ DOMAIN remote.run = Calls
  /\ remote.installed \in Releases /\ remote.php \in Versions
  /\ \A r \in Releases : IsRequirement(remote.requires[r]) /\ Renewed(remote.requires[r])

\* The socket's minor came to the command line, as did the one it would get back, and
\* the release runs on what is there.
HostFits ==
  /\ Came(remote.socket)
  /\ remote.bak = None \/ Came(remote.bak)
  /\ \/ phpSatisfies(remote.requires[remote.installed], remote.php) = "yes"
     \/ PatchedBack \/ SwitchedForAnother

\* The call has given its command.
Started(c) == remote.run[c].state # "idle"

\* The helper's process that a call has started, if it has.
Job(c) ==
  LET run == remote.run[c] IN
  /\ {"job", "n", "state"} \subseteq DOMAIN run
  /\ \/ run.state = "idle" /\ run.n = 0
     \/ /\ at[c] \in {"helper", "done"} /\ run.state # "idle" /\ run.n \in Nat
        /\ run.job = "php-prepare" => args[c].tool = "panel_prepare_runtime"
        /\ run.job = "panel-upgrade" =>
             /\ args[c].tool = "panel_upgrade"
             /\ run.n >= 6 => remote.installed = 2

\* What a handler has found out before it gives the command.
Given(c) == at[c] = "ready" \/ Started(c)

\* An upgrade knows that the release to come runs on what the command line has.
UpgradeFound(c) ==
  args[c].tool = "panel_upgrade" =>
    /\ at[c] = "status" => got[c] = remote.requires[2]
    /\ Given(c) => Prepared

\* A switch knows that the releases it asked about run on the minor it switches to:
\* the one that is named, the latest if none is, and the installed one.
SwitchFound(c) ==
  args[c].tool = "panel_prepare_runtime" /\ ~args[c].patch =>
    /\ at[c] = "status" => got[c] = remote.requires[ReleaseOf(args[c])]
    /\ at[c] = "current" =>
         phpSatisfies(remote.requires[ReleaseOf(args[c])], <<8, args[c].minor, 0>>) = "yes"
    /\ Given(c) => IF args[c].release = 1 THEN Fits(<<8, args[c].minor, 0>>)
                    ELSE Runs(<<8, args[c].minor, 0>>)

\* A patch update knows only that its minor is one that was there.
PatchFound(c) ==
  args[c].tool = "panel_prepare_runtime" /\ args[c].patch => (Given(c) => Came(args[c].minor))

\* What the handler of a call relies on.
Found(c) == UpgradeFound(c) /\ SwitchFound(c) /\ PatchFound(c)

\* The invariant behind RuntimeFits.
RuntimeInv ==
  remote.system = "host" => /\ HostTypeOK /\ HostFits
                            /\ \A c \in Calls : Job(c) /\ Found(c)

\* What a step may do without anybody's knowledge becoming wrong.
Kept ==
  /\ remote'.requires = remote.requires
  /\ \A m : Came(m) => Came(m)'
  /\ \A v : Runs(v) => Runs(v)'
  /\ \A v : Fits(v) => Fits(v)'
  /\ Prepared => Prepared'
  /\ remote.installed = 2 => remote'.installed = 2

\* What everybody knows of the host, and of the calls' arguments.
HostKnown ==
  /\ HostTypeOK /\ HostFits
  /\ \A c \in Calls : /\ Job(c) /\ Found(c)
                      /\ at[c] # "idle" => args[c] \in HostCalls

\* The record of a run that goes on or ends.
Going(c, run) ==
  /\ remote.run[c].state = "runs" /\ run.state # "idle" /\ run.job = remote.run[c].job
  /\ {"job", "n", "state"} \subseteq DOMAIN run
  /\ run.n \in Nat /\ run.n >= remote.run[c].n

-----------------------------------------------------------------------------
(* Command lines.                                                            *)

\* The quotes that may be open.
OpenQuotes == {"none", "'", "\""}

\* The states of a split of a line of S.
Splits(S) ==
  [segments : Seq(Seq(S)), cur : Seq(S), quote : OpenQuotes, escaped : BOOLEAN,
   refused : BOOLEAN]

\* What a shell knows of the quotes before a token.
Lexes == [quote : OpenQuotes, escaped : BOOLEAN]

\* What a token does to the quotes a shell sees.
LexStep(b, t) ==
  IF b.escaped \/ (t = "\\" /\ b.quote # "'") THEN [b EXCEPT !.escaped = ~b.escaped]
  ELSE IF b.quote = "none" /\ t \in {"'", "\""} THEN [b EXCEPT !.quote = t]
  ELSE IF b.quote = t THEN [b EXCEPT !.quote = "none"] ELSE b

\* The token is put to the command being read.
Adds(s, t, u) ==
  /\ u.cur = Append(s.cur, t) /\ u.segments = s.segments
  /\ s.quote = "none" /\ ~s.escaped => t \notin Separators \cup Unvetted
  /\ s.quote # "'" /\ ~s.escaped => t \notin Substitutions

\* It ends that command.
Ends(s, t, u) ==
  /\ s.quote = "none" /\ ~s.escaped /\ t \in Separators
  /\ u.cur = <<>>
  /\ u.segments = IF s.cur = <<>> THEN s.segments ELSE Append(s.segments, s.cur)

\* The split and the shell are in the same quote.
SameQuote(s, b) ==
  /\ s.quote = b.quote /\ s.escaped = b.escaped
  /\ ~(s.quote = "'" /\ s.escaped)

\* A command found so far, or the one being read, starts with the word.
Heads(s, w) ==
  \/ \E j \in 1..Len(s.segments) : s.segments[j] # <<>> /\ s.segments[j][1] = w
  \/ s.cur # <<>> /\ s.cur[1] = w

\* One of them has an option that the policy knows for what it is.
Denies(s) ==
  (\E j \in 1..Len(s.segments) : SegmentDenied(s.segments[j])) \/ SegmentDenied(s.cur)

\* An option as the i-th token that no backslash touches.
KnownOption(line, i) == line[i] = "-w" /\ (i = 1 \/ line[i - 1] # "\\")

\* A command of the list starts with the word.
HeadOfOne(all, w) == \E i \in DOMAIN all : all[i][1] = w

\* Before the first token.
SplitBase ==
  [segments |-> <<>>, cur |-> <<>>, quote |-> "none", escaped |-> FALSE,
   refused |-> FALSE]

\* Before it the shell sees no quote.
LexBase == [quote |-> "none", escaped |-> FALSE]

\* The split of a line, token by token.
SplitUpto(line, read) ==
  read = [i \in 0..Len(line) |-> IF i = 0 THEN SplitBase
                                 ELSE SplitStep(read[i - 1], line[i])]

\* What its shell sees of the quotes.
LexedUpto(line, before) ==
  before = [i \in 1..Len(line) |-> IF i = 1 THEN LexBase
                                   ELSE LexStep(before[i - 1], line[i - 1])]

\* Nothing that cannot be vetted stands among the first k tokens, an option there has
\* a command denied unless a backslash touches it, what begins a command of the
\* shell heads one of the split, and the last token is the last of the command that
\* is being read.
Vetted(line, k, s) ==
  /\ \A i \in Bare(line) : i <= k => line[i] \notin Unvetted
  /\ \A i \in 1..k : KnownOption(line, i) => Denies(s)
  /\ \A i \in 1..k : line[i] \in Substitutions =>
       Lexed(line)[i].quote = "'" \/ Lexed(line)[i].escaped
  /\ \A i \in Begins(line) : i <= k => line[i] \in Separators \/ Heads(s, line[i])
  /\ k = 0 \/ (k \in Bare(line) /\ line[k] \in Separators) => s.cur = <<>>
  /\ s.cur # <<>> => s.cur[Len(s.cur)] = line[k]

\* The quotes that are open before the token after the first k.
QuotesMatch(line, k, s) ==
  k < Len(line) => Lexed(line)[k + 1] \in Lexes /\ SameQuote(s, Lexed(line)[k + 1])

-----------------------------------------------------------------------------
(* Paths.                                                                    *)

\* A segment: its name, and how many times over it is encoded.
Segments == [name : STRING, encoded : Nat]

\* The name of what stands between two slashes that follow one another.
Empty == ""

\* The names in what is read of a path.
Names == STRING \cup {"unknown"}

\* A segment that the allow-list and the server take for the same: it is not empty,
\* and not a directory that is encoded more than once.
Plain(g) == g.name # Empty /\ (g.name \in {".", ".."} => g.encoded <= 1)

\* One more segment, as the allow-list reads it.
CanonStep(o, g) ==
  IF g.name \in {Empty, "."} THEN o
  ELSE IF g.name = ".." THEN IF o = <<>> THEN <<>> ELSE SubSeq(o, 1, Len(o) - 1)
  ELSE Append(o, g.name)

\* One more segment, as the server reads it.
ServeStep(o, g) ==
  IF g.name \in {".", ".."} /\ g.encoded <= 1
  THEN IF g.name = "." \/ o = <<>> THEN o ELSE SubSeq(o, 1, Len(o) - 1)
  ELSE Append(o, IF g.encoded > 1 \/ g.name = "%" THEN "unknown" ELSE g.name)

\* The path that is served is the one that was looked at, save for the segments
\* that match nothing.
KeepsStep(o, s) ==
  /\ o \in Seq(Names) /\ s \in Seq(Names) /\ Len(o) = Len(s)
  /\ \A i \in 1..Len(s) : s[i] = o[i] \/ s[i] = "unknown"

\* What the list makes of a path, segment by segment.
CanonUpto(path, out) ==
  out = [i \in 0..Len(path) |-> IF i = 0 THEN <<>> ELSE CanonStep(out[i - 1], path[i])]

\* What the server makes of it.
ServedUpto(path, out) ==
  out = [i \in 0..Len(path) |-> IF i = 0 THEN <<>> ELSE ServeStep(out[i - 1], path[i])]

\* No more than that is needed of them after the last ".." of a path: the second name
\* of a path that is served under "webhook" is the second of the one looked at, and
\* so are the first ones as long as all of them are "api".
Late(o, s) ==
  /\ o \in Seq(Names) /\ s \in Seq(Names)
  /\ Len(s) >= 2 /\ s[1] = "api" /\ s[2] = "webhook" => Len(o) >= 2 /\ o[2] = "webhook"
  /\ Len(s) < 2 /\ (Len(s) = 1 => s[1] = "api") => Len(o) = Len(s)

\* A ".." is still to come after the first k segments.
Ahead(path, k) == \E i \in DOMAIN path : i > k /\ path[i].name = ".."

-----------------------------------------------------------------------------
(* What nobody asked for.                                                    *)

\* What no call may do whatever it was asked.
Harm == {"destroyed", "inside", "http"}

\* Where a handler waits before it has changed anything.
Before ==
  {"idle", "begin", "have", "fresh", "file", "variables", "extras", "fetch", "answered",
   "content", "require", "status", "current", "pausing", "rollback"}

\* The answers that say that nothing was done.
Declined == {"refused", "nothing to do"}

\* It has looked at public addresses at most.
Quiet(c) == touched[c] \subseteq {"public"}

\* The helper refused before its first step.
Stopped(c) ==
  remote.system = "host" /\ remote.run[c].state = "refused" /\ remote.run[c].n = 0

\* What a target is watched for: the harm its calls may not do, the tools that only
\* read, and the places where nothing has been done yet.
Watches ==
  { w \in [harm : SUBSET Harm, tools : SUBSET ReadTools, places : SUBSET Before] :
      "idle" \in w.places }

(***************************************************************************)
(* What a call has done is what it was asked: nothing harmful, nothing      *)
(* before the step that writes, nothing when its tool reads, and nothing    *)
(* when it answered that it had declined.                                   *)
(***************************************************************************)
Asked(c, w) ==
  /\ touched[c] \cap w.harm = {}
  /\ at[c] \in w.places => Quiet(c)
  /\ at[c] # "idle" /\ args[c].tool \in w.tools => Quiet(c)
  /\ at[c] # "done" => answer[c] = None
  /\ at[c] = "done" /\ answer[c] \in Declined => Quiet(c) \/ Stopped(c)

\* A read by a path that is read in step has changed nothing.
Got(c) ==
  at[c] # "idle" /\ args[c].tool = "ha_get" /\ InStep(args[c].path) => Quiet(c)

\* A helper that refused did so before its first step.
Blank(c) == remote.run[c].state = "refused" => remote.run[c].n = 0

\* What the target at hand is watched for: a program that is disguised may destroy, an
\* option that is escaped may make a read write, and of a read by path only Got speaks.
Fitting(w) ==
  /\ w.harm = IF Disguised THEN Harm \ {"destroyed"} ELSE Harm
  /\ w.tools = IF remote.system = "home-assistant" THEN ReadTools \ {"ha_get"}
               ELSE IF remote.system = "ssh" /\ EscapedOption(remote.line)
               THEN ReadTools \ {"run_readonly"} ELSE ReadTools
  /\ w.places = IF remote.system = "home-assistant" THEN Before \ {"have"} ELSE Before

\* The invariant behind NothingUnasked.
UnaskedInv ==
  /\ \E w \in Watches : Fitting(w) /\ \A c \in Calls : Asked(c, w)
  /\ remote.system = "home-assistant" => \A c \in Calls : Got(c)
  /\ remote.system = "host" => \A c \in Calls : Blank(c)
  /\ remote.system = "ssh" => "line" \in DOMAIN remote /\ remote.line \in CommandLines

=============================================================================

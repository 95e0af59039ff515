------------------------------ MODULE Connectors ------------------------------
(***************************************************************************)
(* The connectors: tool calls that run at the same time against one of the  *)
(* systems the targets name, while people use that system as well.  Calls   *)
(* against different systems share nothing, so a behaviour has one.         *)
(***************************************************************************)
EXTENDS UniFi, Portainer, Proxmox, HomeAssistant, UptimeKuma, PelicanPanel,
        PelicanHost, Ssh

CONSTANT Systems   \* the systems to start from

ConnectorsInit ==
  /\ CallInit
  /\ \/ "unifi" \in Systems /\ UniFiInit
     \/ "portainer" \in Systems /\ PortainerInit
     \/ "proxmox" \in Systems /\ ProxmoxInit
     \/ "home-assistant" \in Systems /\ HomeAssistantInit
     \/ "uptime-kuma" \in Systems /\ UptimeKumaInit
     \/ "pelican" \in Systems /\ PelicanPanelInit
     \/ "host" \in Systems /\ PelicanHostInit
     \/ "ssh" \in Systems /\ SshInit

CallStep(c) ==
  \/ remote.system = "unifi" /\ UniFiStep(c)
  \/ remote.system = "portainer" /\ PortainerStep(c)
  \/ remote.system = "proxmox" /\ ProxmoxStep(c)
  \/ remote.system = "home-assistant" /\ HomeAssistantStep(c)
  \/ remote.system = "uptime-kuma" /\ UptimeKumaStep(c)
  \/ remote.system = "pelican" /\ PelicanPanelStep(c)
  \/ remote.system = "host" /\ PelicanHostStep(c)
  \/ remote.system = "ssh" /\ SshStep(c)

\* What the other systems and the people who use them do on their own.
Others ==
  \/ remote.system = "unifi" /\ unifiEdit
  \/ remote.system = "portainer" /\ portainerEdit
  \/ remote.system = "proxmox" /\ proxmoxEdit
  \/ remote.system = "uptime-kuma" /\ (kumaEdit \/ serverTurns)
  \/ remote.system = "pelican" /\ panelEdit
  \/ remote.system = "pelican" /\ remote.topic = "files" /\ agentDownloads
  \/ remote.system = "host" /\ \E c \in Calls : helperRuns(c)

\* Nothing is in flight: only then may nothing more happen.
AllAnswered == (\A c \in Calls : ~Running(c)) /\ UNCHANGED callVars

ConnectorsNext ==
  \/ \E c \in Calls : CallStep(c)
  \/ Others
  \/ AllAnswered

ConnectorsSpec == ConnectorsInit /\ [][ConnectorsNext]_callVars

-----------------------------------------------------------------------------
(* Writing back whole documents.                                             *)

\* What a call was asked to set.
Wanted(c) ==
  CASE args[c].tool = "update_stack" -> Patched(args[c].secret, args[c].env)
    [] args[c].tool = "create_server" -> args[c].server.set
    [] OTHER -> args[c].set

\* What the document held when the call last looked, or what it starts from.
Base(c) ==
  CASE remote.system = "unifi" -> UniFiBase(c)
    [] args[c].tool = "update_stack" -> got[c].env
    [] args[c].tool = "update_server_startup" ->
         [v \in DOMAIN EggDefaults |->
            IF got[c][v] = "" THEN EggDefaults[v] ELSE got[c][v]]
    [] args[c].tool = "create_server" -> EggDefaults
    [] OTHER -> got[c]

(***************************************************************************)
(* A document that a handler writes back whole holds what the caller asked  *)
(* for, and in every other field what the handler last read there (or the   *)
(* default, for an egg's variable that is blank or new): nothing is left    *)
(* out, and an edit that came before the last look is not undone.           *)
(***************************************************************************)
KeepsTheRest ==
  \A c \in Calls :
    remote.system # "host" /\ at[c] = "put" /\ sent[c] # None =>
      /\ DOMAIN Base(c) \cup DOMAIN Wanted(c) \subseteq DOMAIN sent[c]
      /\ \A f \in DOMAIN sent[c] :
           sent[c][f] = IF f \in DOMAIN Wanted(c) THEN Wanted(c)[f] ELSE Base(c)[f]

(***************************************************************************)
(* No call opens a way into the control plane: a port-forward rule that a   *)
(* handler leaves enabled, merged from a patch or new, forwards none of the *)
(* denied ports and leads to a LAN host that is not protected.              *)
(***************************************************************************)
ForwardsScreened ==
  [][ remote.system = "unifi" /\ remote.topic = "forwards" /\ edits' = edits =>
        \A r \in RuleIds :
          LET new == remote'.rules[r] IN
          new # remote.rules[r] /\ new # None /\ new.enabled => SafeForward(new)
    ]_callVars

-----------------------------------------------------------------------------
(* The PHP releases a requirement admits, stated on whole versions rather     *)
(* than by ranges.                                                           *)
AdmitsToken(t, v) ==
  LET n == Len(t.v)
      same(k) == \A i \in 1..k : v[i] = Part(t.v, i)
      number(w) == Part(w, 1) * 10000 + Part(w, 2) * 100 + Part(w, 3)
  IN CASE t.op = "^" -> same(1) /\ number(v) >= number(t.v)
       [] t.op = "~" -> same(IF n = 3 THEN 2 ELSE 1) /\ number(v) >= number(t.v)
       [] t.op \in {"*", "bare"} -> same(n)
       [] t.op = ">=" -> number(v) >= number(t.v)
       [] t.op = ">" -> number(v) > number(t.v)
       [] t.op = "<" -> number(v) < number(t.v)
       [] t.op = "<=" -> number(v) <= number(t.v)
       [] t.op = "upto" -> same(n) \/ number(v) < number(t.v)
       [] t.op = "=" -> same(3)
       [] t.op = "any" -> TRUE
       [] OTHER -> FALSE

Admits(requirement, v) == \E alt \in requirement : \A t \in alt : AdmitsToken(t, v)

\* The helper of the call has set the command line's PHP.
HasSetPhp(c) == remote.run[c].job = "php-prepare" /\ remote.run[c].n >= 2

\* An upgrade has put the files of the new release in place.
Extracted(c) == remote.run[c].job = "panel-upgrade" /\ remote.run[c].n >= 6

\* A switch was asked to prepare for another release than the one that an upgrade,
\* which had begun by then, has put in place since.
SwitchedForAnother ==
  \E c, d \in Calls :
    /\ HasSetPhp(c) /\ ~args[c].patch /\ args[c].minor = remote.php[2]
    /\ args[c].release \in Releases \ {remote.installed}
    /\ Extracted(d)

\* A patch update put the command line back on the release the site's socket
\* still names, after a switch to another one had come undone.
PatchedBack ==
  \E c, d \in Calls :
    /\ HasSetPhp(c) /\ args[c].patch /\ args[c].minor = remote.php[2]
    /\ HasSetPhp(d) /\ ~args[d].patch /\ args[d].minor # remote.php[2]

(***************************************************************************)
(* The release that is installed, also when an upgrade stopped halfway, is  *)
(* one that the command line's PHP can run, whatever upgrades and changes   *)
(* of the runtime were under way together: each checked a PHP or a          *)
(* requirement that another may have replaced before its helper ran.  Two   *)
(* cases are excepted, in which the code checks less: a switch that names   *)
(* its release is held against that one and the installed one, never the    *)
(* one an upgrade under way brings; and a patch update, which looks at no   *)
(* requirement, can put back the PHP a switch had left.                     *)
(***************************************************************************)
RuntimeFits ==
  remote.system = "host" =>
    \/ Admits(remote.requires[remote.installed], remote.php)
    \/ PatchedBack \/ SwitchedForAnother

(***************************************************************************)
(* What is deleted, or powered on or off, is what the caller described by   *)
(* more than an id, unless it was changed after the handler had looked:     *)
(* a stale id that now belongs to something else hits nothing.              *)
(***************************************************************************)
OnlyWhatWasNamed ==
  [][ \A c \in Calls :
        at[c] \in {"have", "file"} /\ at'[c] = "put" =>
          LET a == args[c] IN
          /\ a.tool = "delete_port_forward" =>
               \A r \in Stored(remote.rules) \ Stored(remote'.rules) :
                 \/ remote.rules[r] # got[c][r]
                 \/ /\ remote.rules[r].wan = a.expect.wan
                    /\ remote.rules[r].fwd = a.expect.fwd
                    /\ a.ref \in {r, remote.rules[r].name}
          /\ a.tool = "remove_stack" =>
               remote.stacks[a.id].name = a.name
          /\ a.tool = "guest_power" =>
               \/ remote.guests[a.vmid] # got[c]
               \/ /\ remote.guests[a.vmid].name = a.name
                  /\ remote.guests[a.vmid].node = a.node
          /\ a.tool = "delete_schedule" =>
               \/ remote.schedules[a.id] # got[c]
               \/ remote.schedules[a.id].name = a.name
    ]_callVars

(***************************************************************************)
(* A caller who is told "ok" can rely on it: the settings group holds the   *)
(* change, the service was called by Home Assistant itself, the server is   *)
(* down or its process is another one, the file has its full size or the    *)
(* one the caller expected, every variable was set, the upgrade went        *)
(* through its last step.  Three answers of "ok" are not covered.  A        *)
(* restart that came while the server was starting may be taken for done    *)
(* when that start is.  A stop that the agent carries out only after a      *)
(* restart is taken for done in the middle of that.  And a download of      *)
(* unknown size that has outlived the panel's request is taken for whole    *)
(* when it has stood still for two looks.                                   *)
(***************************************************************************)
SuccessIsReal ==
  [][ \A c \in Calls :
        answer[c] # "ok" /\ answer'[c] = "ok" =>
          LET a == args[c] IN
          /\ a.tool \in {"set_gateway_feature", "set_remote_logging"} =>
               \A f \in DOMAIN a.set : remote[a.group][f] = a.set[f]
          /\ a.tool = "ha_call_service" => touched[c] # {}
          /\ a.tool = "white_glove" =>
               /\ a.signal = "restart" =>
                    remote.server.born > got[c].born \/ got[c].was = "starting"
               /\ a.signal = "stop" =>
                    remote.server.state = "offline" \/ got[c].restarting
          /\ a.tool = "pull_file" =>
               \/ remote.file.size = remote.upstream
               \/ a.pull.expected = None /\ ~got[c].settled
               \/ a.pull.expected # None /\ a.pull.expected < remote.upstream
          /\ a.tool = "update_startup_variables" => DOMAIN a.set = touched[c]
          /\ a.tool = "panel_upgrade" =>
               remote.run[c].n = Len(PANEL_UPGRADE_STEP_NAMES)
    ]_callVars

ReadTools ==
  {"ha_get", "ha_states", "ha_logbook", "run_readonly", "tail_log",
   "service_status", "journalctl", "disk_usage", "grep_logs"}

\* What a check on text reads otherwise than the one who acts on it: a path with an
\* empty or a doubly encoded segment before a "..", and an option or a program
\* that the command line writes with quotes or a backslash in it.
Misread(c) ==
  \/ args[c].tool = "ha_get" /\ ~InStep(args[c].path)
  \/ args[c].tool = "run_readonly" /\ EscapedOption(remote.line)

Disguised == remote.system = "ssh" /\ EscapedProgram(remote.line)

(***************************************************************************)
(* A call that was refused, or said there was nothing to do, has changed    *)
(* nothing, and neither has a call of a tool that only reads, however its   *)
(* path is encoded and its command line put together; a command that is run *)
(* destroys nothing.  The exceptions are the two kinds of text above, which *)
(* the checks do not see through.  A fetch from a public address, and a     *)
(* helper that stopped at its first check, count as nothing.                *)
(***************************************************************************)
NothingUnasked ==
  \A c \in Calls :
    at[c] # "idle" =>
    LET effects == touched[c] \ {"public"}
        stopped == remote.system = "host" /\ remote.run[c].n = 0
    IN /\ "destroyed" \in effects => Disguised
       /\ {"inside", "http"} \cap effects = {}
       /\ \/ answer[c] \in {"refused", "nothing to do"}
          \/ args[c].tool \in ReadTools /\ ~Misread(c)
          => effects = {} \/ stopped

(***************************************************************************)
(* When no call is under way, a monitor that is paused was asked to be      *)
(* paused, belongs to a handle that is open, or was named in an answer as   *)
(* one whose pause or resume failed: monitoring is never left off with      *)
(* nobody told, although acknowledgements are lost, handles cannot be       *)
(* written and people resume and delete monitors meanwhile.                 *)
(***************************************************************************)
PausedIsAccounted ==
  remote.system = "uptime-kuma" /\ (\A c \in Calls : ~Running(c)) =>
    \A m \in PausedNow :
      \/ \E h \in Handles : remote.handle[h] # None /\ remote.handle[h].open
                               /\ m \in remote.handle[h].monitors
      \/ \E c \in Calls :
           /\ at[c] = "done"
           /\ \/ args[c].tool = "pause_monitor" /\ args[c].monitor = m
              \/ got[c] # None /\ m \in got[c].failed
              \/ /\ got[c] # None /\ m \in got[c].still
                 /\ args[c].tool \in {"white_glove", "maintenance"}

\* The whole characters of a stream, all of which are alike: how many are shown says
\* whether one is missing.  And the length of an answer that came in chunks.
IsCharacter(s, i) ==
  s[i] = Byte \/ (s[i] = Lead /\ i + 1 \in DOMAIN s /\ s[i + 1] = Trail)

Output(stream) == Cardinality({ i \in DOMAIN stream : IsCharacter(stream, i) })

Received(chunks) ==
  LET upto[i \in 0..Len(chunks)] == IF i = 0 THEN 0 ELSE upto[i - 1] + chunks[i]
  IN upto[Len(chunks)]

\* A line, from a to b, that begins with a secret's key and ends without a carriage
\* return; and the word after a flag that is not itself such a word.
KeyLine(text, a, b) ==
  /\ text[a] = "key" /\ (a = 1 \/ text[a - 1] \in LineEnds)
  /\ OnOneLine(text, a, b) /\ (b = Len(text) \/ text[b + 1] = "newline")

ToldByFlag(text, i) ==
  /\ i > 1 /\ text[i - 1] = "flag" /\ text[i] \notin LineEnds
  /\ i > 2 => text[i - 2] # "flag"

\* What call c shows of what it has read.
ShownBy(c) ==
  /\ at[c] = "have" /\ args[c].tool = "container_logs" =>
       Output(got[c].shown) = Output(got[c].stream)
  /\ at[c] = "have" /\ args[c].tool = "read_file" =>
       LET text == got[c].text
           cut == Len(text) - Len(got[c].shown)
           shown(i) == got[c].shown[i - cut]
       IN \A i \in (cut + 1)..Len(text) :
            /\ \A a, b \in DOMAIN text :
                 KeyLine(text, a, b) /\ a < i /\ i <= b => shown(i) = "masked"
            /\ ToldByFlag(text, i) => shown(i) = "masked"
            /\ shown(i) # text[i] =>
                 \E k \in 1..(i - 1) :
                   \/ text[k] = "key" /\ OnOneLine(text, k, i)
                   \/ text[k] = "flag" /\ k = i - 1
  /\ at[c] = "have" /\ args[c].tool \in {"ha_states", "ha_logbook"} =>
       \/ got[c].read.truncated
       \/ /\ Received(got[c].chunks) = got[c].read.total
          /\ got[c].read.total <= MaxBytes

(***************************************************************************)
(* What is shown of a log holds every character of the output, also when    *)
(* the stream ends within a frame, except those whose bytes are in two      *)
(* frames.  What is shown of a file has what stands behind a secret's key   *)
(* or flag masked, also when the key or flag itself is cut off, and nothing *)
(* else: the key must be the first word of a line that ends without a       *)
(* carriage return, and of what follows a flag only one word is masked.     *)
(* And a body reported as complete was kept whole, within the cap.          *)
(***************************************************************************)
ShownFaithfully == \A c \in Calls : ShownBy(c)

(***************************************************************************)
(* What a failed upgrade tells its caller to do, fix the cause and call     *)
(* again, takes it up again: as long as the panel is in maintenance and     *)
(* nobody's helper is at work, no call says that there is nothing to do.    *)
(***************************************************************************)
RetryGoesOn ==
  [][ \A c \in Calls :
        /\ args[c] # None /\ args[c].tool = "panel_upgrade" /\ remote.down
        /\ \A d \in Calls : remote.run[d].state # "runs"
        => ~(answer[c] = None /\ answer'[c] = "nothing to do")
    ]_callVars
=============================================================================

----------------------------- MODULE PelicanPanel -----------------------------
(***************************************************************************)
(* The Pelican connector's tools that talk to the panel: a server's build   *)
(* and startup environment, allocations, servers, eggs, schedules and       *)
(* files.  Most of the panel's routes replace a whole document, blank what  *)
(* is left out, or overwrite what has the same key, and say nothing of it.  *)
(***************************************************************************)
EXTENDS ToolCall, TLC

CONSTANTS
  EggDefaults,      \* the egg's variables and their defaults, "" for none
  Environments,     \* the variables a caller may supply
  BuildChanges,     \* the changes of a build a caller may ask for
  ScheduleIds,
  PortFloor, PortCeil, MaxPortsPerCall,
  PortSpecs,        \* sets of port ranges a caller may pass
  Servers,          \* the servers a create_server may describe
  EggImports,       \* the imports a caller may ask for
  MaxRedirects,
  Pulls,            \* the downloads a caller may ask for
  Texts,            \* contents of a file that is read
  MaxPages,         \* pages of a list that are read, 50 in the code
  InitialPanels

ASSUME PanelAssumption ==
  /\ DOMAIN EggDefaults \cap {"destroyed", "inside", "http"} = {}
  /\ MaxRedirects \in Nat /\ MaxPages \in Nat \ {0}
  /\ PortFloor \in Nat /\ PortCeil \in Nat /\ MaxPortsPerCall \in Nat
  /\ \A p \in Pulls : p.size \in Nat
  /\ \A text \in Texts : text \in Seq(STRING)
  /\ \A k \in InitialPanels :
       /\ {"system", "topic"} \subseteq DOMAIN k /\ k.system = "pelican"
       /\ k.topic = "files" => /\ {"file", "upstream"} \subseteq DOMAIN k
                               /\ k.file = [size |-> 0] /\ k.upstream = 0

-----------------------------------------------------------------------------
(* Pure parts.                                                               *)

\* The complete environment, None when the egg has no such variable.
buildEnvironment(supplied) ==
  [v \in DOMAIN EggDefaults |->
     IF v \in DOMAIN supplied THEN supplied[v] ELSE EggDefaults[v]]

KnownVariables(supplied) == DOMAIN supplied \subseteq DOMAIN EggDefaults

\* What the panel keeps of an environment it is sent: a variable that is left
\* out is stored empty.
PanelStores(environment) ==
  [v \in DOMAIN EggDefaults |->
     IF v \in DOMAIN environment THEN environment[v] ELSE ""]

\* The ports of all specs, None when one is not acceptable or they are too many.
expandPorts(specs) ==
  LET ports == UNION { s.lo..s.hi : s \in specs }
  IN IF /\ specs # {}
        /\ \A s \in specs : PortFloor <= s.lo /\ s.lo <= s.hi /\ s.hi <= PortCeil
        /\ Cardinality(ports) <= MaxPortsPerCall
     THEN ports ELSE None

\* A path inside a server's volume, given as its segments.
assertVolumePath(segments, allowRoot) ==
  /\ segments = <<>> => allowRoot
  /\ \A i \in DOMAIN segments : segments[i] \notin {"..", ".", "", "control"}

\* A text is a sequence of words and line ends, some of which have a carriage
\* return.  Of the words, "key" is a secret's name with a "=", "flag" an option that
\* takes a secret, "secret" anything else.
LineEnds == {"newline", "crlf"}

OnOneLine(text, k, i) == \A n \in k..i : text[n] \notin LineEnds

\* KV_LINE: a key that stands first on its line, to the end of the line, which its
\* pattern does not reach when there is a carriage return.
AfterKey(text, i) ==
  \E k \in 1..(i - 1) :
    /\ text[k] = "key" /\ (k = 1 \/ text[k - 1] \in LineEnds)
    /\ OnOneLine(text, k, i)
    /\ \A e \in DOMAIN text : e > i /\ text[e] = "crlf" => ~OnOneLine(text, i, e - 1)

\* FLAG_ARG: the one word after a flag.  Of flags in a row every other one is such a
\* word itself.
IsArgument(text, i) ==
  /\ text[i] \notin LineEnds
  /\ \E k \in 1..(i - 1) : /\ \A n \in k..(i - 1) : text[n] = "flag"
                           /\ k = 1 \/ text[k - 1] # "flag"
                           /\ (i - k) % 2 = 1

redactFileLines(text) ==
  [i \in DOMAIN text |->
     IF AfterKey(text, i) \/ IsArgument(text, i) THEN "masked" ELSE text[i]]

\* Mutant: the last `cap` items are cut out before anything is masked.
CutThenRedact(text, cap) ==
  redactFileLines(SubSeq(text, IF Len(text) > cap THEN Len(text) - cap + 1 ELSE 1,
                         Len(text)))

\* What read_file shows of the tail of a text: masked whole, then its last `cap`
\* items.  Without `tail` its first ones are shown, which cuts off no key.
ShownOfFile(text, cap) ==
  SubSeq(redactFileLines(text), IF Len(text) > cap THEN Len(text) - cap + 1 ELSE 1,
         Len(text))

-----------------------------------------------------------------------------
(* The calls the tool schemas accept.  Each uses one of the panel's two API   *)
(* halves, with the key for that half and no other.                           *)

BuildCalls ==
  { [tool |-> "update_server_build", set |-> s] : s \in BuildChanges }

StartupCalls ==
  { [tool |-> t, set |-> e] : t \in {"update_server_startup",
      "update_startup_variables"}, e \in Environments }

ScheduleCalls ==
  { [tool |-> "create_schedule", minute |-> m, task |-> k] :
      m \in {"0", "*"}, k \in {None, "power"} }
  \cup { [tool |-> "update_schedule", id |-> i, set |-> s] : i \in ScheduleIds,
           s \in { [minute |-> "5"], [active |-> FALSE], <<>> } }
  \cup { [tool |-> "delete_schedule", id |-> i, name |-> n] :
           i \in ScheduleIds, n \in {"night", "backup"} }

ProvisionCalls ==
  { [tool |-> "create_server", server |-> s] : s \in Servers }
  \cup { [tool |-> "create_allocations", ports |-> p] : p \in PortSpecs }
  \cup { [tool |-> "assign_allocation"] }

EggCalls == { [tool |-> "import_egg", egg |-> e] : e \in EggImports }

FileOps == {"write_file", "create_folder", "rename_files", "delete_files",
            "decompress_file"}

FileCalls ==
  { [tool |-> "pull_file", pull |-> p] : p \in Pulls }
  \cup { [tool |-> t, path |-> p] : t \in FileOps,
           p \in { <<"world">>, <<"..", "world">>, <<>> } }

PanelReadCalls ==
  { [tool |-> t] : t \in {"list_eggs", "list_nodes", "list_allocations",
      "list_users", "list_servers", "server_details", "server_resources",
      "list_schedules", "list_files", "pelican_snapshot"} }
  \cup { [tool |-> "read_file", cap |-> k] : k \in {1, 2} }

PanelCalls ==
  CASE remote.topic = "build" -> BuildCalls
    [] remote.topic = "startup" -> StartupCalls
    [] remote.topic = "schedules" -> ScheduleCalls
    [] remote.topic = "provision" -> ProvisionCalls
    [] remote.topic = "eggs" -> EggCalls
    [] remote.topic = "files" -> FileCalls
    [] OTHER -> PanelReadCalls

PanelTools == { a.tool : a \in BuildCalls \cup StartupCalls \cup ScheduleCalls
                  \cup ProvisionCalls \cup EggCalls \cup FileCalls
                  \cup PanelReadCalls }

ApplicationTools ==
  {"update_server_build", "update_server_startup", "create_server",
   "create_allocations", "import_egg", "list_eggs", "list_nodes",
   "list_allocations", "list_users", "list_servers", "server_details",
   "pelican_snapshot"}

keyFor(tool) == IF tool \in ApplicationTools THEN "papp" ELSE "pacc"

panelNotReady(c) ==
  /\ Running(c) /\ args[c].tool \in PanelTools
  /\ keyFor(args[c].tool) \notin remote.keys
  /\ Reply(c, "begin", "refused")

Ready(c, tool) == Does(c, tool) /\ keyFor(tool) \in remote.keys

-----------------------------------------------------------------------------
(* Build, startup and schedules: read, merge, write back whole.              *)

\* A value the panel did not report, and the caller did not name, is not
\* guessed, because the route writes what is missing as nothing.
updateServerBuild(c) ==
  LET set == args[c].set IN
  /\ Ready(c, "update_server_build")
  /\ \/ /\ at[c] = "begin"
        /\ IF set = <<>> \/ ~(DOMAIN set \subseteq DOMAIN remote.build)
           THEN Reply(c, "begin", "refused")
           ELSE Learn(c, "begin", remote.build, "have")
     \/ LET whole == Patched(set, got[c]) IN
        /\ at[c] = "have"
        /\ IF \E f \in DOMAIN whole : whole[f] = None
           THEN Reply(c, "have", "refused")
           ELSE Change(c, "have", [remote EXCEPT !.build = whole], {"build"},
                       whole, "put")
     \/ Reply(c, "put", "ok")

\* A variable that is not named keeps its value; a blank one takes its default.
Merged(current, supplied) ==
  LET environment == buildEnvironment(supplied) IN
  [v \in DOMAIN environment |->
     IF v \notin DOMAIN supplied /\ current[v] # "" THEN current[v]
     ELSE environment[v]]

updateServerStartup(c) ==
  LET set == args[c].set IN
  /\ Ready(c, "update_server_startup")
  /\ \/ Learn(c, "begin", remote.env, "have")
     \/ /\ at[c] = "have"
        /\ IF ~remote.included THEN Reply(c, "have", "refused")
           ELSE Move(c, "have", "variables")
     \/ /\ at[c] = "variables"
        /\ IF ~KnownVariables(set) THEN Reply(c, "variables", "refused")
           ELSE LET environment == Merged(got[c], set) IN
                Change(c, "variables",
                       [remote EXCEPT !.env = PanelStores(environment)], {"env"},
                       environment, "put")
     \/ Reply(c, "put", "ok")

\* One request for each variable, in order; the first that fails ends the call,
\* whose message says which ones were set.
updateStartupVariables(c) ==
  LET set == args[c].set IN
  /\ Ready(c, "update_startup_variables")
  /\ \/ /\ at[c] = "begin"
        /\ IF set = <<>> THEN Reply(c, "begin", "refused")
           ELSE Learn(c, "begin", {}, "next")
     \/ /\ at[c] = "next"
        /\ \E v \in (DOMAIN set \cap DOMAIN EggDefaults) \ got[c] :
             /\ remote' = [remote EXCEPT !.env[v] = set[v]]
             /\ got' = Now(got, c, got[c] \cup {v})
             /\ touched' = Now(touched, c, touched[c] \cup {v})
             /\ UNCHANGED <<args, at, sent, answer, edits>>
     \/ /\ at[c] = "next" /\ DOMAIN set \ got[c] # {}
        /\ Reply(c, "next", IF got[c] = {} THEN "error" ELSE "partial")
     \/ at[c] = "next" /\ DOMAIN set \ got[c] = {} /\ Reply(c, "next", "ok")

SchedulesThere == { i \in ScheduleIds : remote.schedules[i] # None }

\* Two requests: the schedule, then the task without which it does nothing.
createSchedule(c) ==
  LET new == [name |-> "night", minute |-> args[c].minute, active |-> TRUE,
              tasks |-> 0]
  IN /\ Ready(c, "create_schedule")
     /\ \/ \E i \in ScheduleIds \ SchedulesThere :
             /\ at[c] = "begin"
             /\ remote' = [remote EXCEPT !.schedules[i] = new]
             /\ got' = Now(got, c, i)
             /\ at' = Now(at, c, "made")
             /\ touched' = Now(touched, c, touched[c] \cup {"schedule"})
             /\ UNCHANGED <<args, sent, answer, edits>>
        \/ at[c] = "made" /\ args[c].task = None /\ Reply(c, "made", "ok")
        \/ /\ at[c] = "made" /\ args[c].task # None
           /\ \/ /\ got[c] \in SchedulesThere
                 /\ Change(c, "made", [remote EXCEPT !.schedules[got[c]].tasks = 1],
                           {"task"}, None, "put")
              \/ Reply(c, "made", "partial")
        \/ Reply(c, "put", "ok")

updateSchedule(c) ==
  LET i == args[c].id IN
  /\ Ready(c, "update_schedule")
  /\ \/ i \in SchedulesThere /\ Learn(c, "begin", remote.schedules[i], "have")
     \/ LET whole == Patched(args[c].set, got[c])
            new == [whole EXCEPT !.tasks = remote.schedules[i].tasks] IN
        /\ at[c] = "have"
        /\ i \in SchedulesThere
        /\ Change(c, "have", [remote EXCEPT !.schedules[i] = new], {"schedule"},
                  whole, "put")
     \/ Reply(c, "put", "ok")

SameSchedule(schedule, expectName) == schedule.name = expectName

deleteSchedule(c) ==
  LET i == args[c].id IN
  /\ Ready(c, "delete_schedule")
  /\ \/ i \in SchedulesThere /\ Learn(c, "begin", remote.schedules[i], "have")
     \/ /\ at[c] = "have"
        /\ IF SameSchedule(got[c], args[c].name)
           THEN /\ i \in SchedulesThere
                /\ Change(c, "have", [remote EXCEPT !.schedules[i] = None],
                          {"schedule"}, None, "put")
           ELSE Reply(c, "have", "refused")
     \/ Reply(c, "put", "ok")

-----------------------------------------------------------------------------
(* Ports and servers.                                                        *)

AllFree(listing, ports) == \A p \in ports : listing[p] = "free"

\* The POST answers nothing, and inserts without asking whether a row exists.
createAllocations(c) ==
  LET ports == expandPorts(args[c].ports) IN
  /\ Ready(c, "create_allocations")
  /\ \/ ports = None /\ Reply(c, "begin", "refused")
     \/ ports # None /\ Learn(c, "begin", remote.alloc, "have")
     \/ /\ at[c] = "have"
        /\ IF \E p \in ports : got[c][p] # "none" THEN Reply(c, "have", "refused")
           ELSE /\ \A p \in ports : remote.alloc[p] = "none"
                /\ Change(c, "have",
                     [remote EXCEPT !.alloc = Patched([p \in ports |-> "free"], @)],
                     {"allocations"}, None, "put")
     \/ /\ at[c] = "put"
        /\ Reply(c, "put", IF \A p \in ports : remote.alloc[p] # "none" THEN "ok"
                           ELSE "partial")

\* The panel chooses from the free pool.
assignAllocation(c) ==
  /\ Ready(c, "assign_allocation")
  /\ \/ \E p \in DOMAIN remote.alloc :
          /\ remote.alloc[p] = "free"
          /\ Change(c, "begin", [remote EXCEPT !.alloc[p] = "used"],
                    {"allocations"}, None, "put")
     \/ Reply(c, "put", "ok")

\* The default allocation, the egg's variables, then each additional allocation
\* are looked up before the one request that takes them all.
createServer(c) ==
  LET s == args[c].server
      ports == {s.default} \cup s.extras
      environment == buildEnvironment(s.set)
  IN
  /\ Ready(c, "create_server")
  /\ \/ /\ at[c] = "begin"
        /\ IF ~remote.owner THEN Reply(c, "begin", "refused")
           ELSE Learn(c, "begin", remote.alloc, "have")
     \/ /\ at[c] = "have"
        /\ IF /\ AllFree(got[c], {s.default})
              /\ remote.included /\ KnownVariables(s.set)
           THEN Learn(c, "have", remote.alloc, "extras")
           ELSE Reply(c, "have", "refused")
     \/ /\ at[c] = "extras"
        /\ IF \/ ~AllFree(got[c], s.extras)
              \/ s.default \in s.extras
              \/ s.limit < Cardinality(ports)
           THEN Reply(c, "extras", "refused")
           ELSE /\ AllFree(remote.alloc, ports)
                /\ Change(c, "extras",
                     [remote EXCEPT !.alloc = Patched([p \in ports |-> "used"], @),
                                    !.env = PanelStores(environment)],
                     {"server"}, environment, "put")
     \/ Reply(c, "put", "ok")

-----------------------------------------------------------------------------
(* Eggs.  The address of an export leads through redirects; each hop is the  *)
(* kind of place it points at.  The panel's importer rewrites an egg that    *)
(* has the same uuid.                                                        *)

\* Public and https: the rule for the address given and for every redirect.
assertEggSourceUrl(hop) == hop = "public"

importEgg(c) ==
  LET egg == args[c].egg
      last == Len(egg.hops)
  IN
  /\ Ready(c, "import_egg")
  /\ \/ Learn(c, "begin", 1, IF last = 0 THEN "content" ELSE "fetch")
     \/ /\ at[c] = "fetch"
        /\ IF \/ ~assertEggSourceUrl(egg.hops[got[c]])
              \/ got[c] - 1 > MaxRedirects
           THEN Reply(c, "fetch", "refused")
           ELSE Change(c, "fetch", remote, {egg.hops[got[c]]}, None, "answered")
     \/ at[c] = "answered" /\ got[c] < last /\ Learn(c, "answered", got[c] + 1, "fetch")
     \/ at[c] = "answered" /\ got[c] = last /\ Move(c, "answered", "content")
     \/ /\ at[c] = "content"
        /\ IF egg.parses THEN Learn(c, "content", remote.eggs, "have")
           ELSE Reply(c, "content", "refused")
     \/ /\ at[c] = "have"
        /\ IF egg.uuid \in got[c] /\ ~egg.overwrite
           THEN Reply(c, "have", "refused")
           ELSE Change(c, "have", [remote EXCEPT !.eggs = @ \cup {egg.uuid}],
                       {IF egg.uuid \in remote.eggs THEN "overwrote" ELSE "imported"},
                       None, "put")
     \/ Reply(c, "put", "ok")

-----------------------------------------------------------------------------
(* Files.  A download is carried out by the panel's agent: `upstream` is the *)
(* size it will end with, `file` what the volume holds of it so far.         *)

PathAllowed(a) ==
  assertVolumePath(a.path, a.tool \in {"create_folder", "rename_files",
                                       "delete_files", "decompress_file"})

fileOperation(c) ==
  /\ Running(c) /\ args[c].tool \in FileOps
  /\ keyFor(args[c].tool) \in remote.keys
  /\ \/ ~PathAllowed(args[c]) /\ Reply(c, "begin", "refused")
     \/ PathAllowed(args[c]) /\ Change(c, "begin", remote, {"files"}, None, "put")
     \/ Reply(c, "put", "ok")

\* The request is answered when the download ends, or the panel gives up
\* waiting while the agent goes on, or the throttle refuses it.
pullFile(c) ==
  /\ Ready(c, "pull_file")
  /\ \/ ~args[c].pull.public /\ Reply(c, "begin", "refused")
     \/ /\ args[c].pull.public /\ at[c] = "begin"
        /\ remote.upstream = remote.file.size
        /\ \/ /\ remote' = [remote EXCEPT !.file = [size |-> args[c].pull.size],
                                         !.upstream = args[c].pull.size]
              /\ got' = Now(got, c, [settled |-> TRUE, last |-> None, stable |-> 0])
           \/ /\ remote' = [remote EXCEPT !.file = [size |-> 0],
                                         !.upstream = args[c].pull.size]
              /\ got' = Now(got, c, [settled |-> FALSE, last |-> None, stable |-> 0])
        /\ touched' = Now(touched, c, touched[c] \cup {"files"})
        /\ at' = Now(at, c, "poll")
        /\ UNCHANGED <<args, sent, answer, edits>>

agentDownloads ==
  /\ remote.file.size < remote.upstream
  /\ remote' = [remote EXCEPT !.file.size = @ + 1]
  /\ UNCHANGED <<args, at, got, sent, answer, touched, edits>>

\* The size must be the one expected, or else the request must have been
\* answered or the size have been the same as at the previous look twice.
Landed(mine, size, expected) ==
  IF expected # None THEN size = expected
  ELSE mine.settled \/ (mine.last = size /\ size > 0 /\ mine.stable >= 1)

\* One look at the listing; a size beyond the expected one, or another one when
\* the download has ended, is an error, and so is the deadline.
waitForFile(c) ==
  LET mine == got[c]
      size == remote.file.size
      expected == args[c].pull.expected
      looked == [mine EXCEPT !.last = size,
                   !.stable = IF mine.last = size /\ size > 0 /\ @ = 0 THEN 1 ELSE @]
  IN /\ Ready(c, "pull_file")
     /\ at[c] = "poll"
     /\ \/ /\ Landed(mine, size, expected) /\ Reply(c, "poll", "ok")
        \/ /\ ~Landed(mine, size, expected)
           /\ IF expected # None /\ (mine.settled \/ size > expected)
              THEN Reply(c, "poll", "error")
              ELSE mine # looked /\ Learn(c, "poll", looked, "poll")

readFile(c) ==
  /\ Ready(c, "read_file")
  /\ \/ \E text \in Texts :
          Learn(c, "begin", [text |-> text, shown |-> ShownOfFile(text, args[c].cap)],
                "have")
     \/ Reply(c, "have", "ok")

-----------------------------------------------------------------------------
\* A list is read page by page until the panel says it was the last one.
list(c) ==
  /\ Running(c)
  /\ args[c].tool \in {a.tool : a \in PanelReadCalls}
       \ {"read_file", "pelican_snapshot"}
  /\ keyFor(args[c].tool) \in remote.keys
  /\ \/ Learn(c, "begin", 1, "list")
     \/ /\ at[c] = "list"
        /\ IF got[c] < remote.pages /\ got[c] < MaxPages
           THEN Learn(c, "list", got[c] + 1, "list")
           ELSE Reply(c, "list", "ok")

\* Schedules are read with the other key and may be left out.
pelicanSnapshot(c) ==
  /\ Ready(c, "pelican_snapshot")
  /\ \/ Learn(c, "begin", {"servers", "nodes", "eggs"}, "have")
     \/ \E scheds \in SUBSET {"schedules"} :
          /\ scheds # {} => keyFor("list_schedules") \in remote.keys
          /\ Learn(c, "have", got[c] \cup scheds, "put")
     \/ Reply(c, "put", "ok")

\* Somebody works in the panel's own interface.
panelEdit ==
  \/ /\ remote.topic = "build"
     /\ \E f \in DOMAIN remote.build : Edit([remote EXCEPT !.build[f] = 9])
  \/ /\ remote.topic = "startup"
     /\ \E v \in DOMAIN EggDefaults : Edit([remote EXCEPT !.env[v] = "edited"])
  \/ /\ remote.topic = "schedules"
     /\ \E i \in SchedulesThere :
          \/ Edit([remote EXCEPT !.schedules[i] = None])
          \/ Edit([remote EXCEPT !.schedules[i].name = "backup"])
  \/ /\ remote.topic = "provision"
     /\ \E p \in DOMAIN remote.alloc, s \in {"none", "used"} :
          Edit([remote EXCEPT !.alloc[p] = s])
  \/ /\ remote.topic = "eggs"
     /\ \E a \in EggImports : Edit([remote EXCEPT !.eggs = {a.uuid}])

PelicanPanelStep(c) ==
  \/ (remote.topic \in {"files", "reads"} => Alone(c)) /\ Begin(c, PanelCalls)
  \/ panelNotReady(c)
  \/ updateServerBuild(c)
  \/ updateServerStartup(c)
  \/ updateStartupVariables(c)
  \/ createSchedule(c)
  \/ updateSchedule(c)
  \/ deleteSchedule(c)
  \/ createAllocations(c)
  \/ assignAllocation(c)
  \/ createServer(c)
  \/ importEgg(c)
  \/ fileOperation(c)
  \/ pullFile(c)
  \/ waitForFile(c)
  \/ readFile(c)
  \/ list(c)
  \/ pelicanSnapshot(c)
  \/ Breaks(c, PanelTools)

PelicanPanelInit == remote \in InitialPanels
=============================================================================

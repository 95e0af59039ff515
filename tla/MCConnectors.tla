----------------------------- MODULE MCConnectors -----------------------------
(***************************************************************************)
(* Values for the constants of Connectors: two calls at a time, one edit    *)
(* made meanwhile, two of everything a call may confuse with another.       *)
(***************************************************************************)
EXTENDS Connectors

\* --- UniFi: ports 1..12, 5 is never forwarded.
MCRuleIds == {"r1", "r2"}
MCPrivateHosts == {"nas", "box"}
MCProtectedHosts == {"box"}
MCDeniedPorts == {5}
Ports(lo, hi) == [lo |-> lo, hi |-> hi]
Rule(name, proto, wan, fwd, lan, enabled) ==
  [name |-> name, proto |-> proto, wan |-> wan, fwd |-> fwd, lan |-> lan,
   enabled |-> enabled]
MCNewRules ==
  { Rule("game", "udp", Ports(7, 8), "nas", Ports(7, 8), TRUE),
    Rule("wide", "tcp_udp", Ports(4, 6), "nas", Ports(9, 9), TRUE),
    Rule("core", "tcp", Ports(9, 9), "box", Ports(9, 9), TRUE) }
MCRulePatches ==
  { [enabled |-> FALSE], [wan |-> Ports(3, 9)], [fwd |-> "box", enabled |-> FALSE],
    [name |-> "game"] }
MCRuleRefs == {"r1", "game"}
MCForwardExpectations ==
  { [wan |-> Ports(7, 8), fwd |-> "nas"], [wan |-> Ports(3, 9), fwd |-> "nas"] }
Settings(usg, rsyslogd) ==
  [system |-> "unifi", topic |-> "settings", cred |-> "key",
   net |-> [mode |-> "none", ra |-> FALSE, secret |-> "key", rest |-> 0],
   usg |-> usg, rsyslogd |-> rsyslogd]
MCInitialControllers ==
  { Settings([upnp |-> "on", sch |-> n, accounting |-> "off", rest |-> 0],
             [syslog |-> "lan", netconsole |-> n, rest |-> 0]) :
      n \in {"off", "missing"} }
  \cup
  { [system |-> "unifi", topic |-> t, cred |-> k, live |-> TRUE,
     net |-> [mode |-> "none", secret |-> "key"],
     gateways |-> {"gw"}, rules |-> [r \in MCRuleIds |->
       IF r = "r1" THEN Rule("game", "tcp", Ports(7, 8), "nas", w, TRUE) ELSE None]] :
     w \in {Ports(7, 8), Ports(4, 5)}, <<t, k>> \in
       { <<"forwards", "login">>, <<"reads", "login">>, <<"reads", "absent">>,
         <<"reads", "bad">> } }

\* --- Portainer: frames of up to two bytes.
MCLogStreams == UNION { [1..n -> {0, 1, 2, Byte, Lead, Trail}] : n \in 0..4 }

\* --- Proxmox
Guest(name, node) == [name |-> name, node |-> node, state |-> "running"]
MCInitialGuests ==
  { ("100" :> Guest("db", "n1")) @@ ("101" :> g) :
      g \in {None, Guest("web", "n1")} }

\* --- Home Assistant
MCPaths ==
  LET names == {"states", "..", "webhook", "%"}
  IN { <<Seg("api", 0)>> \o rest : rest \in
         { <<>>, <<Seg("", 0), Seg("states", 0)>> }
         \cup { <<Seg("states", 0), Seg("..", k), Seg("webhook", 0)>> : k \in 0..2 }
         \cup { <<Seg("webhook", 0)>> \o out \o <<Seg("states", 0)>> : out \in
                  { <<Seg("..", k)>> : k \in 0..2 } \cup
                  { <<Seg(n, 2), Seg("..", 0)>> : n \in {"", "."} } }
         \cup { <<Seg(n, k)>> : n \in names, k \in 0..2 } }
MCBodies == UNION { [1..n -> {1, 2}] : n \in 0..2 }

\* --- Pelican
MCEggDefaults == [APP_ID |-> "440", PASSWORD |-> ""]
MCEnvironments ==
  { <<>>, [APP_ID |-> "1"], [PASSWORD |-> "x"], [APP_ID |-> "1", PASSWORD |-> "x"],
    [OTHER |-> "1"] }
MCBuildChanges == { <<>>, [memory |-> 2], [memory |-> 2, disk |-> 2], [other |-> 2] }
MCPortSpecs == { {}, {Ports(1, 2)}, {Ports(2, 2), Ports(3, 3)}, {Ports(1, 3)},
                 {Ports(0, 1)}, {Ports(2, 1)} }
NewServer(default, extras, limit, set) ==
  [default |-> default, extras |-> extras, limit |-> limit, set |-> set]
MCServers ==
  { NewServer(1, {}, 1, <<>>), NewServer(1, {2}, 2, [PASSWORD |-> "x"]),
    NewServer(1, {2}, 1, <<>>), NewServer(1, {1}, 2, <<>>),
    NewServer(2, {}, 1, [OTHER |-> "x"]) }
Egg(hops, uuid, overwrite, parses) ==
  [hops |-> hops, uuid |-> uuid, overwrite |-> overwrite, parses |-> parses]
MCEggImports ==
  { Egg(<<>>, u, o, TRUE) : u \in {"a", "b"}, o \in BOOLEAN }
  \cup { Egg(<<>>, "a", FALSE, FALSE), Egg(<<"public">>, "a", FALSE, TRUE),
         Egg(<<"public", "inside">>, "a", FALSE, TRUE), Egg(<<"http">>, "a", FALSE, TRUE),
         Egg(<<"public", "public", "public">>, "a", FALSE, TRUE) }
MCPulls ==
  { [size |-> n, expected |-> e, public |-> TRUE] : n \in 1..2, e \in {None, 1, 2} }
  \cup { [size |-> 1, expected |-> None, public |-> FALSE] }
MCTexts ==
  UNION { [1..n -> {"key", "flag", "secret", "newline", "crlf"}] : n \in 0..3 }
Panel(topic, more) ==
  more @@ [system |-> "pelican", topic |-> topic, keys |-> {"papp", "pacc"}]
MCInitialPanels ==
  { Panel("build", [build |-> [memory |-> 1, disk |-> d, cpu |-> 1]]) :
      d \in {1, None} }
  \cup { Panel("startup", [env |-> [APP_ID |-> v, PASSWORD |-> "x"], included |-> i]) :
           v \in {"", "9"}, i \in BOOLEAN }
  \cup { Panel("schedules", [schedules |->
           ("s1" :> [name |-> "night", minute |-> "0", active |-> TRUE, tasks |-> 1])
           @@ ("s2" :> None)]) }
  \cup { Panel("provision", [owner |-> o, included |-> TRUE, env |-> <<>>,
           alloc |-> <<a, "free", "none">>]) :
           o \in BOOLEAN, a \in {"free", "none"} }
  \cup { Panel("eggs", [eggs |-> e]) : e \in { {}, {"a"} } }
  \cup { Panel("files", [file |-> [size |-> 0], upstream |-> 0]) }
  \cup { [Panel("reads", [pages |-> p]) EXCEPT !.keys = k] :
           p \in 1..2, k \in { {"papp"}, {"papp", "pacc"} } }

\* --- The panel's host
Token(op, v) == [op |-> op, v |-> v]
MCRequirements ==
  { { {Token("^", <<8, 4>>)}, {Token("^", <<9>>)} },
    { {Token("~", <<8, 3, 0>>)} },
    { {Token(">=", <<8, 2>>), Token("<", <<8, 4>>)} },
    { {Token(">=", <<8, 2>>), Token("upto", <<8, 3>>)} },
    { {Token("*", <<8, 4>>)}, {Token("!=", <<8, 3>>)} } }
Host(requirement, php, github, helper) ==
  [system |-> "host", installed |-> 1, down |-> FALSE, php |-> <<8, php, 1>>,
   socket |-> php, bak |-> None, requires |-> <<{ {Token("^", <<8, 2>>)} }, requirement>>,
   github |-> github, helper |-> helper, reachable |-> TRUE,
   wings |-> 1, prev |-> None, run |-> [c \in Calls |-> Idle]]
MCInitialHosts ==
  { Host(q, 3, TRUE, "ok") : q \in MCRequirements }
  \cup { [Host(q, 3, TRUE, h) EXCEPT !.requires[1] = {{Token("~", <<8, 3, 0>>)}}] :
           q \in { {{Token("^", <<8, 4>>)}} }, h \in {"ok", "sudo"} }
  \cup { Host(q, 3, FALSE, "ok") : q \in { {{Token("^", <<8>>)}} } }
  \cup { [Host(q, 3, TRUE, "ok") EXCEPT !.reachable = FALSE] :
           q \in { {{Token("^", <<8>>)}} } }

\* --- SSH
MCTokens ==
  {"look", "edit", "wipe", "wi\\pe", "-w", ";", "|", "'", "\"", "\\", "$(", ">"}
MCCommandLines == UNION { [1..n -> MCTokens] : n \in 1..3 }

(***************************************************************************)
(* Without the exceptions of the properties of the run: none of these holds. *)
(***************************************************************************)
\* No release runs on a PHP it does not admit.
AlwaysAdmitted ==
  remote.system = "host" => Admits(remote.requires[remote.installed], remote.php)

\* No text, however it is written, makes a command destroy or a read change anything.
NothingByText ==
  \A c \in Calls :
    at[c] # "idle" /\ remote.system \in {"home-assistant", "ssh"} =>
      /\ "destroyed" \notin touched[c]
      /\ args[c].tool \in ReadTools => touched[c] = {}

\* A power signal that is answered "ok" has been carried out by then.
SignalCarriedOut ==
  [][ \A c \in Calls :
        answer[c] # "ok" /\ answer'[c] = "ok" /\ args[c].tool = "white_glove" =>
          IF args[c].signal = "stop" THEN remote.server.state = "offline"
          ELSE remote.server.born > got[c].born
    ]_callVars

\* A download of a size nobody gave is whole when it is answered "ok".
PulledWhole ==
  [][ \A c \in Calls :
        answer[c] # "ok" /\ answer'[c] = "ok" /\ args[c].tool = "pull_file" =>
          args[c].pull.expected # None \/ remote.file.size = remote.upstream
    ]_callVars
=============================================================================

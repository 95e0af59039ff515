-------------------------------- MODULE UniFi --------------------------------
(***************************************************************************)
(* The UniFi connector: port forwards, settings groups and networks of a    *)
(* controller, each of them a document that is read, merged and written     *)
(* back whole, because the controller has no conditional write.             *)
(***************************************************************************)
EXTENDS ToolCall, TLC

CONSTANTS
  RuleIds,          \* ids the controller may give to port-forward rules
  PrivateHosts,     \* destinations that are RFC1918 literals
  ProtectedHosts,   \* hosts of the control plane
  DeniedPorts,      \* ports that are never forwarded
  MaxPort,          \* 65535 in the code
  NewRules,         \* rules a create_port_forward may ask for
  RulePatches,      \* changes an update_port_forward may ask for
  RuleRefs,         \* ids and names a caller may pass
  ForwardExpectations,  \* the port and destination a delete echoes
  InitialControllers

ASSUME UniFiAssumption ==
  /\ IsFiniteSet(RuleIds) /\ MaxPort \in Nat
  /\ DeniedPorts \subseteq 1..MaxPort
  /\ \A k \in InitialControllers :
       /\ {"system", "topic"} \subseteq DOMAIN k /\ k.system = "unifi"
       /\ k.topic = "forwards" => "rules" \in DOMAIN k /\ DOMAIN k.rules = RuleIds

parsePortSpec(spec) == {spec.lo, spec.hi} \subseteq 1..MaxPort /\ spec.lo <= spec.hi

protoOverlaps(a, b) == a = b \/ "tcp_udp" \in {a, b}

isPrivateIPv4(host) == host \in PrivateHosts

\* Mutant: only the two ends of a range are held against the deny-list.
EndsAllowed(rule) ==
  /\ rule.fwd \in PrivateHosts \ ProtectedHosts
  /\ \A spec \in {rule.wan, rule.lan} :
        /\ parsePortSpec(spec)
        /\ {spec.lo, spec.hi} \cap DeniedPorts = {}

assertForwardAllowed(rule) ==
  /\ isPrivateIPv4(rule.fwd)
  /\ rule.fwd \notin ProtectedHosts
  /\ \A spec \in {rule.wan, rule.lan} :
        /\ parsePortSpec(spec)
        /\ \A p \in DeniedPorts : p < spec.lo \/ spec.hi < p

\* The patch can only switch the stored rule off.
isDisableOnlyPatch(current, patch) ==
  /\ "enabled" \in DOMAIN patch /\ ~patch.enabled
  /\ \A f \in DOMAIN patch \ {"enabled"} : current[f] = patch[f]

Stored(rules) == {r \in RuleIds : rules[r] # None}

findPortForward(ref, rules) ==
  IF ref \in Stored(rules) THEN {ref}
  ELSE {r \in Stored(rules) : rules[r].name = ref}

Clash(rules, new) ==
  \E r \in Stored(rules) :
     /\ rules[r].enabled
     /\ protoOverlaps(rules[r].proto, new.proto)
     /\ parsePortSpec(rules[r].wan)
     /\ new.wan.lo <= rules[r].wan.hi /\ rules[r].wan.lo <= new.wan.hi

-----------------------------------------------------------------------------
(* The calls the tool schemas accept.                                        *)

\* The fields of the group `usg` that each feature toggles.
FEATURE_SPECS == [upnp |-> {"upnp"}, offload |-> {"sch", "accounting"}]

Collectors == {"lan", "wan"}

UniFiSettingCalls ==
  { [tool |-> "set_gateway_feature", group |-> "usg",
     set |-> [f \in FEATURE_SPECS[x] |-> e]] :
        x \in DOMAIN FEATURE_SPECS, e \in {"on", "off"} }
  \cup
  { [tool |-> "set_remote_logging", group |-> "rsyslogd",
     set |-> [f \in ch |-> h]] :
        ch \in (SUBSET {"syslog", "netconsole"}) \ {{}},
        h \in Collectors \cup {"off"} }
  \cup
  { [tool |-> "set_network_ipv6",
     set |-> [mode |-> m, ra |-> m # "none"]] : m \in {"none", "pd"} }

UniFiForwardCalls ==
  { [tool |-> "create_port_forward", rule |-> r] : r \in NewRules }
  \cup { [tool |-> "update_port_forward", ref |-> r, set |-> p] :
            r \in RuleRefs, p \in RulePatches }
  \cup { [tool |-> "delete_port_forward", ref |-> r, expect |-> e] :
            r \in RuleRefs, e \in ForwardExpectations }
  \cup { [tool |-> "force_provision", device |-> d] :
            d \in {None, "gw", "ap", "other"} }

UniFiReadCalls ==
  { [tool |-> t] : t \in {"list_devices", "list_networks",
       "list_port_forwards", "get_settings", "unifi_snapshot"} }

UniFiCalls ==
  CASE remote.topic = "settings" -> UniFiSettingCalls
    [] remote.topic = "forwards" -> UniFiForwardCalls
    [] OTHER -> UniFiReadCalls

UniFiTools == { a.tool : a \in UniFiSettingCalls \cup UniFiForwardCalls
                                 \cup UniFiReadCalls }

-----------------------------------------------------------------------------
(* The handlers.                                                             *)

\* The first request resolves the API prefix: an API key is tried under both
\* prefixes and is never given up for the login, which learns the prefix from
\* the endpoint that exists.  A key neither prefix accepts fails later on.
ensureReady == remote.cred \in {"key", "login"}

unifiNotReady(c) ==
  /\ Running(c) /\ args[c].tool \in UniFiTools
  /\ ~ensureReady
  /\ Reply(c, "begin", IF remote.cred = "absent" THEN "refused" ELSE "error")

setNetworkIpv6(c) ==
  /\ Does(c, "set_network_ipv6")
  /\ \/ ensureReady /\ Learn(c, "begin", remote.net, "have")
     \/ LET updated == Patched(args[c].set, got[c])
        IN Change(c, "have", [remote EXCEPT !.net = updated], {"net"},
                  updated, "put")
     \/ Reply(c, "put", "ok")

(***************************************************************************)
(* Rewrites a settings group: read it, check that the fields to change have *)
(* the expected shape, read it again and give up if it differs, write it    *)
(* whole, and read it once more to see that the change held.                *)
(***************************************************************************)
\* Mutant: the second look is not compared with the first.
NeverDrifted(seen) == FALSE

Drifted(seen) == seen.last # seen.first

Held(doc, change) == \A f \in DOMAIN change : doc[f] = change[f]

RewriteGroup(c) ==
  LET doc == remote[args[c].group]
      change == args[c].set
      updated == Patched(change, got[c].first)
  IN \/ ensureReady /\ Learn(c, "begin", [first |-> doc, last |-> doc], "have")
     \/ /\ at[c] = "have"
        /\ IF \E f \in DOMAIN change : got[c].first[f] = "missing"
           THEN Reply(c, "have", "refused")
           ELSE Learn(c, "have", [got[c] EXCEPT !.last = doc], "fresh")
     \/ /\ at[c] = "fresh"
        /\ IF Drifted(got[c])
           THEN Reply(c, "fresh", "refused")
           ELSE Change(c, "fresh", [remote EXCEPT ![args[c].group] = updated],
                       {"group"}, updated, "put")
     \/ Reply(c, "put", IF Held(doc, change) THEN "ok" ELSE "error")

setGatewayFeature(c) == Does(c, "set_gateway_feature") /\ RewriteGroup(c)

\* The collector must be a LAN address; turning the channels off names none.
setRemoteLogging(c) ==
  /\ Does(c, "set_remote_logging")
  /\ IF \E f \in DOMAIN args[c].set : args[c].set[f] = "wan"
     THEN Reply(c, "begin", "refused")
     ELSE RewriteGroup(c)

createPortForward(c) ==
  LET new == args[c].rule IN
  /\ Does(c, "create_port_forward")
  /\ \/ ~assertForwardAllowed(new) /\ Reply(c, "begin", "refused")
     \/ /\ assertForwardAllowed(new) /\ ensureReady
        /\ Learn(c, "begin", remote.rules, "have")
     \/ /\ at[c] = "have"
        /\ IF \/ \E r \in Stored(got[c]) : got[c][r].name = new.name
              \/ Clash(got[c], new)
           THEN Reply(c, "have", "refused")
           ELSE \E r \in RuleIds \ Stored(remote.rules) :
                  Change(c, "have",
                         [remote EXCEPT !.rules[r] = new, !.live = FALSE],
                         {"rule"}, None, "put")
     \/ Reply(c, "put", "ok")

updatePortForward(c) ==
  /\ Does(c, "update_port_forward")
  /\ \/ ensureReady /\ Learn(c, "begin", remote.rules, "have")
     \/ LET found == findPortForward(args[c].ref, got[c])
            patch == args[c].set
        IN /\ at[c] = "have"
           /\ \/ /\ Cardinality(found) # 1
                 /\ Reply(c, "have", "refused")
              \/ \E r \in found :
                   LET updated == Patched(patch, got[c][r]) IN
                   /\ Cardinality(found) = 1
                   /\ IF \/ isDisableOnlyPatch(got[c][r], patch)
                         \/ assertForwardAllowed(updated)
                      THEN /\ r \in Stored(remote.rules)
                           /\ Change(c, "have",
                                [remote EXCEPT !.rules[r] = updated,
                                               !.live = FALSE],
                                {"rule"}, updated, "put")
                      ELSE Reply(c, "have", "refused")
     \/ Reply(c, "put", "ok")

\* Mutant: the rule is deleted by its id or name alone.
AnyForward(rule, expect) == TRUE

ExpectedForward(rule, expect) ==
  rule.wan = expect.wan /\ rule.fwd = expect.fwd

deletePortForward(c) ==
  /\ Does(c, "delete_port_forward")
  /\ \/ ensureReady /\ Learn(c, "begin", remote.rules, "have")
     \/ LET found == findPortForward(args[c].ref, got[c])
        IN /\ at[c] = "have"
           /\ IF /\ Cardinality(found) = 1
                 /\ \A r \in found : ExpectedForward(got[c][r], args[c].expect)
              THEN \E r \in found :
                     /\ r \in Stored(remote.rules)
                     /\ Change(c, "have",
                          [remote EXCEPT !.rules[r] = None, !.live = FALSE],
                          {"rule"}, None, "put")
              ELSE Reply(c, "have", "refused")
     \/ Reply(c, "put", "ok")

\* The device that re-applies its stored configuration is the one matched, or
\* the only gateway; anything ambiguous is refused.
forceProvision(c) ==
  LET matches == IF args[c].device = None THEN remote.gateways
                 ELSE { d \in remote.gateways \cup {"ap"} : d = args[c].device }
  IN /\ Does(c, "force_provision")
     /\ \/ ensureReady /\ Learn(c, "begin", matches, "have")
        \/ /\ at[c] = "have"
           /\ IF Cardinality(got[c]) # 1 THEN Reply(c, "have", "refused")
              ELSE Change(c, "have",
                     [remote EXCEPT !.live = @ \/ got[c] \subseteq remote.gateways],
                     {}, None, "put")
        \/ Reply(c, "put", "ok")

\* A read tool shows the document without the fields named like secrets.
redactSecrets(doc) == [f \in DOMAIN doc \ {"secret"} |-> doc[f]]

unifiReads(c) ==
  /\ Running(c)
  /\ args[c].tool \in {"list_devices", "list_networks", "list_port_forwards",
                       "get_settings"}
  /\ \/ ensureReady /\ Learn(c, "begin", redactSecrets(remote.net), "have")
     \/ Reply(c, "have", "ok")

\* The references always land; the controller's own backup is best effort.
unifiSnapshot(c) ==
  /\ Does(c, "unifi_snapshot")
  /\ \/ ensureReady /\ Learn(c, "begin", {"references"}, "have")
     \/ \E backup \in SUBSET {"backup.unf"} :
          Learn(c, "have", got[c] \cup backup, "put")
     \/ Reply(c, "put", "ok")

\* Somebody works in the controller's own interface: on another field of a
\* group or a network, on the same field, or on a rule.
unifiEdit ==
  \/ /\ remote.topic = "settings"
     /\ \/ \E g \in {"usg", "rsyslogd", "net"} :
             Edit([remote EXCEPT ![g].rest = 1])
        \/ Edit([remote EXCEPT !.usg.upnp = "off", !.rsyslogd.syslog = "off"])
  \/ /\ remote.topic = "forwards"
     /\ \E r \in Stored(remote.rules) :
          \/ Edit([remote EXCEPT !.rules[r] = None])
          \/ Edit([remote EXCEPT !.rules[r].wan = [lo |-> 3, hi |-> 9]])

UniFiStep(c) ==
  \/ (remote.topic = "reads" => Alone(c)) /\ Begin(c, UniFiCalls)
  \/ unifiNotReady(c)
  \/ setNetworkIpv6(c)
  \/ setGatewayFeature(c)
  \/ setRemoteLogging(c)
  \/ createPortForward(c)
  \/ updatePortForward(c)
  \/ deletePortForward(c)
  \/ forceProvision(c)
  \/ unifiReads(c)
  \/ unifiSnapshot(c)
  \/ Breaks(c, UniFiTools)

UniFiInit == remote \in InitialControllers

-----------------------------------------------------------------------------
(* What the rest of the connectors state as well, in terms of a controller.  *)

\* What the document a call wrote back looked like when it last read it.
UniFiBase(c) ==
  CASE args[c].tool = "set_network_ipv6" -> got[c]
    [] args[c].tool = "update_port_forward" ->
         got[c][CHOOSE r \in findPortForward(args[c].ref, got[c]) : TRUE]
    [] OTHER -> got[c].last

\* No port of either range is denied and the destination is a LAN host that
\* is not part of the control plane.
SafeForward(rule) ==
  /\ rule.fwd \in PrivateHosts \ ProtectedHosts
  /\ (rule.wan.lo..rule.wan.hi) \cap DeniedPorts = {}
  /\ (rule.lan.lo..rule.lan.hi) \cap DeniedPorts = {}
=============================================================================

SPECIFICATION ConnectorsSpec
INVARIANTS KeepsTheRest   PausedIsAccounted ShownFaithfully
PROPERTIES ForwardsScreened OnlyWhatWasNamed SuccessIsReal
CONSTANTS
  Calls = {c1, c2}
  MaxEdits = 1
  None = None
  Systems = {"unifi", "portainer", "proxmox", "home-assistant", "uptime-kuma", "pelican", "host", "ssh"}
  RuleIds <- MCRuleIds
  PrivateHosts <- MCPrivateHosts
  ProtectedHosts <- MCProtectedHosts
  DeniedPorts <- MCDeniedPorts
  MaxPort = 12
  NewRules <- MCNewRules
  RulePatches <- MCRulePatches
  RuleRefs <- MCRuleRefs
  ForwardExpectations <- MCForwardExpectations
  InitialControllers <- MCInitialControllers
  StackIds = {"k1", "k2"}
  StackNames = {"media", "dns"}
  LogStreams <- MCLogStreams
  Vmids = {"100", "101"}
  Nodes = {"n1", "n2"}
  GuestNames = {"db", "web"}
  InitialGuests <- MCInitialGuests
  Paths <- MCPaths
  Bodies <- MCBodies
  MaxBytes = 3
  Monitors = {1, 2}
  OldHandle = old
  MaxPolls = 2
  EggDefaults <- MCEggDefaults
  Environments <- MCEnvironments
  BuildChanges <- MCBuildChanges
  ScheduleIds = {"s1", "s2"}
  PortFloor = 1
  PortCeil = 3
  MaxPortsPerCall = 2
  PortSpecs <- MCPortSpecs
  Servers <- MCServers
  EggImports <- MCEggImports
  MaxRedirects = 1
  Pulls <- MCPulls
  Texts <- MCTexts
  MaxPages = 2
  InitialPanels <- MCInitialPanels
  InitialHosts <- MCInitialHosts
  CommandLines <- MCCommandLines

SPECIFICATION MCSpec
CONSTANTS
  c1 = c1
  c2 = c2
  c3 = c3
  Client = {c1, c2, c3}
  ClientPolicy <- MCClientPolicy
  GlobalPolicy <- MCGlobalPolicy
  MaxClients = 2
  MaxTime = 7
  MaxGuesses = 6
  MaxGateTime = 4
INVARIANTS LadderResetsClean GlobalBudget Escalates
PROPERTIES CountedOutsideLockout GateReopens
CHECK_DEADLOCK FALSE

SPECIFICATION AlertRulesSpec
CONSTANTS
  NoValue = NoValue
  Users = {u1}
  MaxFaults = 0
  Slots = {s1, s2}
  RuleIds = {r1, r2}
  MaxActive = 1
  Period = 2
  MaxToggles = 1
  MaxCalling = 1
  NoAge = 4
INVARIANT WithinLimit
CHECK_DEADLOCK FALSE

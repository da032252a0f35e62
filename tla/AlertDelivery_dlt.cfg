SPECIFICATION Spec
CONSTANTS
  w1 = w1 w2 = w2 c1 = c1 c2 = c2 r1 = r1 n1 = n1 n2 = n2 e1 = e1 e2 = e2 e3 = e3
  NoWorker = NoWorker NoEvent = NoEvent
  Workers = {w1}
  Calls = {c1}
  Rules = {r1}
  News = {n1, n2}
  Events = {e1, e3}
  RuleOf <- DistinctRule
  NewsOf <- DistinctNews
  Cooldown <- CooldownTwo
  RetryAttempts = 3
  InsertAttempts = 5
  TicksPerSecond = 1
  MaxCopies = 1
  MaxFaults = 1
  MaxCrashes = 0
  MaxTime = 0
INVARIANT ExhaustedIsDeadLettered
CHECK_DEADLOCK FALSE

SPECIFICATION Spec
CONSTANTS
  w1 = w1 w2 = w2 c1 = c1 c2 = c2 r1 = r1 n1 = n1 n2 = n2 e1 = e1 e2 = e2 e3 = e3
  NoWorker = NoWorker NoEvent = NoEvent
  Workers = {w1, w2}
  Calls = {c1, c2}
  Rules = {r1}
  News = {n1}
  Events = {e1, e2}
  RuleOf <- TwoEventsRule
  NewsOf <- TwoEventsNews
  Cooldown <- CooldownTwo
  RetryAttempts = 3
  InsertAttempts = 2
  TicksPerSecond = 1
  MaxCopies = 2
  MaxFaults = 2
  MaxCrashes = 1
  MaxTime = 0
SYMMETRY FaultSymmetry
INVARIANTS TypeOK OneAlertPerPair StatusTruthful DeadLettersExhausted
PROPERTY KeepsPromise
CHECK_DEADLOCK FALSE

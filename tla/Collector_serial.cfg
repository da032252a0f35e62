SPECIFICATION FairSpec
CONSTANTS
  r1 = r1 r2 = r2 s1 = s1 s2 = s2 u1 = u1 u2 = u2 NoSource = NoSource
  Sources = {s1,s2}
  Urls = {u1}
  Feed <- OneHasNews
  Rounds = {r1}
  MaxWorkers = 1
  MaxErrCount = 1
  Second = 3
  Minute = 3
  RedisRetries = 1
  Interval = 6
  DedupTTL = 9
  BaseBackoff = 2
  MaxBackoff = 5
  MaxTime = 7
  MaxFaults = 0
  MaxCrashes = 0
PROPERTIES IntervalKept BackoffDoubles RoundsEnd
CHECK_DEADLOCK FALSE

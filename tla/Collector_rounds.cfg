SPECIFICATION Spec
CONSTANTS
  r1 = r1 r2 = r2 s1 = s1 s2 = s2 u1 = u1 u2 = u2 NoSource = NoSource
  Sources = {s1,s2}
  Urls = {u1}
  Feed <- FeedsShareUrl
  Rounds = {r1,r2}
  MaxWorkers = 1
  MaxErrCount = 1
  Second = 1
  Minute = 1
  RedisRetries = 1
  Interval = 0
  DedupTTL = 1
  BaseBackoff = 1
  MaxBackoff = 2
  MaxTime = 1
  MaxFaults = 1
  MaxCrashes = 1
SYMMETRY SourceSymmetry
INVARIANTS TypeOK PublishedOnce SeenAccounted
CHECK_DEADLOCK FALSE

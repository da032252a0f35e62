SPECIFICATION MCSpec
CONSTANTS
  i1 = i1 i2 = i2 i3 = i3 w1 = w1 w2 = w2 r1 = r1 None = None
  Items = {i1, i2, i3}
  UrlOf <- SharedUrl
  HasContent = {i1}
  Rules = {r1}
  Match <- MatchOne
  Workers = {w1, w2}
  Capacity = 1
  BatchSize = 2
  MaxFaults = 1
  FlushPeriod = 12
  Latency = 1
  InitialBackoff = 1
  MaxBackoff = 8
  MaxTime = 40
INVARIANTS TypeOK OnePlace NoLossWhileRunning RowsSound NoSendOnClosed AlertSurvives
PROPERTIES RunReturns EverythingSaved

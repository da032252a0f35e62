SPECIFICATION RaceSpec
CONSTANTS
  FlushPeriod = 100
  Latency = 0
  InitialBackoff = 3
  MaxBackoff = 24
  MaxTime = 250
INVARIANT AlertSurvives
CHECK_DEADLOCK FALSE

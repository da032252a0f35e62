SPECIFICATION Spec
CONSTANTS
  Ips = {ip1}
  MaxAttempts = 2
  Window = 3
  RedisRetries = 1
  MaxTime = 8
  MaxCalls = 5
  MaxFaults = 0
INVARIANT RefusedWithinWindow
CHECK_DEADLOCK FALSE

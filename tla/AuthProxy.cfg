SPECIFICATION MCSpec
CONSTANTS
  ip1 = ip1 x1 = x1 x2 = x2 q1 = q1 q2 = q2 ann = ann
  Ips = {ip1}
  MaxAttempts = 2
  Window = 2
  RedisRetries = 1
  MaxTime = 5
  MaxCalls = 4
  MaxFaults = 1
  Sessions = {x1, x2}
  IpOf <- OneIp
  MaxKeys = 2
  AccessLife = 5
  SessionLife = 5
  KeyPeriod = 1
  CheckPeriod = 2
  MaxTokens = 2
  Requests = {q1, q2}
  EmailOf <- OneEmail
  MaxFailures = 2
  MaxCrashes = 1
VIEW AuthView
INVARIANTS SlidingWindow LoginsLimited CreatedMeansBoth RowHasAccount AllOrNothing
PROPERTIES   RequestsEnd
CHECK_DEADLOCK FALSE

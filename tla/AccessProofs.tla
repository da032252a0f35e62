---------------------------- MODULE AccessProofs ----------------------------
(***************************************************************************)
(* The counter with a renewed TTL is a sliding window, for every limit and *)
(* window and for any number of errors of Redis; and main-service admits   *)
(* what is valid and refuses what has ended but for the life of a token    *)
(* and the lag of its cache of keys, for any number of sessions and keys   *)
(* and any periods.                                                        *)
(***************************************************************************)
EXTENDS Access, FiniteSetTheorems, TLAPS

USE DEF Never

-----------------------------------------------------------------------------
(* What the log of passes of one IP, the value c of its key and the end e of *)
(* its life have to do with one another at time t.                           *)

\* The limit holds within a log of times.
Spaced(log) == \A i \in 1 .. Len(log) - MaxAttempts : log[i + MaxAttempts] - log[i] >= Window

\* A key that has not expired.
Alive(e, t) == e = Never \/ t < e

\* The first k times of a log are of earlier lives of the key: a window has
\* passed since, and passed before each later time.
Earlier(log, t, k) ==
    \A i \in 1 .. k : /\ log[i] + Window <= t
                      /\ \A j \in k + 1 .. Len(log) : log[i] + Window <= log[j]

\* The other times are of its present life: its value counts them, and it
\* outlives each by a window.
Present(log, c, e, t, k) ==
    Len(log) > k => /\ Alive(e, t) /\ Len(log) - k <= c
                    /\ \A j \in k + 1 .. Len(log) : e = Never \/ log[j] + Window <= e

Split(log, c, e, t, k) ==
    /\ k <= Len(log) /\ Len(log) - k <= MaxAttempts
    /\ Earlier(log, t, k) /\ Present(log, c, e, t, k)

Sliding(log, c, e, t) ==
    /\ \A i \in 1 .. Len(log) : log[i] <= t
    /\ Spaced(log)
    /\ \E k \in Nat : Split(log, c, e, t, k)

IInv == TypeOK /\ \A ip \in Ips : Sliding(passed[ip], count[ip], expireAt[ip], now)

-----------------------------------------------------------------------------
\* The limit and the window are positive.
LEMMA Positive == MaxAttempts \in Nat /\ MaxAttempts >= 1 /\ Window \in Nat /\ Window >= 1
BY LimiterAssumption

USE Positive

\* Appending a natural number.
LEMMA AppendFacts ==
    ASSUME NEW s \in Seq(Nat), NEW e \in Nat
    PROVE  /\ Append(s, e) \in Seq(Nat)
           /\ Len(s) \in Nat /\ Len(Append(s, e)) = Len(s) + 1
           /\ Append(s, e)[Len(s) + 1] = e
           /\ \A i \in 1 .. Len(s) : Append(s, e)[i] = s[i] /\ s[i] \in Nat
OBVIOUS

\* Type correctness of the initial states.
LEMMA TypeInit == Init => TypeOK
BY DEF Init, TypeOK

\* A call leaves a well typed log of calls, and INCR returns a positive number.
LEMMA CallType ==
    ASSUME TypeOK, NEW ip \in Ips, Call(ip)
    PROVE  called' \in [Ips -> Seq(Nat)] /\ Incremented(ip) \in Nat \ {0}
BY AppendFacts DEF TypeOK, Call, Incremented

\* Decide keeps the types.
LEMMA DecideType ==
    ASSUME TypeOK, NEW ip \in Ips, NEW counted, Decide(ip, counted)
    PROVE  passed' \in [Ips -> Seq(Nat)] /\ refused' \in [Ips -> Seq(Nat)]
<1>1. Append(passed[ip], now) \in Seq(Nat) /\ Append(refused[ip], now) \in Seq(Nat)
  BY AppendFacts DEF TypeOK
<1> QED BY <1>1 DEF TypeOK, Decide

\* Every step keeps the types.
LEMMA TypeStep == TypeOK /\ [Next]_vars => TypeOK'
<1> SUFFICES ASSUME TypeOK, [Next]_vars PROVE TypeOK'
  OBVIOUS
<1>1. ASSUME NEW ip \in Ips, Allow(ip) PROVE TypeOK'
  <2>0. PICK n \in 0 .. RedisRetries :
            /\ Call(ip) /\ faults' = faults + n
            /\ count' = [count EXCEPT ![ip] = Incremented(ip) + n]
            /\ Decide(ip, Incremented(ip) + n)
    BY <1>1 DEF Allow
  <2>1. called' \in [Ips -> Seq(Nat)] /\ Incremented(ip) \in Nat /\ n \in Nat
    BY <2>0, CallType, LimiterAssumption
  <2>2. passed' \in [Ips -> Seq(Nat)] /\ refused' \in [Ips -> Seq(Nat)]
    BY <2>0, DecideType
  <2>3. now + Window \in Int /\ now + Window \in 0 .. now + Window /\ faults' \in Nat
    BY <2>0, <2>1 DEF TypeOK
  <2>4. count' \in [Ips -> Nat] /\ expireAt' \in [Ips -> Int]
    BY <1>1, <2>0, <2>1, <2>3 DEF Allow, TypeOK
  <2>5. \A x \in Ips : expireAt'[x] = Never \/ expireAt'[x] \in 0 .. now' + Window
    BY <1>1, <2>3 DEF Allow, TypeOK
  <2> QED BY <1>1, <2>1, <2>2, <2>3, <2>4, <2>5 DEF Allow, TypeOK
<1>2. ASSUME NEW ip \in Ips, AllowError(ip) PROVE TypeOK'
  <2>1. called' \in [Ips -> Seq(Nat)] /\ Incremented(ip) \in Nat
    BY <1>2, CallType DEF AllowError
  <2>2. now + Window \in Int /\ now + Window \in 0 .. now + Window
    BY DEF TypeOK
  <2>3. count' \in [Ips -> Nat]
    <3>1. \A n \in 0 .. RedisRetries : Incremented(ip) + n \in Nat
      BY <2>1, LimiterAssumption
    <3> QED BY <1>2, <3>1 DEF AllowError, TypeOK, key
  <2>4. /\ expireAt' \in [Ips -> Int]
        /\ \A x \in Ips : expireAt'[x] = Never \/ expireAt'[x] \in 0 .. now + Window
    <3>1. \/ UNCHANGED expireAt
          \/ expireAt' = [expireAt EXCEPT ![ip] = IF Live(ip) THEN @ ELSE Never]
          \/ expireAt' = [expireAt EXCEPT ![ip] = now + Window]
      BY <1>2 DEF AllowError, key
    <3>2. CASE UNCHANGED expireAt
      BY <3>2 DEF TypeOK
    <3>3. CASE expireAt' = [expireAt EXCEPT ![ip] = IF Live(ip) THEN @ ELSE Never]
      BY <3>3 DEF TypeOK
    <3>4. CASE expireAt' = [expireAt EXCEPT ![ip] = now + Window]
      BY <2>2, <3>4 DEF TypeOK
    <3> QED BY <3>1, <3>2, <3>3, <3>4
  <2> QED BY <1>2, <2>1, <2>3, <2>4 DEF AllowError, TypeOK
<1>3. CASE Tick
  BY <1>3 DEF Tick, TypeOK, key, calls
<1>4. CASE UNCHANGED vars
  BY <1>4 DEF vars, TypeOK
<1> QED BY <1>1, <1>2, <1>3, <1>4 DEF Next

-----------------------------------------------------------------------------
\* Time passes: a key that dies takes the present life into the earlier ones.
LEMMA TickSlides ==
    ASSUME NEW log \in Seq(Nat), NEW c \in Nat, NEW e \in Int, NEW t \in Nat,
           Sliding(log, c, e, t)
    PROVE  Sliding(log, c, e, t + 1)
<1>1. Len(log) \in Nat /\ \A i \in 1 .. Len(log) : log[i] \in Nat /\ log[i] <= t
  BY DEF Sliding
<1>2. PICK k \in Nat : Split(log, c, e, t, k)
  BY DEF Sliding
<1>3. CASE Alive(e, t + 1) \/ Len(log) = k
  <2>1. Earlier(log, t + 1, k)
    BY <1>1, <1>2 DEF Split, Earlier
  <2>2. Present(log, c, e, t + 1, k)
    BY <1>1, <1>2, <1>3 DEF Split, Present
  <2> QED BY <1>1, <1>2, <2>1, <2>2 DEF Split, Sliding
<1>4. CASE ~Alive(e, t + 1) /\ Len(log) # k
  <2>1. e # Never /\ e <= t + 1 /\ Len(log) > k
    BY <1>1, <1>2, <1>4 DEF Alive, Split
  <2>2. ASSUME NEW j \in 1 .. Len(log) PROVE log[j] + Window <= t + 1
    <3>1. CASE j <= k
      <4>1. j \in 1 .. k
        BY <3>1
      <4> QED BY <1>1, <1>2, <4>1 DEF Split, Earlier
    <3>2. CASE j > k
      <4>1. j \in k + 1 .. Len(log)
        BY <1>1, <3>2
      <4> QED BY <1>1, <1>2, <2>1, <4>1 DEF Split, Present
    <3> QED BY <3>1, <3>2
  <2>3. Split(log, c, e, t + 1, Len(log))
    BY <1>1, <2>2 DEF Split, Earlier, Present
  <2> QED BY <1>1, <2>3 DEF Sliding
<1> QED BY <1>3, <1>4

\* A call without a pass: the count grows and the key lives on, or a new key
\* begins a life without a pass.
LEMMA RefusalSlides ==
    ASSUME NEW log \in Seq(Nat), NEW c \in Nat, NEW e \in Int, NEW t \in Nat,
           Sliding(log, c, e, t), NEW d \in Nat, NEW f \in Int,
           Alive(e, t) => d >= c + 1,
           f = t + Window \/ f = IF Alive(e, t) THEN e ELSE Never
    PROVE  Sliding(log, d, f, t)
<1>1. Len(log) \in Nat /\ \A i \in 1 .. Len(log) : log[i] \in Nat /\ log[i] <= t
  BY DEF Sliding
<1>2. PICK k \in Nat : Split(log, c, e, t, k)
  BY DEF Sliding
<1>3. Present(log, d, f, t, k)
  <2> SUFFICES ASSUME Len(log) > k
               PROVE  /\ Alive(f, t) /\ Len(log) - k <= d
                      /\ \A j \in k + 1 .. Len(log) : f = Never \/ log[j] + Window <= f
    BY DEF Present
  <2>1. /\ Alive(e, t) /\ Len(log) - k <= c
        /\ \A j \in k + 1 .. Len(log) : e = Never \/ log[j] + Window <= e
    BY <1>2 DEF Split, Present
  <2>2. f = t + Window \/ f = e
    BY <2>1
  <2>3. Alive(f, t) /\ Len(log) - k <= d
    BY <1>1, <2>1, <2>2 DEF Alive
  <2>4. ASSUME NEW j \in k + 1 .. Len(log) PROVE f = Never \/ log[j] + Window <= f
    <3>1. j \in 1 .. Len(log)
      BY <1>1
    <3> QED BY <1>1, <2>1, <2>2, <3>1
  <2> QED BY <2>3, <2>4
<1> QED BY <1>2, <1>3 DEF Split, Sliding

\* A pass: its time is added to the present life, which the count still bounds.
LEMMA PassSlides ==
    ASSUME NEW log \in Seq(Nat), NEW c \in Nat, NEW e \in Int, NEW t \in Nat,
           Sliding(log, c, e, t), NEW d \in Nat, d >= 1, d <= MaxAttempts,
           Alive(e, t) => d >= c + 1
    PROVE  Sliding(Append(log, t), d, t + Window, t)
<1> DEFINE n == Len(log)
           more == Append(log, t)
<1>1. n \in Nat /\ \A i \in 1 .. n : log[i] \in Nat /\ log[i] <= t
  BY DEF Sliding
<1>2. Len(more) = n + 1 /\ more[n + 1] = t /\ \A i \in 1 .. n : more[i] = log[i]
  BY AppendFacts
<1>3. PICK k \in Nat : Split(log, c, e, t, k)
  BY DEF Sliding
<1> HIDE DEF n, more
<1>4. k <= n /\ n + 1 - k <= d
  BY <1>1, <1>3 DEF n, Split, Present
<1>5. \A i \in 1 .. n + 1 : more[i] \in Nat /\ more[i] <= t
  BY <1>1, <1>2
<1>6. \A i \in 1 .. k : more[i] + Window <= t
  <2> TAKE i \in 1 .. k
  <2>1. i \in 1 .. n /\ log[i] + Window <= t
    BY <1>1, <1>3, <1>4 DEF Split, Earlier
  <2> QED BY <1>2, <2>1
<1>7. Earlier(more, t, k)
  <2> SUFFICES ASSUME NEW i \in 1 .. k, NEW j \in k + 1 .. n + 1
               PROVE  more[i] + Window <= more[j]
    BY <1>2, <1>6 DEF Earlier
  <2>1. CASE j = n + 1
    BY <1>2, <1>6, <2>1
  <2>2. CASE j # n + 1
    <3>1. i \in 1 .. n /\ j \in k + 1 .. n /\ j \in 1 .. n
      BY <1>1, <1>4, <2>2
    <3> QED BY <1>2, <1>3, <3>1 DEF n, Split, Earlier
  <2> QED BY <2>1, <2>2
<1>8. Present(more, d, t + Window, t, k)
  <2>1. Alive(t + Window, t)
    BY DEF Alive
  <2>2. \A j \in k + 1 .. n + 1 : more[j] + Window <= t + Window
    BY <1>1, <1>5
  <2> QED BY <1>1, <1>2, <1>4, <2>1, <2>2 DEF Present
<1>9. Spaced(more)
  <2> SUFFICES ASSUME NEW i \in 1 .. n + 1 - MaxAttempts
               PROVE  more[i + MaxAttempts] - more[i] >= Window
    BY <1>1, <1>2 DEF Spaced
  <2>1. CASE i + MaxAttempts <= n
    <3>1. i \in 1 .. n - MaxAttempts /\ i \in 1 .. n /\ i + MaxAttempts \in 1 .. n
      BY <1>1, <2>1
    <3> QED BY <1>2, <3>1 DEF n, Sliding, Spaced
  <2>2. CASE i + MaxAttempts = n + 1
    <3>1. i \in 1 .. k /\ i \in 1 .. n + 1
      BY <1>1, <1>4, <2>2
    <3> QED BY <1>2, <1>5, <1>6, <2>2, <3>1
  <2> QED BY <1>1, <2>1, <2>2
<1>10. Split(more, d, t + Window, t, k)
  BY <1>1, <1>2, <1>4, <1>7, <1>8 DEF Split
<1> QED BY <1>2, <1>5, <1>9, <1>10 DEF more, Sliding

-----------------------------------------------------------------------------
\* The strengthened invariant is inductive.
LEMMA InvStep == IInv /\ [Next]_vars => IInv'
<1> SUFFICES ASSUME IInv, [Next]_vars, NEW ip \in Ips
             PROVE  Sliding(passed'[ip], count'[ip], expireAt'[ip], now')
  BY TypeStep DEF IInv
<1>1. /\ passed[ip] \in Seq(Nat) /\ count[ip] \in Nat /\ expireAt[ip] \in Int /\ now \in Nat
      /\ Sliding(passed[ip], count[ip], expireAt[ip], now)
  BY DEF IInv, TypeOK
<1>2. Alive(expireAt[ip], now) <=> Live(ip)
  BY DEF Alive, Live
<1>3. /\ Incremented(ip) \in Nat /\ Incremented(ip) >= 1
      /\ Alive(expireAt[ip], now) => Incremented(ip) = count[ip] + 1
  BY <1>1, <1>2 DEF Incremented
<1> DEFINE Same == /\ passed'[ip] = passed[ip] /\ count'[ip] = count[ip]
                   /\ expireAt'[ip] = expireAt[ip] /\ now' = now
<1>4. CASE Same
  BY <1>1, <1>4
<1>5. ASSUME NEW caller \in Ips, Allow(caller) \/ AllowError(caller), caller # ip PROVE Same
  BY <1>5 DEF Allow, AllowError, Decide, key, IInv, TypeOK
<1>6. CASE Allow(ip)
  <2> PICK n \in 0 .. RedisRetries :
          /\ count' = [count EXCEPT ![ip] = Incremented(ip) + n]
          /\ Decide(ip, Incremented(ip) + n)
    BY <1>6 DEF Allow
  <2> DEFINE d == Incremented(ip) + n
  <2>1. count'[ip] = d /\ expireAt'[ip] = now + Window /\ now' = now
    BY <1>6 DEF Allow, IInv, TypeOK
  <2>4. d \in Nat /\ d >= 1 /\ (Alive(expireAt[ip], now) => d >= count[ip] + 1)
    BY <1>1, <1>3, LimiterAssumption
  <2>2. CASE d <= MaxAttempts
    <3>1. passed'[ip] = Append(passed[ip], now)
      BY <2>2 DEF Decide, IInv, TypeOK
    <3> HIDE DEF d
    <3> QED BY <1>1, <2>1, <2>2, <2>4, <3>1, PassSlides
  <2>3. CASE ~(d <= MaxAttempts)
    <3>1. passed'[ip] = passed[ip]
      BY <2>3 DEF Decide
    <3>2. now + Window \in Int
      BY <1>1
    <3> HIDE DEF d
    <3> QED BY <1>1, <2>1, <2>4, <3>1, <3>2, RefusalSlides
  <2> QED BY <2>2, <2>3
<1>7. CASE AllowError(ip)
  <2>1. passed'[ip] = passed[ip] /\ now' = now
    BY <1>7 DEF AllowError
  <2>2. \/ Same
        \/ /\ \E n \in 0 .. RedisRetries : count'[ip] = Incremented(ip) + n
           /\ \/ expireAt'[ip] = now + Window
              \/ expireAt'[ip] = IF Alive(expireAt[ip], now) THEN expireAt[ip] ELSE Never
    BY <1>2, <1>7 DEF AllowError, key, IInv, TypeOK
  <2>3. CASE ~Same
    <3>1. expireAt'[ip] \in Int
      BY <1>1, <2>2, <2>3
    <3>2. count'[ip] \in Nat /\ (Alive(expireAt[ip], now) => count'[ip] >= count[ip] + 1)
      BY <1>1, <1>3, <2>2, <2>3, LimiterAssumption
    <3> QED BY <1>1, <2>1, <2>2, <2>3, <3>1, <3>2, RefusalSlides
  <2> QED BY <2>3, <1>4
<1>8. CASE Tick
  BY <1>1, <1>8, TickSlides DEF Tick, key, calls
<1>9. CASE UNCHANGED vars
  BY <1>4, <1>9 DEF vars
<1> QED BY <1>4, <1>5, <1>6, <1>7, <1>8, <1>9 DEF Next

\* The initial states have the strengthened invariant.
LEMMA InvInit == Init => IInv
<1> SUFFICES ASSUME Init, NEW ip \in Ips
             PROVE  Sliding(passed[ip], count[ip], expireAt[ip], now)
  BY TypeInit DEF IInv
<1>1. passed[ip] = <<>> /\ Len(passed[ip]) = 0
  BY DEF Init
<1>2. Split(passed[ip], count[ip], expireAt[ip], now, 0)
  BY <1>1 DEF Split, Earlier, Present
<1> QED BY <1>1, <1>2 DEF Sliding, Spaced

-----------------------------------------------------------------------------
\* Type correctness: in particular, no TTL exceeds the window.
THEOREM LimiterTypeCorrect == Spec => []TypeOK
BY TypeInit, TypeStep, PTL DEF Spec

\* The limiter is a sliding window for every limit, window and number of
\* errors: never do more than MaxAttempts attempts pass in less than Window.
THEOREM LimiterSlides == Spec => []SlidingWindow
<1>1. IInv => SlidingWindow
  BY DEF IInv, Sliding, Spaced, SlidingWindow
<1> QED BY <1>1, InvInit, InvStep, PTL DEF Spec

-----------------------------------------------------------------------------
(* The limiter in front of the login *)

\* A step of Access is a step of the limiter, or none but for a fault elsewhere.
LEMMA LimiterPart ==
    ASSUME [AccessNext]_<<vars, accessVars>>
    PROVE  Next \/ UNCHANGED vars \/ (UNCHANGED <<key, calls, now>> /\ faults' = faults + 1)
<1>1. ASSUME NEW ip \in Ips, Allow(ip) \/ AllowError(ip) PROVE Next
  BY <1>1 DEF Next
<1>2. CASE AttemptStep
  BY <1>1, <1>2 DEF AttemptStep, Attempt
<1>3. CASE LoginStep \/ SessionStep \/ RotationStep
  BY <1>3 DEF LoginStep, SessionStep, RotationStep
<1>4. CASE AccessTick
  BY <1>4 DEF AccessTick, Next
<1>5. CASE MainServiceStep
  <2>1. UNCHANGED <<key, calls, now>>
    BY <1>5 DEF MainServiceStep
  <2>2. faults' = faults \/ faults' = faults + 1
    BY <1>5 DEF MainServiceStep, RefreshKeys, UnaryAuthInterceptor, ValidateJWT, NoKeySet
  <2> QED BY <2>1, <2>2 DEF vars, key, calls
<1> QED BY <1>2, <1>3, <1>4, <1>5 DEF AccessNext

LEMMA LimitInvKeeps == IInv /\ [AccessNext]_<<vars, accessVars>> => IInv'
<1>1. IInv /\ UNCHANGED <<key, calls, now>> /\ faults' = faults + 1 => IInv'
  BY DEF IInv, TypeOK, key, calls, Sliding, Split, Spaced, Earlier, Present, Alive
<1> QED BY <1>1, LimiterPart, InvStep

\* With the logins behind it and main-service beside it, the limiter is still a
\* sliding window.
THEOREM LoginsSlide == AccessSpec => []SlidingWindow
<1>1. AccessInit => IInv
  BY InvInit DEF AccessInit
<1>2. IInv => SlidingWindow
  BY DEF IInv, Sliding, Spaced, SlidingWindow
<1> QED BY <1>1, <1>2, LimitInvKeeps, PTL DEF AccessSpec

-----------------------------------------------------------------------------
(* Sessions and keys *)

\* Of the tokens of a session that has ended, or of a role that was lost, none was
\* issued afterwards.
TokensInv ==
    /\ now \in Nat
    /\ openedAt \in [Sessions -> Int] /\ closedAt \in [Sessions -> Int]
    /\ role \in [Sessions -> {"user", "admin"}] /\ demotedAt \in [Sessions -> Int]
    /\ \A x \in Sessions : openedAt[x] = Never => closedAt[x] = Never
    /\ \A t \in tokens :
          /\ t.session \in Sessions /\ t.expires \in Int /\ t.expires <= now + AccessLife
          /\ closedAt[t.session] # Never => t.expires <= closedAt[t.session] + AccessLife
          /\ t.role # role[t.session] => role[t.session] = "user" /\ t.expires <= demotedAt[t.session] + AccessLife

\* A key that the cache has wrong since time w is due for the next look of the
\* ticker, or a fetch is on its way.
Bounded(w) == IF fetching THEN now <= w + KeyLag ELSE keysDue + CheckPeriod <= w + KeyLag

WrongBounded ==
    keys # NoKeys =>
        /\ keys \subseteq KeyIds
        /\ \A k \in keys : withdrawn[k] # Never => Bounded(withdrawn[k])
        /\ \A k \in KeyIds \ keys : k \in Published => Bounded(introduced[k])

\* The ticker fires within CheckPeriod of the time that the keys are due.
Watched == keys # NoKeys => keysDue # Never /\ (fetching \/ nextCheck <= keysDue + CheckPeriod)

\* What the cache has wrong will be looked at again within its lag.
KeysInv ==
    /\ now \in Nat /\ missed \in Nat /\ hung \in Nat /\ keysDue \in Int /\ nextCheck \in Nat
    /\ fetching \in BOOLEAN
    /\ signing \in KeyIds
    /\ introduced \in [KeyIds -> Int] /\ withdrawn \in [KeyIds -> Int]
    /\ introduced[signing] # Never
    /\ \A t \in tokens : t.key \in KeyIds /\ introduced[t.key] # Never
    /\ now <= nextCheck /\ nextCheck <= now + CheckPeriod /\ keysDue <= now + KeyPeriod
    /\ Watched /\ WrongBounded

LEMMA TokensStart == AccessInit => TokensInv
BY DEF AccessInit, Init, TokensInv

LEMMA LifeType ==
    /\ AccessLife \in Nat /\ SessionLife \in Nat
    /\ KeyPeriod \in Nat /\ KeyPeriod >= 1 /\ CheckPeriod \in Nat /\ CheckPeriod >= 1
BY AccessAssumption

\* The token of Issue is the first that is not yet known, and its session is open.
LEMMA IssueKeeps ==
    ASSUME TokensInv, NEW x \in Sessions, Issue(x), closedAt[x] = Never,
           openedAt' \in [Sessions -> Int], \A y \in Sessions : openedAt'[y] = Never => openedAt[y] = Never,
           UNCHANGED <<closedAt, role, demotedAt, now>>
    PROVE  TokensInv'
<1>1. tokens' = tokens \cup {[session |-> x, role |-> role[x], key |-> signing, expires |-> now + AccessLife]}
  BY DEF Issue
<1>2. ASSUME NEW t \in tokens'
      PROVE  /\ t.session \in Sessions /\ t.expires \in Int /\ t.expires <= now + AccessLife
             /\ closedAt[t.session] # Never => t.expires <= closedAt[t.session] + AccessLife
             /\ t.role # role[t.session] => role[t.session] = "user" /\ t.expires <= demotedAt[t.session] + AccessLife
  <2>1. CASE t \in tokens
    BY <2>1 DEF TokensInv
  <2>2. CASE t = [session |-> x, role |-> role[x], key |-> signing, expires |-> now + AccessLife]
    BY <2>2, LifeType DEF TokensInv
  <2> QED BY <1>1, <2>1, <2>2
<1> QED BY <1>2 DEF TokensInv

\* Logout: every token of the session was issued until now.
LEMMA LogoutKeeps ==
    ASSUME TokensInv, NEW x \in Sessions, Logout(x), UNCHANGED now
    PROVE  TokensInv'
<1>1. /\ openedAt[x] # Never /\ closedAt[x] = Never /\ closedAt' = [closedAt EXCEPT ![x] = now]
      /\ UNCHANGED <<openedAt, role, demotedAt, tokens>>
  BY DEF Logout, Open
<1>2. closedAt' \in [Sessions -> Int] /\ closedAt'[x] = now /\ \A y \in Sessions \ {x} : closedAt'[y] = closedAt[y]
  BY <1>1 DEF TokensInv
<1>3. \A t \in tokens : closedAt'[t.session] # Never => t.expires <= closedAt'[t.session] + AccessLife
  BY <1>2, LifeType DEF TokensInv
<1> QED BY <1>1, <1>2, <1>3 DEF TokensInv

\* So was every token with the role that is taken away.
LEMMA DemoteKeeps ==
    ASSUME TokensInv, NEW x \in Sessions, Demote(x), UNCHANGED now
    PROVE  TokensInv'
<1>1. /\ role[x] = "admin" /\ role' = [role EXCEPT ![x] = "user"] /\ demotedAt' = [demotedAt EXCEPT ![x] = now]
      /\ UNCHANGED <<openedAt, closedAt, tokens>>
  BY DEF Demote
<1>2. /\ role' \in [Sessions -> {"user", "admin"}] /\ demotedAt' \in [Sessions -> Int]
      /\ role'[x] = "user" /\ demotedAt'[x] = now
      /\ \A y \in Sessions \ {x} : role'[y] = role[y] /\ demotedAt'[y] = demotedAt[y]
  BY <1>1 DEF TokensInv
<1>3. \A t \in tokens : t.role # role'[t.session] =>
          role'[t.session] = "user" /\ t.expires <= demotedAt'[t.session] + AccessLife
  BY <1>2, LifeType DEF TokensInv
<1> QED BY <1>1, <1>2, <1>3 DEF TokensInv

\* An attempt at the limiter concerns neither sessions nor keys.
LEMMA AttemptOnly ==
    ASSUME AttemptStep
    PROVE  /\ UNCHANGED <<openedAt, closedAt, refreshBy, role, demotedAt, tokens>>
           /\ UNCHANGED <<keycloakKeys, keyCache, answer, now>>
<1>1. PICK ip \in Ips : Attempt(ip)
  BY DEF AttemptStep
<1>2. UNCHANGED now
  BY <1>1 DEF Attempt, Allow, AllowError
<1>3. HandOn(ip) \/ UNCHANGED accessVars
  BY <1>1 DEF Attempt
<1> QED BY <1>2, <1>3 DEF HandOn, accessVars, sessionVars

LEMMA TokensKeep == TokensInv /\ [AccessNext]_<<vars, accessVars>> => TokensInv'
<1> SUFFICES ASSUME TokensInv, [AccessNext]_<<vars, accessVars>> PROVE TokensInv'
  OBVIOUS
<1>1. CASE UNCHANGED <<sessionVars, now>>
  BY <1>1 DEF sessionVars, TokensInv
<1>2. ASSUME NEW x \in Sessions, OpenSession(x), UNCHANGED now PROVE TokensInv'
  <2>1. openedAt' = [openedAt EXCEPT ![x] = now] /\ openedAt[x] = Never /\ Issue(x) /\ UNCHANGED <<closedAt, role, demotedAt>>
    BY <1>2 DEF OpenSession
  <2>2. closedAt[x] = Never /\ openedAt' \in [Sessions -> Int]
        /\ \A y \in Sessions : openedAt'[y] = Never => openedAt[y] = Never
    BY <2>1 DEF TokensInv
  <2> QED BY <1>2, <2>1, <2>2, IssueKeeps
<1>3. ASSUME NEW x \in Sessions, Refresh(x), UNCHANGED now PROVE TokensInv'
  <2>1. closedAt[x] = Never /\ Issue(x) /\ UNCHANGED <<openedAt, closedAt, role, demotedAt>>
    BY <1>3 DEF Refresh, Open
  <2>2. openedAt' \in [Sessions -> Int]
    BY <2>1 DEF TokensInv
  <2> QED BY <1>3, <2>1, <2>2, IssueKeeps
<1>4. CASE LoginStep
  <2>1. UNCHANGED now
    BY <1>4 DEF LoginStep, vars
  <2>2. ASSUME NEW ip \in Ips, LoginFails(ip) PROVE TokensInv'
    BY <2>1, <2>2 DEF LoginFails, TokensInv
  <2> QED BY <1>2, <1>4, <2>1, <2>2 DEF LoginStep
<1>5. CASE SessionStep
  <2>1. UNCHANGED now
    BY <1>5 DEF SessionStep, vars
  <2> QED BY <1>3, <1>5, <2>1, LogoutKeeps, DemoteKeeps DEF SessionStep
<1>6. CASE RotationStep
  BY <1>1, <1>6 DEF RotationStep, RotateKey, WithdrawKey, vars
<1>7. CASE MainServiceStep
  BY <1>1, <1>7 DEF MainServiceStep, CheckKeys, RefreshKeys, UnaryAuthInterceptor, ValidateJWT, NoKeySet
<1>8. CASE AccessTick
  <2>1. now' = now + 1 /\ UNCHANGED sessionVars
    BY <1>8 DEF AccessTick, Tick
  <2> QED BY <2>1, LifeType DEF TokensInv, sessionVars
<1>9. CASE UNCHANGED <<vars, accessVars>>
  BY <1>1, <1>9 DEF vars, accessVars
<1>10. CASE AttemptStep
  BY <1>10, AttemptOnly DEF TokensInv
<1> QED BY <1>4, <1>5, <1>6, <1>7, <1>8, <1>9, <1>10 DEF AccessNext

-----------------------------------------------------------------------------
LEMMA Lags ==
    ASSUME NEW m \in Nat
    PROVE  /\ (1 + m) * (KeyPeriod + CheckPeriod) \in Nat
           /\ KeyPeriod + CheckPeriod <= (1 + m) * (KeyPeriod + CheckPeriod)
           /\ (1 + (m + 1)) * (KeyPeriod + CheckPeriod) = (1 + m) * (KeyPeriod + CheckPeriod) + KeyPeriod + CheckPeriod
<1> DEFINE span == KeyPeriod + CheckPeriod
<1>0. span \in Nat
  BY LifeType
<1> HIDE DEF span
<1>1. m * span \in Nat
  BY <1>0
<1>2. (1 + m) * span = span + m * span
  BY <1>0
<1>3. (1 + (m + 1)) * span = span + m * span + span
  BY <1>0
<1>4. /\ (1 + m) * span \in Nat /\ span <= (1 + m) * span
      /\ (1 + (m + 1)) * span = (1 + m) * span + span
  BY <1>0, <1>1, <1>2, <1>3
<1>5. span = KeyPeriod + CheckPeriod
  BY DEF span
<1> DEFINE a == (1 + m) * span
           b == (1 + (m + 1)) * span
<1>6. a \in Nat /\ span <= a /\ b = a + span
  BY <1>4
<1> HIDE DEF a, b
<1>7. a \in Nat /\ KeyPeriod + CheckPeriod <= a /\ b = a + KeyPeriod + CheckPeriod
  BY <1>5, <1>6, LifeType
<1> QED BY <1>5, <1>7 DEF a, b

LEMMA LagType ==
    ASSUME missed \in Nat, hung \in Nat
    PROVE  KeyLag \in Nat /\ KeyPeriod + CheckPeriod <= KeyLag
<1>1. KeyLag = (1 + missed) * (KeyPeriod + CheckPeriod) + hung
  BY DEF KeyLag
<1> DEFINE a == (1 + missed) * (KeyPeriod + CheckPeriod)
<1>2. a \in Nat /\ KeyPeriod + CheckPeriod <= a
  BY Lags
<1>3. KeyLag = a + hung
  BY <1>1
<1> HIDE DEF a
<1> QED BY <1>2, <1>3, LifeType

LEMMA KeysStart == AccessInit => KeysInv
<1> SUFFICES ASSUME AccessInit PROVE KeysInv
  OBVIOUS
<1>1. /\ now = 0 /\ missed = 0 /\ hung = 0 /\ keysDue = Never /\ nextCheck = CheckPeriod /\ fetching = FALSE
      /\ keys = NoKeys /\ tokens = {} /\ signing = 1
  BY DEF AccessInit, Init
<1>2. signing \in KeyIds
  BY <1>1, AccessAssumption DEF KeyIds
<1>3. introduced \in [KeyIds -> Int] /\ withdrawn \in [KeyIds -> Int] /\ introduced[signing] # Never
  BY <1>1, <1>2 DEF AccessInit
<1>4. /\ Watched /\ WrongBounded
  BY <1>1 DEF Watched, WrongBounded
<1>5. now <= nextCheck /\ nextCheck <= now + CheckPeriod /\ keysDue <= now + KeyPeriod
  BY <1>1, LifeType
<1>6. \A t \in tokens : t.key \in KeyIds /\ introduced[t.key] # Never
  BY <1>1
<1>7. now \in Nat /\ missed \in Nat /\ hung \in Nat /\ keysDue \in Int /\ nextCheck \in Nat
  BY <1>1, LifeType
<1>8. fetching \in BOOLEAN
  <2>1. fetching = FALSE
    BY <1>1
  <2> QED BY <2>1
<1> QED BY <1>2, <1>3, <1>4, <1>5, <1>6, <1>7, <1>8 DEF KeysInv

\* What is wrong from now on is bounded, and what was bounded stays so.
LEMMA BoundedFromNow ==
    ASSUME KeysInv
    PROVE  KeyLag \in Nat /\ Bounded(now)
<1>1. KeyLag \in Nat /\ KeyPeriod + CheckPeriod <= KeyLag
  BY LagType DEF KeysInv
<1> QED BY <1>1, LifeType DEF KeysInv, Bounded

\* A token is signed with a key that is published.
LEMMA KeysFrame ==
    ASSUME KeysInv, UNCHANGED <<keycloakKeys, keyCache, now>>,
           \A t \in tokens' \ tokens : t.key = signing
    PROVE  KeysInv'
<1>1. \A t \in tokens' : t.key \in KeyIds /\ introduced[t.key] # Never
  BY DEF KeysInv
<1>2. KeyLag' = KeyLag /\ Published' = Published
  BY DEF keycloakKeys, keyCache, Published, KeyLag
<1>3. WrongBounded'
  BY <1>2 DEF KeysInv, WrongBounded, Bounded, keycloakKeys, keyCache
<1> QED BY <1>1, <1>3 DEF KeysInv, Watched, keycloakKeys, keyCache

LEMMA RotateKeeps ==
    ASSUME KeysInv, RotateKey, UNCHANGED <<tokens, keyCache, now>>
    PROVE  KeysInv'
<1>1. /\ signing < MaxKeys /\ signing' = signing + 1 /\ introduced' = [introduced EXCEPT ![signing + 1] = now]
      /\ withdrawn' = withdrawn
  BY DEF RotateKey
<1>2. signing' \in KeyIds
  BY <1>1, AccessAssumption DEF KeysInv, KeyIds
<1>3. /\ introduced' \in [KeyIds -> Int] /\ introduced'[signing'] = now
      /\ \A k \in KeyIds \ {signing'} : introduced'[k] = introduced[k]
  BY <1>1, <1>2 DEF KeysInv
<1>4. \A t \in tokens' : t.key \in KeyIds /\ introduced'[t.key] # Never
  BY <1>3 DEF KeysInv
<1>5. KeyLag' = KeyLag
  BY DEF KeyLag, keyCache
<1>6. ASSUME keys # NoKeys, NEW k \in KeyIds \ keys, k \in Published'
      PROVE  Bounded(introduced'[k])
  <2>1. CASE k = signing'
    BY <1>3, <2>1, BoundedFromNow DEF Bounded
  <2>2. CASE k # signing'
    <3>1. introduced'[k] = introduced[k] /\ k \in Published
      BY <1>1, <1>3, <1>6, <2>2 DEF Published
    <3> QED BY <1>6, <3>1 DEF KeysInv, WrongBounded, Bounded
  <2> QED BY <2>1, <2>2
<1>7. WrongBounded'
  BY <1>1, <1>5, <1>6 DEF KeysInv, WrongBounded, Bounded, keyCache
<1> QED BY <1>1, <1>2, <1>3, <1>4, <1>7 DEF KeysInv, Watched, keyCache

LEMMA WithdrawKeeps ==
    ASSUME KeysInv, NEW k \in KeyIds, WithdrawKey(k), UNCHANGED <<tokens, keyCache, now>>
    PROVE  KeysInv'
<1>1. withdrawn' = [withdrawn EXCEPT ![k] = now] /\ signing' = signing /\ introduced' = introduced
  BY DEF WithdrawKey
<1>2. /\ withdrawn' \in [KeyIds -> Int] /\ withdrawn'[k] = now
      /\ \A j \in KeyIds \ {k} : withdrawn'[j] = withdrawn[j]
  BY <1>1 DEF KeysInv
<1>3. KeyLag' = KeyLag
  BY DEF KeyLag, keyCache
<1>4. Published' \subseteq Published
  BY <1>1, <1>2 DEF Published, KeysInv
<1>5. ASSUME keys # NoKeys, NEW j \in keys, withdrawn'[j] # Never PROVE Bounded(withdrawn'[j])
  BY <1>2, <1>5, BoundedFromNow DEF KeysInv, WrongBounded, Bounded
<1>6. WrongBounded'
  BY <1>1, <1>3, <1>4, <1>5 DEF KeysInv, WrongBounded, Bounded, keyCache
<1> QED BY <1>1, <1>2, <1>6 DEF KeysInv, Watched, keyCache

\* A fetch takes what is published now.
LEMMA FetchKeeps ==
    ASSUME KeysInv, Fetched, fetching' \in BOOLEAN, UNCHANGED <<tokens, keycloakKeys, nextCheck, now>>
    PROVE  KeysInv'
<1>1. Published' = Published /\ Published \subseteq KeyIds /\ \A k \in Published : withdrawn[k] = Never
  BY DEF Published, keycloakKeys
<1>2. keys' = Published /\ keysDue' = now + KeyPeriod /\ missed' = 0 /\ hung' = 0
  BY DEF Fetched
<1>3. WrongBounded'
  BY <1>1, <1>2 DEF WrongBounded, keycloakKeys
<1> QED BY <1>2, <1>3, LifeType DEF KeysInv, Watched, keycloakKeys

\* The ticker fires: what is overdue is fetched, the rest is due at the next time
\* at the latest.
LEMMA CheckKeeps ==
    ASSUME KeysInv, CheckKeys, UNCHANGED now
    PROVE  KeysInv'
<1>1. /\ now = nextCheck /\ nextCheck' = now + CheckPeriod
      /\ fetching' = (fetching \/ (keysDue # Never /\ keysDue < now))
      /\ UNCHANGED <<keys, keysDue, missed, hung, tokens, keycloakKeys>>
  BY DEF CheckKeys, sessionVars
<1>2. KeyLag' = KeyLag /\ Published' = Published /\ KeyLag \in Nat
  BY <1>1, BoundedFromNow DEF Published, keycloakKeys, KeyLag
<1>3. ASSUME keys # NoKeys
      PROVE  /\ \A k \in keys : withdrawn[k] # Never =>
                    IF fetching' THEN now <= withdrawn[k] + KeyLag ELSE keysDue + CheckPeriod <= withdrawn[k] + KeyLag
             /\ \A k \in KeyIds \ keys : k \in Published =>
                    IF fetching' THEN now <= introduced[k] + KeyLag ELSE keysDue + CheckPeriod <= introduced[k] + KeyLag
  <2>1. /\ \A k \in KeyIds : introduced[k] \in Int /\ withdrawn[k] \in Int
        /\ keys \subseteq KeyIds /\ now \in Int /\ keysDue \in Int /\ fetching \in BOOLEAN
        /\ fetching => fetching'
        /\ ~fetching => now <= keysDue + CheckPeriod
    BY <1>1, <1>3 DEF KeysInv, WrongBounded, Watched
  <2> QED BY <1>2, <1>3, <2>1, LifeType DEF KeysInv, WrongBounded, Bounded
<1>4. Watched'
  <2> SUFFICES ASSUME keys # NoKeys PROVE keysDue # Never /\ (fetching' \/ nextCheck' <= keysDue + CheckPeriod)
    BY <1>1 DEF Watched
  <2>1. keysDue # Never /\ (fetching' \/ ~(keysDue < now))
    BY <1>1 DEF KeysInv, Watched
  <2>2. now \in Nat /\ keysDue \in Int /\ CheckPeriod \in Nat
    BY LifeType DEF KeysInv
  <2> QED BY <1>1, <2>1, <2>2
<1>5. WrongBounded'
  BY <1>1, <1>2, <1>3 DEF KeysInv, WrongBounded, Bounded, keycloakKeys
<1>6. fetching' \in BOOLEAN /\ nextCheck' \in Nat /\ now' <= nextCheck' /\ nextCheck' <= now' + CheckPeriod
  BY <1>1, LifeType DEF KeysInv
<1> QED BY <1>1, <1>4, <1>5, <1>6 DEF KeysInv, keycloakKeys

LEMMA RefreshKeysKeeps ==
    ASSUME KeysInv, RefreshKeys, UNCHANGED now
    PROVE  KeysInv'
<1>1. fetching /\ ~fetching' /\ fetching' \in BOOLEAN /\ UNCHANGED <<nextCheck, tokens, keycloakKeys>>
  BY DEF RefreshKeys, sessionVars
<1>2. CASE Fetched
  BY <1>1, <1>2, FetchKeeps
<1>3. CASE missed' = missed + 1 /\ keysDue' = now + KeyPeriod /\ UNCHANGED <<keys, hung>>
  <2>1. KeyLag' = KeyLag + KeyPeriod + CheckPeriod /\ KeyLag \in Nat
    <3> DEFINE a == (1 + missed) * (KeyPeriod + CheckPeriod)
               b == (1 + (missed + 1)) * (KeyPeriod + CheckPeriod)
    <3>1. a \in Nat /\ b = a + KeyPeriod + CheckPeriod /\ hung \in Nat
      BY Lags DEF KeysInv
    <3>2. KeyLag = a + hung /\ KeyLag' = b + hung
      BY <1>3 DEF KeyLag
    <3> HIDE DEF a, b
    <3> QED BY <3>1, <3>2, LifeType
  <2>2. Published' = Published
    BY <1>1 DEF Published, keycloakKeys
  <2>3. /\ \A k \in KeyIds : introduced[k] \in Int /\ withdrawn[k] \in Int
        /\ now \in Int /\ keysDue' + CheckPeriod = now + KeyPeriod + CheckPeriod
        /\ \A w \in Int : now <= w + KeyLag => keysDue' + CheckPeriod <= w + KeyLag'
    BY <1>3, <2>1, LifeType DEF KeysInv
  <2>4. WrongBounded'
    BY <1>1, <1>3, <2>2, <2>3 DEF KeysInv, WrongBounded, Bounded, keycloakKeys
  <2>5. missed' \in Nat /\ keysDue' \in Nat /\ keysDue' <= now' + KeyPeriod /\ nextCheck' <= keysDue' + CheckPeriod
    BY <1>1, <1>3, LifeType DEF KeysInv
  <2> QED BY <1>1, <1>3, <2>4, <2>5 DEF KeysInv, Watched, keycloakKeys
<1> QED BY <1>2, <1>3 DEF RefreshKeys

LEMMA IssueFrame ==
    ASSUME KeysInv, NEW x \in Sessions, Issue(x), UNCHANGED <<keycloakKeys, keyCache, now>>
    PROVE  KeysInv'
<1>1. \A t \in tokens' \ tokens : t.key = signing
  BY DEF Issue
<1> QED BY <1>1, KeysFrame

\* A request fetches the keys if there are none, and changes nothing else.
LEMMA RequestFetches ==
    ASSUME NEW t \in tokens, NEW route \in Routes,
           ValidateJWT(t, route) \/ UnaryAuthInterceptor(t) \/ NoKeySet(t, route)
    PROVE  /\ UNCHANGED <<sessionVars, keycloakKeys, nextCheck, fetching>>
           /\ \/ UNCHANGED keyCache
              \/ keys = NoKeys /\ Fetched
              \/ keys = NoKeys /\ keysDue' \in {keysDue, now + KeyPeriod} /\ UNCHANGED <<keys, missed, hung>>
BY DEF ValidateJWT, UnaryAuthInterceptor, NoKeySet, GetKeySet, keyCache

LEMMA KeysKeep == KeysInv /\ [AccessNext]_<<vars, accessVars>> => KeysInv'
<1> SUFFICES ASSUME KeysInv, [AccessNext]_<<vars, accessVars>> PROVE KeysInv'
  OBVIOUS
<1>1. CASE UNCHANGED <<tokens, keycloakKeys, keyCache, now>>
  BY <1>1, KeysFrame
<1>2. CASE LoginStep
  <2>1. UNCHANGED now
    BY <1>2 DEF LoginStep, vars
  <2>2. ASSUME NEW ip \in Ips, LoginFails(ip) PROVE KeysInv'
    BY <1>1, <2>1, <2>2 DEF LoginFails
  <2>3. ASSUME NEW x \in Sessions, OpenSession(x) PROVE KeysInv'
    BY <2>1, <2>3, IssueFrame DEF OpenSession
  <2> QED BY <1>2, <2>2, <2>3 DEF LoginStep
<1>3. CASE SessionStep
  <2>1. UNCHANGED now
    BY <1>3 DEF SessionStep, vars
  <2>2. ASSUME NEW x \in Sessions, Refresh(x) PROVE KeysInv'
    BY <2>1, <2>2, IssueFrame DEF Refresh
  <2>3. ASSUME NEW x \in Sessions, Logout(x) \/ Demote(x) PROVE KeysInv'
    BY <1>1, <2>1, <2>3 DEF Logout, Demote
  <2> QED BY <1>3, <2>2, <2>3 DEF SessionStep
<1>4. CASE RotationStep
  <2>1. UNCHANGED now
    BY <1>4 DEF RotationStep, vars
  <2>2. CASE RotateKey
    BY <2>1, <2>2, RotateKeeps DEF RotateKey, sessionVars
  <2>3. ASSUME NEW k \in KeyIds, WithdrawKey(k) PROVE KeysInv'
    BY <2>1, <2>3, WithdrawKeeps DEF WithdrawKey, sessionVars
  <2> QED BY <1>4, <2>2, <2>3 DEF RotationStep
<1>5. CASE MainServiceStep
  <2>1. UNCHANGED now
    BY <1>5 DEF MainServiceStep
  <2>2. CASE RefreshKeys
    BY <2>1, <2>2, RefreshKeysKeeps
  <2>3. ASSUME NEW t \in tokens, NEW route \in Routes,
               ValidateJWT(t, route) \/ UnaryAuthInterceptor(t) \/ NoKeySet(t, route)
        PROVE  KeysInv'
    <3>1. UNCHANGED <<tokens, keycloakKeys, nextCheck, fetching>> /\ fetching' \in BOOLEAN
      BY <2>3, RequestFetches DEF sessionVars, KeysInv
    <3>2. CASE UNCHANGED keyCache
      BY <1>1, <2>1, <3>1, <3>2
    <3>3. CASE Fetched
      BY <2>1, <3>1, <3>3, FetchKeeps
    <3>4. CASE keys = NoKeys /\ keysDue' \in {keysDue, now + KeyPeriod} /\ UNCHANGED <<keys, missed, hung>>
      BY <2>1, <3>1, <3>4, LifeType DEF KeysInv, Watched, WrongBounded, keycloakKeys
    <3> QED BY <2>3, <3>2, <3>3, <3>4, RequestFetches
  <2>4. "grpc" \in Routes
    BY DEF Routes
  <2>5. CASE CheckKeys
    BY <2>1, <2>5, CheckKeeps
  <2> QED BY <1>5, <2>2, <2>3, <2>4, <2>5 DEF MainServiceStep
<1>6. CASE AccessTick
  <2>1. /\ now < nextCheck /\ now' = now + 1 /\ hung' = (IF fetching THEN hung + 1 ELSE hung)
        /\ UNCHANGED <<tokens, keycloakKeys, keys, keysDue, nextCheck, fetching, missed>>
    BY <1>6 DEF AccessTick, Tick, sessionVars
  <2>2. Published' = Published
    BY <2>1 DEF Published, keycloakKeys
  <2>3. KeyLag \in Nat /\ KeyLag' = (IF fetching THEN KeyLag + 1 ELSE KeyLag)
    <3> DEFINE a == (1 + missed) * (KeyPeriod + CheckPeriod)
    <3>1. a \in Nat /\ hung \in Nat
      BY Lags DEF KeysInv
    <3>2. KeyLag = a + hung /\ KeyLag' = a + hung'
      BY <2>1 DEF KeyLag
    <3> HIDE DEF a
    <3> QED BY <2>1, <3>1, <3>2
  <2>4. /\ \A k \in KeyIds : introduced[k] \in Int /\ withdrawn[k] \in Int
        /\ now \in Int /\ keysDue \in Int
        /\ \A w \in Int : now <= w + KeyLag /\ fetching => now' <= w + KeyLag'
    BY <2>1, <2>3 DEF KeysInv
  <2>5. WrongBounded'
    BY <2>1, <2>2, <2>3, <2>4 DEF KeysInv, WrongBounded, Bounded, keycloakKeys
  <2>6. hung' \in Nat /\ now' \in Nat /\ now' <= nextCheck' /\ nextCheck' <= now' + CheckPeriod /\ keysDue' <= now' + KeyPeriod
    BY <2>1, LifeType DEF KeysInv
  <2> QED BY <2>1, <2>5, <2>6 DEF KeysInv, Watched, keycloakKeys
<1>7. CASE UNCHANGED <<vars, accessVars>>
  BY <1>1, <1>7 DEF vars, accessVars, sessionVars
<1>8. CASE AttemptStep
  BY <1>1, <1>8, AttemptOnly
<1> QED BY <1>2, <1>3, <1>4, <1>5, <1>6, <1>7, <1>8 DEF AccessNext

-----------------------------------------------------------------------------
\* Only a request is answered, by the cache as it is after the request.
LEMMA AnswerOf ==
    ASSUME [AccessNext]_<<vars, accessVars>>, answer' # answer
    PROVE  \E t \in tokens, route \in Routes :
              /\ ValidateJWT(t, route) \/ UnaryAuthInterceptor(t) \/ NoKeySet(t, route)
              /\ answer'.token = t
              /\ answer'.status = 200 => Valid(t, keys')
              /\ answer'.status = 401 => ~Valid(t, keys') \/ keys = NoKeys
<1>1. \A t \in tokens, route \in Routes : RequireRole(t, route) \in {200, 403}
  BY DEF RequireRole
<1>2. "grpc" \in Routes
  BY DEF Routes
<1>3. CASE MainServiceStep
  <2>1. ~RefreshKeys /\ ~CheckKeys
    BY DEF RefreshKeys, CheckKeys
  <2>2. ASSUME NEW t \in tokens, NEW route \in Routes, ValidateJWT(t, route)
        PROVE  /\ answer'.token = t
               /\ answer'.status = 200 => Valid(t, keys')
               /\ answer'.status = 401 => ~Valid(t, keys') \/ keys = NoKeys
    BY <1>1, <2>2 DEF ValidateJWT
  <2>3. ASSUME NEW t \in tokens, UnaryAuthInterceptor(t)
        PROVE  /\ answer'.token = t
               /\ answer'.status = 200 => Valid(t, keys')
               /\ answer'.status = 401 => ~Valid(t, keys') \/ keys = NoKeys
    BY <2>3 DEF UnaryAuthInterceptor
  <2>4. ASSUME NEW t \in tokens, NEW route \in Routes, NoKeySet(t, route)
        PROVE  answer'.token = t /\ answer'.status = 401 /\ keys = NoKeys
    BY <2>4 DEF NoKeySet
  <2> QED BY <1>2, <1>3, <2>1, <2>2, <2>3, <2>4 DEF MainServiceStep
<1>4. CASE LoginStep \/ AttemptStep
  BY <1>4, AttemptOnly DEF LoginStep, LoginFails, OpenSession
<1>5. CASE SessionStep \/ RotationStep \/ AccessTick
  BY <1>5 DEF SessionStep, RotationStep, AccessTick, Refresh, Logout, Demote, RotateKey, WithdrawKey
<1> QED BY <1>3, <1>4, <1>5 DEF AccessNext, accessVars

\* What is bounded is not yet too late: the ticker has not fired since it was due.
LEMMA StillBounded ==
    ASSUME KeysInv, keys # NoKeys
    PROVE  \A w \in Int : Bounded(w) => now <= w + KeyLag
<1>1. KeyLag \in Nat
  BY BoundedFromNow
<1> QED BY <1>1, LifeType DEF KeysInv, Watched, Bounded

\* A logout, a lost role and a withdrawn key end the access in bounded time, however
\* many refreshes of the cache failed before.
THEOREM EndsSoon == AccessSpec => EndedSoonRefused
<1>1. AccessInit => TokensInv /\ KeysInv
  BY TokensStart, KeysStart
<1>2. TokensInv /\ KeysInv /\ [AccessNext]_<<vars, accessVars>> =>
          [answer'.status = 200 =>
              LET t == answer'.token  x == t.session IN
              /\ closedAt[x] # Never => now < closedAt[x] + AccessLife
              /\ t.role # role[x] => now < demotedAt[x] + AccessLife
              /\ withdrawn[t.key] # Never => now <= withdrawn[t.key] + KeyLag]_answer
  <2> SUFFICES ASSUME TokensInv, KeysInv, [AccessNext]_<<vars, accessVars>>, answer' # answer,
                      answer'.status = 200
               PROVE  LET t == answer'.token  x == t.session IN
                      /\ closedAt[x] # Never => now < closedAt[x] + AccessLife
                      /\ t.role # role[x] => now < demotedAt[x] + AccessLife
                      /\ withdrawn[t.key] # Never => now <= withdrawn[t.key] + KeyLag
    OBVIOUS
  <2>1. PICK t \in tokens, route \in Routes :
            /\ ValidateJWT(t, route) \/ UnaryAuthInterceptor(t) \/ NoKeySet(t, route)
            /\ answer'.token = t /\ Valid(t, keys')
    BY AnswerOf
  <2>2. t.key \in keys' /\ now < t.expires
    BY <2>1 DEF Valid
  <2>3. t.session \in Sessions /\ t.expires \in Int /\ now \in Int
    BY DEF TokensInv
  <2>4. closedAt[t.session] # Never => now < closedAt[t.session] + AccessLife
    BY <2>2, <2>3, LifeType DEF TokensInv
  <2>5. t.role # role[t.session] => now < demotedAt[t.session] + AccessLife
    BY <2>2, <2>3, LifeType DEF TokensInv
  <2>6. withdrawn[t.key] # Never => now <= withdrawn[t.key] + KeyLag
    <3>1. CASE UNCHANGED keys
      <4>1. t.key \in keys /\ t.key \in KeyIds
        BY <2>1, <2>2, <3>1 DEF KeysInv
      <4>2. keys # NoKeys
        BY <4>1 DEF KeyIds, NoKeys
      <4> QED BY <4>1, <4>2, StillBounded DEF KeysInv, WrongBounded
    <3>2. CASE keys' = Published
      BY <2>2, <3>2 DEF Published
    <3> QED BY <2>1, <3>1, <3>2, RequestFetches DEF keyCache, Fetched
  <2> QED BY <2>1, <2>4, <2>5, <2>6
<1> QED BY <1>1, <1>2, TokensKeep, KeysKeep, PTL DEF AccessSpec, EndedSoonRefused

\* A token in its life is refused only while the cache may still be behind.
THEOREM ValidGetsIn == AccessSpec => ValidAdmitted
<1>1. AccessInit => KeysInv
  BY KeysStart
<1>2. KeysInv /\ [AccessNext]_<<vars, accessVars>> =>
          [answer'.status = 401 /\ now < answer'.token.expires =>
              LET k == answer'.token.key IN
              withdrawn[k] # Never \/ now <= introduced[k] + KeyLag \/ keys = NoKeys]_answer
  <2> SUFFICES ASSUME KeysInv, [AccessNext]_<<vars, accessVars>>, answer' # answer,
                      answer'.status = 401, now < answer'.token.expires,
                      withdrawn[answer'.token.key] = Never, keys # NoKeys
               PROVE  now <= introduced[answer'.token.key] + KeyLag
    OBVIOUS
  <2>1. PICK t \in tokens, route \in Routes :
            /\ ValidateJWT(t, route) \/ UnaryAuthInterceptor(t) \/ NoKeySet(t, route)
            /\ answer'.token = t /\ ~Valid(t, keys')
    BY AnswerOf
  <2>2. keys' = keys
    BY <2>1, RequestFetches DEF keyCache
  <2>3. t.key \in KeyIds \ keys /\ t.key \in Published
    BY <2>1, <2>2 DEF Valid, KeysInv, Published
  <2>4. Bounded(introduced[t.key]) /\ introduced[t.key] \in Int
    BY <2>3 DEF KeysInv, WrongBounded
  <2> QED BY <2>1, <2>4, StillBounded
<1> QED BY <1>1, <1>2, KeysKeep, PTL DEF AccessSpec, ValidAdmitted

-----------------------------------------------------------------------------
(* Refusals *)

\* Without errors the value of a key counts the latest calls, each of which came
\* less than a window after the one before, and the key outlives the last by one.
Chained(log, c, e) ==
    /\ c <= Len(log)
    /\ c >= 1 => e = log[Len(log)] + Window
    /\ \A k \in Len(log) - c + 1 .. Len(log) - 1 : log[k + 1] - log[k] < Window

ChainInv == TypeOK /\ (faults = 0 => \A ip \in Ips : Chained(called[ip], count[ip], expireAt[ip]))

LEMMA ChainStart == Init => ChainInv
<1> SUFFICES ASSUME Init, NEW ip \in Ips PROVE Chained(called[ip], count[ip], expireAt[ip])
  BY TypeInit DEF ChainInv
<1>1. called[ip] = <<>> /\ Len(called[ip]) = 0 /\ count[ip] = 0
  BY DEF Init
<1> QED BY <1>1 DEF Chained

\* A call that a living key counts is the next one of its chain.
LEMMA LongerChain ==
    ASSUME NEW log \in Seq(Nat), NEW c \in Nat, NEW e \in Int, NEW t \in Nat, Chained(log, c, e),
           NEW d \in Nat, d >= 1, d = 1 \/ (d = c + 1 /\ Alive(e, t))
    PROVE  Chained(Append(log, t), d, t + Window)
<1> DEFINE n == Len(log)
           more == Append(log, t)
<1>1. n \in Nat /\ Len(more) = n + 1 /\ more[n + 1] = t /\ \A i \in 1 .. n : more[i] = log[i] /\ log[i] \in Nat
  BY AppendFacts
<1> HIDE DEF n, more
<1>2. c <= n /\ d <= n + 1
  BY <1>1 DEF n, Chained
<1>3. ASSUME NEW k \in n + 1 - d + 1 .. n PROVE more[k + 1] - more[k] < Window
  <2>1. d = c + 1 /\ c >= 1 /\ Alive(e, t) /\ k \in 1 .. n
    BY <1>1, <1>2, <1>3
  <2>2. CASE k = n
    <3>1. e = log[n] + Window
      BY <2>1 DEF n, Chained
    <3>2. t < e
      BY <1>1, <2>1, <2>2, <3>1 DEF Alive
    <3> QED BY <1>1, <2>1, <2>2, <3>1, <3>2
  <2>3. CASE k # n
    <3>1. k \in n - c + 1 .. n - 1 /\ k + 1 \in 1 .. n
      BY <1>1, <2>1, <2>3
    <3>2. log[k + 1] - log[k] < Window
      BY <3>1 DEF n, Chained
    <3> QED BY <1>1, <2>1, <3>1, <3>2
  <2> QED BY <2>2, <2>3
<1>4. Len(more) - d + 1 = n + 1 - d + 1 /\ Len(more) - 1 = n
  BY <1>1
<1>5. Chained(more, d, t + Window)
  BY <1>1, <1>2, <1>3, <1>4 DEF Chained
<1> QED BY <1>5 DEF more

LEMMA ChainStep == ChainInv /\ [Next]_vars => ChainInv'
<1> SUFFICES ASSUME ChainInv, [Next]_vars, faults' = 0, NEW ip \in Ips
             PROVE  Chained(called'[ip], count'[ip], expireAt'[ip])
  BY TypeStep DEF ChainInv
<1> DEFINE Same == called'[ip] = called[ip] /\ count'[ip] = count[ip] /\ expireAt'[ip] = expireAt[ip]
<1>1. /\ called[ip] \in Seq(Nat) /\ count[ip] \in Nat /\ expireAt[ip] \in Int /\ now \in Nat /\ faults \in Nat
  BY DEF ChainInv, TypeOK
<1>2. CASE Same /\ faults = 0
  BY <1>2 DEF ChainInv
<1>3. ASSUME NEW caller \in Ips, Allow(caller) PROVE Chained(called'[ip], count'[ip], expireAt'[ip])
  <2>0. PICK n \in 0 .. RedisRetries :
            faults' = faults + n /\ count' = [count EXCEPT ![caller] = Incremented(caller) + n]
    BY <1>3 DEF Allow
  <2>1. faults = 0 /\ n = 0
    BY <1>1, <2>0, LimiterAssumption
  <2>2. CASE caller # ip
    BY <1>2, <1>3, <2>0, <2>1, <2>2 DEF Allow, Call, ChainInv, TypeOK
  <2>3. CASE caller = ip
    <3>0. called'[ip] = Append(called[ip], now) /\ expireAt'[ip] = now + Window
      BY <1>3, <2>3 DEF Allow, Call, ChainInv, TypeOK
    <3>1. count'[ip] = Incremented(ip)
      BY <1>1, <2>0, <2>1, <2>3 DEF Incremented, ChainInv, TypeOK
    <3>2. /\ Incremented(ip) \in Nat /\ Incremented(ip) >= 1
          /\ Incremented(ip) = 1 \/ (Incremented(ip) = count[ip] + 1 /\ Alive(expireAt[ip], now))
      BY <1>1 DEF Incremented, Live, Alive
    <3>3. Chained(called[ip], count[ip], expireAt[ip])
      BY <2>1 DEF ChainInv
    <3> QED BY <1>1, <3>0, <3>1, <3>2, <3>3, LongerChain
  <2> QED BY <2>2, <2>3
<1>4. ASSUME NEW caller \in Ips, AllowError(caller) PROVE FALSE
  BY <1>1, <1>4 DEF AllowError
<1>5. CASE Tick \/ UNCHANGED vars
  BY <1>2, <1>5 DEF Tick, key, calls, vars
<1> QED BY <1>3, <1>4, <1>5 DEF Next

LEMMA ChainKeeps == ChainInv /\ [AccessNext]_<<vars, accessVars>> => ChainInv'
<1>1. ChainInv /\ UNCHANGED <<key, calls, now>> /\ faults' = faults + 1 => ChainInv'
  BY DEF ChainInv, TypeOK, key, calls
<1> QED BY <1>1, LimiterPart, ChainStep

\* Who is refused called so often, without a pause of a window, up to this call.
LEMMA RefusalHasReason ==
    ASSUME ChainInv, faults' = 0, NEW ip \in Ips, Allow(ip), refused'[ip] # refused[ip]
    PROVE  /\ Len(called[ip]) >= MaxAttempts
           /\ \A k \in Len(called[ip]) - MaxAttempts + 1 .. Len(called[ip]) :
                 called'[ip][k + 1] - called[ip][k] < Window
<1>0. PICK n \in 0 .. RedisRetries : faults' = faults + n /\ Decide(ip, Incremented(ip) + n)
  BY DEF Allow
<1>1. /\ called[ip] \in Seq(Nat) /\ count[ip] \in Nat /\ expireAt[ip] \in Int /\ now \in Nat
      /\ n = 0 /\ Chained(called[ip], count[ip], expireAt[ip])
  BY <1>0, LimiterAssumption DEF ChainInv, TypeOK
<1>2. Incremented(ip) > MaxAttempts
  BY <1>0, <1>1 DEF Decide, Incremented
<1> DEFINE m == Len(called[ip])
<1>3. Alive(expireAt[ip], now) /\ count[ip] >= MaxAttempts
  BY <1>1, <1>2 DEF Incremented, Live, Alive
<1>4. called'[ip] = Append(called[ip], now)
  BY DEF Allow, Call, ChainInv, TypeOK
<1>5. /\ m \in Nat /\ called'[ip][m + 1] = now
      /\ \A i \in 1 .. m : called'[ip][i] = called[ip][i] /\ called[ip][i] \in Nat
  BY <1>1, <1>4, AppendFacts
<1> HIDE DEF m
<1>6. m >= count[ip] /\ expireAt[ip] = called[ip][m] + Window
  BY <1>1, <1>3 DEF Chained, m
<1>7. ASSUME NEW k \in m - MaxAttempts + 1 .. m PROVE called'[ip][k + 1] - called[ip][k] < Window
  <2>1. k \in 1 .. m
    BY <1>1, <1>3, <1>5, <1>6, <1>7
  <2>2. CASE k = m
    <3>1. called[ip][m] \in Nat /\ expireAt[ip] # Never
      BY <1>5, <1>6, <2>1, <2>2
    <3>2. now < called[ip][m] + Window /\ now \in Nat
      BY <1>1, <1>3, <1>6, <3>1 DEF Alive
    <3>3. now - called[ip][m] < Window
      BY <3>1, <3>2
    <3> QED BY <1>5, <2>2, <3>3
  <2>3. CASE k # m
    <3>1. k \in m - count[ip] + 1 .. m - 1 /\ k + 1 \in 1 .. m
      BY <1>1, <1>3, <1>5, <2>1, <2>3
    <3>2. called[ip][k + 1] - called[ip][k] < Window
      BY <1>1, <3>1 DEF Chained, m
    <3> QED BY <1>5, <3>1, <3>2
  <2> QED BY <2>2, <2>3
<1> QED BY <1>1, <1>3, <1>5, <1>6, <1>7 DEF m

\* No attempt is refused without a reason, for every limit and window: as long as
\* Redis makes no error, an IP that was quiet for a window passes.
THEOREM RefusesForReason == AccessSpec => RefusedForReason
<1>1. AccessInit => ChainInv
  BY ChainStart DEF AccessInit
<1>2. ChainInv /\ [AccessNext]_<<vars, accessVars>> =>
          [\A ip \in Ips : refused'[ip] # refused[ip] /\ faults' = 0 =>
              /\ Len(called[ip]) >= MaxAttempts
              /\ \A k \in Len(called[ip]) - MaxAttempts + 1 .. Len(called[ip]) :
                    called'[ip][k + 1] - called[ip][k] < Window]_vars
  <2> SUFFICES ASSUME ChainInv, [AccessNext]_<<vars, accessVars>>, vars' # vars, NEW ip \in Ips,
                      refused'[ip] # refused[ip], faults' = 0
               PROVE  /\ Len(called[ip]) >= MaxAttempts
                      /\ \A k \in Len(called[ip]) - MaxAttempts + 1 .. Len(called[ip]) :
                            called'[ip][k + 1] - called[ip][k] < Window
    OBVIOUS
  <2>1. refused' # refused
    OBVIOUS
  <2>2. Next
    BY <2>1, LimiterPart DEF calls
  <2>3. PICK caller \in Ips : Allow(caller)
    BY <2>1, <2>2 DEF Next, Tick, AllowError, calls
  <2>4. caller = ip
    BY <2>3 DEF Allow, Decide, ChainInv, TypeOK
  <2> QED BY <2>3, <2>4, RefusalHasReason
<1> QED BY <1>1, <1>2, ChainKeeps, PTL DEF AccessSpec, RefusedForReason

-----------------------------------------------------------------------------
(* Logins *)

\* Dividing keeps the order of numbers, and tells numbers that are m apart.
LEMMA Quotients ==
    ASSUME NEW a \in Nat, NEW b \in Nat, NEW m \in Nat \ {0}
    PROVE  /\ a \div m \in Nat /\ b \div m \in Nat
           /\ a <= b => a \div m <= b \div m
           /\ a + m <= b => a \div m + 1 <= b \div m
<1>1. PICK p \in Nat, r \in 0 .. m - 1 : a = m * p + r /\ p = a \div m
  <2>1. a = m * (a \div m) + (a % m)
    BY SMTT(30)
  <2>2. a \div m \in Nat /\ a % m \in 0 .. m - 1
    BY SMTT(30)
  <2> QED BY <2>1, <2>2
<1>2. PICK q \in Nat, u \in 0 .. m - 1 : b = m * q + u /\ q = b \div m
  <2>1. b = m * (b \div m) + (b % m)
    BY SMTT(30)
  <2>2. b \div m \in Nat /\ b % m \in 0 .. m - 1
    BY SMTT(30)
  <2> QED BY <2>1, <2>2
<1>3. ASSUME NEW x \in Nat, NEW y \in Nat, x < y PROVE m * x + m <= m * y
  <2>1. m * (x + 1) <= m * y
    BY <1>3
  <2>2. m * (x + 1) = m * x + m
    OBVIOUS
  <2> QED BY <2>1, <2>2
<1>4. m * p \in Nat /\ m * q \in Nat
  OBVIOUS
<1>5. a <= b => p <= q
  BY <1>1, <1>2, <1>3, <1>4
<1>6. a + m <= b => p + 1 <= q
  <2> SUFFICES ASSUME a + m <= b, q <= p PROVE FALSE
    OBVIOUS
  <2>1. q < p \/ m * q = m * p
    OBVIOUS
  <2> QED BY <1>1, <1>2, <1>3, <1>4, <2>1
<1> QED BY <1>1, <1>2, <1>5, <1>6

\* At most as many passes as the limit allows until their time.
Few(log) == \A i \in 1 .. Len(log) : i <= MaxAttempts * (log[i] \div Window + 1)

OpenedFrom(ip) == {x \in Sessions : IpOf[x] = ip /\ openedAt[x] # Never}

\* The logins from one IP that were opened or are on their way have passed the
\* limiter, or could not be counted.
Accounted(ip) ==
    /\ IsFiniteSet(OpenedFrom(ip))
    /\ Cardinality(OpenedFrom(ip)) + handling[ip] <= Len(passed[ip]) + faults

LoginsInv ==
    /\ IInv
    /\ openedAt \in [Sessions -> Int] /\ handling \in [Ips -> Nat]
    /\ \A ip \in Ips : Few(passed[ip]) /\ Accounted(ip)

LEMMA LoginsStart == AccessInit => LoginsInv
<1> SUFFICES ASSUME AccessInit PROVE LoginsInv
  OBVIOUS
<1>1. /\ IInv /\ openedAt = [x \in Sessions |-> Never] /\ handling = [ip \in Ips |-> 0] /\ faults = 0
      /\ \A ip \in Ips : passed[ip] = <<>> /\ Len(passed[ip]) = 0
  BY InvInit DEF AccessInit, Init
<1>2. \A ip \in Ips : OpenedFrom(ip) = {}
  BY <1>1 DEF OpenedFrom
<1>3. IsFiniteSet({}) /\ Cardinality({}) = 0
  BY FS_EmptySet
<1>4. \A ip \in Ips : Few(passed[ip])
  BY <1>1 DEF Few
<1>5. ASSUME NEW ip \in Ips PROVE Accounted(ip)
  <2>1. OpenedFrom(ip) = {} /\ handling[ip] = 0 /\ Len(passed[ip]) = 0 /\ faults = 0
    BY <1>1, <1>2
  <2> QED BY <1>3, <2>1 DEF Accounted
<1> QED BY <1>1, <1>4, <1>5 DEF LoginsInv

\* One more pass: the limit allows it, for MaxAttempts passes before it a window had
\* not begun.
LEMMA FewMore ==
    ASSUME NEW log \in Seq(Nat), NEW t \in Nat, Few(log), Spaced(Append(log, t))
    PROVE  Few(Append(log, t))
<1> DEFINE n == Len(log)
           more == Append(log, t)
<1>1. /\ n \in Nat /\ Len(more) = n + 1 /\ more[n + 1] = t
      /\ \A i \in 1 .. n : more[i] = log[i] /\ log[i] \in Nat
  BY AppendFacts
<1>2. Spaced(more)
  OBVIOUS
<1> HIDE DEF more
<1>3. n + 1 <= MaxAttempts * (t \div Window + 1)
  <2>1. t \div Window \in Nat
    BY Quotients
  <2>2. CASE n + 1 <= MaxAttempts
    <3>1. MaxAttempts <= MaxAttempts * (t \div Window + 1)
      BY <2>1
    <3> QED BY <1>1, <2>1, <2>2, <3>1
  <2>3. CASE n + 1 > MaxAttempts
    <3> DEFINE i == n + 1 - MaxAttempts
               a == log[i] \div Window
               b == t \div Window
    <3>1. i \in 1 .. n /\ i \in 1 .. Len(more) - MaxAttempts /\ i + MaxAttempts = n + 1
      BY <1>1, <2>3
    <3>2. log[i] \in Nat /\ log[i] + Window <= t
      BY <1>1, <1>2, <3>1 DEF Spaced
    <3>3. a \in Nat /\ b \in Nat /\ a + 1 <= b
      <4>1. t \in Nat /\ Window \in Nat \ {0}
        OBVIOUS
      <4> HIDE DEF i
      <4> QED BY <3>2, <4>1, Quotients
    <3>4. i <= MaxAttempts * (a + 1)
      BY <3>1 DEF Few
    <3> HIDE DEF i, a, b
    <3>5. MaxAttempts * (a + 1) <= MaxAttempts * b
      BY <3>3
    <3>6. MaxAttempts * (b + 1) = MaxAttempts * b + MaxAttempts
      BY <3>3
    <3>7. MaxAttempts * (a + 1) \in Nat /\ MaxAttempts * b \in Nat /\ i \in Nat
      BY <1>1, <3>1, <3>3
    <3>8. n + 1 <= MaxAttempts * (b + 1)
      BY <1>1, <3>1, <3>4, <3>5, <3>6, <3>7
    <3> QED BY <3>8 DEF b
  <2> QED BY <1>1, <2>2, <2>3
<1>4. \A i \in 1 .. n : i <= MaxAttempts * (more[i] \div Window + 1)
  BY <1>1 DEF Few
<1>5. Few(more)
  <2> SUFFICES ASSUME NEW i \in 1 .. n + 1 PROVE i <= MaxAttempts * (more[i] \div Window + 1)
    BY <1>1 DEF Few
  <2>1. CASE i = n + 1
    BY <1>1, <1>3, <2>1
  <2>2. CASE i # n + 1
    <3>1. i \in 1 .. n
      BY <1>1, <2>2
    <3> QED BY <1>4, <3>1
  <2> QED BY <2>1, <2>2
<1> QED BY <1>5 DEF more

LEMMA AccountedType ==
    ASSUME LoginsInv, NEW ip \in Ips
    PROVE  /\ Cardinality(OpenedFrom(ip)) \in Nat /\ handling[ip] \in Nat
           /\ passed[ip] \in Seq(Nat) /\ Len(passed[ip]) \in Nat /\ faults \in Nat /\ now \in Nat
BY FS_CardinalityType DEF LoginsInv, Accounted, IInv, TypeOK

\* Steps that neither let an attempt pass nor open a session.
LEMMA StillAccounted ==
    ASSUME LoginsInv, IInv', UNCHANGED <<handling, openedAt, passed>>, faults <= faults'
    PROVE  LoginsInv'
<1>1. ASSUME NEW ip \in Ips PROVE Accounted(ip)'
  <2>1. OpenedFrom(ip)' = OpenedFrom(ip) /\ handling'[ip] = handling[ip] /\ passed'[ip] = passed[ip]
    BY DEF OpenedFrom
  <2>2. faults' \in Nat
    BY DEF IInv, TypeOK
  <2> QED BY <2>1, <2>2, AccountedType DEF LoginsInv, Accounted
<1> QED BY <1>1 DEF LoginsInv

\* An attempt that goes on to the handler is one more pass or one more fault.
LEMMA AttemptAccounted ==
    ASSUME LoginsInv, IInv', NEW ip \in Ips, Attempt(ip)
    PROVE  LoginsInv'
<1>1. CASE Allow(ip) /\ passed' = passed /\ UNCHANGED accessVars
  <2>1. faults <= faults'
    BY <1>1, LimiterAssumption DEF Allow, LoginsInv, IInv, TypeOK
  <2> QED BY <1>1, <2>1, StillAccounted DEF accessVars, sessionVars
<1>2. CASE HandOn(ip) /\ ((Allow(ip) /\ passed' # passed) \/ AllowError(ip))
  <2>1. UNCHANGED openedAt /\ handling' = [handling EXCEPT ![ip] = @ + 1]
    BY <1>2 DEF HandOn
  <2>2. handling' \in [Ips -> Nat] /\ handling'[ip] = handling[ip] + 1 /\ \A j \in Ips \ {ip} : handling'[j] = handling[j]
    BY <2>1 DEF LoginsInv
  <2>3. faults' \in Nat /\ now \in Nat /\ passed[ip] \in Seq(Nat) /\ \A j \in Ips : Spaced(passed'[j])
    BY DEF LoginsInv, IInv, TypeOK, Sliding
  <2>4. /\ faults <= faults' /\ \A j \in Ips \ {ip} : passed'[j] = passed[j]
        /\ passed'[ip] = Append(passed[ip], now) \/ (passed'[ip] = passed[ip] /\ faults' = faults + 1)
    <3>1. CASE Allow(ip) /\ passed' # passed
      <4>1. passed' = [passed EXCEPT ![ip] = Append(@, now)] /\ \E n \in 0 .. RedisRetries : faults' = faults + n
        BY <3>1 DEF Allow, Decide
      <4> QED BY <4>1, LimiterAssumption DEF LoginsInv, IInv, TypeOK
    <3>2. CASE AllowError(ip)
      BY <3>2 DEF AllowError, LoginsInv, IInv, TypeOK
    <3> QED BY <1>2, <3>1, <3>2
  <2>5. ASSUME NEW j \in Ips PROVE Few(passed'[j]) /\ Accounted(j)'
    <3>1. OpenedFrom(j)' = OpenedFrom(j) /\ IsFiniteSet(OpenedFrom(j))
          /\ Cardinality(OpenedFrom(j)) + handling[j] <= Len(passed[j]) + faults /\ Few(passed[j])
      BY <2>1 DEF OpenedFrom, LoginsInv, Accounted
    <3>2. CASE j # ip
      BY <2>2, <2>3, <2>4, <3>1, <3>2, AccountedType DEF Accounted
    <3>3. CASE j = ip /\ passed'[ip] = passed[ip] /\ faults' = faults + 1
      BY <2>2, <3>1, <3>3, AccountedType DEF Accounted
    <3>4. CASE j = ip /\ passed'[ip] = Append(passed[ip], now)
      <4>1. Len(passed'[ip]) = Len(passed[ip]) + 1
        BY <2>3, <3>4, AppendFacts
      <4>2. Few(passed'[ip])
        BY <2>3, <3>1, <3>4, FewMore
      <4>3. Cardinality(OpenedFrom(j)) \in Nat /\ handling[j] \in Nat /\ Len(passed[j]) \in Nat /\ faults \in Nat
        BY AccountedType
      <4>4. Cardinality(OpenedFrom(j)') + handling'[j] <= Len(passed'[j]) + faults'
        BY <2>2, <2>3, <2>4, <3>1, <3>4, <4>1, <4>3
      <4> QED BY <3>1, <3>4, <4>2, <4>4 DEF Accounted
    <3> QED BY <2>4, <3>2, <3>3, <3>4
  <2> QED BY <2>1, <2>2, <2>5 DEF LoginsInv
<1> QED BY <1>1, <1>2 DEF Attempt

\* A session that Keycloak opens is no longer on its way.
LEMMA OpeningAccounted ==
    ASSUME LoginsInv, IInv', NEW x \in Sessions, OpenSession(x), UNCHANGED <<passed, faults>>
    PROVE  LoginsInv'
<1> DEFINE ip == IpOf[x]
<1>1. /\ ip \in Ips /\ handling[ip] > 0 /\ handling' = [handling EXCEPT ![ip] = @ - 1]
      /\ openedAt[x] = Never /\ openedAt' = [openedAt EXCEPT ![x] = now]
  BY AccessAssumption DEF OpenSession
<1>2. now \in Nat /\ openedAt' \in [Sessions -> Int] /\ openedAt'[x] = now
      /\ \A y \in Sessions \ {x} : openedAt'[y] = openedAt[y]
  BY <1>1 DEF LoginsInv, IInv, TypeOK
<1>3. handling' \in [Ips -> Nat] /\ handling'[ip] = handling[ip] - 1 /\ \A j \in Ips \ {ip} : handling'[j] = handling[j]
  BY <1>1 DEF LoginsInv
<1>4. ASSUME NEW j \in Ips PROVE Accounted(j)'
  <2>1. IsFiniteSet(OpenedFrom(j)) /\ Cardinality(OpenedFrom(j)) + handling[j] <= Len(passed[j]) + faults
    BY DEF LoginsInv, Accounted
  <2>2. CASE j = ip
    <3>1. OpenedFrom(j)' = OpenedFrom(j) \cup {x} /\ x \notin OpenedFrom(j)
      BY <1>1, <1>2, <2>2 DEF OpenedFrom
    <3>2. IsFiniteSet(OpenedFrom(j) \cup {x}) /\ Cardinality(OpenedFrom(j) \cup {x}) = Cardinality(OpenedFrom(j)) + 1
      BY <2>1, <3>1, FS_AddElement
    <3> QED BY <1>1, <1>3, <2>1, <2>2, <3>1, <3>2, AccountedType DEF Accounted
  <2>3. CASE j # ip
    <3>1. OpenedFrom(j)' = OpenedFrom(j)
      BY <1>1, <1>2, <2>3 DEF OpenedFrom
    <3> QED BY <1>3, <2>1, <2>3, <3>1 DEF Accounted
  <2> QED BY <2>2, <2>3
<1> QED BY <1>2, <1>3, <1>4 DEF LoginsInv

LEMMA LoginsKeep == LoginsInv /\ [AccessNext]_<<vars, accessVars>> => LoginsInv'
<1> SUFFICES ASSUME LoginsInv, [AccessNext]_<<vars, accessVars>> PROVE LoginsInv'
  OBVIOUS
<1>1. IInv'
  BY LimitInvKeeps DEF LoginsInv
<1>2. CASE AttemptStep
  BY <1>1, <1>2, AttemptAccounted DEF AttemptStep
<1>3. CASE LoginStep
  <2>1. UNCHANGED <<passed, faults>>
    BY <1>3 DEF LoginStep, vars
  <2>2. ASSUME NEW ip \in Ips, LoginFails(ip) PROVE LoginsInv'
    <3>1. UNCHANGED openedAt /\ handling[ip] > 0 /\ handling' = [handling EXCEPT ![ip] = @ - 1]
      BY <2>2 DEF LoginFails
    <3>2. handling' \in [Ips -> Nat] /\ \A j \in Ips : handling'[j] <= handling[j]
      BY <3>1 DEF LoginsInv
    <3>3. ASSUME NEW j \in Ips PROVE Accounted(j)'
      <4>1. OpenedFrom(j)' = OpenedFrom(j) /\ handling'[j] \in Nat
        BY <3>1, <3>2 DEF OpenedFrom
      <4> QED BY <2>1, <3>2, <4>1, AccountedType DEF LoginsInv, Accounted
    <3> QED BY <1>1, <2>1, <3>1, <3>2, <3>3 DEF LoginsInv
  <2> QED BY <1>1, <1>3, <2>1, <2>2, OpeningAccounted DEF LoginStep
<1>4. CASE SessionStep \/ RotationStep \/ MainServiceStep \/ AccessTick \/ UNCHANGED <<vars, accessVars>>
  <2>1. UNCHANGED <<openedAt, handling>>
    BY <1>4 DEF SessionStep, RotationStep, MainServiceStep, AccessTick, Refresh, Logout, Demote, RotateKey, WithdrawKey,
                CheckKeys, RefreshKeys, UnaryAuthInterceptor, ValidateJWT, NoKeySet, accessVars, sessionVars
  <2>2. UNCHANGED passed /\ (faults' = faults \/ faults' = faults + 1)
    BY <1>4 DEF SessionStep, RotationStep, MainServiceStep, AccessTick, Tick,
                CheckKeys, RefreshKeys, UnaryAuthInterceptor, ValidateJWT, NoKeySet, vars, calls
  <2>3. faults \in Nat /\ faults <= faults'
    BY <2>2 DEF LoginsInv, IInv, TypeOK
  <2> QED BY <1>1, <2>1, <2>2, <2>3, StillAccounted
<1> QED BY <1>2, <1>3, <1>4 DEF AccessNext

\* However late Keycloak opens the sessions: the logins from an IP, opened or on
\* their way, are no more than the limit for each window and the attempts that could
\* not be counted, for every limit, window and number of IPs and of sessions.
THEOREM LoginsBounded == AccessSpec => []LoginsLimited
<1>1. LoginsInv => LoginsLimited
  <2> SUFFICES ASSUME LoginsInv, NEW ip \in Ips
               PROVE  Cardinality(OpenedFrom(ip)) + handling[ip] <= faults + MaxAttempts * (now \div Window + 1)
    BY DEF LoginsLimited, OpenedFrom
  <2>1. /\ Few(passed[ip]) /\ Cardinality(OpenedFrom(ip)) + handling[ip] <= Len(passed[ip]) + faults
        /\ \A i \in 1 .. Len(passed[ip]) : passed[ip][i] <= now
    BY DEF LoginsInv, Accounted, IInv, Sliding
  <2> DEFINE n == Len(passed[ip])
             q == MaxAttempts * (now \div Window + 1)
  <2>2. now \div Window \in Nat /\ n \in Nat
    BY AccountedType, Quotients
  <2>3. q \in Nat
    BY <2>2
  <2>4. n <= q
    <3>1. CASE n = 0
      BY <2>3, <3>1
    <3>2. CASE n # 0
      <4> DEFINE a == passed[ip][n] \div Window
                 b == now \div Window
      <4>1. n \in 1 .. n /\ passed[ip][n] \in Nat /\ passed[ip][n] <= now
        <5> HIDE DEF q, a, b
        <5>1. n \in 1 .. n
          BY <2>2, <3>2
        <5>2. passed[ip] \in Seq(Nat)
          BY AccountedType
        <5> QED BY <2>1, <5>1, <5>2
      <4>2. a \in Nat /\ b \in Nat /\ a <= b
        <5>1. now \in Nat /\ Window \in Nat \ {0}
          BY AccountedType
        <5> HIDE DEF n
        <5> QED BY <4>1, <5>1, Quotients
      <4>3. n <= MaxAttempts * (a + 1)
        BY <2>1, <4>1 DEF Few
      <4> HIDE DEF a, b
      <4>4. MaxAttempts * (a + 1) <= MaxAttempts * (b + 1) /\ MaxAttempts * (a + 1) \in Nat /\ MaxAttempts * (b + 1) \in Nat
        BY <4>2
      <4>5. n <= MaxAttempts * (b + 1)
        BY <2>2, <4>3, <4>4
      <4> QED BY <4>5 DEF b
    <3> QED BY <3>1, <3>2
  <2> HIDE DEF n, q
  <2>5. Cardinality(OpenedFrom(ip)) + handling[ip] <= faults + q
    BY <2>1, <2>2, <2>3, <2>4, AccountedType DEF n
  <2> QED BY <2>5 DEF q
<1> QED BY <1>1, LoginsStart, LoginsKeep, PTL DEF AccessSpec
=============================================================================

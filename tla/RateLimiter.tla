----------------------------- MODULE RateLimiter -----------------------------
(***************************************************************************)
(* The limiter of login attempts per IP in auth-proxy                      *)
(* (internal/ratelimiter, internal/middleware): one counter per IP in      *)
(* Redis.  Every call of Allow increments it and renews its TTL, refused   *)
(* calls too; an error of Redis lets the attempt pass.                     *)
(*                                                                         *)
(* INCR is atomic and the EXPIREs of calls at the same time do the same,   *)
(* so a call is one step; no key ends between its INCR and its EXPIRE,     *)
(* which Redis executes one after the other.  The pipeline is no           *)
(* transaction: after an error none, the first or both of its commands may *)
(* have been executed.  go-redis sends it again when its replies are lost, *)
(* so that one call may be counted several times.                          *)
(***************************************************************************)
EXTENDS Integers, Sequences, FiniteSets

CONSTANTS
    Ips,
    MaxAttempts,  \* rate_limiter.max_attempts
    Window,       \* rate_limiter.window_seconds
    RedisRetries, \* MaxRetries of go-redis, 3 unless it is set
    MaxTime,      \* bound: the clock, in seconds
    MaxCalls,     \* bound: calls per IP
    MaxFaults     \* bound: errors and lost replies of Redis

\* New replaces settings that are not positive by its defaults.
ASSUME LimiterAssumption ==
    /\ MaxAttempts \in Nat \ {0} /\ Window \in Nat \ {0}
    /\ RedisRetries \in Nat
    /\ MaxTime \in Nat /\ MaxCalls \in Nat /\ MaxFaults \in Nat

VARIABLES
    count,     \* the value of the key of an IP
    expireAt,  \* the end of its life, Never for a key without a TTL
    called,    \* when its calls came
    passed,    \* when the limiter let one of them pass
    refused,   \* when it refused one
    now, faults

key   == <<count, expireAt>>
calls == <<called, passed, refused>>
vars  == <<count, expireAt, called, passed, refused, now, faults>>

Never == -1

Init ==
    /\ count = [ip \in Ips |-> 0]
    /\ expireAt = [ip \in Ips |-> Never]
    /\ called = [ip \in Ips |-> <<>>]
    /\ passed = [ip \in Ips |-> <<>>]
    /\ refused = [ip \in Ips |-> <<>>]
    /\ now = 0 /\ faults = 0

\* The key has not expired.
Live(ip) == expireAt[ip] = Never \/ now < expireAt[ip]

\* What INCR returns.
Incremented(ip) == 1 + IF Live(ip) THEN count[ip] ELSE 0

Call(ip) ==
    /\ Len(called[ip]) < MaxCalls
    /\ called' = [called EXCEPT ![ip] = Append(@, now)]

Decide(ip, counted) ==
    IF counted <= MaxAttempts
    THEN passed' = [passed EXCEPT ![ip] = Append(@, now)] /\ UNCHANGED refused
    ELSE refused' = [refused EXCEPT ![ip] = Append(@, now)] /\ UNCHANGED passed

\* Mutant: only the first call of a window sets the TTL.
AllowFixedWindow(ip) ==
    /\ Call(ip)
    /\ count' = [count EXCEPT ![ip] = Incremented(ip)]
    /\ expireAt' = [expireAt EXCEPT ![ip] = IF Incremented(ip) = 1 THEN now + Window ELSE @]
    /\ Decide(ip, Incremented(ip))
    /\ UNCHANGED <<now, faults>>

\* The pipeline succeeds after n lost replies.
Allow(ip) ==
    \E n \in 0 .. RedisRetries :
        /\ Call(ip)
        /\ faults + n <= MaxFaults
        /\ faults' = faults + n
        /\ count' = [count EXCEPT ![ip] = Incremented(ip) + n]
        /\ expireAt' = [expireAt EXCEPT ![ip] = now + Window]
        /\ Decide(ip, Incremented(ip) + n)
        /\ UNCHANGED now

\* The middleware hands the attempt on, whatever Redis has executed.
AllowError(ip) ==
    /\ Call(ip)
    /\ faults < MaxFaults
    /\ faults' = faults + 1
    /\ \/ UNCHANGED key
       \/ /\ \E n \in 0 .. RedisRetries : count' = [count EXCEPT ![ip] = Incremented(ip) + n]
          /\ \/ expireAt' = [expireAt EXCEPT ![ip] = IF Live(ip) THEN @ ELSE Never]
             \/ expireAt' = [expireAt EXCEPT ![ip] = now + Window]
    /\ UNCHANGED <<passed, refused, now>>

Tick ==
    /\ now < MaxTime
    /\ now' = now + 1
    /\ UNCHANGED <<key, calls, faults>>

Next == Tick \/ \E ip \in Ips : Allow(ip) \/ AllowError(ip)

Spec == Init /\ [][Next]_vars

-----------------------------------------------------------------------------
(* Properties *)

\* Every variable has a value of its kind; a TTL never exceeds the window.
TypeOK ==
    /\ count \in [Ips -> Nat]
    /\ expireAt \in [Ips -> Int]
    /\ \A ip \in Ips : expireAt[ip] = Never \/ expireAt[ip] \in 0 .. now + Window
    /\ called \in [Ips -> Seq(Nat)] /\ passed \in [Ips -> Seq(Nat)]
    /\ refused \in [Ips -> Seq(Nat)]
    /\ now \in Nat /\ faults \in Nat

\* A sliding window: of MaxAttempts + 1 attempts that the limiter let pass, the
\* last one comes at least Window after the first, whatever errors of Redis left
\* of the key.
SlidingWindow ==
    \A ip \in Ips : \A i \in 1 .. Len(passed[ip]) - MaxAttempts :
        passed[ip][i + MaxAttempts] - passed[ip][i] >= Window

\* Without errors, a refusal has its reason: MaxAttempts calls of that IP before
\* it, each less than Window after the one before.
RefusedForReason ==
    [][\A ip \in Ips : refused'[ip] # refused[ip] /\ faults' = 0 =>
          /\ Len(called[ip]) >= MaxAttempts
          /\ \A k \in Len(called[ip]) - MaxAttempts + 1 .. Len(called[ip]) :
                called'[ip][k + 1] - called[ip][k] < Window]_vars

\* The comment of Limiter: the window runs from the first request, so that without
\* errors a refused call is one of more than MaxAttempts in the last Window
\* seconds.  The code renews the window at every call.
RefusedWithinWindow ==
    faults = 0 => \A ip \in Ips : \A j \in 1 .. Len(refused[ip]) :
        LET at == refused[ip][j] IN
        Cardinality({k \in 1 .. Len(called[ip]) : called[ip][k] \in at - Window + 1 .. at}) > MaxAttempts
=============================================================================

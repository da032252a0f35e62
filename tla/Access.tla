------------------------------- MODULE Access -------------------------------
(***************************************************************************)
(* Who gets in.  auth-proxy opens, prolongs and ends sessions in Keycloak  *)
(* (internal/handlers/auth, internal/keycloak), behind the limiter of      *)
(* login attempts; main-service admits the access tokens that Keycloak     *)
(* signs (internal/middleware: ValidateJWT, RequireRole,                   *)
(* UnaryAuthInterceptor) by the keys in its JWKS cache (internal/jwks).    *)
(*                                                                         *)
(* Keycloak signs the tokens and forgets them: main-service learns of a    *)
(* logout, of a role that is taken away and of a new key only by the end   *)
(* of a token's life and by the next refresh of its cache.                 *)
(***************************************************************************)
EXTENDS RateLimiter

CONSTANTS
    Sessions,     \* sessions of Keycloak, one per successful login
    IpOf,         \* the IP that the login of a session comes from
    MaxKeys,      \* bound: signing keys, 1 .. MaxKeys
    AccessLife,   \* the life of an access token
    SessionLife,  \* the life of a refresh token
    KeyPeriod,    \* jwks.cache_duration: keys younger than 10 minutes are not fetched again
    CheckPeriod,  \* jwk.Cache looks that often whether they are older: every 15 minutes
    MaxTokens     \* bound: access tokens per session

ASSUME AccessAssumption ==
    /\ IpOf \in [Sessions -> Ips]
    /\ MaxKeys \in Nat \ {0} /\ MaxTokens \in Nat
    /\ AccessLife \in Nat \ {0} /\ SessionLife \in Nat \ {0}
    /\ KeyPeriod \in Nat \ {0} /\ CheckPeriod \in Nat \ {0}

VARIABLES
    handling,            \* per IP: attempts that Login handles
    openedAt, closedAt,  \* of a session, Never before
    refreshBy,           \* the end of the life of its refresh token
    role,                \* the realm role of its user: "user" or "admin"
    demotedAt,           \* when the user lost the role "admin"
    tokens,              \* access tokens: [session, role, key, expires]
    signing,             \* the key Keycloak signs with
    introduced, withdrawn, \* when Keycloak began and ceased to publish a key
    keys,                \* the JWKS cache of main-service, NoKeys before its first fetch
    keysDue,             \* the age from which it is refreshed, Never before the first fetch
    nextCheck,           \* when its ticker fires next
    fetching,            \* a refresh is on its way
    missed, hung,        \* since the keys came: refreshes that failed, seconds in refreshes
    answer               \* the last answer of main-service

sessionVars == <<handling, openedAt, closedAt, refreshBy, role, demotedAt, tokens>>
keycloakKeys == <<signing, introduced, withdrawn>>
keyCache    == <<keys, keysDue, nextCheck, fetching, missed, hung>>
accessVars  == <<sessionVars, keycloakKeys, keyCache, answer>>

KeyIds == 1 .. MaxKeys
NoKeys == {0}

NoAnswer == [status |-> 0]

AccessInit ==
    /\ Init
    /\ handling = [ip \in Ips |-> 0]
    /\ openedAt = [x \in Sessions |-> Never] /\ closedAt = [x \in Sessions |-> Never]
    /\ refreshBy = [x \in Sessions |-> 0]
    /\ role \in [Sessions -> {"user", "admin"}]
    /\ demotedAt = [x \in Sessions |-> Never]
    /\ tokens = {}
    /\ signing = 1
    /\ introduced = [k \in KeyIds |-> IF k = 1 THEN 0 ELSE Never]
    /\ withdrawn = [k \in KeyIds |-> Never]
    /\ keys = NoKeys /\ keysDue = Never /\ nextCheck = CheckPeriod
    /\ fetching = FALSE /\ missed = 0 /\ hung = 0
    /\ answer = NoAnswer

Published == {k \in KeyIds : introduced[k] # Never /\ withdrawn[k] = Never}

Open(x) == openedAt[x] # Never /\ closedAt[x] = Never /\ now < refreshBy[x]

-----------------------------------------------------------------------------
(* auth-proxy: /login, /refresh, /logout *)

Issue(x) ==
    /\ Cardinality({t \in tokens : t.session = x}) < MaxTokens
    /\ tokens' = tokens \cup {[session |-> x, role |-> role[x], key |-> signing,
                                expires |-> now + AccessLife]}
    /\ refreshBy' = [refreshBy EXCEPT ![x] = now + SessionLife]

HandOn(ip) ==
    /\ handling' = [handling EXCEPT ![ip] = @ + 1]
    /\ UNCHANGED <<openedAt, closedAt, refreshBy, role, demotedAt, tokens,
                   keycloakKeys, keyCache, answer>>

\* Mutant: the middleware answers 429 and calls the next handler all the same.
AttemptAnyway(ip) == (Allow(ip) \/ AllowError(ip)) /\ HandOn(ip)

\* RateLimitMiddleware: an attempt that passes or could not be counted goes on to
\* the handler, another is answered with 429.
Attempt(ip) ==
    \/ Allow(ip) /\ passed' # passed /\ HandOn(ip)
    \/ Allow(ip) /\ passed' = passed /\ UNCHANGED accessVars
    \/ AllowError(ip) /\ HandOn(ip)

\* Keycloak opens a session for the attempt, any time after it was let pass: the
\* call has no deadline.
OpenSession(x) ==
    /\ handling[IpOf[x]] > 0
    /\ handling' = [handling EXCEPT ![IpOf[x]] = @ - 1]
    /\ openedAt[x] = Never
    /\ openedAt' = [openedAt EXCEPT ![x] = now]
    /\ Issue(x)
    /\ UNCHANGED <<closedAt, role, demotedAt, keycloakKeys, keyCache, answer>>

\* 400 for a malformed request; 401 for wrong credentials and all errors of Keycloak.
LoginFails(ip) ==
    /\ handling[ip] > 0
    /\ handling' = [handling EXCEPT ![ip] = @ - 1]
    /\ UNCHANGED <<openedAt, closedAt, refreshBy, role, demotedAt, tokens,
                   keycloakKeys, keyCache, answer>>

\* The limiter is on /login only.
Refresh(x) ==
    /\ Open(x)
    /\ Issue(x)
    /\ UNCHANGED <<handling, openedAt, closedAt, role, demotedAt, keycloakKeys, keyCache, answer>>

\* 204, or a 500 although Keycloak has ended the session.
Logout(x) ==
    /\ Open(x)
    /\ closedAt' = [closedAt EXCEPT ![x] = now]
    /\ UNCHANGED <<handling, openedAt, refreshBy, role, demotedAt, tokens,
                   keycloakKeys, keyCache, answer>>

-----------------------------------------------------------------------------
(* Keycloak *)

Demote(x) ==
    /\ role[x] = "admin"
    /\ role' = [role EXCEPT ![x] = "user"]
    /\ demotedAt' = [demotedAt EXCEPT ![x] = now]
    /\ UNCHANGED <<handling, openedAt, closedAt, refreshBy, tokens,
                   keycloakKeys, keyCache, answer>>

RotateKey ==
    /\ signing < MaxKeys
    /\ signing' = signing + 1
    /\ introduced' = [introduced EXCEPT ![signing + 1] = now]
    /\ UNCHANGED <<withdrawn, sessionVars, keyCache, answer>>

WithdrawKey(k) ==
    /\ k \in Published /\ k # signing
    /\ withdrawn' = [withdrawn EXCEPT ![k] = now]
    /\ UNCHANGED <<signing, introduced, sessionVars, keyCache, answer>>

-----------------------------------------------------------------------------
(* main-service: the JWKS cache *)

\* Mutant: without the loop in the background.
KeepKeys ==
    /\ now = nextCheck
    /\ nextCheck' = now + CheckPeriod
    /\ UNCHANGED <<keys, keysDue, fetching, missed, hung, sessionVars, keycloakKeys, answer>>

\* The ticker of jwk.Cache: keys are fetched again once they are older than
\* KeyPeriod.  A tick during a fetch finds nothing to do after it.
CheckKeys ==
    /\ now = nextCheck
    /\ nextCheck' = now + CheckPeriod
    /\ fetching' = (fetching \/ (keysDue # Never /\ keysDue < now))
    /\ UNCHANGED <<keys, keysDue, missed, hung, sessionVars, keycloakKeys, answer>>

Fetched ==
    /\ keys' = Published /\ keysDue' = now + KeyPeriod
    /\ missed' = 0 /\ hung' = 0

\* The fetch, which has no deadline, brings the keys or fails.
RefreshKeys ==
    /\ fetching /\ fetching' = FALSE
    /\ \/ Fetched /\ UNCHANGED faults
       \/ /\ faults < MaxFaults /\ faults' = faults + 1
          /\ missed' = missed + 1 /\ keysDue' = now + KeyPeriod
          /\ UNCHANGED <<keys, hung>>
    /\ UNCHANGED <<nextCheck, sessionVars, keycloakKeys, answer>>

\* GetKeySet: the first Get fetches; later ones return what the cache holds, and an
\* unknown kid is no reason to look again.
GetKeySet ==
    IF keys = NoKeys THEN Fetched /\ UNCHANGED <<nextCheck, fetching>>
                     ELSE UNCHANGED keyCache

-----------------------------------------------------------------------------
(* main-service: admission *)

Routes == {"news", "feed", "createUser", "users", "grpc"}

\* The groups of the router; the interceptor of the gRPC server asks for no role.
RolesOf(route) ==
    CASE route \in {"news", "users"} -> {"admin"}
      [] route = "feed"              -> {"user", "admin"}
      [] route = "createUser"        -> {"service-account", "admin"}

\* HasRole: a token with the claim azp counts as a service account.  Keycloak puts
\* it into the tokens of users too.
HasRole(t, r) == r = "service-account" \/ r = t.role

\* Mutant: WithoutClaimsValidation.
ValidUnexpired(t, ks) == t.key \in ks

\* Signature and exp; the issuer is the only one there is.
Valid(t, ks) == t.key \in ks /\ now < t.expires

RequireRole(t, route) == IF \E r \in RolesOf(route) : HasRole(t, r) THEN 200 ELSE 403

ValidateJWT(t, route) ==
    /\ GetKeySet
    /\ answer' = [token |-> t, route |-> route, at |-> now,
                  status |-> IF Valid(t, keys') THEN RequireRole(t, route) ELSE 401]
    /\ UNCHANGED <<sessionVars, keycloakKeys, faults>>

\* 200 stands for the call of the handler, 401 for Unauthenticated.
UnaryAuthInterceptor(t) ==
    /\ GetKeySet
    /\ answer' = [token |-> t, route |-> "grpc", at |-> now,
                  status |-> IF Valid(t, keys') THEN 200 ELSE 401]
    /\ UNCHANGED <<sessionVars, keycloakKeys, faults>>

\* There are no keys: the fetch fails, or has failed and is left to the ticker.
NoKeySet(t, route) ==
    /\ keys = NoKeys
    /\ \/ /\ faults < MaxFaults /\ faults' = faults + 1
          /\ keysDue' = now + KeyPeriod
       \/ keysDue # Never /\ UNCHANGED <<keysDue, faults>>
    /\ answer' = [token |-> t, route |-> route, at |-> now, status |-> 401]
    /\ UNCHANGED <<sessionVars, keycloakKeys, keys, nextCheck, fetching, missed, hung>>

-----------------------------------------------------------------------------
\* The ticker is not overslept.
AccessTick ==
    /\ now < nextCheck
    /\ Tick
    /\ hung' = IF fetching THEN hung + 1 ELSE hung
    /\ UNCHANGED <<sessionVars, keycloakKeys, keys, keysDue, nextCheck, fetching, missed, answer>>

AttemptStep == \E ip \in Ips : Attempt(ip)

LoginStep ==
    ((\E x \in Sessions : OpenSession(x)) \/ (\E ip \in Ips : LoginFails(ip))) /\ UNCHANGED vars

SessionStep == (\E x \in Sessions : Refresh(x) \/ Logout(x) \/ Demote(x)) /\ UNCHANGED vars

RotationStep == (RotateKey \/ \E k \in KeyIds : WithdrawKey(k)) /\ UNCHANGED vars

MainServiceStep ==
    /\ \/ CheckKeys /\ UNCHANGED faults
       \/ RefreshKeys
       \/ \E t \in tokens : \/ UnaryAuthInterceptor(t)
                            \/ \E route \in Routes \ {"grpc"} : ValidateJWT(t, route)
                            \/ \E route \in Routes : NoKeySet(t, route)
    /\ UNCHANGED <<key, calls, now>>

AccessNext ==
    AttemptStep \/ LoginStep \/ SessionStep \/ RotationStep \/ MainServiceStep \/ AccessTick

AccessSpec == AccessInit /\ [][AccessNext]_<<vars, accessVars>>

-----------------------------------------------------------------------------
(* Properties *)

\* What the limiter is for: however the attempts and the errors of Redis fall, the
\* logins from one IP, those opened and those on their way to Keycloak, are no more
\* than MaxAttempts in every Window, but for the attempts that could not be counted.
\* (A bound on the sessions opened within one Window does not hold: the calls to
\* Keycloak may take as long as they like.)
LoginsLimited ==
    \A ip \in Ips :
        Cardinality({x \in Sessions : IpOf[x] = ip /\ openedAt[x] # Never}) + handling[ip]
            <= faults + MaxAttempts * (now \div Window + 1)

\* How long the cache may be behind Keycloak: KeyPeriod and CheckPeriod together,
\* once for the keys it has and once for every refresh that failed, and the time
\* that the refreshes took.
KeyLag == (1 + missed) * (KeyPeriod + CheckPeriod) + hung

\* What has ended gets in for a limited time: an access token for the rest of its
\* life after the logout, a lost role as long, a withdrawn key until the cache is
\* refreshed.  (The comment of Logout has the tokens invalid at once, JWT_SETUP.md
\* has the keys refreshed every 10 minutes.)
EndedSoonRefused ==
    [][answer'.status = 200 =>
        LET t == answer'.token  x == t.session IN
        /\ closedAt[x] # Never => now < closedAt[x] + AccessLife
        /\ t.role # role[x] => now < demotedAt[x] + AccessLife
        /\ withdrawn[t.key] # Never => now <= withdrawn[t.key] + KeyLag]_answer

\* What is valid gets in: a token in its life is refused only if its key has been
\* withdrawn, is younger than the lag of the cache, or if no keys could be fetched
\* yet.
ValidAdmitted ==
    [][answer'.status = 401 /\ now < answer'.token.expires =>
        LET k == answer'.token.key IN
        withdrawn[k] # Never \/ now <= introduced[k] + KeyLag \/ keys = NoKeys]_answer
=============================================================================

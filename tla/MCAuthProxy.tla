----------------------------- MODULE MCAuthProxy -----------------------------
(***************************************************************************)
(* The instance of Access and Registration for TLC.  They share nothing    *)
(* but the client of Keycloak, and the keys of two IPs are two copies of   *)
(* one that never meet.  So a behaviour is about the registration of a     *)
(* user and its retry with one email, about attempts to log in, of which   *)
(* any number comes, about the end of a session, or about the keys that    *)
(* sign its tokens.  The fairness of the handlers is asked of all of them. *)
(***************************************************************************)
EXTENDS Access, Registration

CONSTANTS ip1, x1, x2, q1, q2, ann

OneIp    == [x \in {x1, x2} |-> ip1]
OneEmail == [q \in {q1, q2} |-> ann]

VARIABLE part

Parts == {"registration", "attempts", "sessions", "keys"}

Opened == {x \in Sessions : openedAt[x] # Never}

MCInit ==
    /\ part \in Parts
    /\ AccessInit /\ RegistrationInit
    /\ \A x \in Sessions : role[x] = "admin" => part = "sessions" /\ x = x1

\* The attempts open the sessions in their order.
InOrder == x2 \in Opened' => x1 \in Opened

Attempts ==
    \/ AttemptStep
    \/ LoginStep /\ (Opened' = Opened \/ InOrder)
    \/ CheckKeys /\ UNCHANGED vars
    \/ AccessTick

\* One session, of the first attempt.
OneSession ==
    \/ AttemptStep /\ Len(called[ip1]) = 0 /\ now = 0 /\ faults' = 0
    \/ LoginStep /\ Opened' \subseteq {x1}
    \/ MainServiceStep
    \/ AccessTick

\* The keys stay as they are, so that it does not matter how they are refreshed.
SessionEnds == (OneSession \/ SessionStep) /\ faults' = 0 /\ (now' # now => ~fetching)

\* Its user neither logs out nor loses a role.
KeysChange == OneSession \/ RotationStep \/ (Refresh(x1) /\ UNCHANGED vars)

MCNext ==
    /\ UNCHANGED part
    /\ \/ part = "registration" /\ RegistrationNext /\ UNCHANGED <<vars, accessVars>>
       \/ part = "attempts" /\ Attempts /\ UNCHANGED regVars
       \/ part = "sessions" /\ SessionEnds /\ UNCHANGED regVars
       \/ part = "keys" /\ KeysChange /\ UNCHANGED regVars

MCSpec ==
    /\ MCInit /\ [][MCNext]_<<vars, accessVars, regVars, part>>
    /\ \A q \in Requests : Prompt(q)

\* No step reads the last answer, so states that differ in it are the same.
AuthView == <<vars, sessionVars, keycloakKeys, keyCache, regVars, part>>
=============================================================================

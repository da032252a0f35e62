----------------------------- MODULE Registration -----------------------------
(***************************************************************************)
(* Register in auth-proxy (internal/handlers/auth): a saga without a       *)
(* coordinator.  It creates an account in Keycloak in three calls, then    *)
(* the row of the user in main-service, and deletes the account when the   *)
(* row was refused or its answer did not come in time.                     *)
(*                                                                         *)
(* Every call, the deletion too, carries the context of the client's       *)
(* request.  A request is known by the uuid that Keycloak gives it.        *)
(***************************************************************************)
EXTENDS Integers

CONSTANTS
    Requests,
    EmailOf,     \* the email of each request; a retry is another request
    MaxFailures,   \* bound: calls that fail
    MaxCrashes   \* bound: crashes of auth-proxy

ASSUME RegistrationAssumption == MaxFailures \in Nat /\ MaxCrashes \in Nat

VARIABLES
    pc,       \* the handler in auth-proxy
    account,  \* "none", "bare" without a password, or "ready"
    roles,    \* accounts with the role "user"
    ms,       \* the handler in main-service, independent of its client
    rows,     \* the table users
    gone,     \* requests whose client has disconnected: their context is done
    late,     \* requests that main-service did not answer within the client's timeout;
              \* auth-proxy's WriteTimeout, as long, is over before their own answer
    failures, crashes

keycloak == <<account, roles>>
main     == <<ms, rows>>
world    == <<gone, late, crashes>>
regVars  == <<pc, account, roles, ms, rows, gone, late, failures, crashes>>

Ended == {"created", "conflict", "failed"}
Running  == {"create", "password", "undo", "role", "call", "waiting", "rollback"}

RegistrationInit ==
    /\ pc = [q \in Requests |-> "idle"] /\ account = [q \in Requests |-> "none"]
    /\ ms = [q \in Requests |-> "none"]
    /\ roles = {} /\ rows = {} /\ gone = {} /\ late = {}
    /\ failures = 0 /\ crashes = 0

Go(q, from, to) == pc[q] = from /\ pc' = [pc EXCEPT ![q] = to]

\* A call that is answered, and one that is not: whether it was executed is
\* for its action to say.
Ok(q)    == q \notin gone /\ UNCHANGED failures
Fails(q) == \/ q \in gone /\ UNCHANGED failures
            \/ q \notin gone /\ failures < MaxFailures /\ failures' = failures + 1

Account(q, a) == account' = [account EXCEPT ![q] = a]
Deleted(q)    == Account(q, "none") /\ roles' = roles \ {q}

\* Keycloak has an account with the email of q.
Taken(q) == \E r \in Requests : EmailOf[r] = EmailOf[q] /\ account[r] # "none"

-----------------------------------------------------------------------------
(* Keycloak: Client.CreateUser *)

Register(q) ==
    /\ Go(q, "idle", "create")
    /\ UNCHANGED <<keycloak, main, world, failures>>

CreateUser(q) ==
    /\ Ok(q)
    /\ \/ Taken(q) /\ Go(q, "create", "conflict") /\ UNCHANGED account
       \/ ~Taken(q) /\ Go(q, "create", "password") /\ Account(q, "bare")
    /\ UNCHANGED <<roles, main, world>>

\* A failed login of the service account is a call that was not executed.
CreateUserError(q) ==
    /\ Go(q, "create", "failed")
    /\ Fails(q)
    /\ \/ UNCHANGED account
       \/ ~Taken(q) /\ Account(q, "bare")
    /\ UNCHANGED <<roles, main, world>>

SetPassword(q) ==
    /\ Go(q, "password", "role")
    /\ Ok(q)
    /\ Account(q, "ready")
    /\ UNCHANGED <<roles, main, world>>

\* An error, or a password that Keycloak refuses.
SetPasswordError(q) ==
    /\ Go(q, "password", "undo")
    /\ \/ Ok(q) /\ UNCHANGED account
       \/ Fails(q) /\ (UNCHANGED account \/ Account(q, "ready"))
    /\ UNCHANGED <<roles, main, world>>

\* Mutant: a refused password leaves the account.
UndoCreateForgotten(q) ==
    /\ Go(q, "undo", "failed")
    /\ Ok(q) \/ Fails(q)
    /\ UNCHANGED <<keycloak, main, world>>

\* The error of this deletion is ignored.
UndoCreate(q) ==
    /\ Go(q, "undo", "failed")
    /\ \/ (Ok(q) \/ Fails(q)) /\ Deleted(q)
       \/ Fails(q) /\ UNCHANGED keycloak
    /\ UNCHANGED <<main, world>>

AddRole(q) ==
    /\ Go(q, "role", "call")
    /\ Ok(q)
    /\ roles' = roles \cup {q}
    /\ UNCHANGED <<account, main, world>>

\* GetRealmRole fails: the account goes without a role.
RoleUnknown(q) ==
    /\ Go(q, "role", "call")
    /\ Fails(q)
    /\ UNCHANGED <<keycloak, main, world>>

\* The account stays, the registration has failed.
AddRoleError(q) ==
    /\ Go(q, "role", "failed")
    /\ Fails(q)
    /\ UNCHANGED roles \/ roles' = roles \cup {q}
    /\ UNCHANGED <<account, main, world>>

-----------------------------------------------------------------------------
(* main-service: its client in auth-proxy, and the handler of POST /users *)

CallMain(q) ==
    /\ Go(q, "call", "waiting")
    /\ Ok(q)
    /\ ms' = [ms EXCEPT ![q] = "running"]
    /\ UNCHANGED <<keycloak, rows, world>>

CallMainError(q) ==
    /\ Go(q, "call", "rollback")
    /\ Fails(q)
    /\ UNCHANGED <<keycloak, main, world>>

Insert(q) ==
    /\ ms[q] = "running"
    /\ ms' = [ms EXCEPT ![q] = "created"]
    /\ rows' = rows \cup {q}
    /\ UNCHANGED <<pc, keycloak, world, failures>>

\* A name that main-service, unlike auth-proxy, does not accept; a statement
\* that fails, executed or not; a client that is no longer there.
InsertError(q) ==
    /\ ms[q] = "running"
    /\ ms' = [ms EXCEPT ![q] = "refused"]
    /\ \/ UNCHANGED <<rows, failures>>
       \/ /\ failures < MaxFailures /\ failures' = failures + 1
          /\ rows' \in {rows, rows \cup {q}}
    /\ UNCHANGED <<pc, keycloak, world>>

\* Mutant: the status of the answer is not looked at.
AnswerUnchecked(q) ==
    /\ Go(q, "waiting", "created")
    /\ ms[q] \in {"created", "refused"}
    /\ Ok(q)
    /\ UNCHANGED <<keycloak, main, world>>

\* Mutant: the client expects another status than 201.
AnswerNotExpected(q) ==
    /\ Go(q, "waiting", "rollback")
    /\ ms[q] = "created"
    /\ Ok(q)
    /\ UNCHANGED <<keycloak, main, world>>

AnswerCreated(q) ==
    /\ Go(q, "waiting", "created")
    /\ ms[q] = "created"
    /\ Ok(q)
    /\ UNCHANGED <<keycloak, main, world>>

AnswerError(q) ==
    /\ Go(q, "waiting", "rollback")
    /\ ms[q] = "refused"
    /\ Ok(q)
    /\ UNCHANGED <<keycloak, main, world>>

\* Mutant: the client of main-service has no timeout.
WaitForever(q) ==
    /\ Go(q, "waiting", "rollback")
    /\ q \in gone
    /\ UNCHANGED <<keycloak, main, world, failures>>

\* The context is done, or the 10 s are over.
StopWaiting(q) ==
    /\ Go(q, "waiting", "rollback")
    /\ \/ q \in gone /\ UNCHANGED late
       \/ q \notin gone /\ late' = late \cup {q}
    /\ UNCHANGED <<keycloak, main, gone, failures, crashes>>

-----------------------------------------------------------------------------
(* The rollback in Register, and what happens to a request from outside *)

Rollback(q) ==
    /\ Go(q, "rollback", "failed")
    /\ Ok(q) \/ Fails(q)
    /\ Deleted(q)
    /\ UNCHANGED <<main, world>>

\* An error is logged.
RollbackError(q) ==
    /\ Go(q, "rollback", "failed")
    /\ Fails(q)
    /\ UNCHANGED <<keycloak, main, world>>

Disconnect(q) ==
    /\ pc[q] \in Running
    /\ gone' = gone \cup {q}
    /\ UNCHANGED <<pc, keycloak, main, late, failures, crashes>>

Crash ==
    /\ crashes < MaxCrashes
    /\ crashes' = crashes + 1
    /\ pc' = [q \in Requests |-> IF pc[q] \in Running THEN "crashed" ELSE pc[q]]
    /\ UNCHANGED <<keycloak, main, gone, late, failures>>

Handler(q) ==
    \/ CreateUser(q) \/ CreateUserError(q) \/ SetPassword(q) \/ SetPasswordError(q)
    \/ UndoCreate(q) \/ AddRole(q) \/ RoleUnknown(q) \/ AddRoleError(q)
    \/ CallMain(q) \/ CallMainError(q) \/ AnswerCreated(q) \/ AnswerError(q)
    \/ StopWaiting(q) \/ Rollback(q) \/ RollbackError(q)

RegistrationNext ==
    \/ \E q \in Requests : Register(q) \/ Handler(q) \/ Insert(q) \/ InsertError(q) \/ Disconnect(q)
    \/ Crash

RegistrationSpec == RegistrationInit /\ [][RegistrationNext]_regVars

\* main-service may hang; every call to Keycloak returns.
Prompt(q) == WF_regVars(Handler(q))

RegistrationFairSpec == RegistrationSpec /\ \A q \in Requests : Prompt(q)

-----------------------------------------------------------------------------
(* Properties *)

\* Every variable has a value of its kind.
RegistrationTypeOK ==
    /\ pc \in [Requests -> {"idle", "crashed"} \cup Running \cup Ended]
    /\ account \in [Requests -> {"none", "bare", "ready"}]
    /\ ms \in [Requests -> {"none", "running", "created", "refused"}]
    /\ roles \subseteq {q \in Requests : account[q] # "none"}
    /\ rows \subseteq Requests /\ gone \subseteq Requests /\ late \subseteq Requests
    /\ failures \in 0 .. MaxFailures /\ crashes \in 0 .. MaxCrashes

\* A handler that ends with 201 has made, and leaves, an account with a password
\* and a row, whatever failed on the way and whatever other requests do.
CreatedMeansBoth ==
    \A q \in Requests : pc[q] = "created" => account[q] = "ready" /\ q \in rows

\* A row without a usable account takes a call that failed, an answer that came
\* too late or a client that left: a crash at any moment never leaves one.
RowHasAccount ==
    \A q \in rows : account[q] = "ready" \/ failures > 0 \/ q \in gone \cup late

\* All or nothing, as long as nothing fails: a registration that has ended left
\* account, role and row, or, refused at any of its steps, neither account nor
\* row, so that the email is free for the next try.
AllOrNothing ==
    \A q \in Requests :
        pc[q] \in Ended /\ failures = 0 /\ q \notin gone \cup late =>
            IF pc[q] = "created" THEN account[q] = "ready" /\ q \in roles /\ q \in rows
                                 ELSE account[q] = "none" /\ q \notin rows

\* The handler of every request returns, even when main-service hangs.  (Whether
\* the client hears of it is another matter: the answer to a request in late comes
\* after the WriteTimeout.)
Ends(q) == pc[q] = "create" ~> pc[q] \in Ended \cup {"crashed"}

RequestsEnd == \A q \in Requests : Ends(q)
=============================================================================

------------------------------- MODULE UserApi -------------------------------
(***************************************************************************)
(* The users API of main-service (internal/handlers/user, services/user,   *)
(* store/user), and what all HTTP handlers of main-service have in common. *)
(*                                                                         *)
(* Handlers run at the same time, one goroutine per request, and meet in   *)
(* PostgreSQL only, where every statement is atomic and commits by itself. *)
(* A request that executes one statement is therefore one step; those that *)
(* execute more (AlertRules, Feed) are one step per statement.             *)
(***************************************************************************)
EXTENDS Integers, FiniteSets

CONSTANTS
    Users,      \* users.uuid
    MaxFaults,  \* bound: statements that fail, answers that are lost
    NoValue

VARIABLES
    users,      \* the row of a user: "none", "live" or "deleted"
    deletions,  \* DELETE requests for a user that were answered 204
    answer,     \* the last answer of any handler: [op, status, found]
    faults

http     == <<answer, faults>>
userVars == <<users, deletions>>

UserApiInit ==
    /\ users \in [Users -> {"none", "live"}]
    /\ deletions = [u \in Users |-> 0]
    /\ answer = [op |-> "none", status |-> 0, found |-> {}]
    /\ faults = 0

Fault == faults < MaxFaults /\ faults' = faults + 1

-----------------------------------------------------------------------------
(* Answers *)

\* The statement was executed and the client does not know: the answer of the
\* database or that of the handler did not arrive.
Lost == 0

Give(op, status, found) == answer' = [op |-> op, status |-> status, found |-> found]

\* Before any statement.
Refuse(op, status) == Give(op, status, {}) /\ UNCHANGED faults

\* After the last one.
Reply(op, status, found) ==
    \/ Give(op, status, found) /\ UNCHANGED faults
    \/ Give(op, Lost, {}) /\ Fault

\* Instead of one: the database did not execute it.
Fails(op, status) == Give(op, status, {}) /\ Fault

\* The handlers answer 500 to an error they do not know.
UserStatus(op, err) ==
    CASE err = "invalid"  -> 400
      [] err = "notFound" -> 404
      [] err = "failed"   -> 500
      [] op = "create"    -> 201
      [] op = "delete"    -> 204
      [] OTHER            -> 200

UserInvalid(op) == Refuse(op, UserStatus(op, "invalid")) /\ UNCHANGED userVars
UserFails(op)   == Fails(op, UserStatus(op, "failed")) /\ UNCHANGED userVars

-----------------------------------------------------------------------------
(* POST /users *)

\* The primary key refuses a uuid that has a row, deleted or not.
InsertUser(u) ==
    /\ IF users[u] = "none"
       THEN users' = [users EXCEPT ![u] = "live"] /\ Reply("create", UserStatus("create", "ok"), {})
       ELSE UNCHANGED users /\ Reply("create", UserStatus("create", "failed"), {})
    /\ UNCHANGED deletions

CreateUser(u) == UserInvalid("create") \/ UserFails("create") \/ InsertUser(u)

-----------------------------------------------------------------------------
(* GET /users/{uuid}, GET /users *)

\* Both return deleted users too.
GetByUUID(u) ==
    /\ IF users[u] = "none" THEN Reply("get", UserStatus("get", "notFound"), {})
                            ELSE Reply("get", UserStatus("get", "ok"), {u})
    /\ UNCHANGED userVars

GetUser(u) == UserInvalid("get") \/ UserFails("get") \/ GetByUUID(u)

GetAll == Reply("list", UserStatus("list", "ok"), {u \in Users : users[u] # "none"}) /\ UNCHANGED userVars

GetAllUsers == UserFails("list") \/ GetAll

-----------------------------------------------------------------------------
(* DELETE /users/{uuid} *)

\* UPDATE users SET deleted = true WHERE uuid = u AND deleted = false.
SoftDelete(u) ==
    /\ users[u] = "live"
    /\ users' = [users EXCEPT ![u] = "deleted"]
    /\ Reply("delete", UserStatus("delete", "ok"), {})
    /\ deletions' = [deletions EXCEPT ![u] = @ + (IF answer'.status = 204 THEN 1 ELSE 0)]

DeleteUser(u) ==
    \/ UserInvalid("delete") \/ UserFails("delete")
    \/ SoftDelete(u)
    \/ users[u] # "live" /\ Reply("delete", UserStatus("delete", "notFound"), {}) /\ UNCHANGED userVars

UserNext == GetAllUsers \/ \E u \in Users : CreateUser(u) \/ GetUser(u) \/ DeleteUser(u)
=============================================================================

-------------------------- MODULE RegistrationProofs --------------------------
(***************************************************************************)
(* What a registration leaves behind, for any number of requests, emails,  *)
(* failing calls and crashes, and that every handler comes to its end.     *)
(***************************************************************************)
EXTENDS Registration, TLAPS

-----------------------------------------------------------------------------
\* Something happened to the request; it is never taken back.
Trouble(q) == failures > 0 \/ q \in gone \cup late

\* What the handler in auth-proxy knows at each of its steps.
Step(q) ==
    /\ q \in roles => account[q] # "none"
    /\ pc[q] \in {"idle", "create", "conflict"} => account[q] = "none"
    /\ pc[q] = "password" => account[q] = "bare"
    /\ pc[q] = "undo" => account[q] # "none"
    /\ pc[q] \in {"role", "call", "waiting", "rollback", "created"} => account[q] = "ready"
    /\ pc[q] \in {"call", "waiting", "created"} => q \in roles \/ Trouble(q)
    /\ pc[q] = "failed" => Trouble(q) \/ account[q] = "none"

\* How far main-service is with its part.
Row(q) ==
    /\ ms[q] \in {"none", "running"} => q \notin rows
    /\ ms[q] = "created" => q \in rows
    /\ ms[q] = "refused" => q \notin rows \/ Trouble(q)

\* Where the two handlers are: main-service works on the account of a request
\* that waits, unless something happened or auth-proxy crashed.
Both(q) ==
    /\ pc[q] \in {"idle", "create", "conflict", "password", "undo", "role", "call"} => ms[q] = "none"
    /\ pc[q] = "waiting" => ms[q] # "none"
    /\ pc[q] \in {"rollback", "failed"} => ms[q] \in {"none", "refused"} \/ Trouble(q)
    /\ pc[q] = "created" => ms[q] = "created"
    /\ pc[q] = "crashed" => ms[q] = "none" \/ account[q] = "ready" \/ Trouble(q)

\* The types alone: that roles go to existing accounts needs Step.
Kinds ==
    /\ pc \in [Requests -> {"idle", "crashed"} \cup Running \cup Ended]
    /\ account \in [Requests -> {"none", "bare", "ready"}]
    /\ ms \in [Requests -> {"none", "running", "created", "refused"}]
    /\ roles \subseteq Requests /\ rows \subseteq Requests
    /\ gone \subseteq Requests /\ late \subseteq Requests
    /\ failures \in 0 .. MaxFailures /\ crashes \in 0 .. MaxCrashes

Part(q) == Step(q) /\ Row(q) /\ Both(q)

IInv == Kinds /\ \A q \in Requests : Part(q)

-----------------------------------------------------------------------------
USE RegistrationAssumption

\* Type correctness of the initial states.
LEMMA TypeInit == RegistrationInit => Kinds
BY DEF RegistrationInit, Kinds

\* A call fails within the bound, and failing is never taken back.
LEMMA CallFaults ==
    ASSUME Kinds, NEW q \in Requests, Ok(q) \/ Fails(q)
    PROVE  failures' \in 0 .. MaxFailures /\ failures' >= failures /\ (Fails(q) => failures' > 0 \/ q \in gone)
BY DEF Kinds, Ok, Fails

\* Every step of the handler in auth-proxy keeps the types.
LEMMA HandlerType ==
    ASSUME Kinds, NEW q \in Requests, Handler(q)
    PROVE  Kinds'
<1> USE DEF Go, Account, Deleted, keycloak, main, world, Running, Ended
<1>1. CASE CreateUser(q)
  BY <1>1, CallFaults DEF CreateUser, Kinds
<1>2. CASE CreateUserError(q)
  BY <1>2, CallFaults DEF CreateUserError, Kinds
<1>3. CASE SetPassword(q)
  BY <1>3, CallFaults DEF SetPassword, Kinds
<1>4. CASE SetPasswordError(q)
  BY <1>4, CallFaults DEF SetPasswordError, Kinds
<1>5. CASE UndoCreate(q)
  BY <1>5, CallFaults DEF UndoCreate, Kinds
<1>6. CASE AddRole(q)
  BY <1>6, CallFaults DEF AddRole, Kinds
<1>7. CASE RoleUnknown(q)
  BY <1>7, CallFaults DEF RoleUnknown, Kinds
<1>8. CASE AddRoleError(q)
  BY <1>8, CallFaults DEF AddRoleError, Kinds
<1>9. CASE CallMain(q)
  BY <1>9, CallFaults DEF CallMain, Kinds
<1>10. CASE CallMainError(q)
  BY <1>10, CallFaults DEF CallMainError, Kinds
<1>11. CASE AnswerCreated(q)
  BY <1>11, CallFaults DEF AnswerCreated, Kinds
<1>12. CASE AnswerError(q)
  BY <1>12, CallFaults DEF AnswerError, Kinds
<1>13. CASE StopWaiting(q)
  BY <1>13 DEF StopWaiting, Kinds
<1>14. CASE Rollback(q)
  BY <1>14, CallFaults DEF Rollback, Kinds
<1>15. CASE RollbackError(q)
  BY <1>15, CallFaults DEF RollbackError, Kinds
<1> QED BY <1>1, <1>2, <1>3, <1>4, <1>5, <1>6, <1>7, <1>8, <1>9, <1>10, <1>11, <1>12,
           <1>13, <1>14, <1>15 DEF Handler


\* Every step keeps the types.
LEMMA TypeStep == Kinds /\ [RegistrationNext]_regVars => Kinds'
<1> SUFFICES ASSUME Kinds, [RegistrationNext]_regVars PROVE Kinds'
  OBVIOUS
<1> USE DEF Go, keycloak, main, world, Running, Ended
<1>1. ASSUME NEW q \in Requests, Register(q) PROVE Kinds'
  BY <1>1 DEF Register, Kinds
<1>2. ASSUME NEW q \in Requests, Handler(q) PROVE Kinds'
  BY <1>2, HandlerType
<1>3. ASSUME NEW q \in Requests, Insert(q) PROVE Kinds'
  BY <1>3 DEF Insert, Kinds
<1>4. ASSUME NEW q \in Requests, InsertError(q) PROVE Kinds'
  BY <1>4 DEF InsertError, Kinds
<1>5. ASSUME NEW q \in Requests, Disconnect(q) PROVE Kinds'
  BY <1>5 DEF Disconnect, Kinds
<1>6. CASE Crash
  BY <1>6 DEF Crash, Kinds
<1>7. CASE UNCHANGED regVars
  BY <1>7 DEF regVars, Kinds
<1> QED BY <1>1, <1>2, <1>3, <1>4, <1>5, <1>6, <1>7 DEF RegistrationNext

-----------------------------------------------------------------------------
\* A step that leaves q alone.
Same(q) ==
    /\ pc'[q] = pc[q] /\ account'[q] = account[q] /\ ms'[q] = ms[q]
    /\ q \in roles' <=> q \in roles
    /\ q \in rows' <=> q \in rows
    /\ Trouble(q) => Trouble(q)'

LEMMA SameKeeps ==
    ASSUME NEW q \in Requests, Part(q), Same(q)
    PROVE  Part(q)'
BY DEF Part, Same, Step, Row, Both

\* A step of one request leaves every other alone.
LEMMA HandlerOthers ==
    ASSUME Kinds, NEW p \in Requests, NEW q \in Requests, p # q, Handler(p)
    PROVE  Same(q)
<1> USE DEF Go, Account, Deleted, keycloak, main, world, Same, Trouble
<1>1. CASE UNCHANGED failures \/ failures' = failures + 1
  BY <1>1 DEF Kinds, Handler, CreateUser, CreateUserError, SetPassword, SetPasswordError,
     UndoCreate, AddRole, RoleUnknown, AddRoleError, CallMain, CallMainError, AnswerCreated,
     AnswerError, StopWaiting, Rollback, RollbackError
<1>2. UNCHANGED failures \/ failures' = failures + 1
  BY DEF Handler, CreateUser, CreateUserError, SetPassword, SetPasswordError,
     UndoCreate, AddRole, RoleUnknown, AddRoleError, CallMain, CallMainError, AnswerCreated,
     AnswerError, StopWaiting, Rollback, RollbackError, Ok, Fails
<1> QED BY <1>1, <1>2

\* Its own step keeps what is known of it.
LEMMA HandlerKeeps ==
    ASSUME Kinds, NEW q \in Requests, Part(q), Handler(q)
    PROVE  Part(q)'
<1> USE DEF Go, Account, Deleted, keycloak, main, world, Part, Step, Row, Both, Trouble, Ok, Fails, Kinds
<1>1. CASE CreateUser(q)
  BY <1>1 DEF CreateUser
<1>2. CASE CreateUserError(q)
  BY <1>2 DEF CreateUserError
<1>3. CASE SetPassword(q)
  BY <1>3 DEF SetPassword
<1>4. CASE SetPasswordError(q)
  BY <1>4 DEF SetPasswordError
<1>5. CASE UndoCreate(q)
  BY <1>5 DEF UndoCreate
<1>6. CASE AddRole(q)
  BY <1>6 DEF AddRole
<1>7. CASE RoleUnknown(q)
  BY <1>7 DEF RoleUnknown
<1>8. CASE AddRoleError(q)
  BY <1>8 DEF AddRoleError
<1>9. CASE CallMain(q)
  BY <1>9 DEF CallMain
<1>10. CASE CallMainError(q)
  BY <1>10 DEF CallMainError
<1>11. CASE AnswerCreated(q)
  BY <1>11 DEF AnswerCreated
<1>12. CASE AnswerError(q)
  BY <1>12 DEF AnswerError
<1>13. CASE StopWaiting(q)
  BY <1>13 DEF StopWaiting
<1>14. CASE Rollback(q)
  BY <1>14 DEF Rollback
<1>15. CASE RollbackError(q)
  BY <1>15 DEF RollbackError
<1> QED BY <1>1, <1>2, <1>3, <1>4, <1>5, <1>6, <1>7, <1>8, <1>9, <1>10, <1>11, <1>12,
           <1>13, <1>14, <1>15 DEF Handler

\* The strengthened invariant is inductive.
LEMMA InvStep == IInv /\ [RegistrationNext]_regVars => IInv'
<1> SUFFICES ASSUME IInv, [RegistrationNext]_regVars, NEW q \in Requests PROVE Part(q)'
  BY TypeStep DEF IInv
<1>1. Kinds /\ Part(q)
  BY DEF IInv
<1> USE <1>1 DEF Go, keycloak, main, world
<1>2. ASSUME NEW p \in Requests, Handler(p) PROVE Part(q)'
  BY <1>2, HandlerKeeps, HandlerOthers, SameKeeps
<1>3. ASSUME NEW p \in Requests, Register(p) PROVE Part(q)'
  BY <1>3 DEF Register, Kinds, Part, Step, Row, Both, Trouble
<1>4. ASSUME NEW p \in Requests, Insert(p) PROVE Part(q)'
  BY <1>4 DEF Insert, Kinds, Part, Step, Row, Both, Trouble
<1>5. ASSUME NEW p \in Requests, InsertError(p) PROVE Part(q)'
  BY <1>5 DEF InsertError, Kinds, Part, Step, Row, Both, Trouble
<1>6. ASSUME NEW p \in Requests, Disconnect(p) PROVE Part(q)'
  BY <1>6 DEF Disconnect, Kinds, Part, Step, Row, Both, Trouble
<1>7. CASE Crash
  BY <1>7 DEF Crash, Running, Kinds, Part, Step, Row, Both, Trouble
<1>8. CASE UNCHANGED regVars
  BY <1>8, SameKeeps DEF regVars, Same, Trouble
<1> QED BY <1>2, <1>3, <1>4, <1>5, <1>6, <1>7, <1>8 DEF RegistrationNext

\* The initial states have the strengthened invariant.
LEMMA InvInit == RegistrationInit => IInv
BY TypeInit DEF RegistrationInit, IInv, Part, Step, Row, Both

-----------------------------------------------------------------------------
\* Type correctness: in particular, a role belongs to an account that exists.
THEOREM RegistrationTypeCorrect == RegistrationSpec => []RegistrationTypeOK
<1>1. IInv => RegistrationTypeOK
  BY DEF IInv, Kinds, Part, Step, RegistrationTypeOK
<1> QED BY <1>1, InvInit, InvStep, PTL DEF RegistrationSpec

\* 201 means an account with a password and a row, for any number of requests
\* and failures.
THEOREM Created == RegistrationSpec => []CreatedMeansBoth
<1>1. IInv => CreatedMeansBoth
  BY DEF IInv, Part, Step, Row, Both, CreatedMeansBoth
<1> QED BY <1>1, InvInit, InvStep, PTL DEF RegistrationSpec

\* Crashes alone never leave a row without a usable account.
THEOREM RowsHaveAccounts == RegistrationSpec => []RowHasAccount
<1>1. IInv => RowHasAccount
  BY DEF IInv, Kinds, Part, Step, Row, Both, Trouble, Running, Ended, RowHasAccount
<1> QED BY <1>1, InvInit, InvStep, PTL DEF RegistrationSpec

\* Without a failure a registration does everything or nothing.
THEOREM Atomic == RegistrationSpec => []AllOrNothing
<1>1. IInv => AllOrNothing
  BY DEF IInv, Kinds, Part, Step, Row, Both, Trouble, Ended, AllOrNothing
<1> QED BY <1>1, InvInit, InvStep, PTL DEF RegistrationSpec
-----------------------------------------------------------------------------
(* Every request comes to its end *)

\* How many steps the handler has left at most.
StepsLeft(p) ==
    CASE p = "create" -> 6
      [] p = "password" -> 5
      [] p = "role" -> 4
      [] p = "call" -> 3
      [] p = "waiting" -> 2
      [] p \in {"undo", "rollback"} -> 1
      [] OTHER -> 0

\* Each step of the handler brings its end nearer.
LEMMA HandlerNearer ==
    ASSUME Kinds, NEW q \in Requests, Handler(q)
    PROVE  /\ pc'[q] \in Running \cup Ended
           /\ StepsLeft(pc'[q]) < StepsLeft(pc[q])
BY DEF Kinds, StepsLeft, Running, Ended, Handler, Go, CreateUser, CreateUserError,
     SetPassword, SetPasswordError, UndoCreate, AddRole, RoleUnknown, AddRoleError, CallMain,
     CallMainError, AnswerCreated, AnswerError, StopWaiting, Rollback, RollbackError

\* The saga has no way back and no loop, for any number of requests that work at the
\* same time: from its first step on, whatever fails and whatever the other requests,
\* main-service and the client do, a handler that moves has fewer steps before it
\* than it had, at most six in all, and one that has ended or crashed does not move.
THEOREM HandlersAdvance ==
    RegistrationSpec => [][\A q \in Requests : pc'[q] # pc[q] =>
                              \/ pc[q] = "idle" /\ pc'[q] = "create"
                              \/ pc[q] \in Running /\ pc'[q] \in Running \cup Ended \cup {"crashed"}
                                     /\ StepsLeft(pc'[q]) < StepsLeft(pc[q])]_regVars
<1>1. Kinds /\ [RegistrationNext]_regVars =>
          [\A q \in Requests : pc'[q] # pc[q] =>
              \/ pc[q] = "idle" /\ pc'[q] = "create"
              \/ pc[q] \in Running /\ pc'[q] \in Running \cup Ended \cup {"crashed"}
                     /\ StepsLeft(pc'[q]) < StepsLeft(pc[q])]_regVars
  <2> SUFFICES ASSUME Kinds, [RegistrationNext]_regVars, NEW q \in Requests, pc'[q] # pc[q]
               PROVE  \/ pc[q] = "idle" /\ pc'[q] = "create"
                      \/ pc[q] \in Running /\ pc'[q] \in Running \cup Ended \cup {"crashed"}
                             /\ StepsLeft(pc'[q]) < StepsLeft(pc[q])
    OBVIOUS
  <2>1. ASSUME NEW p \in Requests, Handler(p) PROVE p = q /\ pc[q] \in Running
    <3>1. p = q
      BY <2>1, HandlerOthers DEF Same
    <3>2. pc[p] \in Running
      BY <2>1 DEF Running, Handler, Go, CreateUser, CreateUserError,
         SetPassword, SetPasswordError, UndoCreate, AddRole, RoleUnknown, AddRoleError, CallMain,
         CallMainError, AnswerCreated, AnswerError, StopWaiting, Rollback, RollbackError
    <3> QED BY <3>1, <3>2
  <2>2. CASE \E p \in Requests : Handler(p)
    BY <2>1, <2>2, HandlerNearer
  <2>3. CASE \E p \in Requests : Register(p) \/ Insert(p) \/ InsertError(p) \/ Disconnect(p)
    BY <2>3 DEF Register, Insert, InsertError, Disconnect, Go, Kinds
  <2>4. CASE Crash
    BY <2>4 DEF Crash, Running, StepsLeft, Kinds
  <2>5. CASE UNCHANGED regVars
    BY <2>5 DEF regVars
  <2> QED BY <2>2, <2>3, <2>4, <2>5 DEF RegistrationNext
<1>2. RegistrationSpec => []Kinds
  BY TypeInit, TypeStep, PTL DEF RegistrationSpec
<1> QED BY <1>1, <1>2, PTL DEF RegistrationSpec
=============================================================================

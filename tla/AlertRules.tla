----------------------------- MODULE AlertRules -----------------------------
(***************************************************************************)
(* The alert rules API of main-service (internal/handlers/alerting,        *)
(* services/alerting, store/alerting) and its reader: the cache of active  *)
(* rules in news-processor, refreshed every 45 seconds over gRPC, with     *)
(* which news items are matched.                                           *)
(*                                                                         *)
(* CreateRule counts the user's active rules in one statement and inserts  *)
(* the new one in another, without a transaction.                          *)
(***************************************************************************)
EXTENDS UserApi

CONSTANTS
    RuleIds,    \* alert_rules.id, fresh for every insert
    Slots,      \* slots for concurrent CreateRule requests
    MaxActive,  \* maxActiveRulesPerUser = 20
    Period,     \* of the ticker of alertRulesRefresher, in ticks of the clock
    MaxToggles, \* bound: updates that switch a rule on, per user
    MaxCalling, \* bound: ticks in calls since the cache was read
    NoAge       \* bound: ages are not counted any further

ASSUME RulesAssumption ==
    /\ IsFiniteSet(Slots) /\ IsFiniteSet(RuleIds)
    /\ MaxActive \in Nat \ {0} /\ MaxToggles \in Nat /\ MaxFaults \in Nat
    /\ Period \in Nat \ {0} /\ MaxCalling \in Nat
    /\ NoAge \in Nat /\ NoAge > (1 + MaxFaults) * Period + MaxCalling
    /\ NoValue \notin Users

VARIABLES
    owner,        \* user_uuid of a rule, NoValue without a row
    active,       \* rules with is_active
    born,         \* rules ever inserted
    removed,      \* rules whose DELETE was answered 204
    alerted,      \* rules with a row in alert_events for the item that is matched
    creating,     \* CreateRule between its two statements: the user, or NoValue
    reactivated,  \* updates that switched a rule of a user on
    age,          \* ticks since a rule was switched on or off, inserted or deleted
    cache,        \* cachedAlertRules of news-processor
    refresh,      \* its refresher: "wait", "call" or "set"
    fetched,      \* the rules main-service answered with
    due,          \* ticks until the ticker fires, NoTicker before there is one
    fired,        \* a tick is in the channel of the ticker
    lasting,      \* ticks that the last call has taken
    calling,      \* ticks in calls since the one that filled the cache began
    missed        \* refreshes that failed since the last one that did not

ruleTables == <<owner, active, born, removed, reactivated, age>>
ticker     == <<due, fired, lasting, calling>>
refresher  == <<cache, refresh, fetched, ticker, missed>>
ruleVars   == <<ruleTables, alerted, creating, refresher>>

NoTicker == -1

RulesTypeOK ==
    /\ owner \in [RuleIds -> Users \cup {NoValue}]
    /\ born \subseteq RuleIds
    /\ active \subseteq {r \in RuleIds : owner[r] # NoValue} /\ active \subseteq born
    /\ alerted \subseteq {r \in RuleIds : owner[r] # NoValue}
    /\ creating \in [Slots -> Users \cup {NoValue}]
    /\ reactivated \in [Users -> 0 .. MaxToggles]
    /\ age \in [RuleIds -> 0 .. NoAge]
    /\ cache \subseteq born /\ fetched \subseteq born
    /\ refresh \in {"wait", "call", "set"}
    /\ due \in {NoTicker} \cup 1 .. Period /\ fired \in BOOLEAN
    /\ lasting \in 0 .. calling /\ calling \in 0 .. MaxCalling /\ missed \in Nat

AlertRulesInit ==
    /\ owner = [r \in RuleIds |-> NoValue]
    /\ active = {} /\ born = {} /\ removed = {} /\ alerted = {}
    /\ creating = [s \in Slots |-> NoValue]
    /\ reactivated = [u \in Users |-> 0]
    /\ age = [r \in RuleIds |-> NoAge]
    /\ cache = {} /\ refresh = "call" /\ fetched = {} /\ missed = 0
    /\ due = NoTicker /\ fired = FALSE /\ lasting = 0 /\ calling = 0

ActiveRules(u) == {r \in active : owner[r] = u}
RulesOf(u)     == {r \in RuleIds : owner[r] = u}

\* Every error but ErrRuleNotFound is a 400, except in ListRules.
RuleStatus(op, err) ==
    CASE err = "notFound"                        -> 404
      [] err # "ok" /\ op = "listRules"          -> 500
      [] err # "ok"                              -> 400
      [] op = "createRule"                       -> 201
      [] op \in {"updateRule", "deleteRule"}     -> 204
      [] OTHER                                   -> 200

RuleInvalid(op) == Refuse(op, RuleStatus(op, "invalid")) /\ UNCHANGED ruleVars
RuleFails(op)   == Fails(op, RuleStatus(op, "failed")) /\ UNCHANGED ruleVars

\* Rules are switched on, or off, or leave the table.
Switch(on, off) ==
    /\ active' = (active \cup on) \ off
    /\ age' = [r \in RuleIds |-> IF (r \in active) = (r \in active') THEN age[r] ELSE 0]

-----------------------------------------------------------------------------
(* POST /alerts/rules *)

LimitReached(u) == Cardinality(ActiveRules(u)) >= MaxActive

\* The keyword is validated before the count, the cooldown and the channel after.
CreateRule(s, u) ==
    /\ creating[s] = NoValue
    /\ \/ RuleInvalid("createRule") \/ RuleFails("createRule")
       \/ LimitReached(u) /\ Reply("createRule", RuleStatus("createRule", "limit"), {}) /\ UNCHANGED ruleVars
       \/ /\ ~LimitReached(u)
          /\ creating' = [creating EXCEPT ![s] = u]
          /\ UNCHANGED <<http, ruleTables, alerted, refresher>>

\* The foreign key wants a row of the user; a deleted one will do.
InsertRule(s, r) ==
    LET u == creating[s] IN
    /\ u # NoValue /\ users[u] # "none"
    /\ r \notin born
    /\ owner' = [owner EXCEPT ![r] = u]
    /\ born' = born \cup {r}
    /\ Switch({r}, {})
    /\ creating' = [creating EXCEPT ![s] = NoValue]
    /\ Reply("createRule", RuleStatus("createRule", "ok"), {r})
    /\ UNCHANGED <<removed, reactivated, alerted, refresher>>

\* No row of the user, a keyword of more than 200 characters, an error.
InsertRuleFails(s) ==
    /\ creating[s] # NoValue
    /\ creating' = [creating EXCEPT ![s] = NoValue]
    /\ Refuse("createRule", RuleStatus("createRule", "failed"))
    /\ UNCHANGED <<ruleTables, alerted, refresher>>

-----------------------------------------------------------------------------
(* PUT and DELETE /alerts/rules/{id} *)

\* Mutant: INSERT ... ON CONFLICT (id) DO UPDATE instead of UPDATE.
UpsertRule(u, r, on) ==
    /\ r \in born /\ users[u] # "none"
    /\ owner' = [owner EXCEPT ![r] = u]
    /\ IF on THEN Switch({r}, {}) ELSE Switch({}, {r})
    /\ Reply("updateRule", RuleStatus("updateRule", "ok"), {})
    /\ UNCHANGED <<born, removed, reactivated, alerted, creating, refresher>>

\* UPDATE ... WHERE id = r AND user_uuid = u.  No limit is checked.
SetRule(u, r, on) ==
    /\ owner[r] = u
    /\ IF on THEN Switch({r}, {}) ELSE Switch({}, {r})
    /\ IF on /\ r \notin active
       THEN reactivated[u] < MaxToggles /\ reactivated' = [reactivated EXCEPT ![u] = @ + 1]
       ELSE UNCHANGED reactivated
    /\ Reply("updateRule", RuleStatus("updateRule", "ok"), {})
    /\ UNCHANGED <<owner, born, removed, alerted, creating, refresher>>

\* The statement affects no row: ErrRuleNotFound.
NoSuchRule(op, u, r) ==
    owner[r] # u /\ Reply(op, RuleStatus(op, "notFound"), {}) /\ UNCHANGED ruleVars

UpdateRule(u, r, on) ==
    \/ RuleInvalid("updateRule") \/ RuleFails("updateRule")
    \/ SetRule(u, r, on) \/ NoSuchRule("updateRule", u, r)

\* DELETE ... WHERE id = r AND user_uuid = u; the alert events cascade.
RemoveRule(u, r) ==
    /\ owner[r] = u
    /\ owner' = [owner EXCEPT ![r] = NoValue]
    /\ Switch({}, {r})
    /\ alerted' = alerted \ {r}
    /\ Reply("deleteRule", RuleStatus("deleteRule", "ok"), {})
    /\ removed' = IF answer'.status = 204 THEN removed \cup {r} ELSE removed
    /\ UNCHANGED <<born, reactivated, creating, refresher>>

DeleteRule(u, r) ==
    \/ RuleInvalid("deleteRule") \/ RuleFails("deleteRule")
    \/ RemoveRule(u, r) \/ NoSuchRule("deleteRule", u, r)

-----------------------------------------------------------------------------
(* GET /alerts/rules, GET /alerts/events *)

SelectRules(u) == Reply("listRules", RuleStatus("listRules", "ok"), RulesOf(u)) /\ UNCHANGED ruleVars

ListRules(u) == RuleFails("listRules") \/ SelectRules(u)

SelectEvents(u) ==
    Reply("listEvents", RuleStatus("listEvents", "ok"), alerted \cap RulesOf(u)) /\ UNCHANGED ruleVars

\* A limit or an offset that is no number, an unknown status.
ListEvents(u) == RuleInvalid("listEvents") \/ RuleFails("listEvents") \/ SelectEvents(u)

-----------------------------------------------------------------------------
(* news-processor: alertRulesRefresher and matchAlertEvents *)

RefreshFrame == UNCHANGED <<ruleTables, alerted, creating, answer>>

\* The process starts with a call; further ones are made when the ticker fires.
StartRefresh ==
    /\ refresh = "wait" /\ fired
    /\ refresh' = "call"
    /\ fired' = FALSE /\ lasting' = 0
    /\ UNCHANGED <<cache, fetched, due, calling, missed, faults>> /\ RefreshFrame

\* The gRPC handler of main-service reads the rules of all users.
ListActiveRules ==
    /\ refresh = "call"
    /\ refresh' = "set"
    /\ fetched' = active
    /\ UNCHANGED <<cache, ticker, missed, faults>> /\ RefreshFrame

\* refresh() returns; the ticker is made after its first return.
Return ==
    /\ refresh' = "wait" /\ fetched' = {}
    /\ due' = IF due = NoTicker THEN Period ELSE due
    /\ UNCHANGED <<fired, lasting>> /\ RefreshFrame

\* Mutant: the answer is added to what the cache holds.
MergeRules ==
    /\ refresh = "set"
    /\ cache' = cache \cup fetched
    /\ missed' = 0 /\ calling' = lasting
    /\ Return
    /\ UNCHANGED faults

SetRules ==
    /\ refresh = "set"
    /\ cache' = fetched
    /\ missed' = 0 /\ calling' = lasting
    /\ Return
    /\ UNCHANGED faults

\* The old rules stay in use until the next tick.
RefreshFails ==
    /\ refresh # "wait"
    /\ Fault
    /\ missed' = missed + 1
    /\ Return
    /\ UNCHANGED <<cache, calling>>

\* An item matches a cached rule; its alert gets a row if the rule is there.
Match(r) ==
    /\ r \in cache
    /\ alerted' = IF owner[r] = NoValue THEN alerted ELSE alerted \cup {r}
    /\ UNCHANGED <<ruleTables, creating, refresher, http>>

\* Time that passes in a call, which has no deadline, and outside of one.
CallTick ==
    /\ refresh # "wait" /\ calling < MaxCalling
    /\ lasting' = lasting + 1 /\ calling' = calling + 1

WaitTick ==
    /\ refresh = "wait" /\ ~fired
    /\ UNCHANGED <<lasting, calling>>

\* The channel of the ticker holds one tick; what fires meanwhile is dropped.
Tick ==
    /\ CallTick \/ WaitTick
    /\ due' = IF due = 1 THEN Period ELSE IF due = NoTicker THEN NoTicker ELSE due - 1
    /\ fired' = (fired \/ due = 1)
    /\ age' = [r \in RuleIds |-> IF age[r] < NoAge THEN age[r] + 1 ELSE NoAge]
    /\ UNCHANGED <<owner, active, born, removed, reactivated, alerted, creating, cache, refresh, fetched,
                   missed, http>>

-----------------------------------------------------------------------------
RuleRequest ==
    \E u \in Users :
        \/ \E s \in Slots : CreateRule(s, u)
        \/ \E r \in RuleIds : DeleteRule(u, r) \/ \E on \in BOOLEAN : UpdateRule(u, r, on)
        \/ ListRules(u) \/ ListEvents(u)

RuleInsert == \E s \in Slots : InsertRuleFails(s) \/ \E r \in RuleIds : InsertRule(s, r)

RefresherStep ==
    StartRefresh \/ ListActiveRules \/ SetRules \/ RefreshFails \/ Tick \/ (\E r \in RuleIds : Match(r))

RulesNext == (RuleRequest \/ RuleInsert \/ RefresherStep) /\ UNCHANGED userVars

AlertRulesSpec ==
    /\ UserApiInit /\ AlertRulesInit
    /\ [][RulesNext \/ (UserNext /\ UNCHANGED ruleVars)]_<<userVars, http, ruleVars>>

-----------------------------------------------------------------------------
(* Properties *)

\* Handlers that have counted and not yet inserted.
Counted(u) == {s \in Slots : creating[s] = u}

\* The limit is checked without a lock.  What still bounds the active rules of a
\* user: each slot can carry one create past a check, and each update that
\* switches a rule on adds one.
LimitBound ==
    \A u \in Users :
        Cardinality(ActiveRules(u)) + Cardinality(Counted(u))
            <= MaxActive - 1 + Cardinality(Slots) + reactivated[u]

\* Feat_AlertingMVP.md: no more than 20 active rules per user.
WithinLimit == \A u \in Users : Cardinality(ActiveRules(u)) <= MaxActive

\* What an answer promised holds for good, whatever the other handlers do: a user
\* is deleted by one request only and stays deleted, and a rule that was deleted
\* does not come back with a late update.
AcksHold ==
    /\ \A u \in Users : deletions[u] <= 1 /\ (deletions[u] = 1 => users[u] = "deleted")
    /\ \A r \in removed : owner[r] = NoValue

\* How long the matcher may be behind the API: a period, one more for every refresh
\* in a row that failed, and the time that the calls took, the one that filled the
\* cache and those since.
Staleness == (1 + missed) * Period + calling

\* A rule that was switched off, or deleted, longer ago than that is no longer
\* matched, and one that has been active for longer is.
CacheFresh ==
    /\ \A r \in cache \ active : age[r] <= Staleness
    /\ \A r \in active \ cache : age[r] <= Staleness
=============================================================================

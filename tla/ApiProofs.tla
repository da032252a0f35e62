------------------------------ MODULE ApiProofs ------------------------------
(***************************************************************************)
(* For any number of users, slots, rules, news items and instances, and    *)
(* any number of faults: what still bounds the active rules of a user, how *)
(* old the cache of rules gets, that answers hold, that migrations are     *)
(* applied once and in order, how long news is kept, that hidden items     *)
(* stay hidden, and that no row refers to one that is gone.                *)
(***************************************************************************)
EXTENDS MainApi, FiniteSetTheorems, TLAPS

-----------------------------------------------------------------------------
(* Alert rules *)

\* Rules ever inserted keep their ids, and what was deleted stays away.
RulesInv ==
    /\ owner \in [RuleIds -> Users \cup {NoValue}]
    /\ born \subseteq RuleIds /\ active \subseteq born /\ removed \subseteq born
    /\ creating \in [Slots -> Users \cup {NoValue}]
    /\ reactivated \in [Users -> Nat]
    /\ LimitBound
    /\ \A r \in removed \cup (RuleIds \ born) : owner[r] = NoValue

RulesBase == <<owner, active, born, removed, creating, reactivated>>

OfUser(A, O, u) == {r \in A : O[r] = u}
InSlots(C, u)   == {s \in Slots : C[s] = u}

\* The bound of one user, from the rules that are active, their owners, the slots
\* and the switches.
Bounded(A, O, C, k, u) ==
    Cardinality({r \in A : O[r] = u}) + Cardinality({s \in Slots : C[s] = u})
        <= MaxActive - 1 + Cardinality(Slots) + k

LEMMA BoundedDef ==
    LimitBound <=> \A u \in Users : Bounded(active, owner, creating, reactivated[u], u)
BY DEF LimitBound, Bounded, ActiveRules, Counted

LEMMA Sizes ==
    /\ MaxActive \in Nat /\ MaxActive >= 1 /\ NoValue \notin Users
    /\ IsFiniteSet(Slots) /\ Cardinality(Slots) \in Nat
    /\ \A T \in SUBSET RuleIds : IsFiniteSet(T) /\ Cardinality(T) \in Nat
    /\ \A T \in SUBSET Slots : IsFiniteSet(T) /\ Cardinality(T) \in Nat /\ Cardinality(T) <= Cardinality(Slots)
<1>1. \A T \in SUBSET RuleIds : IsFiniteSet(T)
  BY RulesAssumption, FS_Subset
<1>2. \A T \in SUBSET Slots : IsFiniteSet(T) /\ Cardinality(T) <= Cardinality(Slots)
  BY RulesAssumption, FS_Subset
<1> QED
  BY <1>1, <1>2, RulesAssumption, FS_CardinalityType

\* Fewer rules, the same slots.
LEMMA FewerRules ==
    ASSUME NEW A \in SUBSET RuleIds, NEW O, NEW B \in SUBSET RuleIds, NEW P, NEW C, NEW k \in Nat, NEW l \in Nat,
           NEW u, k <= l, {r \in B : P[r] = u} \subseteq {r \in A : O[r] = u}, Bounded(A, O, C, k, u)
    PROVE  Bounded(B, P, C, l, u)
<1> DEFINE S == {r \in A : O[r] = u}  T == {r \in B : P[r] = u}  N == {s \in Slots : C[s] = u}
<1>1. IsFiniteSet(S) /\ Cardinality(S) \in Nat /\ Cardinality(T) \in Nat /\ Cardinality(N) \in Nat
  BY Sizes
<1>2. Cardinality(T) <= Cardinality(S)
  BY <1>1, FS_Subset
<1>3. Cardinality(S) + Cardinality(N) <= MaxActive - 1 + Cardinality(Slots) + k
  BY DEF Bounded
<1>4. Cardinality(T) + Cardinality(N) <= MaxActive - 1 + Cardinality(Slots) + l
  BY <1>1, <1>2, <1>3, Sizes
<1> QED
  BY <1>4 DEF Bounded

\* A handler that has counted fewer than the limit.
LEMMA MoreCounted ==
    ASSUME NEW A \in SUBSET RuleIds, NEW O, NEW C, NEW k \in Nat, NEW u,
           Cardinality({r \in A : O[r] = u}) < MaxActive
    PROVE  Bounded(A, O, C, k, u)
<1> DEFINE S == {r \in A : O[r] = u}  N == {s \in Slots : C[s] = u}
<1>1. Cardinality(S) \in Nat /\ Cardinality(N) \in Nat /\ Cardinality(N) <= Cardinality(Slots)
  BY Sizes
<1>2. Cardinality(S) + Cardinality(N) <= MaxActive - 1 + Cardinality(Slots) + k
  BY <1>1, Sizes
<1> QED
  BY <1>2 DEF Bounded

\* Fewer slots, the same rules.
LEMMA FewerCounted ==
    ASSUME NEW A \in SUBSET RuleIds, NEW O, NEW C, NEW D, NEW k \in Nat, NEW u,
           {s \in Slots : D[s] = u} \subseteq {s \in Slots : C[s] = u}, Bounded(A, O, C, k, u)
    PROVE  Bounded(A, O, D, k, u)
<1> DEFINE S == {r \in A : O[r] = u}  N == {s \in Slots : C[s] = u}  M == {s \in Slots : D[s] = u}
<1>1. IsFiniteSet(N) /\ Cardinality(S) \in Nat /\ Cardinality(N) \in Nat /\ Cardinality(M) \in Nat
  BY Sizes
<1>2. Cardinality(M) <= Cardinality(N)
  BY <1>1, FS_Subset
<1>3. Cardinality(S) + Cardinality(N) <= MaxActive - 1 + Cardinality(Slots) + k
  BY DEF Bounded
<1>4. Cardinality(S) + Cardinality(M) <= MaxActive - 1 + Cardinality(Slots) + k
  BY <1>1, <1>2, <1>3, Sizes
<1> QED
  BY <1>4 DEF Bounded

\* A slot becomes a rule.
LEMMA SlotToRule ==
    ASSUME NEW A \in SUBSET RuleIds, NEW O, NEW P, NEW C, NEW D, NEW k \in Nat, NEW u,
           NEW q \in RuleIds, NEW s \in Slots, C[s] = u,
           OfUser(A \cup {q}, P, u) = OfUser(A, O, u) \cup {q},
           InSlots(D, u) = InSlots(C, u) \ {s},
           Bounded(A, O, C, k, u)
    PROVE  Bounded(A \cup {q}, P, D, k, u)
<1> DEFINE S == OfUser(A, O, u)  N == InSlots(C, u)
<1>1. IsFiniteSet(S) /\ IsFiniteSet(N) /\ Cardinality(S) \in Nat /\ Cardinality(N) \in Nat
  BY Sizes DEF OfUser, InSlots
<1>2. Cardinality(S \cup {q}) = Cardinality(S) \/ Cardinality(S \cup {q}) = Cardinality(S) + 1
  BY <1>1, FS_AddElement
<1>3. Cardinality(N \ {s}) = Cardinality(N) - 1
  BY <1>1, FS_RemoveElement DEF InSlots
<1>4. Cardinality(S) + Cardinality(N) <= MaxActive - 1 + Cardinality(Slots) + k
  BY DEF Bounded, OfUser, InSlots
<1>5. Cardinality(S \cup {q}) + Cardinality(N \ {s}) <= MaxActive - 1 + Cardinality(Slots) + k
  BY <1>1, <1>2, <1>3, <1>4, Sizes
<1> QED
  BY <1>5 DEF Bounded, OfUser, InSlots

\* A switch adds a rule and is counted.
LEMMA OneMoreRule ==
    ASSUME NEW A \in SUBSET RuleIds, NEW O, NEW C, NEW k \in Nat, NEW u, NEW q \in RuleIds,
           Bounded(A, O, C, k, u)
    PROVE  Bounded(A \cup {q}, O, C, k + 1, u)
<1> DEFINE S == {r \in A : O[r] = u}  T == {r \in A \cup {q} : O[r] = u}  N == {t \in Slots : C[t] = u}
<1>1. IsFiniteSet(S) /\ Cardinality(S) \in Nat /\ Cardinality(T) \in Nat /\ Cardinality(N) \in Nat
  BY Sizes
<1>2. IsFiniteSet(S \cup {q}) /\ Cardinality(S \cup {q}) <= Cardinality(S) + 1
  BY <1>1, FS_AddElement
<1>3. T \subseteq S \cup {q}
  OBVIOUS
<1>4. Cardinality(T) <= Cardinality(S \cup {q}) /\ Cardinality(S \cup {q}) \in Nat
  BY <1>2, <1>3, FS_Subset, FS_CardinalityType
<1>5. Cardinality(S) + Cardinality(N) <= MaxActive - 1 + Cardinality(Slots) + k
  BY DEF Bounded
<1>6. Cardinality(T) + Cardinality(N) <= MaxActive - 1 + Cardinality(Slots) + (k + 1)
  BY <1>1, <1>2, <1>4, <1>5, Sizes
<1> QED
  BY <1>6 DEF Bounded

-----------------------------------------------------------------------------
\* The initial tables are empty.
LEMMA RulesInit == AlertRulesInit => RulesInv
<1> SUFFICES ASSUME AlertRulesInit PROVE RulesInv
  OBVIOUS
<1>1. /\ owner = [r \in RuleIds |-> NoValue] /\ active = {} /\ born = {} /\ removed = {}
      /\ creating = [s \in Slots |-> NoValue] /\ reactivated = [u \in Users |-> 0]
  BY DEF AlertRulesInit
<1>2. ASSUME NEW u \in Users PROVE Bounded(active, owner, creating, reactivated[u], u)
  <2>1. {r \in active : owner[r] = u} = {}
    BY <1>1
  <2>2. Cardinality({r \in active : owner[r] = u}) < MaxActive
    BY <2>1, Sizes, FS_EmptySet
  <2>3. active \in SUBSET RuleIds /\ reactivated[u] \in Nat
    BY <1>1
  <2> QED
    BY <2>2, <2>3, MoreCounted
<1>3. LimitBound
  BY <1>2, BoundedDef
<1> QED
  BY <1>1, <1>3 DEF RulesInv

\* Steps that leave the tables and the slots alone.
LEMMA RulesFrame == RulesInv /\ UNCHANGED RulesBase => RulesInv'
BY DEF RulesInv, RulesBase, LimitBound, ActiveRules, Counted

LEMMA TypedBounds ==
    ASSUME RulesInv
    PROVE  /\ active \in SUBSET RuleIds /\ \A u \in Users : reactivated[u] \in Nat
           /\ \A u \in Users : Bounded(active, owner, creating, reactivated[u], u)
BY BoundedDef DEF RulesInv

LEMMA BoundedPrime ==
    ASSUME \A u \in Users : Bounded(active', owner', creating', reactivated'[u], u)
    PROVE  LimitBound'
BY DEF LimitBound, Bounded, ActiveRules, Counted

LEMMA CreateRuleStep ==
    ASSUME RulesInv, NEW s \in Slots, NEW u \in Users, CreateRule(s, u)
    PROVE  RulesInv'
<1>1. CASE UNCHANGED ruleVars
  BY <1>1, RulesFrame DEF ruleVars, ruleTables, RulesBase
<1>2. CASE ~LimitReached(u) /\ creating' = [creating EXCEPT ![s] = u] /\ UNCHANGED ruleTables
  <2>1. UNCHANGED <<owner, active, born, removed, reactivated>>
    BY <1>2 DEF ruleTables
  <2>2. creating' \in [Slots -> Users \cup {NoValue}]
    BY <1>2 DEF RulesInv
  <2>3. ASSUME NEW v \in Users PROVE Bounded(active', owner', creating', reactivated'[v], v)
    <3>1. CASE v = u
      <4>1. Cardinality({r \in active : owner[r] = u}) < MaxActive
        <5>1. Cardinality({r \in active : owner[r] = u}) \in Nat
          BY TypedBounds, Sizes
        <5> QED
          BY <5>1, <1>2, Sizes DEF LimitReached, ActiveRules
      <4> QED
        BY <4>1, <3>1, <2>1, TypedBounds, MoreCounted
    <3>2. CASE v # u
      <4>1. {t \in Slots : creating'[t] = v} \subseteq {t \in Slots : creating[t] = v}
        BY <3>2, <1>2 DEF RulesInv
      <4> QED
        BY <4>1, <2>1, TypedBounds, FewerCounted
    <3> QED
      BY <3>1, <3>2
  <2>4. LimitBound'
    BY <2>3, BoundedPrime
  <2> QED
    BY <2>1, <2>2, <2>4 DEF RulesInv
<1> QED
  BY <1>1, <1>2 DEF CreateRule, RuleInvalid, RuleFails

LEMMA InsertRuleStep ==
    ASSUME RulesInv, NEW s \in Slots, NEW r \in RuleIds, InsertRule(s, r)
    PROVE  RulesInv'
<1>1. PICK u : u = creating[s]
  OBVIOUS
<1>2. /\ u \in Users /\ r \notin born
      /\ owner' = [owner EXCEPT ![r] = u]
      /\ born' = born \cup {r}
      /\ active' = active \cup {r}
      /\ creating' = [creating EXCEPT ![s] = NoValue]
      /\ UNCHANGED <<removed, reactivated>>
  BY <1>1 DEF InsertRule, Switch, RulesInv
<1>3. ASSUME NEW v \in Users PROVE Bounded(active', owner', creating', reactivated'[v], v)
  <2>1. active \in SUBSET RuleIds /\ reactivated[v] \in Nat /\ Bounded(active, owner, creating, reactivated[v], v)
    BY TypedBounds
  <2>2. CASE v = u
    <3>1. OfUser(active \cup {r}, owner', v) = OfUser(active, owner, v) \cup {r}
      BY <1>2, <2>2 DEF RulesInv, OfUser
    <3>2. InSlots(creating', v) = InSlots(creating, v) \ {s}
      BY <1>2, <2>2, Sizes DEF RulesInv, InSlots
    <3>3. Bounded(active \cup {r}, owner', creating', reactivated[v], v)
      BY <1>1, <2>1, <2>2, <3>1, <3>2, SlotToRule
    <3> QED
      BY <1>2, <3>3
  <2>3. CASE v # u
    <3>1. {q \in active' : owner'[q] = v} \subseteq {q \in active : owner[q] = v}
      BY <1>2, <2>3 DEF RulesInv
    <3>2. {t \in Slots : creating'[t] = v} \subseteq {t \in Slots : creating[t] = v}
      BY <1>2, Sizes DEF RulesInv
    <3>3. active' \in SUBSET RuleIds
      BY <1>2, <2>1
    <3>4. Bounded(active', owner', creating, reactivated[v], v)
      BY <2>1, <3>1, <3>3, FewerRules
    <3>5. Bounded(active', owner', creating', reactivated[v], v)
      BY <2>1, <3>2, <3>3, <3>4, FewerCounted
    <3> QED
      BY <1>2, <3>5
  <2> QED
    BY <2>2, <2>3
<1>4. LimitBound'
  BY <1>3, BoundedPrime
<1>5. \A q \in removed' \cup (RuleIds \ born') : owner'[q] = NoValue
  BY <1>2 DEF RulesInv
<1>6. /\ owner' \in [RuleIds -> Users \cup {NoValue}]
      /\ creating' \in [Slots -> Users \cup {NoValue}]
      /\ reactivated' \in [Users -> Nat]
  BY <1>2 DEF RulesInv
<1> QED
  BY <1>2, <1>4, <1>5, <1>6 DEF RulesInv

LEMMA InsertRuleFailsStep ==
    ASSUME RulesInv, NEW s \in Slots, InsertRuleFails(s)
    PROVE  RulesInv'
<1>1. creating' = [creating EXCEPT ![s] = NoValue] /\ UNCHANGED <<owner, active, born, removed, reactivated>>
  BY DEF InsertRuleFails, ruleTables
<1>2. creating' \in [Slots -> Users \cup {NoValue}]
  BY <1>1 DEF RulesInv
<1>3. ASSUME NEW v \in Users PROVE Bounded(active', owner', creating', reactivated'[v], v)
  <2>1. {t \in Slots : creating'[t] = v} \subseteq {t \in Slots : creating[t] = v}
    BY <1>1, Sizes DEF RulesInv
  <2> QED
    BY <1>1, <2>1, TypedBounds, FewerCounted
<1>4. LimitBound'
  BY <1>3, BoundedPrime
<1> QED
  BY <1>1, <1>2, <1>4 DEF RulesInv

LEMMA SetRuleStep ==
    ASSUME RulesInv, NEW u \in Users, NEW r \in RuleIds, NEW on \in BOOLEAN, SetRule(u, r, on)
    PROVE  RulesInv'
<1>1. owner[r] = u /\ UNCHANGED <<owner, born, removed, creating>>
  BY DEF SetRule
<1>2. r \in born
  BY <1>1, Sizes DEF RulesInv
<1>3. active' \in SUBSET RuleIds /\ active' \subseteq born
  BY <1>2 DEF SetRule, Switch, RulesInv
<1>4. reactivated' \in [Users -> Nat]
  BY DEF SetRule, RulesInv
<1>5. ASSUME NEW v \in Users PROVE Bounded(active', owner', creating', reactivated'[v], v)
  <2>1. active \in SUBSET RuleIds /\ reactivated[v] \in Nat /\ Bounded(active, owner, creating, reactivated[v], v)
    BY TypedBounds
  <2>2. CASE on /\ r \notin active
    <3>1. active' = active \cup {r} /\ reactivated' = [reactivated EXCEPT ![u] = @ + 1]
      BY <2>2 DEF SetRule, Switch
    <3>2. CASE v = u
      <4>1. Bounded(active \cup {r}, owner, creating, reactivated[v] + 1, v)
        BY <2>1, OneMoreRule
      <4>2. reactivated'[v] = reactivated[v] + 1
        BY <3>1, <3>2 DEF RulesInv
      <4> QED
        BY <1>1, <3>1, <4>1, <4>2
    <3>3. CASE v # u
      <4>1. {q \in active' : owner[q] = v} \subseteq {q \in active : owner[q] = v}
        BY <1>1, <3>1, <3>3
      <4>2. reactivated'[v] = reactivated[v]
        BY <3>1, <3>3 DEF RulesInv
      <4>3. Bounded(active', owner, creating, reactivated[v], v)
        BY <1>3, <2>1, <4>1, FewerRules
      <4> QED
        BY <1>1, <4>2, <4>3
    <3> QED
      BY <3>2, <3>3
  <2>3. CASE ~(on /\ r \notin active)
    <3>1. active' \subseteq active /\ reactivated' = reactivated
      BY <2>3 DEF SetRule, Switch
    <3>2. {q \in active' : owner[q] = v} \subseteq {q \in active : owner[q] = v}
      BY <3>1
    <3>3. Bounded(active', owner, creating, reactivated[v], v)
      BY <1>3, <2>1, <3>2, FewerRules
    <3> QED
      BY <1>1, <3>1, <3>3
  <2> QED
    BY <2>2, <2>3
<1>6. LimitBound'
  BY <1>5, BoundedPrime
<1> QED
  BY <1>1, <1>3, <1>4, <1>6 DEF RulesInv

LEMMA RemoveRuleStep ==
    ASSUME RulesInv, NEW u \in Users, NEW r \in RuleIds, RemoveRule(u, r)
    PROVE  RulesInv'
<1>1. /\ owner[r] = u /\ owner' = [owner EXCEPT ![r] = NoValue]
      /\ active' = active \ {r} /\ removed' \subseteq removed \cup {r}
      /\ UNCHANGED <<born, reactivated, creating>>
  BY DEF RemoveRule, Switch
<1>2. r \in born
  BY <1>1, Sizes DEF RulesInv
<1>3. owner' \in [RuleIds -> Users \cup {NoValue}]
  BY <1>1 DEF RulesInv
<1>4. ASSUME NEW v \in Users PROVE Bounded(active', owner', creating', reactivated'[v], v)
  <2>1. active \in SUBSET RuleIds /\ reactivated[v] \in Nat /\ Bounded(active, owner, creating, reactivated[v], v)
    BY TypedBounds
  <2>2. {q \in active' : owner'[q] = v} \subseteq {q \in active : owner[q] = v}
    BY <1>1 DEF RulesInv
  <2>3. active' \in SUBSET RuleIds
    BY <1>1, <2>1
  <2>4. Bounded(active', owner', creating, reactivated[v], v)
    BY <2>1, <2>2, <2>3, FewerRules
  <2> QED
    BY <1>1, <2>4
<1>5. LimitBound'
  BY <1>4, BoundedPrime
<1>6. \A q \in removed' \cup (RuleIds \ born') : owner'[q] = NoValue
  BY <1>1 DEF RulesInv
<1>7. active' \subseteq born' /\ removed' \subseteq born' /\ born' \subseteq RuleIds
  BY <1>1, <1>2 DEF RulesInv
<1> QED
  BY <1>1, <1>3, <1>5, <1>6, <1>7 DEF RulesInv

LEMMA UpdateRuleStep ==
    ASSUME RulesInv, NEW u \in Users, NEW r \in RuleIds, NEW on \in BOOLEAN, UpdateRule(u, r, on)
    PROVE  RulesInv'
<1>1. CASE SetRule(u, r, on)
  BY <1>1, SetRuleStep
<1>2. CASE UNCHANGED ruleVars
  BY <1>2, RulesFrame DEF ruleVars, ruleTables, RulesBase
<1> QED
  BY <1>1, <1>2 DEF UpdateRule, RuleInvalid, RuleFails, NoSuchRule

LEMMA DeleteRuleStep ==
    ASSUME RulesInv, NEW u \in Users, NEW r \in RuleIds, DeleteRule(u, r)
    PROVE  RulesInv'
<1>1. CASE RemoveRule(u, r)
  BY <1>1, RemoveRuleStep
<1>2. CASE UNCHANGED ruleVars
  BY <1>2, RulesFrame DEF ruleVars, ruleTables, RulesBase
<1> QED
  BY <1>1, <1>2 DEF DeleteRule, RuleInvalid, RuleFails, NoSuchRule

\* The refresher and the matches do not write to the tables of rules.
LEMMA RefresherFrame == RefresherStep => UNCHANGED RulesBase
<1>1. ASSUME Tick PROVE UNCHANGED RulesBase
  BY <1>1 DEF Tick, RulesBase
<1>2. ASSUME NEW r \in RuleIds, Match(r) PROVE UNCHANGED RulesBase
  BY <1>2 DEF Match, ruleTables, RulesBase
<1>3. ASSUME StartRefresh \/ ListActiveRules \/ SetRules \/ RefreshFails PROVE UNCHANGED RulesBase
  BY <1>3 DEF StartRefresh, ListActiveRules, SetRules, RefreshFails, Return, RefreshFrame, ruleTables, RulesBase
<1> QED
  BY <1>1, <1>2, <1>3 DEF RefresherStep

\* Every step keeps the tables in order and the bound.
LEMMA RulesStepKeeps == RulesInv /\ [Next]_allVars => RulesInv'
<1> SUFFICES ASSUME RulesInv, [Next]_allVars PROVE RulesInv'
  OBVIOUS
<1>1. CASE UNCHANGED ruleVars
  BY <1>1, RulesFrame DEF ruleVars, ruleTables, RulesBase
<1>2. CASE RefresherStep
  BY <1>2, RefresherFrame, RulesFrame
<1>3. CASE RuleRequest
  <2>1. PICK u \in Users :
          \/ \E s \in Slots : CreateRule(s, u)
          \/ \E r \in RuleIds : DeleteRule(u, r) \/ \E on \in BOOLEAN : UpdateRule(u, r, on)
          \/ ListRules(u) \/ ListEvents(u)
    BY <1>3 DEF RuleRequest
  <2>2. CASE ListRules(u) \/ ListEvents(u)
    BY <2>2, <1>1 DEF ListRules, ListEvents, SelectRules, SelectEvents, RuleFails, RuleInvalid
  <2> QED
    BY <2>1, <2>2, CreateRuleStep, DeleteRuleStep, UpdateRuleStep
<1>4. CASE RuleInsert
  BY <1>4, InsertRuleStep, InsertRuleFailsStep DEF RuleInsert
<1> QED
  BY <1>1, <1>2, <1>3, <1>4
  DEF Next, allVars, apiVars, MigrationStep, UsersStep, RulesStep, FeedStep, CacheStep, CleaningStep

\* The limit of active rules is exceeded by no more than what the concurrent
\* CreateRule requests and the switches account for.
THEOREM LimitKept == Spec => []LimitBound
<1>1. Init => RulesInv
  BY RulesInit DEF Init
<1>2. RulesInv => LimitBound
  BY DEF RulesInv
<1> QED
  BY <1>1, <1>2, RulesStepKeeps, PTL DEF Spec

-----------------------------------------------------------------------------
(* The cache of rules *)

\* Rules that one set has and the other has not.
Differ(A, B) == (A \ B) \cup (B \ A)

\* How far the cache may be behind: the ticks in calls, a period for each refresh
\* that failed, and what has passed of the present one, all of it while a call runs
\* or a tick of the ticker lies ready.
Behind ==
    calling + missed * Period + IF refresh = "wait" /\ ~fired THEN Period - due ELSE Period

\* What the cache has wrong was switched since the start of the call that filled it,
\* what the answer on its way has wrong since the start of the present call.
CacheInv ==
    /\ active \subseteq RuleIds /\ cache \subseteq RuleIds /\ fetched \subseteq RuleIds
    /\ age \in [RuleIds -> Int] /\ missed \in Nat /\ lasting \in Nat /\ calling \in Nat
    /\ due \in {NoTicker} \cup 1 .. Period /\ fired \in BOOLEAN
    /\ refresh \in {"wait", "call", "set"}
    /\ refresh = "wait" => due # NoTicker
    /\ \A r \in Differ(cache, active) : age[r] <= Behind
    /\ refresh = "set" => \A r \in Differ(fetched, active) : age[r] <= lasting

LEMMA CacheStart == AlertRulesInit => CacheInv
<1> SUFFICES ASSUME AlertRulesInit PROVE CacheInv
  OBVIOUS
<1>1. /\ active = {} /\ cache = {} /\ fetched = {} /\ refresh = "call" /\ due = NoTicker /\ missed = 0
      /\ fired = FALSE /\ lasting = 0 /\ calling = 0 /\ age = [r \in RuleIds |-> NoAge]
  BY DEF AlertRulesInit
<1>2. Differ(cache, active) = {} /\ NoAge \in Int /\ Period \in Nat
  BY <1>1, RulesAssumption DEF Differ
<1> QED
  BY <1>1, <1>2 DEF CacheInv

LEMMA Periods ==
    ASSUME NEW k \in Nat
    PROVE  /\ Period \in Nat \ {0} /\ k * Period \in Nat /\ (1 + k) * Period = k * Period + Period
           /\ (1 + k) * Period \in Nat /\ (1 + (k + 1)) * Period = (1 + k) * Period + Period
<1>1. Period \in Nat \ {0}
  BY RulesAssumption
<1>2. \A m \in Nat : m * Period \in Nat /\ (1 + m) * Period = m * Period + Period
  BY <1>1
<1> QED
  BY <1>1, <1>2

\* What a handler changes in the rules is as young as can be.
SwitchStep ==
    /\ active' \subseteq RuleIds
    /\ age' = [r \in RuleIds |-> IF (r \in active) = (r \in active') THEN age[r] ELSE 0]

LEMMA HandlersSwitch ==
    ASSUME RulesInv, CacheInv, RuleRequest \/ RuleInsert
    PROVE  UNCHANGED refresher /\ (UNCHANGED <<active, age>> \/ SwitchStep)
<1>1. active \subseteq RuleIds
  BY DEF CacheInv
<1>2. ASSUME NEW u \in Users, NEW s \in Slots, CreateRule(s, u)
      PROVE  UNCHANGED refresher /\ UNCHANGED <<active, age>>
  BY <1>2 DEF CreateRule, RuleInvalid, RuleFails, ruleVars, ruleTables
<1>3. ASSUME NEW u \in Users, NEW r \in RuleIds, DeleteRule(u, r)
      PROVE  UNCHANGED refresher /\ (UNCHANGED <<active, age>> \/ SwitchStep)
  <2>1. CASE RemoveRule(u, r)
    BY <1>1, <2>1 DEF RemoveRule, Switch, SwitchStep
  <2> QED
    BY <1>3, <2>1 DEF DeleteRule, RuleInvalid, RuleFails, NoSuchRule, ruleVars, ruleTables
<1>4. ASSUME NEW u \in Users, NEW r \in RuleIds, NEW on \in BOOLEAN, UpdateRule(u, r, on)
      PROVE  UNCHANGED refresher /\ (UNCHANGED <<active, age>> \/ SwitchStep)
  <2>1. CASE SetRule(u, r, on)
    BY <1>1, <2>1 DEF SetRule, Switch, SwitchStep
  <2> QED
    BY <1>4, <2>1 DEF UpdateRule, RuleInvalid, RuleFails, NoSuchRule, ruleVars, ruleTables
<1>5. ASSUME NEW u \in Users, ListRules(u) \/ ListEvents(u)
      PROVE  UNCHANGED refresher /\ UNCHANGED <<active, age>>
  BY <1>5 DEF ListRules, ListEvents, SelectRules, SelectEvents, RuleInvalid, RuleFails, ruleVars, ruleTables
<1>6. ASSUME NEW s \in Slots, InsertRuleFails(s)
      PROVE  UNCHANGED refresher /\ UNCHANGED <<active, age>>
  BY <1>6 DEF InsertRuleFails, ruleTables
<1>7. ASSUME NEW s \in Slots, NEW r \in RuleIds, InsertRule(s, r)
      PROVE  UNCHANGED refresher /\ SwitchStep
  BY <1>1, <1>7 DEF InsertRule, Switch, SwitchStep
<1> QED
  BY <1>2, <1>3, <1>4, <1>5, <1>6, <1>7 DEF RuleRequest, RuleInsert

\* The types of the ticker, and of what is computed with it.
LEMMA BehindType ==
    ASSUME CacheInv
    PROVE  /\ Period \in Nat \ {0} /\ missed * Period \in Nat /\ Behind \in Nat
           /\ due # NoTicker => due \in 1 .. Period
           /\ Behind = calling + missed * Period + Period
              \/ (refresh = "wait" /\ ~fired /\ Behind = calling + missed * Period + Period - due)
<1>1. Period \in Nat \ {0} /\ missed * Period \in Nat /\ calling \in Nat
  BY Periods DEF CacheInv
<1>2. due # NoTicker => due \in 1 .. Period
  BY DEF CacheInv
<1>3. CASE refresh = "wait" /\ ~fired
  BY <1>1, <1>2, <1>3 DEF Behind, CacheInv
<1>4. CASE ~(refresh = "wait" /\ ~fired)
  BY <1>1, <1>2, <1>4 DEF Behind
<1> QED
  BY <1>3, <1>4

LEMMA TickerDue ==
    ASSUME NEW d \in 1 .. Period
    PROVE  d # NoTicker /\ Period - d \in Nat
<1>1. Period \in Nat
  BY RulesAssumption
<1> QED
  BY <1>1 DEF NoTicker

LEMMA SwitchKeeps ==
    ASSUME CacheInv, UNCHANGED refresher, SwitchStep
    PROVE  CacheInv'
<1>1. /\ cache' = cache /\ refresh' = refresh /\ fetched' = fetched /\ missed' = missed
      /\ due' = due /\ fired' = fired /\ lasting' = lasting /\ calling' = calling
  BY DEF refresher, ticker
<1>2. \A A \in SUBSET RuleIds, r \in RuleIds :
          r \in Differ(A, active') => (r \in Differ(A, active) /\ age'[r] = age[r]) \/ age'[r] = 0
  BY DEF SwitchStep, Differ
<1>3. Behind \in Nat /\ Behind' = Behind /\ lasting \in Nat
  BY <1>1, BehindType DEF Behind, CacheInv
<1>4. /\ age' \in [RuleIds -> Int] /\ active' \subseteq RuleIds
      /\ \A A \in SUBSET RuleIds : Differ(A, active') \subseteq RuleIds
  BY DEF SwitchStep, CacheInv, Differ
<1>5. \A r \in Differ(cache, active') : age'[r] <= Behind
  BY <1>2, <1>3, <1>4 DEF CacheInv
<1>6. refresh = "set" => \A r \in Differ(fetched, active') : age'[r] <= lasting
  BY <1>2, <1>3, <1>4 DEF CacheInv
<1> QED
  BY <1>1, <1>3, <1>4, <1>5, <1>6 DEF CacheInv

\* A call that returns leaves the refresher waiting for its ticker.
LEMMA ReturnDoes ==
    ASSUME CacheInv, Return
    PROVE  /\ refresh' = "wait" /\ fetched' = {} /\ fired' = fired /\ lasting' = lasting
           /\ due' \in 1 .. Period /\ UNCHANGED <<active, age>>
<1>1. Period \in 1 .. Period
  BY RulesAssumption
<1> QED
  BY <1>1 DEF Return, RefreshFrame, ruleTables, CacheInv

LEMMA SetRulesKeeps ==
    ASSUME CacheInv, SetRules
    PROVE  CacheInv'
<1>1. /\ refresh = "set" /\ refresh' = "wait" /\ cache' = fetched /\ fetched' = {} /\ missed' = 0
      /\ calling' = lasting /\ lasting' = lasting /\ fired' = fired /\ due' \in 1 .. Period
      /\ active' = active /\ age' = age
  BY ReturnDoes DEF SetRules
<1>2. Period \in Nat \ {0} /\ missed' * Period = 0 /\ lasting \in Nat
  BY <1>1, RulesAssumption DEF CacheInv
<1>3. due' # NoTicker /\ Behind' \in Int /\ Behind' >= lasting
  <2>1. CASE fired
    BY <1>1, <1>2, <2>1 DEF Behind, NoTicker
  <2>2. CASE ~fired
    <3>1. Behind' = calling' + missed' * Period + (Period - due')
      BY <1>1, <2>2 DEF Behind
    <3>2. Behind' = lasting + (Period - due')
      BY <1>1, <1>2, <3>1
    <3>3. Period - due' \in Nat /\ due' # NoTicker
      BY <1>1, TickerDue
    <3> QED
      BY <1>2, <3>2, <3>3
  <2> QED
    BY <2>1, <2>2
<1>4. \A r \in Differ(cache', active') : age'[r] <= Behind'
  <2>1. \A r \in Differ(fetched, active) : age[r] \in Int /\ age[r] <= lasting
    BY <1>1 DEF CacheInv, Differ
  <2> QED
    BY <1>1, <1>2, <1>3, <2>1
<1> QED
  BY <1>1, <1>3, <1>4 DEF CacheInv

LEMMA RefreshFailsKeeps ==
    ASSUME CacheInv, RefreshFails
    PROVE  CacheInv'
<1>1. /\ refresh # "wait" /\ refresh' = "wait" /\ cache' = cache /\ fetched' = {} /\ missed' = missed + 1
      /\ calling' = calling /\ lasting' = lasting /\ fired' = fired /\ due' \in 1 .. Period
      /\ active' = active /\ age' = age
  BY ReturnDoes DEF RefreshFails
<1>2. /\ Period \in Nat \ {0} /\ missed \in Nat /\ calling \in Nat /\ missed * Period \in Nat
      /\ missed' * Period = missed * Period + Period
  <2>1. missed' = 1 + missed /\ missed \in Nat
    BY <1>1 DEF CacheInv
  <2> QED
    BY <2>1, Periods DEF CacheInv
<1>3. Behind = calling + missed * Period + Period
  BY <1>1 DEF Behind
<1>4. due' # NoTicker /\ Behind' \in Int /\ Behind' >= Behind
  <2>1. CASE fired
    BY <1>1, <1>2, <1>3, <2>1 DEF Behind, NoTicker
  <2>2. CASE ~fired
    <3>1. Behind' = calling + missed' * Period + (Period - due')
      BY <1>1, <2>2 DEF Behind
    <3>2. Behind' = calling + (missed * Period + Period) + (Period - due')
      BY <1>2, <3>1
    <3>3. Period - due' \in Nat /\ due' # NoTicker
      BY <1>1, TickerDue
    <3> QED
      BY <1>2, <1>3, <3>2, <3>3
  <2> QED
    BY <2>1, <2>2
<1>5. \A r \in Differ(cache', active') : age'[r] <= Behind'
  <2>1. \A r \in Differ(cache, active) : age[r] \in Int /\ age[r] <= Behind
    BY DEF CacheInv, Differ
  <2> QED
    BY <1>1, <1>4, <2>1, BehindType
<1> QED
  BY <1>1, <1>2, <1>4, <1>5 DEF CacheInv

LEMMA TickKeeps ==
    ASSUME CacheInv, Tick
    PROVE  CacheInv'
<1>1. /\ cache' = cache /\ refresh' = refresh /\ fetched' = fetched /\ missed' = missed /\ active' = active
      /\ age' = [r \in RuleIds |-> IF age[r] < NoAge THEN age[r] + 1 ELSE NoAge]
      /\ due' = IF due = 1 THEN Period ELSE IF due = NoTicker THEN NoTicker ELSE due - 1
      /\ fired' = (fired \/ due = 1)
  BY DEF Tick
<1>2. /\ Period \in Nat \ {0} /\ missed * Period \in Nat /\ Behind \in Nat /\ calling \in Nat /\ lasting \in Nat
      /\ due # NoTicker => due \in 1 .. Period
  BY BehindType DEF CacheInv
<1>3. due' \in {NoTicker} \cup 1 .. Period /\ fired' \in BOOLEAN /\ (due # NoTicker => due' # NoTicker)
  BY <1>1, <1>2 DEF NoTicker, CacheInv
<1>4. age' \in [RuleIds -> Int] /\ \A r \in RuleIds : age'[r] <= age[r] + 1
  BY <1>1, RulesAssumption DEF CacheInv
<1>5. \A A \in SUBSET RuleIds : Differ(A, active) \subseteq RuleIds
  BY DEF CacheInv, Differ
<1>6. CASE CallTick
  <2>1. refresh # "wait" /\ calling' = calling + 1 /\ lasting' = lasting + 1
    BY <1>6 DEF CallTick
  <2>2. Behind' = Behind + 1
    BY <1>1, <1>2, <2>1 DEF Behind
  <2>3. \A r \in Differ(cache, active) : age'[r] <= Behind'
    BY <1>2, <1>4, <1>5, <2>2 DEF CacheInv
  <2>4. refresh = "set" => \A r \in Differ(fetched, active) : age'[r] <= lasting'
    BY <1>2, <1>4, <1>5, <2>1 DEF CacheInv
  <2> QED
    BY <1>1, <1>2, <1>3, <1>4, <2>1, <2>3, <2>4 DEF CacheInv
<1>7. CASE WaitTick
  <2>1. refresh = "wait" /\ ~fired /\ calling' = calling /\ lasting' = lasting /\ due \in 1 .. Period
    BY <1>2, <1>7 DEF WaitTick, CacheInv
  <2>2. Behind' = Behind + 1
    <3>1. Behind = calling + missed * Period + (Period - due)
      BY <2>1 DEF Behind
    <3>2. CASE due = 1
      <4>1. Behind' = calling + missed * Period + Period
        BY <1>1, <2>1, <3>2 DEF Behind
      <4> QED
        BY <1>2, <3>1, <3>2, <4>1
    <3>3. CASE due # 1
      <4>1. due # NoTicker
        BY <1>2, <2>1 DEF NoTicker
      <4>2. due' = due - 1 /\ fired' = FALSE
        BY <1>1, <2>1, <3>3, <4>1
      <4>3. Behind' = calling + missed * Period + (Period - (due - 1))
        BY <1>1, <2>1, <4>2 DEF Behind
      <4> QED
        BY <1>2, <2>1, <3>1, <4>3
    <3> QED
      BY <3>2, <3>3
  <2>3. \A r \in Differ(cache, active) : age'[r] <= Behind'
    BY <1>2, <1>4, <1>5, <2>2 DEF CacheInv
  <2> QED
    BY <1>1, <1>2, <1>3, <1>4, <2>1, <2>3 DEF CacheInv
<1> QED
  BY <1>6, <1>7 DEF Tick

\* A call begins when the ticker has fired, and a call that fails adds a period.
LEMMA RefresherKeeps ==
    ASSUME CacheInv, RefresherStep
    PROVE  CacheInv'
<1>1. CASE StartRefresh
  <2>1. /\ refresh = "wait" /\ fired /\ refresh' = "call" /\ lasting' = 0
        /\ fired' = FALSE /\ due' = due /\ calling' = calling /\ missed' = missed
        /\ cache' = cache /\ fetched' = fetched /\ active' = active /\ age' = age
    BY <1>1 DEF StartRefresh, RefreshFrame, ruleTables
  <2>2. Behind' = Behind
    BY <2>1 DEF Behind
  <2> QED
    BY <2>1, <2>2 DEF CacheInv
<1>2. CASE ListActiveRules
  <2>1. /\ refresh = "call" /\ refresh' = "set" /\ UNCHANGED <<due, fired, lasting, calling>>
        /\ cache' = cache /\ active' = active /\ age' = age /\ fetched' = active /\ missed' = missed
    BY <1>2 DEF ListActiveRules, RefreshFrame, ruleTables, ticker
  <2>2. Behind' = Behind /\ Differ(fetched', active') = {}
    BY <2>1 DEF Behind, Differ
  <2> QED
    BY <2>1, <2>2 DEF CacheInv
<1>3. ASSUME NEW r \in RuleIds, Match(r) PROVE CacheInv'
  BY <1>3 DEF Match, ruleTables, refresher, ticker, CacheInv, Behind
<1> QED
  BY <1>1, <1>2, <1>3, SetRulesKeeps, RefreshFailsKeeps, TickKeeps DEF RefresherStep

LEMMA CacheStepKeeps == RulesInv /\ CacheInv /\ [Next]_allVars => CacheInv'
<1> SUFFICES ASSUME RulesInv, CacheInv, [Next]_allVars PROVE CacheInv'
  OBVIOUS
<1>1. CASE UNCHANGED <<active, age, refresher>>
  BY <1>1 DEF refresher, ticker, CacheInv, Behind
<1>2. CASE RefresherStep
  BY <1>2, RefresherKeeps
<1>3. CASE RuleRequest \/ RuleInsert
  BY <1>1, <1>3, HandlersSwitch, SwitchKeeps
<1> QED
  BY <1>1, <1>2, <1>3
  DEF Next, allVars, apiVars, MigrationStep, UsersStep, RulesStep, FeedStep, CacheStep, CleaningStep,
      ruleVars, ruleTables

\* The matcher is behind the API by no more than a period, another one for every
\* refresh in a row that failed, and the time that the calls took.
THEOREM CacheNotBehind == Spec => []CacheFresh
<1>1. Init => RulesInv /\ CacheInv
  BY RulesInit, CacheStart DEF Init
<1>2. CacheInv => CacheFresh
  <2> SUFFICES ASSUME CacheInv PROVE CacheFresh
    OBVIOUS
  <2>1. /\ missed * Period \in Nat /\ (1 + missed) * Period = missed * Period + Period
        /\ Period \in Nat /\ calling \in Nat
    BY Periods DEF CacheInv
  <2>2. Behind \in Int /\ Behind <= Staleness
    BY <2>1, BehindType DEF Staleness, CacheInv
  <2>3. \A r \in Differ(cache, active) : r \in RuleIds /\ age[r] \in Int /\ age[r] <= Behind
    BY DEF CacheInv, Differ
  <2>4. Staleness \in Int
    BY <2>1 DEF Staleness
  <2>5. \A r \in Differ(cache, active) : age[r] <= Staleness
    BY <2>2, <2>3, <2>4
  <2> QED
    BY <2>5 DEF CacheFresh, Differ
<1> QED
  BY <1>1, <1>2, RulesStepKeeps, CacheStepKeeps, PTL DEF Spec

-----------------------------------------------------------------------------
(* Answers *)

\* No user is deleted twice, and a deleted one stays deleted.
UsersInv ==
    /\ users \in [Users -> {"none", "live", "deleted"}]
    /\ deletions \in [Users -> {0, 1}]
    /\ \A u \in Users : deletions[u] = 1 => users[u] = "deleted"

LEMMA UsersInit == UserApiInit => UsersInv
BY DEF UserApiInit, UsersInv

LEMMA InsertUserKeeps ==
    ASSUME UsersInv, NEW u \in Users, InsertUser(u)
    PROVE  UsersInv'
<1>1. deletions' = deletions
  BY DEF InsertUser
<1>2. CASE users[u] = "none"
  <2>1. users' = [users EXCEPT ![u] = "live"]
    BY <1>2 DEF InsertUser
  <2>2. deletions[u] = 0
    BY <1>2 DEF UsersInv
  <2> QED
    BY <1>1, <2>1, <2>2 DEF UsersInv
<1>3. CASE users[u] # "none"
  <2>1. users' = users
    BY <1>3 DEF InsertUser
  <2> QED
    BY <1>1, <2>1 DEF UsersInv
<1> QED
  BY <1>2, <1>3

LEMMA SoftDeleteKeeps ==
    ASSUME UsersInv, NEW u \in Users, SoftDelete(u)
    PROVE  UsersInv'
<1>1. users' = [users EXCEPT ![u] = "deleted"]
  BY DEF SoftDelete
<1>2. deletions[u] = 0
  BY DEF SoftDelete, UsersInv
<1>3. \/ deletions' = [deletions EXCEPT ![u] = @ + 1]
      \/ deletions' = [deletions EXCEPT ![u] = @ + 0]
  BY DEF SoftDelete
<1>4. deletions' \in [Users -> {0, 1}] /\ \A v \in Users \ {u} : deletions'[v] = deletions[v]
  BY <1>2, <1>3 DEF UsersInv
<1> QED
  BY <1>1, <1>4 DEF UsersInv

LEMMA UsersStepKeeps == UsersInv /\ [Next]_allVars => UsersInv'
<1> SUFFICES ASSUME UsersInv, [Next]_allVars PROVE UsersInv'
  OBVIOUS
<1>1. CASE UNCHANGED userVars
  BY <1>1 DEF userVars, UsersInv
<1>2. ASSUME NEW u \in Users, CreateUser(u) PROVE UsersInv'
  BY <1>1, <1>2, InsertUserKeeps DEF CreateUser, UserInvalid, UserFails
<1>3. ASSUME NEW u \in Users, DeleteUser(u) PROVE UsersInv'
  BY <1>1, <1>3, SoftDeleteKeeps DEF DeleteUser, UserInvalid, UserFails
<1>4. ASSUME NEW u \in Users, GetUser(u) PROVE UsersInv'
  BY <1>1, <1>4 DEF GetUser, GetByUUID, UserInvalid, UserFails
<1>5. CASE GetAllUsers
  BY <1>1, <1>5 DEF GetAllUsers, GetAll, UserFails
<1>6. CASE UserNext
  BY <1>2, <1>3, <1>4, <1>5, <1>6 DEF UserNext
<1> QED
  BY <1>1, <1>6
  DEF Next, allVars, apiVars, MigrationStep, UsersStep, RulesStep, FeedStep, CacheStep, CleaningStep

\* A user is deleted by one request only and stays deleted, and a rule that was
\* deleted does not come back.
THEOREM AnswersHold == Spec => []AcksHold
<1>1. Init => RulesInv /\ UsersInv
  BY RulesInit, UsersInit DEF Init
<1>2. RulesInv /\ UsersInv => AcksHold
  BY DEF RulesInv, UsersInv, AcksHold
<1> QED
  BY <1>1, <1>2, RulesStepKeeps, UsersStepKeeps, PTL DEF Spec

-----------------------------------------------------------------------------
(* Migrations *)

Applying == {"sql", "record", "commit"}

\* What an instance has checked is applied, and at most one is about to commit: its
\* version is the next one.
MigrationsInv ==
    /\ schema \in Seq(Nat) /\ \A k \in 1 .. Len(schema) : schema[k] = k
    /\ recorded = 1 .. Len(schema)
    /\ phase \in [Instances -> {"down", "create", "check", "up"} \cup Applying]
    /\ version \in [Instances -> Nat \ {0}]
    /\ \A i \in Instances :
          /\ phase[i] \in {"check"} \cup Applying => version[i] - 1 <= Len(schema)
          /\ phase[i] = "commit" => version[i] \notin recorded
          /\ phase[i] = "up" => Known[i] <= Len(schema)
    /\ \A i, j \in Instances : phase[i] = "commit" /\ phase[j] = "commit" /\ i # j => version[i] # version[j]

LEMMA MigrationsStart == MigrationsInit => MigrationsInv
<1> SUFFICES ASSUME MigrationsInit PROVE MigrationsInv
  OBVIOUS
<1>1. schema = <<>> /\ Len(schema) = 0 /\ recorded = {}
  BY DEF MigrationsInit
<1> QED
  BY <1>1 DEF MigrationsInit, MigrationsInv, Applying

\* A step of one instance that commits nothing: its new phase and version must do.
LEMMA Moved ==
    ASSUME MigrationsInv, NEW i \in Instances, UNCHANGED <<schema, recorded>>,
           NEW p \in {"down", "create", "check", "up"} \cup Applying, NEW v \in Nat \ {0},
           phase' = [phase EXCEPT ![i] = p], version' = [version EXCEPT ![i] = v],
           p \in {"check"} \cup Applying => v - 1 <= Len(schema),
           p = "commit" => v \notin recorded /\ \A j \in Instances : phase[j] = "commit" => version[j] # v,
           p = "up" => Known[i] <= Len(schema)
    PROVE  MigrationsInv'
<1>1. phase' \in [Instances -> {"down", "create", "check", "up"} \cup Applying] /\ version' \in [Instances -> Nat \ {0}]
  BY DEF MigrationsInv
<1>2. phase'[i] = p /\ version'[i] = v
  BY DEF MigrationsInv
<1>3. \A j \in Instances \ {i} : phase'[j] = phase[j] /\ version'[j] = version[j]
  BY DEF MigrationsInv
<1>4. ASSUME NEW j \in Instances
      PROVE  /\ phase'[j] \in {"check"} \cup Applying => version'[j] - 1 <= Len(schema)
             /\ phase'[j] = "commit" => version'[j] \notin recorded
             /\ phase'[j] = "up" => Known[j] <= Len(schema)
  <2>1. CASE j = i
    BY <2>1, <1>2
  <2>2. CASE j # i
    BY <2>2, <1>3 DEF MigrationsInv
  <2> QED
    BY <2>1, <2>2
<1>5. \A j, k \in Instances : phase'[j] = "commit" /\ phase'[k] = "commit" /\ j # k => version'[j] # version'[k]
  BY <1>2, <1>3 DEF MigrationsInv
<1> QED
  BY <1>1, <1>4, <1>5 DEF MigrationsInv

LEMMA CommitKeeps ==
    ASSUME MigrationsInv, NEW i \in Instances, Commit(i)
    PROVE  MigrationsInv'
<1>1. PICK p \in {"check", "down"} :
         /\ phase[i] = "commit" /\ phase' = [phase EXCEPT ![i] = p]
         /\ schema' = Append(schema, version[i]) /\ recorded' = recorded \cup {version[i]} /\ version' = version
  BY DEF Commit, Moves
<1>2. version[i] = Len(schema) + 1 /\ Len(schema) \in Nat
  <2>1. version[i] \in Nat \ {0} /\ version[i] - 1 <= Len(schema) /\ version[i] \notin 1 .. Len(schema)
    BY <1>1 DEF MigrationsInv, Applying
  <2>2. Len(schema) \in Nat
    BY DEF MigrationsInv
  <2> QED
    BY <2>1, <2>2
<1>3. /\ schema' \in Seq(Nat) /\ Len(schema') = Len(schema) + 1
      /\ \A k \in 1 .. Len(schema') : schema'[k] = k
  BY <1>1, <1>2 DEF MigrationsInv
<1>4. recorded' = 1 .. Len(schema')
  BY <1>1, <1>2, <1>3 DEF MigrationsInv
<1>5. phase' \in [Instances -> {"down", "create", "check", "up"} \cup Applying] /\ version' \in [Instances -> Nat \ {0}]
  BY <1>1 DEF MigrationsInv
<1>6. \A j \in Instances : phase'[j] # "commit"
  <2>1. \A j \in Instances \ {i} : phase'[j] = phase[j]
    BY <1>1 DEF MigrationsInv
  <2>2. phase'[i] # "commit"
    BY <1>1 DEF MigrationsInv
  <2>3. ASSUME NEW j \in Instances \ {i}, phase[j] = "commit" PROVE FALSE
    <3>1. version[j] \in Nat \ {0} /\ version[j] - 1 <= Len(schema) /\ version[j] \notin 1 .. Len(schema)
      BY <2>3 DEF MigrationsInv, Applying
    <3>2. version[j] # version[i]
      BY <1>1, <2>3 DEF MigrationsInv
    <3> QED
      BY <1>2, <3>1, <3>2
  <2> QED
    BY <2>1, <2>2, <2>3
<1>7. ASSUME NEW j \in Instances
      PROVE  /\ phase'[j] \in {"check"} \cup Applying => version'[j] - 1 <= Len(schema')
             /\ phase'[j] = "up" => Known[j] <= Len(schema')
  <2>1. CASE j = i
    BY <1>1, <1>2, <1>3, <2>1 DEF MigrationsInv
  <2>2. CASE j # i
    <3>1. phase'[j] = phase[j] /\ version'[j] = version[j] /\ version[j] \in Nat /\ Known[j] \in Nat
      BY <1>1, <2>2, MigrationsAssumption DEF MigrationsInv
    <3> QED
      BY <1>2, <1>3, <3>1 DEF MigrationsInv
  <2> QED
    BY <2>1, <2>2
<1> QED
  BY <1>3, <1>4, <1>5, <1>6, <1>7 DEF MigrationsInv

LEMMA MigrationKeeps ==
    ASSUME MigrationsInv, NEW i \in Instances,
           \/ Start(i) \/ CreateMigrationsTable(i) \/ IsMigrationApplied(i) \/ Serve(i)
           \/ ExecuteSQL(i) \/ Record(i) \/ Commit(i) \/ AppliedMeanwhile(i) \/ Fail(i)
    PROVE  MigrationsInv'
<1>1. /\ version[i] \in Nat \ {0} /\ version = [version EXCEPT ![i] = version[i]]
      /\ phase = [phase EXCEPT ![i] = phase[i]] /\ Len(schema) \in Nat /\ recorded = 1 .. Len(schema)
  BY DEF MigrationsInv
<1>2. CASE Start(i)
  <2>1. phase' = [phase EXCEPT ![i] = "create"] /\ version' = [version EXCEPT ![i] = version[i]]
    BY <1>1, <1>2 DEF Start, Moves
  <2>2. UNCHANGED <<schema, recorded>>
    BY <1>2 DEF Start
  <2> QED
    BY <1>1, <2>1, <2>2, Moved DEF Applying
<1>3. CASE CreateMigrationsTable(i)
  <2>1. phase' = [phase EXCEPT ![i] = "check"] /\ version' = [version EXCEPT ![i] = 1]
    BY <1>3 DEF CreateMigrationsTable, Moves
  <2>2. UNCHANGED <<schema, recorded>> /\ 1 - 1 <= Len(schema) /\ 1 \in Nat \ {0}
    BY <1>1, <1>3 DEF CreateMigrationsTable
  <2> QED
    BY <2>1, <2>2, Moved DEF Applying
<1>4. CASE IsMigrationApplied(i)
  <2>1. phase[i] = "check" /\ version[i] - 1 <= Len(schema) /\ UNCHANGED <<schema, recorded>>
    BY <1>4 DEF IsMigrationApplied, Moves, MigrationsInv
  <2>2. CASE version[i] \in recorded
    <3>1. phase' = [phase EXCEPT ![i] = "check"] /\ version' = [version EXCEPT ![i] = version[i] + 1]
      BY <1>4, <2>2 DEF IsMigrationApplied, Moves
    <3>2. (version[i] + 1) - 1 <= Len(schema) /\ version[i] + 1 \in Nat \ {0}
      BY <1>1, <2>2
    <3> QED
      BY <2>1, <3>1, <3>2, Moved
  <2>3. CASE version[i] \notin recorded
    <3>1. phase' = [phase EXCEPT ![i] = "sql"] /\ version' = version
      BY <1>4, <2>3 DEF IsMigrationApplied, Moves
    <3> QED
      BY <1>1, <2>1, <3>1, Moved DEF Applying
  <2> QED
    BY <2>2, <2>3
<1>5. CASE Serve(i)
  <2>1. /\ phase[i] = "check" /\ version[i] - 1 <= Len(schema) /\ version[i] > Known[i]
        /\ phase' = [phase EXCEPT ![i] = "up"] /\ UNCHANGED <<schema, recorded, version>>
    BY <1>5 DEF Serve, Moves, MigrationsInv
  <2>2. Known[i] <= Len(schema)
    BY <1>1, <2>1, MigrationsAssumption
  <2> QED
    BY <1>1, <2>1, <2>2, Moved DEF Applying
<1>6. CASE ExecuteSQL(i)
  BY <1>1, <1>6, Moved DEF ExecuteSQL, Moves, MigrationsInv, Applying
<1>7. CASE Record(i)
  BY <1>1, <1>7, Moved DEF Record, Moves, MigrationsInv, Applying
<1>8. CASE Commit(i)
  BY <1>8, CommitKeeps
<1>9. CASE AppliedMeanwhile(i)
  <2>1. phase' = [phase EXCEPT ![i] = "down"] /\ version' = [version EXCEPT ![i] = version[i]]
    BY <1>1, <1>9 DEF AppliedMeanwhile, Moves
  <2>2. UNCHANGED <<schema, recorded>>
    BY <1>9 DEF AppliedMeanwhile
  <2> QED
    BY <1>1, <2>1, <2>2, Moved DEF Applying
<1>10. CASE Fail(i)
  <2>1. phase' = [phase EXCEPT ![i] = "down"] /\ version' = [version EXCEPT ![i] = version[i]]
    BY <1>1, <1>10 DEF Fail
  <2>2. UNCHANGED <<schema, recorded>>
    BY <1>10 DEF Fail
  <2> QED
    BY <1>1, <2>1, <2>2, Moved DEF Applying
<1> QED
  BY <1>2, <1>3, <1>4, <1>5, <1>6, <1>7, <1>8, <1>9, <1>10

LEMMA MigrationsStepKeeps == MigrationsInv /\ [Next]_allVars => MigrationsInv'
<1> SUFFICES ASSUME MigrationsInv, [Next]_allVars PROVE MigrationsInv'
  OBVIOUS
<1>1. CASE UNCHANGED migrationVars
  BY <1>1 DEF migrationVars, MigrationsInv
<1>2. CASE MigrationsNext
  BY <1>2, MigrationKeeps DEF MigrationsNext
<1> QED
  BY <1>1, <1>2
  DEF Next, allVars, MigrationStep, UsersStep, RulesStep, FeedStep, CacheStep, CleaningStep

\* Every migration is applied once and in order, and an instance serves on all that
\* it knows.
THEOREM SchemaInOrder == Spec => []SchemaSound
<1>1. Init => MigrationsInv
  BY MigrationsStart DEF Init
<1>2. MigrationsInv => SchemaSound
  BY DEF MigrationsInv, SchemaSound
<1> QED
  BY <1>1, <1>2, MigrationsStepKeeps, PTL DEF Spec

-----------------------------------------------------------------------------
(* Retention *)

Slack == (1 + cleanErrors + restarts) * CleanupInterval

\* What is due is due within an interval, what is left when a cleaner runs next is
\* not too old by then, and what S3Cleaner has listed is old enough.
RetentionInv ==
    /\ now \in Nat /\ dbDue \in Int /\ s3Due \in Int /\ cleanErrors \in Nat /\ restarts \in Nat
    /\ processedAt \in [News -> Int] /\ createdAt \in [News -> Int]
    /\ \A n \in rows : n \in News /\ createdAt[n] # Unborn
    /\ \A n \in uploaded : n \in News /\ processedAt[n] # Unborn
    /\ texts \subseteq uploaded /\ doomed \subseteq texts
    /\ now <= dbDue /\ dbDue <= now + CleanupInterval
    /\ now <= s3Due /\ s3Due <= now + CleanupInterval
    /\ KeptLongEnough
    /\ \A n \in doomed : now - processedAt[n] > Kept /\ now - processedAt[n] < Kept + DayLength + Slack
    /\ \A n \in rows : dbDue - createdAt[n] <= Kept + Slack
    /\ \A n \in texts \ doomed : s3Due - processedAt[n] < Kept + DayLength + Slack

\* Multiples of an interval.
LEMMA Times ==
    ASSUME NEW a \in Nat, NEW b \in Nat, NEW i \in Nat
    PROVE  /\ (1 + a + b) * i \in Int /\ (1 + a + b) * i >= i
           /\ (1 + (a + 1) + b) * i = (1 + a + b) * i + i
           /\ (1 + a + (b + 1)) * i = (1 + a + b) * i + i
<1>1. PICK k \in Nat : k = a + b
  OBVIOUS
<1>2. \A m \in Nat : m * i \in Nat /\ (m + 1) * i = m * i + i
  OBVIOUS
<1>3. 1 + a + b = k + 1 /\ 1 + (a + 1) + b = (k + 1) + 1 /\ 1 + a + (b + 1) = (k + 1) + 1 /\ k + 1 \in Nat
  BY <1>1
<1>4. k * i \in Nat /\ (k + 1) * i = k * i + i /\ ((k + 1) + 1) * i = (k + 1) * i + i
  BY <1>2, <1>3
<1> QED
  BY <1>3, <1>4

\* Each failed run and each restart adds an interval.
LEMMA SlackGrows ==
    ASSUME cleanErrors \in Nat, restarts \in Nat
    PROVE  /\ CleanupInterval \in Nat /\ Slack \in Int /\ Slack >= CleanupInterval
           /\ cleanErrors' = cleanErrors /\ restarts' = restarts => Slack' = Slack
           /\ cleanErrors' = cleanErrors + 1 /\ restarts' = restarts => Slack' = Slack + CleanupInterval
           /\ cleanErrors' = cleanErrors /\ restarts' = restarts + 1 => Slack' = Slack + CleanupInterval
<1>1. CleanupInterval \in Nat
  BY RetentionAssumption
<1>2. Slack' = (1 + cleanErrors' + restarts') * CleanupInterval
  BY DEF Slack
<1>3. cleanErrors' = cleanErrors /\ restarts' = restarts => Slack' = Slack
  BY DEF Slack
<1>4. cleanErrors' = cleanErrors + 1 /\ restarts' = restarts => Slack' = Slack + CleanupInterval
  BY <1>1, <1>2, Times DEF Slack
<1>5. cleanErrors' = cleanErrors /\ restarts' = restarts + 1 => Slack' = Slack + CleanupInterval
  BY <1>1, <1>2, Times DEF Slack
<1> QED
  BY <1>1, <1>3, <1>4, <1>5, Times DEF Slack

\* The days of the retention.
LEMMA KeptType == Kept \in Nat
BY RetentionAssumption DEF Kept

\* Division with a remainder.
LEMMA DivMod ==
    ASSUME NEW t \in Int, NEW d \in Nat \ {0}
    PROVE  /\ t \div d \in Int /\ t % d \in Int /\ 0 <= t % d /\ t % d < d
           /\ t = d * (t \div d) + (t % d)
<1>1. t \div d \in Int /\ t % d \in Int /\ 0 <= t % d /\ t % d < d
  OBVIOUS
<1>2. t = d * (t \div d) + (t % d)
  BY SMTT(30)
<1> QED
  BY <1>1, <1>2

\* Midnight is at most a day ago, and a multiple of the day.
LEMMA DayIs ==
    ASSUME NEW t \in Int
    PROVE  Day(t) \in Int /\ Day(t) <= t /\ t < Day(t) + DayLength /\ \E q \in Int : Day(t) = q * DayLength
<1>1. DayLength \in Nat \ {0}
  BY RetentionAssumption
<1>2. PICK q \in Int, r \in Int : t = DayLength * q + r /\ r = t % DayLength /\ 0 <= r /\ r < DayLength
  BY <1>1, DivMod
<1>3. DayLength * q \in Int /\ DayLength * q = q * DayLength
  BY <1>1
<1>4. Day(t) = DayLength * q
  BY <1>2, <1>3 DEF Day
<1>5. Day(t) \in Int /\ t = Day(t) + r
  BY <1>2, <1>3, <1>4
<1>6. \E k \in Int : Day(t) = k * DayLength
  BY <1>3, <1>4
<1>7. Day(t) <= t /\ t < Day(t) + DayLength
  BY <1>1, <1>2, <1>5
<1> QED
  BY <1>5, <1>6, <1>7

\* An earlier day is over before the later one begins.
LEMMA EarlierDay ==
    ASSUME NEW t \in Int, NEW s \in Int, Day(t) < Day(s)
    PROVE  t < s
<1>1. DayLength \in Nat \ {0}
  BY RetentionAssumption
<1>2. PICK q \in Int, r \in Int : Day(t) = q * DayLength /\ Day(s) = r * DayLength
  BY DayIs
<1>3. q < r
  BY <1>1, <1>2, SMTT(30)
<1>4. (q + 1) * DayLength <= r * DayLength
  BY <1>1, <1>3, SMTT(30)
<1>5. (q + 1) * DayLength = q * DayLength + DayLength
  BY <1>1
<1>6. Day(t) + DayLength <= Day(s)
  BY <1>2, <1>4, <1>5
<1>7. Day(t) \in Int /\ t < Day(t) + DayLength /\ Day(s) \in Int /\ Day(s) <= s
  BY DayIs
<1> QED
  BY <1>1, <1>6, <1>7

LEMMA RetentionStart == RetentionInit => RetentionInv
<1> SUFFICES ASSUME RetentionInit PROVE RetentionInv
  OBVIOUS
<1>1. PICK old \in {{}, OldNews} :
          /\ processedAt = [n \in News |-> IF n \in old THEN ProcessedBefore[n] ELSE Unborn]
          /\ createdAt = [n \in News |-> IF n \in old THEN CreatedBefore[n] ELSE Unborn]
          /\ rows = old /\ texts = old /\ uploaded = old
  BY DEF RetentionInit
<1>2. now = Kept /\ dbDue = now /\ s3Due = now /\ doomed = {} /\ cleanErrors = 0 /\ restarts = 0
  BY DEF RetentionInit
<1>3. Slack = CleanupInterval
  BY <1>2, RetentionAssumption DEF Slack
<1>4. old \subseteq News /\ \A n \in old : processedAt[n] \in Nat /\ createdAt[n] \in Nat
  BY <1>1, RetentionAssumption
<1>5. processedAt \in [News -> Int] /\ createdAt \in [News -> Int]
  BY <1>1, <1>4, RetentionAssumption DEF Unborn
<1>6. \A n \in News \ rows : createdAt[n] = Unborn
  BY <1>1
<1> QED
  BY <1>1, <1>2, <1>3, <1>4, <1>5, <1>6, KeptType, RetentionAssumption DEF RetentionInv, KeptLongEnough, Unborn

LEMMA StoreTextKeeps ==
    ASSUME RetentionInv, NEW n \in News, StoreText(n)
    PROVE  RetentionInv'
<1>1. PICK text \in {{}, {n}} : texts' = texts \cup text /\ uploaded' = uploaded \cup text
  BY DEF StoreText
<1>2. processedAt[n] = Unborn /\ processedAt' = [processedAt EXCEPT ![n] = now]
  BY DEF StoreText
<1>3. /\ rows' = rows /\ createdAt' = createdAt /\ dbDue' = dbDue /\ s3Due' = s3Due /\ doomed' = doomed
      /\ now' = now /\ cleanErrors' = cleanErrors /\ restarts' = restarts
  BY DEF StoreText, cleaners
<1>4. n \notin uploaded /\ n \notin texts /\ n \notin doomed
  BY <1>2 DEF RetentionInv
<1>5. processedAt' \in [News -> Int] /\ processedAt'[n] = now /\ \A m \in News \ {n} : processedAt'[m] = processedAt[m]
  BY <1>2 DEF RetentionInv
<1>6. Slack' = Slack /\ Slack \in Int /\ Slack >= CleanupInterval /\ CleanupInterval \in Nat
  BY <1>3, SlackGrows DEF RetentionInv
<1>7. DayLength \in Nat \ {0}
  BY RetentionAssumption
<1>8. KeptLongEnough'
  BY <1>1, <1>3, <1>4, <1>5, KeptType DEF RetentionInv, KeptLongEnough
<1>9. \A m \in (texts \ doomed)' : (s3Due - processedAt[m] < Kept + DayLength + Slack)'
  BY <1>1, <1>3, <1>4, <1>5, <1>6, <1>7, KeptType DEF RetentionInv
<1>10. \A m \in doomed' : (now - processedAt[m] > Kept /\ now - processedAt[m] < Kept + DayLength + Slack)'
  BY <1>3, <1>4, <1>5, <1>6 DEF RetentionInv
<1>11. \A m \in uploaded' : m \in News /\ processedAt'[m] # Unborn
  BY <1>1, <1>5 DEF RetentionInv, Unborn
<1> QED
  BY <1>1, <1>3, <1>4, <1>5, <1>6, <1>8, <1>9, <1>10, <1>11 DEF RetentionInv

LEMMA SaveRowKeeps ==
    ASSUME RetentionInv, NEW n \in News, SaveRow(n)
    PROVE  RetentionInv'
<1>1. createdAt[n] = Unborn /\ createdAt' = [createdAt EXCEPT ![n] = now] /\ rows' = rows \cup {n}
  BY DEF SaveRow
<1>2. /\ processedAt' = processedAt /\ texts' = texts /\ uploaded' = uploaded /\ dbDue' = dbDue /\ s3Due' = s3Due
      /\ doomed' = doomed /\ now' = now /\ cleanErrors' = cleanErrors /\ restarts' = restarts
  BY DEF SaveRow, cleaners
<1>3. createdAt' \in [News -> Int] /\ createdAt'[n] = now /\ \A m \in News \ {n} : createdAt'[m] = createdAt[m]
  BY <1>1 DEF RetentionInv
<1>4. Slack' = Slack /\ Slack \in Int /\ Slack >= CleanupInterval /\ CleanupInterval \in Nat
  BY <1>2, SlackGrows DEF RetentionInv
<1>5. KeptLongEnough'
  BY <1>1, <1>2, <1>3 DEF RetentionInv, KeptLongEnough
<1>6. \A m \in rows' : m \in News /\ createdAt'[m] # Unborn
  BY <1>1, <1>3 DEF RetentionInv, Unborn
<1>7. \A m \in rows' : (dbDue - createdAt[m] <= Kept + Slack)'
  BY <1>1, <1>2, <1>3, <1>4, KeptType DEF RetentionInv
<1> QED
  BY <1>2, <1>3, <1>4, <1>5, <1>6, <1>7 DEF RetentionInv

LEMMA CleanRowsKeeps ==
    ASSUME RetentionInv, CleanRows
    PROVE  RetentionInv'
<1>1. now = dbDue /\ dbDue' = dbDue + CleanupInterval
  BY DEF CleanRows, RetentionInv
<1>2. /\ processedAt' = processedAt /\ createdAt' = createdAt /\ texts' = texts /\ uploaded' = uploaded
      /\ s3Due' = s3Due /\ doomed' = doomed /\ now' = now /\ restarts' = restarts
  BY DEF CleanRows
<1>3. CleanupInterval \in Nat /\ Slack \in Int /\ Slack >= CleanupInterval
  BY SlackGrows DEF RetentionInv
<1>4. CASE rows' = rows \ OverdueRows /\ cleanErrors' = cleanErrors
  <2>1. Slack' = Slack
    BY <1>2, <1>4, SlackGrows DEF RetentionInv
  <2>2. KeptLongEnough'
    BY <1>2, <1>4, KeptType DEF RetentionInv, KeptLongEnough, OverdueRows
  <2>3. \A n \in rows' : (dbDue - createdAt[n] <= Kept + Slack)'
    BY <1>1, <1>2, <1>3, <1>4, <2>1, KeptType DEF RetentionInv, OverdueRows
  <2> QED
    BY <1>1, <1>2, <1>3, <1>4, <2>1, <2>2, <2>3 DEF RetentionInv
<1>5. CASE CleanError /\ rows' = rows
  <2>1. cleanErrors' = cleanErrors + 1 /\ cleanErrors' \in Nat
    BY <1>5 DEF CleanError, RetentionInv
  <2>2. Slack' = Slack + CleanupInterval
    BY <1>2, <2>1, SlackGrows DEF RetentionInv
  <2>3. KeptLongEnough'
    BY <1>2, <1>5 DEF RetentionInv, KeptLongEnough
  <2>4. \A n \in rows' : (dbDue - createdAt[n] <= Kept + Slack)'
    BY <1>1, <1>2, <1>3, <1>5, <2>2, KeptType DEF RetentionInv
  <2>5. /\ \A n \in doomed' : (now - processedAt[n] > Kept /\ now - processedAt[n] < Kept + DayLength + Slack)'
        /\ \A n \in (texts \ doomed)' : (s3Due - processedAt[n] < Kept + DayLength + Slack)'
    BY <1>2, <1>3, <2>2, KeptType, RetentionAssumption DEF RetentionInv
  <2> QED
    BY <1>1, <1>2, <1>3, <1>5, <2>1, <2>2, <2>3, <2>4, <2>5 DEF RetentionInv
<1> QED
  BY <1>4, <1>5 DEF CleanRows

LEMMA ListOldKeeps ==
    ASSUME RetentionInv, ListOld
    PROVE  RetentionInv'
<1>1. now = s3Due /\ doomed = {} /\ s3Due' = s3Due + CleanupInterval
  BY DEF ListOld, RetentionInv
<1>2. /\ processedAt' = processedAt /\ rows' = rows /\ createdAt' = createdAt /\ uploaded' = uploaded
      /\ texts' = texts /\ dbDue' = dbDue /\ now' = now /\ restarts' = restarts
  BY DEF ListOld, items
<1>3. CleanupInterval \in Nat /\ Slack \in Int /\ Slack >= CleanupInterval /\ DayLength \in Nat \ {0}
  BY SlackGrows, RetentionAssumption DEF RetentionInv
<1>4. KeptLongEnough'
  BY <1>2 DEF RetentionInv, KeptLongEnough
<1>5. CASE doomed' = OverdueTexts /\ cleanErrors' = cleanErrors
  <2>1. Slack' = Slack
    BY <1>2, <1>5, SlackGrows DEF RetentionInv
  <2>2. \A n \in OverdueTexts : n \in texts /\ now - processedAt[n] > Kept
    <3>1. TAKE n \in OverdueTexts
    <3>2. n \in texts /\ Day(processedAt[n]) < Day(now - Kept)
      BY DEF OverdueTexts
    <3>3. processedAt[n] \in Int /\ now - Kept \in Int
      BY <3>2, KeptType DEF RetentionInv
    <3>4. processedAt[n] < now - Kept
      BY <3>2, <3>3, EarlierDay
    <3> QED
      BY <3>2, <3>3, <3>4, KeptType DEF RetentionInv
  <2>3. \A n \in OverdueTexts : now - processedAt[n] < Kept + DayLength + Slack
    BY <1>1, <2>2 DEF RetentionInv
  <2>4. \A n \in texts \ OverdueTexts : now - processedAt[n] < Kept + DayLength
    <3>1. TAKE n \in texts \ OverdueTexts
    <3>2. processedAt[n] \in Int /\ now - Kept \in Int
      BY KeptType DEF RetentionInv
    <3>3. ~(Day(processedAt[n]) < Day(now - Kept))
      BY DEF OverdueTexts
    <3>4. /\ Day(processedAt[n]) \in Int /\ Day(processedAt[n]) <= processedAt[n]
          /\ Day(now - Kept) \in Int /\ now - Kept < Day(now - Kept) + DayLength
      BY <3>2, DayIs
    <3> QED
      BY <1>3, <3>2, <3>3, <3>4, KeptType DEF RetentionInv
  <2>5. \A n \in (texts \ doomed)' : (s3Due - processedAt[n] < Kept + DayLength + Slack)'
    BY <1>1, <1>2, <1>3, <1>5, <2>1, <2>4, KeptType DEF RetentionInv
  <2>6. \A n \in doomed' : (now - processedAt[n] > Kept /\ now - processedAt[n] < Kept + DayLength + Slack)'
    BY <1>2, <1>5, <2>1, <2>2, <2>3
  <2>7. doomed' \subseteq texts'
    BY <1>2, <1>5, <2>2
  <2> QED
    BY <1>1, <1>2, <1>3, <1>4, <1>5, <2>1, <2>5, <2>6, <2>7 DEF RetentionInv
<1>6. CASE CleanError /\ doomed' = doomed
  <2>1. cleanErrors' = cleanErrors + 1 /\ cleanErrors' \in Nat
    BY <1>6 DEF CleanError, RetentionInv
  <2>2. Slack' = Slack + CleanupInterval
    BY <1>2, <2>1, SlackGrows DEF RetentionInv
  <2>3. /\ \A n \in rows' : (dbDue - createdAt[n] <= Kept + Slack)'
        /\ \A n \in (texts \ doomed)' : (s3Due - processedAt[n] < Kept + DayLength + Slack)'
    BY <1>1, <1>2, <1>3, <1>6, <2>2, KeptType DEF RetentionInv
  <2> QED
    BY <1>1, <1>2, <1>3, <1>4, <1>6, <2>1, <2>2, <2>3 DEF RetentionInv
<1> QED
  BY <1>5, <1>6 DEF ListOld

\* Objects that were listed, and no others, are deleted.
LEMMA ListedAreOld ==
    ASSUME RetentionInv, NEW batch \in SUBSET doomed, texts' = texts \ batch, rows' = rows, uploaded' = uploaded,
           processedAt' = processedAt, createdAt' = createdAt, now' = now
    PROVE  KeptLongEnough'
BY DEF RetentionInv, KeptLongEnough

LEMMA DeleteObjectsKeeps ==
    ASSUME RetentionInv, DeleteObjects
    PROVE  RetentionInv'
<1>1. PICK batch \in SUBSET doomed : texts' = texts \ batch /\ doomed' = doomed \ batch
  BY DEF DeleteObjects
<1>2. /\ processedAt' = processedAt /\ rows' = rows /\ createdAt' = createdAt /\ uploaded' = uploaded
      /\ dbDue' = dbDue /\ s3Due' = s3Due /\ now' = now /\ cleanErrors' = cleanErrors /\ restarts' = restarts
  BY DEF DeleteObjects, items
<1>3. Slack' = Slack
  BY <1>2, SlackGrows DEF RetentionInv
<1>4. KeptLongEnough'
  BY <1>1, <1>2, ListedAreOld
<1> QED
  BY <1>1, <1>2, <1>3, <1>4 DEF RetentionInv

LEMMA DeleteObjectsErrorKeeps ==
    ASSUME RetentionInv, DeleteObjectsError
    PROVE  RetentionInv'
<1>1. PICK part \in SUBSET doomed : texts' = texts \ part
  BY DEF DeleteObjectsError
<1>2. /\ processedAt' = processedAt /\ rows' = rows /\ createdAt' = createdAt /\ uploaded' = uploaded
      /\ dbDue' = dbDue /\ s3Due' = s3Due /\ now' = now /\ restarts' = restarts /\ doomed' = {}
  BY DEF DeleteObjectsError, items
<1>3. cleanErrors' = cleanErrors + 1 /\ cleanErrors' \in Nat
  BY DEF DeleteObjectsError, CleanError, RetentionInv
<1>4. /\ Slack' = Slack + CleanupInterval
      /\ CleanupInterval \in Nat /\ Slack \in Int /\ Slack >= CleanupInterval /\ DayLength \in Nat \ {0}
  BY <1>2, <1>3, SlackGrows, RetentionAssumption DEF RetentionInv
<1>5. KeptLongEnough'
  BY <1>1, <1>2, ListedAreOld
<1>6. \A n \in texts' : n \in News /\ processedAt[n] \in Int
  BY <1>1 DEF RetentionInv
<1>7. \A n \in texts' : s3Due - processedAt[n] < Kept + DayLength + Slack + CleanupInterval
  BY <1>1, <1>4, <1>6, KeptType DEF RetentionInv
<1>8. \A n \in rows : dbDue - createdAt[n] <= Kept + Slack + CleanupInterval
  BY <1>4, KeptType DEF RetentionInv
<1>9. /\ \A n \in (texts \ doomed)' : (s3Due - processedAt[n] < Kept + DayLength + Slack)'
      /\ \A n \in rows' : (dbDue - createdAt[n] <= Kept + Slack)'
  BY <1>2, <1>4, <1>6, <1>7, <1>8, KeptType DEF RetentionInv
<1> QED
  BY <1>1, <1>2, <1>3, <1>5, <1>9 DEF RetentionInv

LEMMA RestartKeeps ==
    ASSUME RetentionInv, Restart
    PROVE  RetentionInv'
<1>1. /\ processedAt' = processedAt /\ rows' = rows /\ createdAt' = createdAt /\ uploaded' = uploaded
      /\ texts' = texts /\ now' = now /\ cleanErrors' = cleanErrors
  BY DEF Restart, items
<1>2. restarts' = restarts + 1 /\ restarts' \in Nat
  BY DEF Restart, RetentionInv
<1>3. /\ Slack' = Slack + CleanupInterval
      /\ CleanupInterval \in Nat /\ Slack \in Int /\ DayLength \in Nat \ {0}
  BY <1>1, <1>2, SlackGrows, RetentionAssumption DEF RetentionInv
<1>4. KeptLongEnough'
  BY <1>1 DEF RetentionInv, KeptLongEnough
<1>5. /\ \A n \in rows : createdAt[n] \in Int /\ now - createdAt[n] <= Kept + Slack
      /\ \A n \in texts : processedAt[n] \in Int /\ now - processedAt[n] < Kept + DayLength + Slack
  BY <1>3, KeptType DEF RetentionInv
<1>6. CASE dbDue' = now /\ s3Due' = s3Due /\ doomed' = doomed
  BY <1>1, <1>2, <1>3, <1>4, <1>5, <1>6, KeptType DEF RetentionInv
<1>7. CASE s3Due' = now /\ doomed' = {} /\ dbDue' = dbDue
  BY <1>1, <1>2, <1>3, <1>4, <1>5, <1>7, KeptType DEF RetentionInv
<1> QED
  BY <1>6, <1>7 DEF Restart

LEMMA AdvanceKeeps ==
    ASSUME RetentionInv, Advance
    PROVE  RetentionInv'
<1>1. /\ now' = now + 1 /\ now < dbDue /\ now < s3Due /\ doomed = {}
      /\ processedAt' = processedAt /\ rows' = rows /\ createdAt' = createdAt /\ uploaded' = uploaded
      /\ texts' = texts /\ dbDue' = dbDue /\ s3Due' = s3Due /\ doomed' = doomed
      /\ cleanErrors' = cleanErrors /\ restarts' = restarts
  BY DEF Advance, items, cleaners
<1>2. Slack' = Slack /\ CleanupInterval \in Nat
  BY <1>1, SlackGrows DEF RetentionInv
<1>3. KeptLongEnough'
  BY <1>1, KeptType DEF RetentionInv, KeptLongEnough
<1> QED
  BY <1>1, <1>2, <1>3 DEF RetentionInv

LEMMA RetentionStepKeeps == RetentionInv /\ [Next]_allVars => RetentionInv'
<1> SUFFICES ASSUME RetentionInv, [Next]_allVars PROVE RetentionInv'
  OBVIOUS
<1>1. CASE UNCHANGED retentionVars
  BY <1>1 DEF retentionVars, items, cleaners, RetentionInv, KeptLongEnough, Slack
<1>2. CASE RetentionNext
  BY <1>2, StoreTextKeeps, SaveRowKeeps, CleanRowsKeeps, ListOldKeeps, DeleteObjectsKeeps,
     DeleteObjectsErrorKeeps, RestartKeeps, AdvanceKeeps DEF RetentionNext
<1> QED
  BY <1>1, <1>2
  DEF Next, allVars, apiVars, MigrationStep, UsersStep, RulesStep, FeedStep, CacheStep, CleaningStep, NewsStep

\* The two cleaners, whatever fails or restarts between them, remove nothing that is
\* younger than the retention.
THEOREM NothingGoesEarly == Spec => []KeptLongEnough
<1>1. Init => RetentionInv
  BY RetentionStart DEF Init
<1>2. RetentionInv => KeptLongEnough
  BY DEF RetentionInv
<1> QED
  BY <1>1, <1>2, RetentionStepKeeps, PTL DEF Spec

\* And they leave nothing for longer than an interval, a day, and an interval for each
\* failed run and restart.
THEOREM NothingStaysLong == Spec => []CleanedInTime
<1>1. Init => RetentionInv
  BY RetentionStart DEF Init
<1>2. RetentionInv => CleanedInTime
  <2> SUFFICES ASSUME RetentionInv PROVE CleanedInTime
    OBVIOUS
  <2>1. Slack \in Int /\ DayLength \in Nat \ {0}
    BY SlackGrows, RetentionAssumption DEF RetentionInv
  <2>2. /\ \A n \in rows : now - createdAt[n] <= Kept + Slack
        /\ \A n \in texts : now - processedAt[n] < Kept + DayLength + Slack
    BY <2>1, KeptType DEF RetentionInv
  <2> QED
    BY <2>2 DEF CleanedInTime, Slack
<1> QED
  BY <1>1, <1>2, RetentionStepKeeps, PTL DEF Spec

-----------------------------------------------------------------------------
(* The feed *)

\* A hidden item that still has a row has the event that hides it, no item has two
\* rows in its life, and a feed request knows only of items that are hidden.
HiddenInv ==
    /\ events \in [Users -> [News -> [Kinds -> Nat]]]
    /\ hidden \subseteq Users \X News
    /\ \A u \in Users, n \in News : <<u, n>> \in hidden =>
          createdAt[n] # Unborn /\ (n \in rows => events[u][n]["hide"] > 0)
    /\ reading = [s \in Readers |-> reading[s]]
    /\ \A s \in Readers : reading[s] # NoValue =>
          reading[s].hidden \subseteq News /\ \A n \in reading[s].hidden : <<reading[s].user, n>> \in hidden

LEMMA FeedStart == FeedInit => HiddenInv
BY DEF FeedInit, HiddenInv, NoEvents

\* What InsertEvent counts is not taken back.
LEMMA EventCounted ==
    ASSUME HiddenInv, NEW u \in Users, NEW n \in News, NEW kind \in Kinds,
           events' = [events EXCEPT ![u][n][kind] = @ + 1]
    PROVE  /\ events' \in [Users -> [News -> [Kinds -> Nat]]]
           /\ events'[u][n][kind] > 0
           /\ \A v \in Users, m \in News : events[v][m]["hide"] > 0 => events'[v][m]["hide"] > 0
           /\ \A v \in Users, m \in News : v # u \/ m # n => events'[v][m] = events[v][m]
           /\ \A k \in Kinds : events'[u][n][k] <= events[u][n][k] + 1
<1>1. events \in [Users -> [News -> [Kinds -> Nat]]] /\ "hide" \in Kinds
  BY DEF HiddenInv, Kinds
<1>2. events[u] \in [News -> [Kinds -> Nat]] /\ events[u][n] \in [Kinds -> Nat] /\ events[u][n][kind] \in Nat
  BY <1>1
<1> DEFINE counted == [events[u][n] EXCEPT ![kind] = events[u][n][kind] + 1]
           ofUser  == [events[u] EXCEPT ![n] = counted]
<1>3. /\ counted \in [Kinds -> Nat] /\ counted[kind] > 0
      /\ events[u][n]["hide"] > 0 => counted["hide"] > 0
      /\ \A k \in Kinds : counted[k] <= events[u][n][k] + 1
  BY <1>1, <1>2
<1> HIDE DEF counted
<1>4. /\ ofUser \in [News -> [Kinds -> Nat]] /\ ofUser[n] = counted
      /\ \A m \in News \ {n} : ofUser[m] = events[u][m]
  BY <1>2, <1>3
<1>5. events' = [events EXCEPT ![u] = ofUser]
  BY DEF counted
<1> HIDE DEF ofUser
<1>6. /\ events' \in [Users -> [News -> [Kinds -> Nat]]] /\ events'[u] = ofUser
      /\ \A v \in Users \ {u} : events'[v] = events[v]
  BY <1>1, <1>4, <1>5
<1>7. \A v \in Users, m \in News : events[v][m]["hide"] > 0 => events'[v][m]["hide"] > 0
  <2>1. TAKE v \in Users, m \in News
  <2>2. CASE v = u /\ m = n
    BY <1>3, <1>4, <1>6, <2>2
  <2>3. CASE v = u /\ m # n
    BY <1>4, <1>6, <2>3
  <2>4. CASE v # u
    BY <1>6, <2>4
  <2> QED
    BY <2>2, <2>3, <2>4
<1>8. \A v \in Users, m \in News : v # u \/ m # n => events'[v][m] = events[v][m]
  BY <1>4, <1>6
<1> QED
  BY <1>3, <1>4, <1>6, <1>7, <1>8

LEMMA InsertEventKeeps ==
    ASSUME RetentionInv, HiddenInv, NEW u \in Users, NEW n \in News, NEW kind \in Kinds, InsertEvent(u, n, kind),
           UNCHANGED retentionVars
    PROVE  HiddenInv'
<1>1. /\ n \in rows /\ createdAt[n] # Unborn /\ reading' = reading /\ rows' = rows /\ createdAt' = createdAt
      /\ events' = [events EXCEPT ![u][n][kind] = @ + 1]
  BY DEF InsertEvent, RetentionInv, retentionVars, items
<1>2. /\ events' \in [Users -> [News -> [Kinds -> Nat]]]
      /\ events'[u][n][kind] > 0
      /\ \A v \in Users, m \in News : events[v][m]["hide"] > 0 => events'[v][m]["hide"] > 0
  BY <1>1, EventCounted
<1>3. hidden' = hidden \/ (hidden' = hidden \cup {<<u, n>>} /\ kind = "hide")
  BY DEF InsertEvent
<1>4. \A v \in Users, m \in News : <<v, m>> \in hidden' =>
          createdAt[m] # Unborn /\ (m \in rows => events'[v][m]["hide"] > 0)
  <2> SUFFICES ASSUME NEW v \in Users, NEW m \in News, <<v, m>> \in hidden'
               PROVE  createdAt[m] # Unborn /\ (m \in rows => events'[v][m]["hide"] > 0)
    OBVIOUS
  <2>1. CASE <<v, m>> \in hidden
    BY <1>2, <2>1 DEF HiddenInv
  <2>2. CASE v = u /\ m = n /\ kind = "hide"
    BY <1>1, <1>2, <2>2
  <2> QED
    BY <1>3, <2>1, <2>2
<1>5. hidden' \subseteq Users \X News /\ hidden \subseteq hidden'
  BY <1>3 DEF HiddenInv
<1> QED
  BY <1>1, <1>2, <1>4, <1>5 DEF HiddenInv

\* A request that starts takes what is hidden from its user along.
LEMMA GetFeedKeeps ==
    ASSUME HiddenInv, NEW s \in Readers, NEW by \in Users, NEW u \in Users, NEW q, GetFeed(s, by, u, q),
           UNCHANGED retentionVars
    PROVE  HiddenInv' /\ \A t \in Readers : reading[t] # NoValue => reading'[t] = reading[t]
<1>1. CASE UNCHANGED feedVars
  BY <1>1 DEF feedVars, retentionVars, items, HiddenInv
<1>2. CASE ~UNCHANGED feedVars
  <2>1. /\ reading[s] = NoValue
        /\ reading' = [reading EXCEPT ![s] = [user |-> u, query |-> q, prefs |-> Current(u),
                                              hidden |-> HiddenFrom(u)]]
        /\ events' = events /\ hidden' = hidden /\ rows' = rows /\ createdAt' = createdAt
    BY <1>2 DEF GetFeed, FeedRefuses, FeedFails, retentionVars, items
  <2>2. HiddenFrom(u) \subseteq News /\ \A n \in HiddenFrom(u) : <<u, n>> \in hidden
    BY DEF HiddenFrom
  <2>3. \A t \in Readers \ {s} : reading'[t] = reading[t]
    BY <2>1 DEF HiddenInv
  <2>4. reading'[s].hidden = HiddenFrom(u) /\ reading'[s].user = u
    BY <2>1 DEF HiddenInv
  <2>5. reading' = [t \in Readers |-> reading'[t]]
    BY <2>1 DEF HiddenInv
  <2> QED
    BY <2>1, <2>2, <2>3, <2>4, <2>5 DEF HiddenInv
<1> QED
  BY <1>1, <1>2 DEF GetFeed, FeedRefuses, FeedFails, feedVars

\* The page of a request shows no item that was hidden when it started.
LEMMA PageHides ==
    ASSUME HiddenInv, NEW s \in Readers, GetPersonalizedFeed(s), UNCHANGED retentionVars
    PROVE  /\ HiddenInv' /\ \A t \in Readers \ {s} : reading'[t] = reading[t]
           /\ answer'.found \cap reading[s].hidden = {}
<1>1. /\ reading[s] # NoValue /\ reading' = [reading EXCEPT ![s] = NoValue]
      /\ events' = events /\ hidden' = hidden /\ rows' = rows /\ createdAt' = createdAt
  BY DEF GetPersonalizedFeed, retentionVars, items
<1> DEFINE r == reading[s]
<1>2. answer'.found = {} \/ answer'.found \in FeedPages(r.user, r.prefs, r.query)
  BY DEF GetPersonalizedFeed, Reply, Fails, Give
<1>3. answer'.found \subseteq {n \in rows : events[r.user][n]["hide"] = 0}
  <2>1. \A page \in FeedPages(r.user, r.prefs, r.query) : page \subseteq Eligible(r.user, r.prefs, r.query)
    BY DEF FeedPages, Pages, Firsts
  <2>2. Eligible(r.user, r.prefs, r.query) \subseteq {n \in rows : events[r.user][n]["hide"] = 0}
    BY DEF Eligible, Visible
  <2> QED
    BY <1>2, <2>1, <2>2
<1>4. \A n \in r.hidden : r.user \in Users /\ n \in News /\ <<r.user, n>> \in hidden
  BY <1>1 DEF HiddenInv
<1>5. \A n \in r.hidden : n \in rows => events[r.user][n]["hide"] > 0
  BY <1>4 DEF HiddenInv
<1>6. answer'.found \cap r.hidden = {}
  <2> SUFFICES ASSUME NEW n, n \in answer'.found, n \in r.hidden PROVE FALSE
    OBVIOUS
  <2>1. n \in rows /\ events[r.user][n]["hide"] = 0
    BY <1>2, <1>3
  <2> QED
    BY <1>5, <2>1
<1>7. /\ reading' = [t \in Readers |-> reading'[t]] /\ reading'[s] = NoValue
      /\ \A t \in Readers \ {s} : reading'[t] = reading[t]
  BY <1>1 DEF HiddenInv
<1>8. HiddenInv'
  BY <1>1, <1>7 DEF HiddenInv
<1> QED
  BY <1>6, <1>7, <1>8

\* A row that is gone does not come back, and takes its events along.
LEMMA RowsLeave ==
    ASSUME RetentionInv, RetentionNext, NEW n \in News, createdAt[n] # Unborn
    PROVE  createdAt'[n] # Unborn /\ (n \in rows' => n \in rows)
<1>1. CASE UNCHANGED createdAt /\ rows' \subseteq rows
  BY <1>1
<1>2. ASSUME NEW m \in News, SaveRow(m)
      PROVE  createdAt'[n] # Unborn /\ (n \in rows' => n \in rows)
  BY <1>2 DEF SaveRow, RetentionInv, Unborn
<1>3. ASSUME NEW m \in News, StoreText(m)
      PROVE  createdAt'[n] # Unborn /\ (n \in rows' => n \in rows)
  BY <1>3 DEF StoreText
<1>4. CASE CleanRows \/ ListOld \/ DeleteObjects \/ DeleteObjectsError \/ Restart \/ Advance
  BY <1>1, <1>4 DEF CleanRows, ListOld, DeleteObjects, DeleteObjectsError, Restart, Advance, items
<1> QED
  BY <1>2, <1>3, <1>4 DEF RetentionNext

LEMMA NewsStepKeeps ==
    ASSUME RetentionInv, HiddenInv, NewsStep
    PROVE  HiddenInv' /\ reading' = reading
<1>1. /\ reading' = reading /\ hidden' = hidden
      /\ events' = [u \in Users |-> [n \in News |-> IF n \in rows \ rows' THEN NoEvents[n] ELSE events[u][n]]]
  BY DEF NewsStep, CascadeEvents
<1>2. \A n \in News : NoEvents[n] \in [Kinds -> Nat]
  BY DEF NoEvents
<1>3. events' \in [Users -> [News -> [Kinds -> Nat]]]
  BY <1>1, <1>2 DEF HiddenInv
<1>4. \A u \in Users, n \in News : <<u, n>> \in hidden =>
          createdAt'[n] # Unborn /\ (n \in rows' => events'[u][n]["hide"] > 0)
  <2> SUFFICES ASSUME NEW u \in Users, NEW n \in News, <<u, n>> \in hidden
               PROVE  createdAt'[n] # Unborn /\ (n \in rows' => events'[u][n]["hide"] > 0)
    OBVIOUS
  <2>1. createdAt[n] # Unborn /\ (n \in rows => events[u][n]["hide"] > 0)
    BY DEF HiddenInv
  <2>2. createdAt'[n] # Unborn /\ (n \in rows' => n \in rows)
    BY <2>1, RowsLeave DEF NewsStep
  <2>3. n \in rows' => events'[u][n] = events[u][n]
    BY <1>1
  <2> QED
    BY <2>1, <2>2, <2>3
<1> QED
  BY <1>1, <1>3, <1>4 DEF HiddenInv

HidesWhatIsHidden ==
    \A s \in Readers :
        reading[s] # NoValue /\ reading'[s] = NoValue => answer'.found \cap reading[s].hidden = {}

LEMMA FeedStepKeeps ==
    ASSUME RetentionInv, HiddenInv, FeedRequest, UNCHANGED retentionVars
    PROVE  HiddenInv' /\ HidesWhatIsHidden
<1>1. CASE UNCHANGED <<events, hidden, reading>>
  BY <1>1 DEF retentionVars, items, HiddenInv, HidesWhatIsHidden
<1>2. ASSUME NEW by \in Users, NEW u \in Users, GetPreferences(by, u)
      PROVE  HiddenInv' /\ HidesWhatIsHidden
  BY <1>1, <1>2 DEF GetPreferences, FeedRefuses, FeedFails, feedVars
<1>3. ASSUME NEW by \in Users, NEW u \in Users, NEW p \in Preferences, PutPreferences(by, u, p)
      PROVE  HiddenInv' /\ HidesWhatIsHidden
  BY <1>1, <1>3 DEF PutPreferences, UpsertPreferences, FeedRefuses, FeedFails, feedVars
<1>4. ASSUME NEW by \in Users, NEW u \in Users, NEW n \in News, NEW kind \in Kinds, CreateEvent(by, u, n, kind)
      PROVE  HiddenInv' /\ HidesWhatIsHidden
  <2>1. CASE InsertEvent(u, n, kind)
    <3>1. reading' = reading
      BY <2>1 DEF InsertEvent
    <3> QED
      BY <2>1, <3>1, InsertEventKeeps DEF HidesWhatIsHidden
  <2> QED
    BY <1>1, <1>4, <2>1 DEF CreateEvent, FeedRefuses, FeedFails, feedVars
<1>5. ASSUME NEW by \in Users, NEW u \in Users, NEW q \in Queries, NEW s \in Readers, GetFeed(s, by, u, q)
      PROVE  HiddenInv' /\ HidesWhatIsHidden
  BY <1>5, GetFeedKeeps DEF HidesWhatIsHidden
<1>6. ASSUME NEW s \in Readers, GetPersonalizedFeed(s) PROVE HiddenInv' /\ HidesWhatIsHidden
  BY <1>6, PageHides DEF HidesWhatIsHidden
<1>7. ASSUME NEW q \in Queries, ListLatest(q.limit) PROVE HiddenInv' /\ HidesWhatIsHidden
  BY <1>1, <1>7 DEF ListLatest, feedVars
<1> QED
  BY <1>2, <1>3, <1>4, <1>5, <1>6, <1>7 DEF FeedRequest

LEMMA HiddenStepKeeps == RetentionInv /\ HiddenInv /\ [Next]_allVars => HiddenInv' /\ HidesWhatIsHidden
<1> SUFFICES ASSUME RetentionInv, HiddenInv, [Next]_allVars PROVE HiddenInv' /\ HidesWhatIsHidden
  OBVIOUS
<1>1. CASE UNCHANGED <<feedVars, retentionVars>>
  BY <1>1 DEF feedVars, retentionVars, items, HiddenInv, HidesWhatIsHidden
<1>2. CASE FeedStep
  BY <1>2, FeedStepKeeps DEF FeedStep
<1>3. CASE CleaningStep
  BY <1>3, NewsStepKeeps DEF CleaningStep, HidesWhatIsHidden
<1> QED
  BY <1>1, <1>2, <1>3 DEF Next, allVars, apiVars, MigrationStep, UsersStep, RulesStep, CacheStep

\* An item that the user was told is hidden does not come back in a feed asked for
\* afterwards, whatever events, requests and retention do between its statements.
THEOREM HiddenForGood == Spec => HiddenStays
<1>1. Init => RetentionInv /\ HiddenInv
  BY RetentionStart, FeedStart DEF Init
<1>2. RetentionInv /\ HiddenInv /\ [Next]_allVars =>
          [\A s \in Readers : reading[s] # NoValue /\ reading'[s] = NoValue
                                  => answer'.found \cap reading[s].hidden = {}]_reading
  BY HiddenStepKeeps DEF HidesWhatIsHidden
<1> QED
  BY <1>1, <1>2, RetentionStepKeeps, HiddenStepKeeps, PTL DEF Spec, HiddenStays

-----------------------------------------------------------------------------
(* Types *)

Statuses == {0, 200, 201, 202, 204, 400, 403, 404, 500}

\* A handler gives an answer and has met a fault or not.
Answers == answer'.status \in Statuses /\ (faults' = faults \/ Fault)

HttpInv == answer.status \in Statuses /\ faults \in 0 .. MaxFaults

LEMMA GivesAnswer ==
    ASSUME NEW op, NEW status \in Statuses, NEW found,
           Refuse(op, status) \/ Reply(op, status, found) \/ Fails(op, status)
    PROVE  Answers
<1>1. ASSUME NEW st \in Statuses, NEW fd, Give(op, st, fd) PROVE answer'.status \in Statuses
  BY <1>1 DEF Give
<1>2. Lost \in Statuses
  BY DEF Lost, Statuses
<1> QED
  BY <1>1, <1>2 DEF Refuse, Reply, Fails, Answers

LEMMA StatusTypes ==
    \A op, err : UserStatus(op, err) \in Statuses /\ RuleStatus(op, err) \in Statuses /\ FeedStatus(op, err) \in Statuses
BY DEF UserStatus, RuleStatus, FeedStatus, Statuses

LEMMA UsersAnswer == UserNext => Answers
<1>1. ASSUME NEW u \in Users, CreateUser(u) PROVE Answers
  BY <1>1, GivesAnswer, StatusTypes DEF CreateUser, UserInvalid, UserFails, InsertUser
<1>2. ASSUME NEW u \in Users, GetUser(u) PROVE Answers
  BY <1>2, GivesAnswer, StatusTypes DEF GetUser, UserInvalid, UserFails, GetByUUID
<1>3. ASSUME NEW u \in Users, DeleteUser(u) PROVE Answers
  BY <1>3, GivesAnswer, StatusTypes DEF DeleteUser, UserInvalid, UserFails, SoftDelete
<1>4. GetAllUsers => Answers
  BY GivesAnswer, StatusTypes DEF GetAllUsers, GetAll, UserFails
<1> QED
  BY <1>1, <1>2, <1>3, <1>4 DEF UserNext

LEMMA RulesAnswer == RuleRequest \/ RuleInsert => Answers \/ UNCHANGED http
<1>1. ASSUME NEW u \in Users, NEW s \in Slots, CreateRule(s, u) PROVE Answers \/ UNCHANGED http
  BY <1>1, GivesAnswer, StatusTypes DEF CreateRule, RuleInvalid, RuleFails
<1>2. ASSUME NEW u \in Users, NEW r \in RuleIds, DeleteRule(u, r) PROVE Answers
  BY <1>2, GivesAnswer, StatusTypes DEF DeleteRule, RuleInvalid, RuleFails, RemoveRule, NoSuchRule
<1>3. ASSUME NEW u \in Users, NEW r \in RuleIds, NEW on \in BOOLEAN, UpdateRule(u, r, on) PROVE Answers
  BY <1>3, GivesAnswer, StatusTypes DEF UpdateRule, RuleInvalid, RuleFails, SetRule, NoSuchRule
<1>4. ASSUME NEW u \in Users, ListRules(u) \/ ListEvents(u) PROVE Answers
  BY <1>4, GivesAnswer, StatusTypes DEF ListRules, ListEvents, SelectRules, SelectEvents, RuleInvalid, RuleFails
<1>5. ASSUME NEW s \in Slots, InsertRuleFails(s) PROVE Answers
  BY <1>5, GivesAnswer, StatusTypes DEF InsertRuleFails
<1>6. ASSUME NEW s \in Slots, NEW r \in RuleIds, InsertRule(s, r) PROVE Answers
  BY <1>6, GivesAnswer, StatusTypes DEF InsertRule
<1> QED
  BY <1>1, <1>2, <1>3, <1>4, <1>5, <1>6 DEF RuleRequest, RuleInsert

LEMMA FeedAnswers == FeedRequest => Answers \/ UNCHANGED http
<1>1. 400 \in Statuses /\ 403 \in Statuses /\ 200 \in Statuses /\ 500 \in Statuses
  BY DEF Statuses
<1>2. ASSUME NEW op, NEW by, NEW u, FeedRefuses(op, by, u) \/ FeedFails(op) PROVE Answers
  BY <1>1, <1>2, GivesAnswer, StatusTypes DEF FeedRefuses, FeedFails
<1>3. ASSUME NEW by, NEW u, GetPreferences(by, u) PROVE Answers
  BY <1>2, <1>3, GivesAnswer, StatusTypes DEF GetPreferences
<1>4. ASSUME NEW by, NEW u, NEW p, PutPreferences(by, u, p) PROVE Answers
  BY <1>2, <1>4, GivesAnswer, StatusTypes DEF PutPreferences, UpsertPreferences
<1>5. ASSUME NEW by, NEW u, NEW n, NEW kind, CreateEvent(by, u, n, kind) PROVE Answers
  BY <1>2, <1>5, GivesAnswer, StatusTypes DEF CreateEvent, InsertEvent
<1>6. ASSUME NEW s, NEW by, NEW u, NEW q, GetFeed(s, by, u, q) PROVE Answers \/ UNCHANGED http
  BY <1>2, <1>6 DEF GetFeed
<1>7. ASSUME NEW s, GetPersonalizedFeed(s) PROVE Answers
  BY <1>7, GivesAnswer, StatusTypes DEF GetPersonalizedFeed
<1>8. ASSUME NEW l, ListLatest(l) PROVE Answers
  BY <1>1, <1>8, GivesAnswer DEF ListLatest
<1> QED
  BY <1>3, <1>4, <1>5, <1>6, <1>7, <1>8 DEF FeedRequest

LEMMA RefresherSilent == RefresherStep => UNCHANGED answer /\ (faults' = faults \/ Fault)
<1>1. ASSUME NEW r, Match(r) PROVE UNCHANGED http
  BY <1>1 DEF Match
<1>2. Tick => UNCHANGED http
  BY DEF Tick
<1>3. StartRefresh \/ ListActiveRules \/ SetRules \/ RefreshFails => UNCHANGED answer /\ (faults' = faults \/ Fault)
  BY DEF StartRefresh, ListActiveRules, SetRules, RefreshFails, Return, RefreshFrame
<1> QED
  BY <1>1, <1>2, <1>3 DEF RefresherStep, http

LEMMA HttpKeeps == HttpInv /\ [Next]_allVars => HttpInv'
<1> SUFFICES ASSUME HttpInv, [Next]_allVars PROVE HttpInv'
  OBVIOUS
<1>1. CASE (Answers \/ UNCHANGED answer) /\ (faults' = faults \/ Fault)
  BY <1>1, RulesAssumption DEF HttpInv, Answers, Fault
<1>2. Answers => (Answers \/ UNCHANGED answer) /\ (faults' = faults \/ Fault)
  BY DEF Answers
<1>3. UNCHANGED http => (Answers \/ UNCHANGED answer) /\ (faults' = faults \/ Fault)
  BY DEF http
<1> QED
  BY <1>1, <1>2, <1>3, UsersAnswer, RulesAnswer, FeedAnswers, RefresherSilent
  DEF Next, allVars, apiVars, MigrationStep, UsersStep, RulesStep, FeedStep, CacheStep, CleaningStep

\* No row of a user is removed.
UsersStay == \A u \in Users : users[u] # "none" => users'[u] # "none"

LEMMA NoUserLeaves == UsersInv /\ [Next]_allVars => UsersStay
<1> SUFFICES ASSUME UsersInv, [Next]_allVars PROVE UsersStay
  OBVIOUS
<1>1. CASE users' = users
  BY <1>1 DEF UsersStay
<1>2. ASSUME NEW u \in Users, CreateUser(u) PROVE UsersStay
  BY <1>1, <1>2 DEF CreateUser, UserInvalid, UserFails, InsertUser, UsersInv, UsersStay, userVars
<1>3. ASSUME NEW u \in Users, DeleteUser(u) PROVE UsersStay
  BY <1>1, <1>3 DEF DeleteUser, UserInvalid, UserFails, SoftDelete, UsersInv, UsersStay, userVars
<1>4. ASSUME NEW u \in Users, GetUser(u) PROVE users' = users
  BY <1>4 DEF GetUser, GetByUUID, UserInvalid, UserFails, userVars
<1>5. GetAllUsers => users' = users
  BY DEF GetAllUsers, GetAll, UserFails, userVars
<1>6. CASE UserNext
  BY <1>1, <1>2, <1>3, <1>4, <1>5, <1>6 DEF UserNext
<1> QED
  BY <1>1, <1>6
  DEF Next, allVars, apiVars, userVars, MigrationStep, UsersStep, RulesStep, FeedStep, CacheStep, CleaningStep

\* A rule has an owner with a row, an alert has a rule.
RulesTypes == RulesTypeOK /\ \A r \in RuleIds : owner[r] # NoValue => users[owner[r]] # "none"

LEMMA RulesTypesStart == AlertRulesInit => RulesTypes
<1> SUFFICES ASSUME AlertRulesInit PROVE RulesTypes
  OBVIOUS
<1>1. due = NoTicker /\ fired = FALSE /\ lasting = 0 /\ calling = 0 /\ missed = 0
  BY DEF AlertRulesInit
<1>2. lasting \in 0 .. calling /\ calling \in 0 .. MaxCalling /\ missed \in Nat
  BY <1>1, RulesAssumption
<1>3. due \in {NoTicker} \cup 1 .. Period /\ fired \in BOOLEAN
  BY <1>1
<1> QED
  BY <1>2, <1>3, RulesAssumption DEF AlertRulesInit, RulesTypes, RulesTypeOK

LEMMA RulesTypesFrame ==
    ASSUME RulesInv', RulesTypes, UsersStay, UNCHANGED <<ruleTables, alerted, refresher>>
    PROVE  RulesTypes'
BY DEF RulesInv, RulesTypes, RulesTypeOK, UsersStay, ruleTables, refresher, ticker

\* Age of a rule after a switch.
LEMMA AgeAfterSwitch ==
    ASSUME RulesTypes, NEW on, NEW off, Switch(on, off)
    PROVE  age' \in [RuleIds -> 0 .. NoAge]
BY RulesAssumption DEF RulesTypes, RulesTypeOK, Switch

LEMMA InsertRuleTypes ==
    ASSUME RulesInv, RulesInv', RulesTypes, NEW s \in Slots, NEW r \in RuleIds, InsertRule(s, r), UNCHANGED userVars
    PROVE  RulesTypes'
<1>1. PICK u : /\ u # NoValue /\ u = creating[s] /\ users[u] # "none" /\ r \notin born
               /\ owner' = [owner EXCEPT ![r] = u] /\ born' = born \cup {r} /\ Switch({r}, {})
  BY DEF InsertRule
<1>2. u \in Users /\ owner \in [RuleIds -> Users \cup {NoValue}]
  BY <1>1 DEF RulesInv
<1>3. owner'[r] = u /\ \A q \in RuleIds \ {r} : owner'[q] = owner[q]
  BY <1>1, <1>2
<1>4. age' \in [RuleIds -> 0 .. NoAge]
  BY <1>1, AgeAfterSwitch
<1>5. active' = active \cup {r}
  BY <1>1 DEF Switch
<1>6. /\ alerted' = alerted /\ cache' = cache /\ fetched' = fetched /\ refresh' = refresh /\ UNCHANGED <<ticker, missed>>
      /\ reactivated' = reactivated /\ users' = users
  BY DEF InsertRule, refresher, ticker, userVars
<1> QED
  BY <1>1, <1>2, <1>3, <1>4, <1>5, <1>6 DEF ticker, RulesTypes, RulesTypeOK, RulesInv

LEMMA SetRuleTypes ==
    ASSUME RulesInv, RulesInv', RulesTypes, NEW u \in Users, NEW r \in RuleIds, NEW on \in BOOLEAN, SetRule(u, r, on),
           UNCHANGED userVars
    PROVE  RulesTypes'
<1>1. age' \in [RuleIds -> 0 .. NoAge]
  BY AgeAfterSwitch DEF SetRule
<1>2. owner[r] = u /\ u # NoValue
  BY RulesAssumption DEF SetRule
<1>3. active' \subseteq active \cup {r} /\ active' \subseteq born
  BY DEF SetRule, Switch, RulesInv
<1>4. reactivated' \in [Users -> 0 .. MaxToggles]
  BY RulesAssumption DEF SetRule, RulesTypes, RulesTypeOK
<1>5. /\ owner' = owner /\ born' = born /\ alerted' = alerted /\ cache' = cache /\ fetched' = fetched
      /\ refresh' = refresh /\ UNCHANGED <<ticker, missed>> /\ users' = users
  BY DEF SetRule, refresher, ticker, userVars
<1> QED
  BY <1>1, <1>2, <1>3, <1>4, <1>5 DEF ticker, RulesTypes, RulesTypeOK, RulesInv

LEMMA RemoveRuleTypes ==
    ASSUME RulesInv, RulesInv', RulesTypes, NEW u \in Users, NEW r \in RuleIds, RemoveRule(u, r), UNCHANGED userVars
    PROVE  RulesTypes'
<1>1. age' \in [RuleIds -> 0 .. NoAge]
  BY AgeAfterSwitch DEF RemoveRule
<1>2. owner' = [owner EXCEPT ![r] = NoValue] /\ owner \in [RuleIds -> Users \cup {NoValue}]
  BY DEF RemoveRule, RulesInv
<1>3. owner'[r] = NoValue /\ \A q \in RuleIds \ {r} : owner'[q] = owner[q]
  BY <1>2
<1>4. active' = active \ {r} /\ alerted' = alerted \ {r}
  BY DEF RemoveRule, Switch
<1>5. /\ born' = born /\ cache' = cache /\ fetched' = fetched /\ refresh' = refresh /\ UNCHANGED <<ticker, missed>>
      /\ reactivated' = reactivated /\ users' = users
  BY DEF RemoveRule, refresher, ticker, userVars
<1> QED
  BY <1>1, <1>2, <1>3, <1>4, <1>5 DEF ticker, RulesTypes, RulesTypeOK, RulesInv

LEMMA RefresherTypes ==
    ASSUME RulesInv', RulesTypes, RefresherStep, UNCHANGED userVars
    PROVE  RulesTypes'
<1>1. users' = users /\ active \subseteq born
  BY DEF userVars, RulesTypes, RulesTypeOK
<1>2. CASE StartRefresh
  <2>1. fired' = FALSE /\ lasting' = 0 /\ UNCHANGED <<due, calling, missed>>
    BY <1>2 DEF StartRefresh
  <2>2. lasting' \in 0 .. calling'
    BY <2>1 DEF RulesTypes, RulesTypeOK
  <2>3. fired' \in BOOLEAN
    BY <2>1
  <2> QED
    BY <1>1, <1>2, <2>1, <2>2, <2>3 DEF StartRefresh, RefreshFrame, ruleTables, RulesTypes, RulesTypeOK
<1>3. CASE ListActiveRules
  BY <1>1, <1>3 DEF ListActiveRules, RefreshFrame, ruleTables, ticker, RulesTypes, RulesTypeOK
<1>4. CASE SetRules \/ RefreshFails
  <2>1. /\ refresh' = "wait" /\ fetched' = {} /\ fired' = fired /\ lasting' = lasting
        /\ due' \in {NoTicker} \cup 1 .. Period /\ RefreshFrame
    BY <1>4, RulesAssumption DEF SetRules, RefreshFails, Return, RulesTypes, RulesTypeOK
  <2>2. /\ cache' \subseteq born /\ missed' \in Nat /\ lasting \in 0 .. calling'
        /\ calling' \in 0 .. MaxCalling
    BY <1>4, RulesAssumption DEF SetRules, RefreshFails, RulesTypes, RulesTypeOK
  <2> QED
    BY <1>1, <2>1, <2>2 DEF RefreshFrame, ruleTables, RulesTypes, RulesTypeOK
<1>6. CASE Tick
  <2>1. due' \in {NoTicker} \cup 1 .. Period /\ fired' \in BOOLEAN
    BY <1>6, RulesAssumption DEF Tick, NoTicker, RulesTypes, RulesTypeOK
  <2>2. lasting' \in 0 .. calling' /\ calling' \in 0 .. MaxCalling
    BY <1>6, RulesAssumption DEF Tick, CallTick, WaitTick, RulesTypes, RulesTypeOK
  <2>3. age' \in [RuleIds -> 0 .. NoAge]
    BY <1>6, RulesAssumption DEF Tick, RulesTypes, RulesTypeOK
  <2> QED
    BY <1>1, <1>6, <2>1, <2>2, <2>3 DEF Tick, RulesTypes, RulesTypeOK
<1>7. ASSUME NEW r \in RuleIds, Match(r) PROVE RulesTypes'
  <2>1. alerted' \subseteq {q \in RuleIds : owner[q] # NoValue}
    BY <1>7 DEF Match, RulesTypes, RulesTypeOK
  <2> QED
    BY <1>1, <1>7, <2>1 DEF Match, ruleTables, refresher, ticker, RulesTypes, RulesTypeOK
<1> QED
  BY <1>2, <1>3, <1>4, <1>6, <1>7 DEF RefresherStep

LEMMA RulesTypesKeep == RulesInv /\ UsersInv /\ RulesTypes /\ [Next]_allVars => RulesTypes'
<1> SUFFICES ASSUME RulesInv, UsersInv, RulesTypes, [Next]_allVars PROVE RulesTypes'
  OBVIOUS
<1>1. RulesInv' /\ UsersStay
  BY RulesStepKeeps, NoUserLeaves
<1>2. CASE UNCHANGED <<ruleTables, alerted, refresher>>
  BY <1>1, <1>2, RulesTypesFrame
<1>3. CASE RefresherStep /\ UNCHANGED userVars
  BY <1>1, <1>3, RefresherTypes
<1>4. CASE (RuleRequest \/ RuleInsert) /\ UNCHANGED userVars
  <2>1. ASSUME NEW u \in Users, NEW s \in Slots, CreateRule(s, u) PROVE RulesTypes'
    BY <1>2, <2>1 DEF CreateRule, RuleInvalid, RuleFails, ruleVars
  <2>2. ASSUME NEW u \in Users, NEW r \in RuleIds, DeleteRule(u, r) PROVE RulesTypes'
    BY <1>1, <1>2, <1>4, <2>2, RemoveRuleTypes DEF DeleteRule, RuleInvalid, RuleFails, NoSuchRule, ruleVars
  <2>3. ASSUME NEW u \in Users, NEW r \in RuleIds, NEW on \in BOOLEAN, UpdateRule(u, r, on) PROVE RulesTypes'
    BY <1>1, <1>2, <1>4, <2>3, SetRuleTypes DEF UpdateRule, RuleInvalid, RuleFails, NoSuchRule, ruleVars
  <2>4. ASSUME NEW u \in Users, ListRules(u) \/ ListEvents(u) PROVE RulesTypes'
    BY <1>2, <2>4 DEF ListRules, ListEvents, SelectRules, SelectEvents, RuleInvalid, RuleFails, ruleVars
  <2>5. ASSUME NEW s \in Slots, InsertRuleFails(s) PROVE RulesTypes'
    BY <1>2, <2>5 DEF InsertRuleFails
  <2>6. ASSUME NEW s \in Slots, NEW r \in RuleIds, InsertRule(s, r) PROVE RulesTypes'
    BY <1>1, <1>4, <2>6, InsertRuleTypes
  <2> QED
    BY <1>4, <2>1, <2>2, <2>3, <2>4, <2>5, <2>6 DEF RuleRequest, RuleInsert
<1> QED
  BY <1>2, <1>3, <1>4
  DEF Next, allVars, apiVars, MigrationStep, UsersStep, RulesStep, FeedStep, CacheStep, CleaningStep, ruleVars

\* Preferences belong to a user with a row, and events to a user and an item with
\* one; there are no more events of a kind than were ever inserted.
FeedTypes ==
    /\ prefs = [u \in Users |-> prefs[u]]
    /\ \A u \in Users : prefs[u] # NoValue => users[u] # "none" /\ prefs[u].hours \in 1 .. MaxHours
    /\ inserted \in 0 .. MaxEvents
    /\ \A u \in Users, n \in News : \A k \in Kinds : events[u][n][k] <= inserted
    /\ \A u \in Users, n \in News : events[u][n] # NoEvents[n] => n \in rows /\ users[u] # "none"

LEMMA FeedTypesStart == FeedInit => FeedTypes
BY FeedAssumption DEF FeedInit, FeedTypes, NoEvents

LEMMA FeedTypesFrame ==
    ASSUME FeedTypes, UsersStay, UNCHANGED <<prefs, events, inserted, rows>>
    PROVE  FeedTypes'
BY DEF FeedTypes, UsersStay

LEMMA UpsertTypes ==
    ASSUME FeedTypes, NEW u \in Users, NEW p \in Preferences, p.hours <= MaxHours,
           UpsertPreferences(u, Normalized(p)), UNCHANGED <<users, rows>>
    PROVE  FeedTypes'
<1>1. Normalized(p).hours \in 1 .. MaxHours
  BY FeedAssumption DEF Normalized
<1>2. /\ users[u] # "none" /\ prefs' = [prefs EXCEPT ![u] = Normalized(p)]
      /\ events' = events /\ inserted' = inserted
  BY DEF UpsertPreferences
<1>3. /\ prefs' = [v \in Users |-> prefs'[v]] /\ prefs'[u] = Normalized(p)
      /\ \A v \in Users \ {u} : prefs'[v] = prefs[v]
  BY <1>2 DEF FeedTypes
<1> QED
  BY <1>1, <1>2, <1>3 DEF FeedTypes

LEMMA InsertEventTypes ==
    ASSUME HiddenInv, FeedTypes, NEW u \in Users, NEW n \in News, NEW kind \in Kinds, InsertEvent(u, n, kind),
           UNCHANGED <<users, rows>>
    PROVE  FeedTypes'
<1>1. /\ inserted < MaxEvents /\ inserted' = inserted + 1 /\ users[u] # "none" /\ n \in rows /\ prefs' = prefs
      /\ events' = [events EXCEPT ![u][n][kind] = @ + 1]
  BY DEF InsertEvent
<1>2. events' \in [Users -> [News -> [Kinds -> Nat]]]
  BY <1>1, EventCounted
<1> DEFINE others == \A v \in Users, m \in News : v # u \/ m # n => events'[v][m] = events[v][m]
           atMost == \A k \in Kinds : events'[u][n][k] <= events[u][n][k] + 1
<1>3. others
  BY <1>1, EventCounted
<1>4. atMost
  BY <1>1, EventCounted
<1>5. inserted' \in 0 .. MaxEvents
  BY <1>1, FeedAssumption DEF FeedTypes
<1>6. \A v \in Users, m \in News : \A k \in Kinds : events'[v][m][k] <= inserted'
  <2> SUFFICES ASSUME NEW v \in Users, NEW m \in News, NEW k \in Kinds PROVE events'[v][m][k] <= inserted'
    OBVIOUS
  <2>1. events[v][m][k] \in Nat /\ events[v][m][k] <= inserted
    BY DEF HiddenInv, FeedTypes
  <2>2. events'[v][m][k] \in Nat /\ events'[v][m][k] <= events[v][m][k] + 1
    BY <1>2, <1>3, <1>4, <2>1
  <2> QED
    BY <1>1, <2>1, <2>2, FeedAssumption DEF FeedTypes
<1>7. \A v \in Users, m \in News : events'[v][m] # NoEvents[m] => m \in rows /\ users[v] # "none"
  BY <1>1, <1>3 DEF FeedTypes
<1> QED
  BY <1>1, <1>5, <1>6, <1>7 DEF FeedTypes

LEMMA NewsStepTypes ==
    ASSUME HiddenInv, FeedTypes, NewsStep, UNCHANGED users
    PROVE  FeedTypes'
<1>1. /\ prefs' = prefs /\ inserted' = inserted
      /\ events' = [u \in Users |-> [n \in News |-> IF n \in rows \ rows' THEN NoEvents[n] ELSE events[u][n]]]
  BY DEF NewsStep, CascadeEvents
<1>2. ASSUME NEW u \in Users, NEW n \in News, events'[u][n] # NoEvents[n]
      PROVE  events'[u][n] = events[u][n] /\ n \in rows' /\ users[u] # "none"
  BY <1>1, <1>2 DEF FeedTypes
<1>3. ASSUME NEW u \in Users, NEW n \in News, NEW k \in Kinds PROVE events'[u][n][k] <= inserted
  <2>1. CASE events'[u][n] = NoEvents[n]
    BY <2>1, FeedAssumption DEF NoEvents, FeedTypes
  <2>2. CASE events'[u][n] # NoEvents[n]
    BY <1>2, <2>2 DEF FeedTypes
  <2> QED
    BY <2>1, <2>2
<1> QED
  BY <1>1, <1>2, <1>3 DEF FeedTypes

LEMMA FeedTypesKeep == UsersInv /\ HiddenInv /\ FeedTypes /\ [Next]_allVars => FeedTypes'
<1> SUFFICES ASSUME UsersInv, HiddenInv, FeedTypes, [Next]_allVars PROVE FeedTypes'
  OBVIOUS
<1>1. UsersStay
  BY NoUserLeaves
<1>2. CASE UNCHANGED <<prefs, events, inserted, rows>>
  BY <1>1, <1>2, FeedTypesFrame
<1>3. CASE FeedRequest /\ UNCHANGED <<users, rows>>
  <2>1. ASSUME NEW by \in Users, NEW u \in Users, GetPreferences(by, u) PROVE FeedTypes'
    BY <1>2, <1>3, <2>1 DEF GetPreferences, FeedRefuses, FeedFails, feedVars
  <2>2. ASSUME NEW by \in Users, NEW u \in Users, NEW p \in Preferences, PutPreferences(by, u, p) PROVE FeedTypes'
    BY <1>2, <1>3, <2>2, UpsertTypes DEF PutPreferences, FeedRefuses, FeedFails, feedVars
  <2>3. ASSUME NEW by \in Users, NEW u \in Users, NEW n \in News, NEW kind \in Kinds, CreateEvent(by, u, n, kind)
        PROVE  FeedTypes'
    BY <1>2, <1>3, <2>3, InsertEventTypes DEF CreateEvent, FeedRefuses, FeedFails, feedVars
  <2>4. ASSUME NEW by \in Users, NEW u \in Users, NEW q \in Queries, NEW s \in Readers, GetFeed(s, by, u, q)
        PROVE  FeedTypes'
    BY <1>2, <1>3, <2>4 DEF GetFeed, FeedRefuses, FeedFails, feedVars
  <2>5. ASSUME NEW s \in Readers, GetPersonalizedFeed(s) PROVE FeedTypes'
    BY <1>2, <1>3, <2>5 DEF GetPersonalizedFeed
  <2>6. ASSUME NEW q \in Queries, ListLatest(q.limit) PROVE FeedTypes'
    BY <1>2, <1>3, <2>6 DEF ListLatest, feedVars
  <2> QED
    BY <1>3, <2>1, <2>2, <2>3, <2>4, <2>5, <2>6 DEF FeedRequest
<1>4. CASE CleaningStep
  BY <1>4, NewsStepTypes DEF CleaningStep, userVars
<1> QED
  BY <1>2, <1>3, <1>4
  DEF Next, allVars, apiVars, userVars, feedVars, retentionVars, items, MigrationStep, UsersStep, RulesStep,
      FeedStep, CacheStep

LEMMA MishapsCounted == mishaps \in Nat /\ [Next]_allVars => mishaps' \in Nat
<1> SUFFICES ASSUME mishaps \in Nat, [Next]_allVars PROVE mishaps' \in Nat
  OBVIOUS
<1>1. CASE mishaps' = mishaps \/ mishaps' = mishaps + 1
  BY <1>1
<1>2. ASSUME NEW i \in Instances,
             \/ Start(i) \/ CreateMigrationsTable(i) \/ IsMigrationApplied(i) \/ Serve(i)
             \/ ExecuteSQL(i) \/ Record(i) \/ Commit(i) \/ AppliedMeanwhile(i) \/ Fail(i)
      PROVE  mishaps' = mishaps \/ mishaps' = mishaps + 1
  BY <1>2 DEF Start, CreateMigrationsTable, IsMigrationApplied, Serve, ExecuteSQL, Record, Commit,
              AppliedMeanwhile, Fail
<1> QED
  BY <1>1, <1>2
  DEF Next, allVars, migrationVars, MigrationStep, MigrationsNext, UsersStep, RulesStep, FeedStep, CacheStep,
      CleaningStep

\* The tables refer to rows that exist: a rule to its user, an alert to its rule,
\* preferences and events to their user and item, a text to an upload.
THEOREM ApiTypeCorrect == Spec => []TypeOK
<1> DEFINE Types == HttpInv /\ RulesTypes /\ FeedTypes /\ mishaps \in Nat
           Parts == RulesInv /\ UsersInv /\ RetentionInv /\ HiddenInv /\ MigrationsInv
<1>1. Init => Parts
  BY RulesInit, UsersInit, RetentionStart, FeedStart, MigrationsStart DEF Init
<1>2. Init => Types
  <2>1. UserApiInit => HttpInv
    BY RulesAssumption DEF UserApiInit, HttpInv, Statuses
  <2>2. MigrationsInit => mishaps \in Nat
    BY DEF MigrationsInit
  <2> QED
    BY <2>1, <2>2, RulesTypesStart, FeedTypesStart DEF Init
<1>3. Parts /\ [Next]_allVars => Parts'
  BY RulesStepKeeps, UsersStepKeeps, RetentionStepKeeps, HiddenStepKeeps, MigrationsStepKeeps
<1>4. Parts /\ Types /\ [Next]_allVars => Types'
  BY HttpKeeps, RulesTypesKeep, FeedTypesKeep, MishapsCounted
<1>5. Parts /\ Types => TypeOK
  <2> SUFFICES ASSUME Parts, Types PROVE TypeOK
    OBVIOUS
  <2>1. users \in [Users -> {"none", "live", "deleted"}] /\ deletions \in [Users -> Nat]
    BY DEF UsersInv
  <2>2. answer.status \in {0, 200, 201, 202, 204, 400, 403, 404, 500} /\ faults \in 0 .. MaxFaults
    BY DEF HttpInv, Statuses
  <2>3. rows \subseteq {n \in News : createdAt[n] # Unborn} /\ doomed \subseteq texts /\ texts \subseteq uploaded
    BY DEF RetentionInv
  <2>4. FeedTypeOK
    <3>1. events \in [Users -> [News -> [Kinds -> 0 .. MaxEvents]]]
      <4>1. ASSUME NEW u \in Users, NEW n \in News, NEW k \in Kinds PROVE events[u][n][k] \in 0 .. MaxEvents
        BY FeedAssumption DEF HiddenInv, FeedTypes
      <4> QED
        BY <4>1 DEF HiddenInv
    <3> QED
      BY <3>1 DEF FeedTypeOK, FeedTypes, HiddenInv
  <2>5. MigrationsTypeOK
    <3>1. recorded \subseteq Nat
      BY DEF MigrationsInv
    <3> QED
      BY <3>1 DEF MigrationsTypeOK, MigrationsInv, Applying
  <2> QED
    BY <2>1, <2>2, <2>3, <2>4, <2>5 DEF TypeOK, RulesTypes
<1> QED
  BY <1>1, <1>2, <1>3, <1>4, <1>5, PTL DEF Spec
=============================================================================

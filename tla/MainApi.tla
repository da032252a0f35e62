------------------------------- MODULE MainApi -------------------------------
(***************************************************************************)
(* main-service: the migrations that an instance starts with, its HTTP     *)
(* handlers, composed over one table of users, the refresher of            *)
(* news-processor that reads the alert rules, and the retention that       *)
(* removes news under the feed.                                            *)
(***************************************************************************)
EXTENDS AlertRules, Feed, Migrations

apiVars == <<userVars, http, ruleVars, feedVars, retentionVars>>
allVars == <<apiVars, migrationVars>>

Init == UserApiInit /\ AlertRulesInit /\ RetentionInit /\ FeedInit /\ MigrationsInit

\* run() starts the servers and DBCleaner after RunMigrations.
Serving == \E i \in Instances : phase[i] = "up"

MigrationStep == MigrationsNext /\ UNCHANGED apiVars

UsersStep    == Serving /\ UserNext /\ UNCHANGED <<ruleVars, feedVars, retentionVars, migrationVars>>
RulesStep    == /\ Serving /\ (RuleRequest \/ RuleInsert)
                /\ UNCHANGED <<userVars, feedVars, retentionVars, migrationVars>>
FeedStep     == Serving /\ FeedRequest /\ UNCHANGED <<userVars, ruleVars, retentionVars, migrationVars>>
CacheStep    == RefresherStep /\ UNCHANGED <<userVars, feedVars, retentionVars, migrationVars>>
CleaningStep == NewsStep /\ UNCHANGED <<userVars, http, ruleVars, migrationVars>>

Next == MigrationStep \/ UsersStep \/ RulesStep \/ FeedStep \/ CacheStep \/ CleaningStep

Spec == Init /\ [][Next]_allVars

\* Every variable has a value of its kind, and no row refers to one that is gone:
\* a rule's to its user, an alert's to its rule, an event's to its user and item.
TypeOK ==
    /\ users \in [Users -> {"none", "live", "deleted"}] /\ deletions \in [Users -> Nat]
    /\ answer.status \in {0, 200, 201, 202, 204, 400, 403, 404, 500}
    /\ faults \in 0 .. MaxFaults
    /\ RulesTypeOK
    /\ \A r \in RuleIds : owner[r] # NoValue => users[owner[r]] # "none"
    /\ rows \subseteq {n \in News : createdAt[n] # Unborn}
    /\ doomed \subseteq texts /\ texts \subseteq uploaded
    /\ FeedTypeOK
    /\ MigrationsTypeOK
=============================================================================

------------------------------ MODULE MCMainApi ------------------------------
(***************************************************************************)
(* The instance of MainApi for TLC.  The parts of the API meet in the      *)
(* users only, and reading a user's row is all they do there.  A behaviour *)
(* here picks some of the parts and takes no step of the others.           *)
(***************************************************************************)
EXTENDS MainApi, TLC

CONSTANTS i1, i2, u1, u2, s1, s2, r1, r2, n1, n2

VARIABLE part

Parts == {"users", "limit", "cache", "feed", "cleaning", "migrations"}

\* The schema is there except where it is created; rules need a user, the feed
\* needs news.
MCInit ==
    /\ part \in Parts
    /\ UserApiInit /\ AlertRulesInit /\ RetentionInit /\ FeedInit
    /\ IF part = "migrations"
       THEN MigrationsInit
       ELSE /\ schema = <<1, 2>> /\ recorded = {1, 2} /\ mishaps = 0
            /\ phase = [i \in Instances |-> IF i = i1 THEN "up" ELSE "down"]
            /\ version = [i \in Instances |-> IF i = i1 THEN 3 ELSE 1]
    /\ part # "users" => users = [u \in Users |-> IF u = u1 THEN "live" ELSE "none"]
    /\ part # "cleaning" => rows = IF part = "feed" THEN OldNews ELSE {}

In(p) == part = p /\ part' = p

MCNext ==
    \/ In("users")      /\ UsersStep
    \/ In("limit")      /\ RulesStep
    \/ In("cache")      /\ RulesStep
    \/ In("cache")      /\ CacheStep
    \/ In("feed")       /\ FeedStep
    \/ In("feed")       /\ CleaningStep
    \/ In("cleaning")   /\ CleaningStep
    \/ In("migrations") /\ MigrationStep

MCSpec == MCInit /\ [][MCNext]_<<allVars, part>>

\* Smaller bounds of two parts.
SmallParts ==
    /\ part = "cache" => born \subseteq {r1}
    /\ part = "feed"  => cleanErrors = 0 /\ restarts = 0 /\ now <= Kept + 2

\* No step reads the last answer, so states that differ in it are the same.
ApiView == <<userVars, faults, ruleVars, feedVars, retentionVars, migrationVars, part>>

\* i2 runs an older binary.
Embedded == [i \in Instances |-> IF i = i1 THEN 2 ELSE 1]

\* n1 and n2 are processed together, and saved one after the other.
Together == [n \in News |-> 0]
InTurn   == [n \in News |-> IF n = n1 THEN 0 ELSE 1]

ChosenCategory == [n \in News |-> IF n = n1 THEN "it" ELSE "sport"]
Languages      == [n \in News |-> IF n = n1 THEN "ru" ELSE "en"]
OneSource      == [n \in News |-> "rss"]
Ranks          == [n \in News |-> IF n = n1 THEN 0 ELSE 12]

SomePreferences == {[categories |-> {"it"}, sources |-> {}, language |-> "", words |-> TRUE, hours |-> 0],
                    [categories |-> {}, sources |-> {"rss"}, language |-> "en", words |-> FALSE, hours |-> 4]}
SomeQueries == {[limit |-> 0, offset |-> -1, hours |-> 9, search |-> FALSE],
                [limit |-> 9, offset |-> 0, hours |-> 0, search |-> TRUE]}
=============================================================================

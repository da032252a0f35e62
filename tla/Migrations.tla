----------------------------- MODULE Migrations -----------------------------
(***************************************************************************)
(* RunMigrations of main-service (internal/store/migrations.go): every     *)
(* instance brings the schema up to date when it starts, before it serves  *)
(* anything.  A migration is checked for in one statement and applied in a *)
(* transaction that runs its SQL and records its version.  No lock keeps   *)
(* two instances that start together from applying the same one.           *)
(*                                                                         *)
(* The SQL of a migration that another instance has applied meanwhile may  *)
(* fail or, with IF NOT EXISTS, may not.                                   *)
(***************************************************************************)
EXTENDS Naturals, Sequences

CONSTANTS
    Instances,           \* processes of main-service
    Known,               \* the versions 1 .. Known[i] are embedded in the binary of i
    MaxMigrationFaults   \* bound: statements that fail, crashes

ASSUME MigrationsAssumption ==
    /\ Known \in [Instances -> Nat]
    /\ MaxMigrationFaults \in Nat

VARIABLES
    schema,    \* the versions whose SQL was committed, in that order
    recorded,  \* schema_migrations
    phase,     \* of an instance: "down", "create", "check", "sql", "record", "commit" or "up"
    version,   \* the migration an instance is at
    mishaps

migrationVars == <<schema, recorded, phase, version, mishaps>>

Versions == UNION {1 .. Known[i] : i \in Instances}

MigrationsInit ==
    /\ schema = <<>> /\ recorded = {}
    /\ phase = [i \in Instances |-> "down"]
    /\ version = [i \in Instances |-> 1]
    /\ mishaps = 0

Moves(i, from, to) == phase[i] = from /\ phase' = [phase EXCEPT ![i] = to]

Start(i) == Moves(i, "down", "create") /\ UNCHANGED <<schema, recorded, version, mishaps>>

\* CREATE TABLE IF NOT EXISTS; loadMigrations sorts what is embedded by version.
CreateMigrationsTable(i) ==
    /\ Moves(i, "create", "check")
    /\ version' = [version EXCEPT ![i] = 1]
    /\ UNCHANGED <<schema, recorded, mishaps>>

\* SELECT EXISTS(... WHERE version = $1).
IsMigrationApplied(i) ==
    /\ version[i] <= Known[i]
    /\ IF version[i] \in recorded
       THEN Moves(i, "check", "check") /\ version' = [version EXCEPT ![i] = @ + 1]
       ELSE Moves(i, "check", "sql") /\ UNCHANGED version
    /\ UNCHANGED <<schema, recorded, mishaps>>

Serve(i) ==
    /\ version[i] > Known[i]
    /\ Moves(i, "check", "up")
    /\ UNCHANGED <<schema, recorded, version, mishaps>>

ExecuteSQL(i) == Moves(i, "sql", "record") /\ UNCHANGED <<schema, recorded, version, mishaps>>

\* Mutant: the version is no PRIMARY KEY.
RecordAgain(i) == Moves(i, "record", "commit") /\ UNCHANGED <<schema, recorded, version, mishaps>>

\* The insert waits for one of the same version that is not committed yet.
Record(i) ==
    /\ version[i] \notin recorded
    /\ \A j \in Instances : phase[j] = "commit" => version[j] # version[i]
    /\ Moves(i, "record", "commit")
    /\ UNCHANGED <<schema, recorded, version, mishaps>>

Commit(i) ==
    /\ \/ Moves(i, "commit", "check") /\ UNCHANGED mishaps
       \/ Moves(i, "commit", "down") /\ mishaps < MaxMigrationFaults /\ mishaps' = mishaps + 1
    /\ schema' = Append(schema, version[i])
    /\ recorded' = recorded \cup {version[i]}
    /\ UNCHANGED version

\* run returns the error and the process exits; the transaction is rolled back.
AppliedMeanwhile(i) ==
    /\ version[i] \in recorded
    /\ Moves(i, "sql", "down") \/ Moves(i, "record", "down")
    /\ UNCHANGED <<schema, recorded, version, mishaps>>

\* A statement fails, or the process ends, at any point.
Fail(i) ==
    /\ mishaps < MaxMigrationFaults /\ mishaps' = mishaps + 1
    /\ phase[i] # "down" /\ phase' = [phase EXCEPT ![i] = "down"]
    /\ UNCHANGED <<schema, recorded, version>>

MigrationsNext ==
    \E i \in Instances :
        \/ Start(i) \/ CreateMigrationsTable(i) \/ IsMigrationApplied(i) \/ Serve(i)
        \/ ExecuteSQL(i) \/ Record(i) \/ Commit(i) \/ AppliedMeanwhile(i) \/ Fail(i)

MigrationsSpec == MigrationsInit /\ [][MigrationsNext]_migrationVars

-----------------------------------------------------------------------------
(* Properties *)

\* Every variable has a value of its kind.
MigrationsTypeOK ==
    /\ schema \in Seq(Nat) /\ recorded \subseteq Nat
    /\ phase \in [Instances -> {"down", "create", "check", "sql", "record", "commit", "up"}]
    /\ version \in [Instances -> Nat \ {0}]
    /\ mishaps \in Nat

\* Whatever instances of whatever versions start together, fail and start again:
\* every migration is applied once, in the order of the versions, those recorded
\* are those applied, and an instance serves on all that it knows.
SchemaSound ==
    /\ \A k \in 1 .. Len(schema) : schema[k] = k
    /\ recorded = 1 .. Len(schema)
    /\ \A i \in Instances : phase[i] = "up" => Known[i] <= Len(schema)
=============================================================================

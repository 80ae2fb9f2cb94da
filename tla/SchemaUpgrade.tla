---------------------------- MODULE SchemaUpgrade ----------------------------
(***************************************************************************)
(* Opening the state database.  Every command begins with                  *)
(* Database._initialize, which reads the version of the schema and the     *)
(* names of the tables in two separate statements, and then creates the    *)
(* schema, migrates it, or refuses.  Creation is a script of statements    *)
(* that commit one by one, with the version stamped after the last one;    *)
(* the migration from version 1 is one transaction, those from versions 2  *)
(* to 6 are one transaction for each step, which looks at the tables       *)
(* again.  Any number of processes may do this at once, and each may die   *)
(* between two of its commits.                                             *)
(*                                                                         *)
(* Tables are grouped by the version that introduced them; columns,        *)
(* constraints and triggers are left out, except that version 3 gives the  *)
(* packet artifacts their own versions.                                    *)
(***************************************************************************)
EXTENDS Naturals, FiniteSets

CONSTANTS
  Openers,    \* the terminals that open the database; each starts at most
              \* one Run, which has its name here
  OldRuns     \* the Runs an older Guard may have left

ASSUME RunsAssumption == Openers \cap OldRuns = {}

RunIds == Openers \cup OldRuns

VARIABLES
  version,    \* PRAGMA user_version
  tables,     \* the groups of tables that exist
  versioned,  \* artifacts have versions: "yes" or "no"
  runs,       \* ids in table runs
  leases,     \* the Runs with a write lease from before the planning tables
  readonly,   \* planning_states with COMPATIBILITY_READ_ONLY
  pc,         \* what a terminal does next
  level       \* the version it has seen, or how far its script has come

schema == <<version, tables, versioned, runs, leases, readonly>>

\* The groups in the order in which the script creates them.
Script == <<"legacy", "sessions", "quality", "planning", "candidates", "reviews">>
Latest == 7
Groups == {Script[k] : k \in 1..6}

\* LEGACY_TABLES, V3_EXPECTED_TABLES (of versions 2 and 3), ... EXPECTED_TABLES
TablesOf(v) == {Script[k] : k \in 1..(IF v <= 2 THEN v ELSE v - 1)}

\* The steps of _initialize.
Opening == {"version", "tables", "script", "migrate"}

SchemaInit ==
  /\ version \in 0..Latest
  /\ tables = TablesOf(version)
  /\ versioned = IF version >= 3 THEN "yes" ELSE "no"
  /\ runs \in SUBSET (IF version = 0 THEN {} ELSE OldRuns)
  /\ leases \in SUBSET (IF version < 5 THEN runs ELSE {})
  /\ readonly \in SUBSET (IF version < 5 THEN {} ELSE runs)
  /\ pc = [p \in Openers |-> "version"]
  /\ level = [p \in Openers |-> 0]

-----------------------------------------------------------------------------
(* The steps of _initialize.                                               *)

To(p, step, v) == pc' = [pc EXCEPT ![p] = step] /\ level' = [level EXCEPT ![p] = v]
Opened(p) == To(p, "look", 0)
Refused(p) == To(p, "unopened", 0)

ReadVersion(p) ==
  /\ pc[p] = "version"
  /\ To(p, "tables", version)
  /\ UNCHANGED schema

ReadTables(p) ==
  /\ pc[p] = "tables"
  /\ IF tables = TablesOf(level[p])
     THEN CASE level[p] = 0 -> To(p, "script", 0)
            [] level[p] = Latest -> Opened(p)
            [] OTHER -> To(p, "migrate", level[p])
     ELSE Refused(p)
  /\ UNCHANGED schema

\* executescript(SCHEMA).  The first seven tables are created IF NOT EXISTS,
\* the others are not: the slower of two scripts stops at the first of them.
RunScript(p) ==
  /\ pc[p] = "script" /\ level[p] < 6
  /\ LET group == Script[level[p] + 1]
     IN IF group \in tables \ {"legacy"}
        THEN Refused(p) /\ UNCHANGED schema
        ELSE /\ tables' = tables \cup {group}
             /\ versioned' = "yes"
             /\ To(p, "script", level[p] + 1)
             /\ UNCHANGED <<version, runs, leases, readonly>>

Stamp(p) ==
  /\ pc[p] = "script" /\ level[p] = 6
  /\ version' = Latest
  /\ Opened(p)
  /\ UNCHANGED <<tables, versioned, runs, leases, readonly>>

\* Faults: a step believes the version it read before the transaction; the
\* planning step overlooks a pending lease.
CanMigrateBlindly(v) == v = 4 => leases = {}
CanMigrateWriting(v) == tables = TablesOf(v) /\ (v <= 2 <=> versioned = "no")

\* What the steps from v on look at before they change anything.
CanMigrate(v) ==
  /\ tables = TablesOf(v)
  /\ v <= 2 => versioned = "no"
  /\ v \in {3, 4} => versioned = "yes"
  /\ v = 4 => leases = {}

\* What the step from version v leaves.
Migrated(v) ==
  /\ version' = v + 1
  /\ tables' = tables \cup TablesOf(v + 1)
  /\ versioned' = "yes"
  /\ readonly' = IF v = 4 THEN runs ELSE readonly
  /\ UNCHANGED <<runs, leases>>

\* _migrate_v2_to_v3 to _migrate_v6_to_v7, each in its own transaction
MigrateStep(p) ==
  /\ pc[p] = "migrate" /\ level[p] \in 2..6
  /\ IF CanMigrate(level[p])
     THEN /\ Migrated(level[p])
          /\ IF level[p] = 6 THEN Opened(p) ELSE To(p, "migrate", level[p] + 1)
     ELSE Refused(p) /\ UNCHANGED schema

\* From version 1 all the steps are one transaction.
MigrateAll(p) ==
  /\ pc[p] = "migrate" /\ level[p] = 1
  /\ IF CanMigrate(1) /\ leases = {}
     THEN /\ version' = Latest /\ tables' = Groups /\ versioned' = "yes"
          /\ readonly' = runs
          /\ UNCHANGED <<runs, leases>>
          /\ Opened(p)
     ELSE Refused(p) /\ UNCHANGED schema

\* The command is given again after it could not open the database.
OpenAgain(p) ==
  /\ pc[p] = "unopened"
  /\ To(p, "version", 0)
  /\ UNCHANGED schema

Initialize(p) ==
  ReadVersion(p) \/ ReadTables(p) \/ RunScript(p) \/ Stamp(p) \/ MigrateStep(p) \/ MigrateAll(p)

-----------------------------------------------------------------------------
(* Properties.                                                             *)

\* Somebody is creating the schema, or died while creating it.
Creating == version = 0 /\ tables # {}

\* The version in the file names the tables in it, whatever the terminals
\* that migrate it at once believe, except while the schema is being created;
\* and who gets past _initialize has the whole schema of this program from
\* then on.
VersionNamesTables ==
  /\ ~Creating => /\ tables = TablesOf(version)
                  /\ version > 0 => (versioned = "yes" <=> version >= 3)
  /\ \A p \in Openers : pc[p] \notin Opening \cup {"unopened", "dead"} =>
       version = Latest /\ tables = Groups

\* Only Runs older than the planning tables are read-only, however late a
\* second migration comes, and none of them has a write in progress: no later
\* start can have one to settle.
ReadOnlyIsOld == readonly \subseteq OldRuns /\ readonly \cap leases = {}

\* Nothing can open a database whose creation died, nor migrate one of
\* version 4 or below that has a pending lease.
Stuck ==
  \/ Creating /\ \A p \in Openers : pc[p] # "script"
  \/ version \in 1..4 /\ leases # {}

=============================================================================

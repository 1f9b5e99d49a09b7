----------------------------- MODULE Migrations -----------------------------
(***************************************************************************)
(* The migrate executable: init_database and run_migrations, run by        *)
(* several processes at a time, each of which may die at any point and be  *)
(* started again (src/migrate.cpp, src/migrations).                        *)
(*                                                                         *)
(* Migration i stands for the i-th one in the order of the names and for   *)
(* the table it creates.  A statement is a step; an INSERT and the commit  *)
(* behind it are one, since what is not committed is gone with the process.*)
(* A step that fails ends the process with an uncaught exception.          *)
(***************************************************************************)
EXTENDS Integers

CONSTANTS Migrators,  \* processes that run migrate
          Count,      \* number of registered migrations
          References, \* References[i]: the tables that table i refers to
          MaxCrashes  \* bound on the processes that die

ASSUME CountAssumption == Count \in Nat \ {0}
ASSUME CrashesAssumption == MaxCrashes \in Nat

Registry == 1 .. Count

ASSUME ReferencesAssumption == References \in [Registry -> SUBSET Registry]

(***************************************************************************)
(* start .. make_ledger are init_database, look .. record one turn of the  *)
(* loop in run_migrations.                                                 *)
(***************************************************************************)
Places == {"off", "start", "make_database", "connect", "make_ledger",
           "look", "create", "record", "done", "failed"}

VARIABLES database,  \* the application's database exists
          ledger,    \* its table _migrations exists
          applied,   \* _migrations.name
          tables,    \* the tables that migrations created
          at,        \* where each process is
          next,      \* the migration it is at
          crashes    \* how many processes have died

vars == <<database, ledger, applied, tables, at, next, crashes>>

Init ==
    /\ database \in BOOLEAN
    /\ ledger = FALSE
    /\ applied = {}
    /\ tables = {}
    /\ at = [m \in Migrators |-> "off"]
    /\ next = [m \in Migrators |-> 1]
    /\ crashes = 0

Stopped == {"off", "done", "failed"}

Goes(m, place) == at' = [at EXCEPT ![m] = place]

Start(m) ==
    /\ at[m] \in Stopped
    /\ Goes(m, "start")
    /\ next' = [next EXCEPT ![m] = 1]
    /\ UNCHANGED <<database, ledger, applied, tables, crashes>>

(* The process dies, or its connection breaks: its transaction is undone. *)
Crash(m) ==
    /\ at[m] \notin Stopped
    /\ crashes < MaxCrashes
    /\ crashes' = crashes + 1
    /\ Goes(m, "failed")
    /\ UNCHANGED <<database, ledger, applied, tables, next>>
-----------------------------------------------------------------------------
(* FindDatabase that does not look. *)
FindDatabase_Not(m) ==
    /\ at[m] = "start"
    /\ Goes(m, "make_database")
    /\ UNCHANGED <<database, ledger, applied, tables, next, crashes>>

(* SELECT ... FROM pg_database *)
FindDatabase(m) ==
    /\ at[m] = "start"
    /\ Goes(m, IF database THEN "connect" ELSE "make_database")
    /\ UNCHANGED <<database, ledger, applied, tables, next, crashes>>

(* CREATE DATABASE, which fails when it exists by now. *)
CreateDatabase(m) ==
    /\ at[m] = "make_database"
    /\ database' = TRUE
    /\ Goes(m, IF database THEN "failed" ELSE "connect")
    /\ UNCHANGED <<ledger, applied, tables, next, crashes>>

(* SELECT ... FROM pg_tables *)
FindLedger(m) ==
    /\ at[m] = "connect"
    /\ Goes(m, IF ledger THEN "look" ELSE "make_ledger")
    /\ UNCHANGED <<database, ledger, applied, tables, next, crashes>>

(* CREATE TABLE IF NOT EXISTS _migrations.  It passes over a table that    *)
(* was there when it began, and fails on one that was made while it ran.   *)
CreateLedger(m) ==
    /\ at[m] = "make_ledger"
    /\ ledger' = TRUE
    /\ \/ Goes(m, "look")
       \/ ledger /\ Goes(m, "failed")
    /\ UNCHANGED <<database, applied, tables, next, crashes>>
-----------------------------------------------------------------------------
(* The transaction is committed: the next turn of the loop, or its end. *)
Advance(m) ==
    /\ Goes(m, IF next[m] = Count THEN "done" ELSE "look")
    /\ next' = [next EXCEPT ![m] = IF @ = Count THEN @ ELSE @ + 1]

(* FindMigration whose SELECT takes any row of the ledger. *)
FindMigration_Any(m) ==
    /\ at[m] = "look"
    /\ \/ applied # {} /\ Advance(m)
       \/ applied = {} /\ Goes(m, "create") /\ UNCHANGED next
    /\ UNCHANGED <<database, ledger, applied, tables, crashes>>

(* SELECT ... FROM _migrations WHERE name = $1; an applied one is skipped. *)
FindMigration(m) ==
    /\ at[m] = "look"
    /\ \/ next[m] \in applied /\ Advance(m)
       \/ next[m] \notin applied /\ Goes(m, "create") /\ UNCHANGED next
    /\ UNCHANGED <<database, ledger, applied, tables, crashes>>

(* Another process has created the table and not committed it. *)
Blocked(m) ==
    /\ next[m] \notin tables
    /\ \E q \in Migrators \ {m} : at[q] = "record" /\ next[q] = next[m]

(* CreateTable that does not use the transaction. *)
CreateTable_OwnTransaction(m) ==
    /\ at[m] = "create"
    /\ ~Blocked(m)
    /\ IF References[next[m]] \subseteq tables
       THEN /\ \/ Goes(m, "record")
               \/ next[m] \in tables /\ Goes(m, "failed")
            /\ tables' = tables \cup {next[m]}
       ELSE Goes(m, "failed") /\ UNCHANGED tables
    /\ UNCHANGED <<database, ledger, applied, next, crashes>>

(* migration.run(tx): CREATE TABLE IF NOT EXISTS.  It waits for another    *)
(* process that is creating the table and fails when that one commits; it  *)
(* fails when a table that it refers to does not exist.                    *)
CreateTable(m) ==
    /\ at[m] = "create"
    /\ ~Blocked(m)
    /\ IF References[next[m]] \subseteq tables
       THEN \/ Goes(m, "record")
            \/ next[m] \in tables /\ Goes(m, "failed")
       ELSE Goes(m, "failed")
    /\ UNCHANGED <<database, ledger, applied, tables, next, crashes>>

(* Record without tx.commit(). *)
Record_NoCommit(m) ==
    /\ at[m] = "record"
    /\ \/ next[m] \in applied /\ Goes(m, "failed") /\ UNCHANGED next
       \/ next[m] \notin applied /\ Advance(m)
    /\ UNCHANGED <<database, ledger, applied, tables, crashes>>

(* INSERT INTO _migrations and commit; name is UNIQUE. *)
Record(m) ==
    /\ at[m] = "record"
    /\ \/ /\ next[m] \in applied
          /\ Goes(m, "failed")
          /\ UNCHANGED <<applied, tables, next>>
       \/ /\ next[m] \notin applied
          /\ applied' = applied \cup {next[m]}
          /\ tables' = tables \cup {next[m]}
          /\ Advance(m)
    /\ UNCHANGED <<database, ledger, crashes>>
-----------------------------------------------------------------------------
Step(m) ==
    \/ FindDatabase(m) \/ CreateDatabase(m) \/ FindLedger(m) \/ CreateLedger(m)
    \/ FindMigration(m) \/ CreateTable(m) \/ Record(m)

Next == \E m \in Migrators : Start(m) \/ Crash(m) \/ Step(m)

Spec == Init /\ [][Next]_vars

(* Processes run, and migrate is run again. *)
FairSpec ==
    /\ Spec
    /\ \A m \in Migrators : WF_vars(Start(m)) /\ WF_vars(Step(m))
-----------------------------------------------------------------------------
(* Type invariant. *)
TypeOK ==
    /\ database \in BOOLEAN
    /\ ledger \in BOOLEAN
    /\ applied \subseteq Registry
    /\ tables \subseteq Registry
    /\ at \in [Migrators -> Places]
    /\ next \in [Migrators -> Registry]
    /\ crashes \in 0 .. MaxCrashes

(* The ledger names exactly the migrations whose changes are in the        *)
(* schema, wherever processes died and however they overlapped; otherwise  *)
(* a migration would be run twice or never.                                *)
LedgerIsSchema == tables = applied

(* The variables keep their types, and ledger and schema agree.            *)
Consistent == TypeOK /\ LedgerIsSchema

(* A migrate that exits without an error leaves every migration applied:   *)
(* docker-compose.yaml starts the server on this exit status.              *)
DoneIsComplete ==
    \A m \in Migrators : at[m] = "done" => applied = Registry

(* Of processes that run migrate at the same time all but one may fail on  *)
(* each other's work, but one gets through when none dies.                 *)
OneGetsThrough ==
    (crashes = 0 /\ \A m \in Migrators : at[m] \in {"done", "failed"})
        => \E m \in Migrators : at[m] = "done"

(* "./migrate is safe to run on any environment at any time": run again    *)
(* after any failure, in any number, it ends with the schema complete, and *)
(* every later run of a single one leaves it so.                           *)
Converges == <>[](applied = Registry)
=============================================================================

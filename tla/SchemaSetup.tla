---------------------------- MODULE SchemaSetup ----------------------------
(***************************************************************************)
(* What MeshStore.__init__ does to a database before the process serves:   *)
(* the script that creates the tables, then one ALTER TABLE for every      *)
(* column that older databases miss.  Processes start together on the      *)
(* tables of any earlier version; any step may fail or be cut off, and a   *)
(* process that did not come up is started again.                          *)
(***************************************************************************)
EXTENDS Integers

CONSTANTS
    Procs,      \* processes on one database
    NTables,    \* len(MESH_TABLES), agents is the first of them
    NColumns,   \* len(AGENT_LEGACY_COLUMNS)
    MaxFaults   \* bound: steps that fail, crashes included

ASSUME SetupAssumption == NTables \in Nat \ {0} /\ NColumns \in Nat /\ MaxFaults \in Nat

AllTables == 1..NTables
AllColumns == 1..NColumns

VARIABLES
    scripted,   \* is the script one transaction, as on PostgreSQL?
    tables,     \* the tables there are
    columns,    \* the legacy columns that agents has
    phase,      \* of each process: "script", "alter", "up" or "down"
    step,       \* its next table or column
    faults

setupVars == <<scripted, tables, columns, phase, step, faults>>

\* A new database, or one of an earlier version: columns came in their order.
SetupInit ==
    /\ scripted \in BOOLEAN
    /\ \/ tables = {} /\ columns = {}
       \/ tables = AllTables /\ \E k \in 0..NColumns : columns = 1..k
    /\ phase = [p \in Procs |-> "script"] /\ step = [p \in Procs |-> 1]
    /\ faults = 0

Proceed(p, next, n) ==
    /\ phase' = [phase EXCEPT ![p] = next] /\ step' = [step EXCEPT ![p] = n]
    /\ UNCHANGED scripted

\* CREATE TABLE IF NOT EXISTS: a table that is there keeps its columns.
Create(new) ==
    /\ tables' = tables \union new
    /\ columns' = IF 1 \in new \ tables THEN AllColumns ELSE columns

\* executescript: table by table, or all of them in one transaction.
RunScript(p) ==
    /\ phase[p] = "script" /\ UNCHANGED faults
    /\ IF scripted
       THEN Create(AllTables) /\ Proceed(p, "alter", 1)
       ELSE /\ Create({step[p]})
            /\ IF step[p] = NTables THEN Proceed(p, "alter", 1) ELSE Proceed(p, "script", step[p] + 1)

Altering(p) == phase[p] = "alter" /\ step[p] \in AllColumns

\* Variant: a column that is there stops the start.
ColumnThereStops(p) ==
    /\ Altering(p) /\ step[p] \in columns
    /\ Proceed(p, "down", 1)
    /\ UNCHANGED <<tables, columns, faults>>

\* "duplicate column" or "already exists": there is nothing to do.
ColumnThere(p) ==
    /\ Altering(p) /\ step[p] \in columns
    /\ Proceed(p, "alter", step[p] + 1)
    /\ UNCHANGED <<tables, columns, faults>>

AddColumn(p) ==
    /\ Altering(p) /\ step[p] \notin columns
    /\ columns' = columns \union {step[p]}
    /\ Proceed(p, "alter", step[p] + 1)
    /\ UNCHANGED <<tables, faults>>

\* Variant: every error is taken for the one of a column that is there.
AlterFailsQuietly(p) ==
    /\ Altering(p) /\ faults < MaxFaults
    /\ faults' = faults + 1
    /\ Proceed(p, "alter", step[p] + 1)
    /\ UNCHANGED <<tables, columns>>

\* Another error, a failing commit among them, leaves __init__; the column may
\* have come or not.
AlterFails(p) ==
    /\ Altering(p) /\ faults < MaxFaults
    /\ faults' = faults + 1
    /\ columns' \in {columns, columns \union {step[p]}}
    /\ Proceed(p, "down", 1)
    /\ UNCHANGED tables

\* The script fails, as it does when two create one table at the same time.
ScriptFails(p) ==
    /\ phase[p] = "script" /\ faults < MaxFaults
    /\ faults' = faults + 1
    /\ Proceed(p, "down", 1)
    /\ UNCHANGED <<tables, columns>>

Serve(p) ==
    /\ phase[p] = "alter" /\ step[p] \notin AllColumns
    /\ Proceed(p, "up", 1)
    /\ UNCHANGED <<tables, columns, faults>>

CrashStarting(p) ==
    /\ phase[p] # "down" /\ faults < MaxFaults
    /\ faults' = faults + 1
    /\ Proceed(p, "down", 1)
    /\ UNCHANGED <<tables, columns>>

\* The restart policy of the container.
Restart(p) ==
    /\ phase[p] = "down"
    /\ Proceed(p, "script", 1)
    /\ UNCHANGED <<tables, columns, faults>>

StartStep(p) == RunScript(p) \/ ColumnThere(p) \/ AddColumn(p) \/ Serve(p) \/ Restart(p)

SetupNext == \E p \in Procs : StartStep(p) \/ AlterFails(p) \/ ScriptFails(p) \/ CrashStarting(p)

SetupSpec == SetupInit /\ [][SetupNext]_setupVars

----------------------------------------------------------------------------
(* Properties                                                              *)

\* A process serves only on tables that have all the columns its statements
\* name, whatever version, race or broken start they come from.
ServedTables ==
    \A p \in Procs : phase[p] = "up" => tables = AllTables /\ columns = AllColumns

\* No half-made database is beyond repair: once the faults are over, every
\* process comes up and stays up.
EveryoneComesUp == \A p \in Procs : <>[](phase[p] = "up")
=============================================================================

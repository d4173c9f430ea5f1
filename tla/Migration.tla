----------------------------- MODULE Migration -----------------------------
(***************************************************************************)
(* migrate_sqlite_to_postgres: table by table, all rows are read from the  *)
(* SQLite file and upserted into PostgreSQL.  Every execute of the target  *)
(* takes a connection of its own from the pool, and commit is for the last *)
(* one (StoreBackend).  The mesh goes on writing meanwhile: to the file,   *)
(* and to PostgreSQL once it has been restarted there, and the script may  *)
(* be run again after that.  A row is its version: 0 is no row.            *)
(***************************************************************************)
EXTENDS Integers, Sequences

CONSTANTS
    Ids,            \* primary keys
    MaxVersion,
    HasExecutemany, \* has a connection of the driver this method?
    MaxWrites,      \* bound on what the mesh writes
    MaxFailures     \* bound on the interruptions

ASSUME MigrationAssumption ==
    /\ HasExecutemany \in BOOLEAN
    /\ MaxVersion \in Nat \ {0} /\ MaxWrites \in Nat /\ MaxFailures \in Nat

MeshTables == <<"agents", "tasks", "activity", "escrow_holds">>
Tables == {MeshTables[n] : n \in 1..Len(MeshTables)}
NoRows == [i \in Ids |-> 0]

VARIABLES
    source,     \* the rows of the SQLite file
    target,     \* the committed rows of PostgreSQL
    stage,      \* "idle", "clear", "copy", "upsert", "commit" or "finished"
    clear,      \* was --clear-target given?
    at,         \* number of the table
    rows,       \* the rows just read
    deleted,    \* the tables deleted on the remembered connection
    quiet,      \* did the mesh write nothing since the run began?
    store,      \* where the mesh writes: "sqlite" or "postgresql"
    own,        \* the rows of PostgreSQL that the mesh wrote there itself
    writes, failures

migrationVars ==
    <<source, target, stage, clear, at, rows, deleted, quiet, store, own, writes, failures>>
world == <<source, quiet, store, own, writes>>

\* What PostgreSQL holds and the file does not, the mesh wrote when it ran there.
MigrationInit ==
    /\ source \in [Tables -> [Ids -> 0..1]] /\ target \in [Tables -> [Ids -> 0..1]]
    /\ stage = "idle" /\ clear = FALSE /\ at = 1 /\ rows = NoRows /\ deleted = {}
    /\ own = {r \in Tables \X Ids : target[r[1]][r[2]] > source[r[1]][r[2]]}
    /\ quiet = TRUE /\ store = "sqlite" /\ writes = 0 /\ failures = 0

\* The mesh is restarted, with or without MESH_DATABASE_URL.
Move(s) ==
    /\ store # s /\ store' = s
    /\ UNCHANGED <<source, target, stage, clear, at, rows, deleted, quiet, own, writes, failures>>

Wrote == writes < MaxWrites /\ writes' = writes + 1 /\ quiet' = FALSE

\* The mesh inserts or updates a row of the file.
Write(t, i) ==
    /\ store = "sqlite" /\ source[t][i] < MaxVersion
    /\ source' = [source EXCEPT ![t][i] = @ + 1]
    /\ Wrote
    /\ UNCHANGED <<target, stage, clear, at, rows, deleted, store, own, failures>>

\* A row that an open transaction of the script has deleted or upserted.
Locked(t, i) ==
    \/ t \in deleted
    \/ stage = "commit" /\ t = MeshTables[at] /\ rows[i] # 0

\* The mesh inserts or updates a row of PostgreSQL; for a locked one it waits.
WriteThere(t, i) ==
    /\ store = "postgresql" /\ target[t][i] < MaxVersion /\ ~Locked(t, i)
    /\ target' = [target EXCEPT ![t][i] = @ + 1]
    /\ own' = own \union {<<t, i>>}
    /\ Wrote
    /\ UNCHANGED <<source, stage, clear, at, rows, deleted, store, failures>>

Goto(s) == stage' = s /\ at' = 1

\* Variant: the target is cleared whether asked for or not.
BeginCleared(c) ==
    /\ stage \in {"idle", "finished"}
    /\ clear' = c /\ quiet' = TRUE
    /\ Goto("clear")
    /\ UNCHANGED <<source, target, rows, deleted, store, own, writes, failures>>

\* The script is started, for the first time or again.
Begin(c) ==
    /\ stage \in {"idle", "finished"}
    /\ clear' = c /\ quiet' = TRUE
    /\ Goto(IF c THEN "clear" ELSE "copy")
    /\ UNCHANGED <<source, target, rows, deleted, store, own, writes, failures>>

\* A DELETE on a connection of its own; the one before is forgotten, and
\* rolled back, before its commit.
Delete ==
    /\ stage = "clear" /\ at <= Len(MeshTables)
    /\ deleted' = {MeshTables[at]}
    /\ at' = at + 1
    /\ UNCHANGED <<target, stage, clear, rows, failures, world>>

CommitDelete ==
    /\ stage = "clear" /\ at > Len(MeshTables)
    /\ target' = [t \in Tables |-> IF t \in deleted THEN NoRows ELSE target[t]]
    /\ deleted' = {}
    /\ Goto("copy")
    /\ UNCHANGED <<clear, rows, failures, world>>

\* SELECT * of a table; an empty one is skipped.
Select ==
    /\ stage = "copy" /\ at <= Len(MeshTables)
    /\ rows' = source[MeshTables[at]]
    /\ IF rows' = NoRows THEN at' = at + 1 /\ UNCHANGED stage ELSE stage' = "upsert" /\ UNCHANGED at
    /\ UNCHANGED <<target, clear, deleted, failures, world>>

Executemany ==
    /\ stage = "upsert" /\ HasExecutemany
    /\ stage' = "commit"
    /\ UNCHANGED <<target, clear, at, rows, deleted, failures, world>>

\* Variant: a row that is there stays.
Kept(old, new) == IF old # 0 THEN old ELSE new

\* INSERT ... ON CONFLICT (id) DO UPDATE
Upserted(old, new) == IF new # 0 THEN new ELSE old

\* The rows of a table are committed together.
CommitTable ==
    /\ stage = "commit"
    /\ target' = [target EXCEPT ![MeshTables[at]] = [i \in Ids |-> Upserted(@[i], rows[i])]]
    /\ stage' = "copy" /\ at' = at + 1
    /\ UNCHANGED <<clear, rows, deleted, failures, world>>

Finish ==
    /\ stage = "copy" /\ at > Len(MeshTables)
    /\ stage' = "finished"
    /\ UNCHANGED <<target, clear, at, rows, deleted, failures, world>>

\* An exception closes both databases; what was not committed is gone.
Stop ==
    /\ stage' = "idle" /\ deleted' = {}
    /\ UNCHANGED <<target, clear, at, rows, world>>

\* A connection has no executemany: AttributeError.
NoSuchMethod == stage = "upsert" /\ ~HasExecutemany /\ Stop /\ UNCHANGED failures

\* Any statement may fail, and the script be interrupted anywhere.
Interrupted ==
    /\ stage \in {"clear", "copy", "upsert", "commit"} /\ failures < MaxFailures
    /\ failures' = failures + 1
    /\ Stop

MigrationWork == Delete \/ CommitDelete \/ Select \/ Executemany \/ NoSuchMethod \/ CommitTable \/ Finish

MigrationNext ==
    \/ MigrationWork \/ Interrupted
    \/ \E c \in BOOLEAN : Begin(c)
    \/ \E s \in {"sqlite", "postgresql"} : Move(s)
    \/ \E t \in Tables, i \in Ids : Write(t, i) \/ WriteThere(t, i)

MigrationSpec == MigrationInit /\ [][MigrationNext]_migrationVars

\* The script runs on; somebody starts it again after a failure.
MigrationFairSpec ==
    /\ MigrationSpec
    /\ WF_migrationVars(MigrationWork)
    /\ WF_migrationVars(stage = "idle" /\ \E c \in BOOLEAN : Begin(c))

----------------------------------------------------------------------------
(* Properties                                                              *)

\* Types, and no DELETE outlives the run that made it.
MigrationTypeOK ==
    /\ source \in [Tables -> [Ids -> 0..MaxVersion]]
    /\ target \in [Tables -> [Ids -> 0..MaxVersion]]
    /\ rows \in [Ids -> 0..MaxVersion]
    /\ stage \in {"idle", "clear", "copy", "upsert", "commit", "finished"}
    /\ at \in 1..Len(MeshTables) + 1
    /\ deleted \subseteq Tables /\ (deleted # {} => stage = "clear")
    /\ clear \in BOOLEAN /\ quiet \in BOOLEAN
    /\ store \in {"sqlite", "postgresql"} /\ own \subseteq Tables \X Ids
    /\ writes \in 0..MaxWrites /\ failures \in 0..MaxFailures

\* Whatever earlier runs left behind, a run that finishes while the mesh is
\* quiet has every row of the file in the target as it is in the file.
FinishedIsCopy ==
    stage = "finished" /\ quiet =>
        \A t \in Tables, i \in Ids : source[t][i] # 0 => target[t][i] = source[t][i]

\* Without --clear-target, through interruptions, repeated runs, a mesh that
\* writes meanwhile and its move to PostgreSQL and back, no row of the target
\* vanishes, and the only rows that become older are those the mesh wrote in
\* PostgreSQL itself: the upsert asks for no age, and a run after the move
\* overwrites them with what the file holds.
NeverOlder ==
    [][\A t \in Tables, i \in Ids :
          target'[t][i] < target[t][i] /\ ~clear => <<t, i>> \in own /\ target'[t][i] # 0]_migrationVars

\* docs/architecture.md: "Migrate existing data with
\* scripts/migrate_sqlite_to_postgres.py."
MigrationFinishes == <>(stage = "finished")
=============================================================================

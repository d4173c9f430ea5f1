----------------------------- MODULE MCDatabase -----------------------------
(***************************************************************************)
(* What stands between the mesh and its data, one part at a time: the      *)
(* calls on the pool of PostgreSQL and those on the one connection of      *)
(* SQLite, the migration from the one to the other (with a driver whose    *)
(* connections have executemany, and with psycopg 3 as it is), the tables  *)
(* at a start on either, and the placeholders of a statement.  A part that *)
(* is not looked at stays where it began.                                  *)
(***************************************************************************)
EXTENDS StoreBackend, Migration, SchemaSetup, Placeholders

VARIABLES
    part,
    lPc, lJob, lCalls, lOwner, lPlace, lPending, lLast, lDb, lReturned, lRaised, lCrashes

liteVars ==
    <<lPc, lJob, lCalls, lOwner, lPlace, lPending, lLast, lDb, lReturned, lRaised, lCrashes>>

Lite == INSTANCE StoreBackend WITH
    Pooled <- FALSE, PoolSize <- 1,
    pc <- lPc, job <- lJob, calls <- lCalls, owner <- lOwner, place <- lPlace,
    pending <- lPending, last <- lLast, db <- lDb, returned <- lReturned,
    raised <- lRaised, crashes <- lCrashes

Psycopg == INSTANCE Migration WITH HasExecutemany <- FALSE

MCInit ==
    /\ part \in {"pool", "lite", "migration", "psycopg", "setup", "walk"}
    /\ IF part \in {"migration", "psycopg"} THEN TRUE
       ELSE source = [t \in Tables |-> NoRows] /\ target = [t \in Tables |-> NoRows]
    /\ IF part = "setup" THEN TRUE ELSE scripted = TRUE /\ tables = {}
    /\ IF part = "walk" THEN TRUE ELSE sql = << >>
    /\ Init /\ Lite!Init /\ MigrationInit /\ SetupInit /\ WalkInit

PoolStep ==
    /\ part = "pool" /\ Next
    /\ UNCHANGED <<part, liteVars, migrationVars, setupVars, walkVars>>

LiteStep ==
    /\ part = "lite" /\ Lite!Next
    /\ UNCHANGED <<part, vars, migrationVars, setupVars, walkVars>>

MigrationStep ==
    /\ \/ part = "migration" /\ MigrationNext
       \/ part = "psycopg" /\ Psycopg!MigrationNext
    /\ UNCHANGED <<part, vars, liteVars, setupVars, walkVars>>

SetupStep ==
    /\ part = "setup" /\ SetupNext
    /\ UNCHANGED <<part, vars, liteVars, migrationVars, walkVars>>

WalkStep ==
    /\ part = "walk" /\ WalkNext
    /\ UNCHANGED <<part, vars, liteVars, migrationVars, setupVars>>

MCNext == PoolStep \/ LiteStep \/ MigrationStep \/ SetupStep \/ WalkStep

\* A start runs on, and the restart policy of the container starts a process
\* again that is down.
MCSpec ==
    /\ MCInit
    /\ [][MCNext]_<<part, vars, liteVars, migrationVars, setupVars, walkVars>>
    /\ \A p \in Procs : WF_setupVars(part = "setup" /\ StartStep(p))

\* AtomicSpec of the one connection: a call of SQLite is one statement too,
\* and a statement whose call raised may come in with a later one.
LiteIsAtomic == Lite!AtomicSpec

\* EveryoneComesUp, where starts are looked at: once the faults are over, every
\* process comes up and stays up.
StartsComeUp == part = "setup" => EveryoneComesUp
=============================================================================

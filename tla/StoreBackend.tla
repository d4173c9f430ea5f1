---------------------------- MODULE StoreBackend ----------------------------
(***************************************************************************)
(* The calls of one process on its database: MeshStore._execute and        *)
(* _fetchone/_fetchall run a statement, the rows and the commit under one  *)
(* lock; the backend remembers the connection between the three, which is  *)
(* the only one (SQLite) or one of a pool (PostgreSQL).  Callers stand for *)
(* threads.  The mesh calls its store from the thread of its event loop    *)
(* alone, so that calls follow each other; the lock is written for more,   *)
(* and so is the model.  What is hard with one caller is the calls that    *)
(* fail halfway.  Statements are kept by the call they belong to; what     *)
(* they say is the business of the other modules.                          *)
(***************************************************************************)
EXTENDS Integers, FiniteSets

CONSTANTS
    Callers,
    Pooled,     \* PostgresBackend instead of SQLiteBackend
    PoolSize,   \* max_size of the pool (8)
    Faults,     \* the operations that may fail: "execute", "fetch", "commit"
    MaxCalls,   \* bound on the calls
    MaxCrashes  \* bound on the crashes of the process

ASSUME BackendAssumption ==
    /\ Pooled \in BOOLEAN /\ PoolSize \in Nat \ {0}
    /\ MaxCalls \in Nat /\ MaxCrashes \in Nat

Conns == 1..(IF Pooled THEN PoolSize ELSE 1)
NoConn == 0
NoOne == "nobody"
ASSUME NoOneAssumption == NoOne \notin Callers

Phases == {"execute", "fetch", "commit"}
Jobs == {"write", "read"} \X (1..MaxCalls)
NoJob == <<"none", 0>>
Effect(j) == IF j[1] = "write" THEN {j} ELSE {}

VARIABLES
    pc,         \* where each caller is: "idle", "wait" for the lock, or a phase
    job,        \* its call
    calls,      \* number of calls so far
    owner,      \* of the lock of the store
    place,      \* of each connection: "pool", "taken" or "lost" to the pool
    pending,    \* of each connection: what its transaction did so far
    last,       \* _last_conn
    db,         \* what is committed
    returned,   \* the calls that returned
    raised,     \* the calls that raised, by the phase that did
    crashes

vars == <<pc, job, calls, owner, place, pending, last, db, returned, raised, crashes>>
conns == <<place, pending, last>>
ended == <<returned, raised>>

\* __init__: the pool is full, or the one connection is open.
Fresh ==
    [place |-> [k \in Conns |-> IF Pooled THEN "pool" ELSE "taken"],
     pending |-> [k \in Conns |-> {}],
     last |-> IF Pooled THEN NoConn ELSE 1]

Init ==
    /\ pc = [c \in Callers |-> "idle"] /\ job = [c \in Callers |-> NoJob]
    /\ calls = 0 /\ owner = NoOne
    /\ place = Fresh.place /\ pending = Fresh.pending /\ last = Fresh.last
    /\ db = {} /\ returned = {} /\ raised = [p \in Phases |-> {}]
    /\ crashes = 0

\* A caller enters _execute ("write") or _fetchone or _fetchall ("read").
Call(c, kind) ==
    /\ pc[c] = "idle" /\ calls < MaxCalls
    /\ calls' = calls + 1
    /\ job' = [job EXCEPT ![c] = <<kind, calls + 1>>]
    /\ pc' = [pc EXCEPT ![c] = "wait"]
    /\ UNCHANGED <<owner, conns, db, ended, crashes>>

Acquire(c) ==
    /\ pc[c] = "wait" /\ owner = NoOne
    /\ owner' = c
    /\ pc' = [pc EXCEPT ![c] = "execute"]
    /\ UNCHANGED <<job, calls, conns, db, ended, crashes>>

At(c, phase) == pc[c] = phase /\ UNCHANGED <<calls, crashes>>

\* A phase succeeds, or the call leaves with the lock released.
Continue(c, phase) ==
    pc' = [pc EXCEPT ![c] = phase] /\ UNCHANGED <<job, owner, ended>>
Leave(c) ==
    /\ pc' = [pc EXCEPT ![c] = "idle"] /\ job' = [job EXCEPT ![c] = NoJob]
    /\ owner' = NoOne
Return(c) ==
    Leave(c) /\ returned' = returned \union {job[c]} /\ UNCHANGED raised

Raise(c, phase) ==
    Leave(c) /\ raised' = [raised EXCEPT ![phase] = @ \union {job[c]}] /\ UNCHANGED returned

\* After the statement come the rows, if it has any, and the commit.
AfterExecute(c) == Continue(c, IF job[c][1] = "read" THEN "fetch" ELSE "commit")

(***************************************************************************)
(* PostgresBackend.execute takes a connection and remembers it.  A         *)
(* connection still remembered from a call that never came to its commit   *)
(* is forgotten: the server rolls its transaction back, and the pool       *)
(* counts it as taken for ever.                                            *)
(***************************************************************************)
TakeConn(c, k) ==
    /\ Pooled /\ At(c, "execute") /\ place[k] = "pool"
    /\ place' = [x \in Conns |->
                    IF x = k THEN "taken" ELSE IF x = last THEN "lost" ELSE place[x]]
    /\ pending' = [x \in Conns |->
                    IF x = k THEN Effect(job[c]) ELSE IF x = last THEN {} ELSE pending[x]]
    /\ last' = k
    /\ AfterExecute(c)
    /\ UNCHANGED db

\* Variant: no putconn when the statement raises.
ExecuteKeeps(c) ==
    /\ "execute" \in Faults
    /\ At(c, "execute")
    /\ \E k \in Conns : place[k] = "pool" /\ place' = [place EXCEPT ![k] = "lost"]
    /\ Raise(c, "execute")
    /\ UNCHANGED <<pending, last, db>>

\* The statement raises.  A connection just taken goes back to the pool, the
\* only one stays with what it held.
ExecuteFails(c) ==
    /\ "execute" \in Faults
    /\ At(c, "execute") /\ (Pooled => \E k \in Conns : place[k] = "pool")
    /\ Raise(c, "execute")
    /\ UNCHANGED <<conns, db>>

\* getconn gives up: there is no connection in the pool, nobody will bring one.
Exhausted(c) ==
    /\ Pooled /\ At(c, "execute") /\ \A k \in Conns : place[k] # "pool"
    /\ Raise(c, "execute")
    /\ UNCHANGED <<conns, db>>

\* SQLiteBackend.execute: one more statement of the open transaction.
RunOnOnly(c) ==
    /\ ~Pooled /\ At(c, "execute")
    /\ pending' = [pending EXCEPT ![1] = @ \union Effect(job[c])]
    /\ AfterExecute(c)
    /\ UNCHANGED <<place, last, db>>

Fetch(c) ==
    /\ At(c, "fetch")
    /\ Continue(c, "commit")
    /\ UNCHANGED <<conns, db>>

\* The rows cannot be read: nobody commits, nobody brings the connection back.
FetchFails(c) ==
    /\ "fetch" \in Faults
    /\ At(c, "fetch")
    /\ Raise(c, "fetch")
    /\ UNCHANGED <<conns, db>>

\* The finally of PostgresBackend.commit.
PutConn ==
    IF Pooled /\ last # NoConn
    THEN /\ place' = [place EXCEPT ![last] = "pool"]
         /\ pending' = [pending EXCEPT ![last] = {}]
         /\ last' = NoConn
    ELSE pending' = (IF Pooled THEN pending ELSE Fresh.pending) /\ UNCHANGED <<place, last>>

\* What a commit adds to the database: nothing if no connection is remembered.
Remembered == IF last = NoConn THEN {} ELSE pending[last]

\* Variant: the connection goes back to the pool, which rolls it back, first.
PutConnFirst(c) ==
    /\ At(c, "commit")
    /\ PutConn
    /\ Return(c)
    /\ UNCHANGED db

Commit(c) ==
    /\ At(c, "commit")
    /\ db' = db \union Remembered
    /\ PutConn
    /\ Return(c)

\* Variant: the error of the commit is swallowed.
CommitSwallowed(c) ==
    /\ "commit" \in Faults
    /\ At(c, "commit")
    /\ IF Pooled THEN PutConn /\ db' \in {db, db \union Remembered}
                 ELSE (PutConn \/ UNCHANGED conns) /\ UNCHANGED db
    /\ Return(c)

\* A commit that raises: on a pooled connection the answer may be what is
\* lost; on the only one the transaction is rolled back or stays open.
CommitFails(c) ==
    /\ "commit" \in Faults
    /\ At(c, "commit")
    /\ IF Pooled THEN PutConn /\ db' \in {db, db \union Remembered}
                 ELSE (PutConn \/ UNCHANGED conns) /\ UNCHANGED db
    /\ Raise(c, "commit")

\* The process dies, in the middle of a commit perhaps, and starts again.
Crash ==
    /\ crashes < MaxCrashes
    /\ crashes' = crashes + 1
    /\ \/ UNCHANGED db
       \/ (\E c \in Callers : pc[c] = "commit") /\ db' = db \union Remembered
    /\ pc' = [c \in Callers |-> "idle"] /\ job' = [c \in Callers |-> NoJob]
    /\ owner' = NoOne
    /\ place' = Fresh.place /\ pending' = Fresh.pending /\ last' = Fresh.last
    /\ UNCHANGED <<calls, ended>>

Work(c) ==
    \/ \E k \in Conns : TakeConn(c, k)
    \/ ExecuteFails(c) \/ Exhausted(c) \/ RunOnOnly(c)
    \/ Fetch(c) \/ FetchFails(c) \/ Commit(c) \/ CommitFails(c)

Next ==
    \/ \E c \in Callers : Work(c) \/ Acquire(c) \/ \E kind \in {"write", "read"} : Call(c, kind)
    \/ Crash

Spec == Init /\ [][Next]_vars

----------------------------------------------------------------------------
(* Properties                                                              *)

Held == {"execute", "fetch", "commit"}

TypeOK ==
    /\ pc \in [Callers -> {"idle", "wait"} \union Held]
    /\ job \in [Callers -> Jobs \union {NoJob}]
    /\ calls \in 0..MaxCalls /\ crashes \in 0..MaxCrashes
    /\ owner \in Callers \union {NoOne}
    /\ last \in Conns \union {NoConn}
    /\ place \in [Conns -> {"pool", "taken", "lost"}]
    /\ pending \in [Conns -> SUBSET Jobs]
    /\ db \subseteq Jobs /\ returned \subseteq Jobs
    /\ raised \in [Phases -> SUBSET Jobs]

\* Who is past the lock owns it.
InsideOwns ==
    \A c \in Callers :
        /\ pc[c] \in Held <=> owner = c
        /\ pc[c] = "idle" <=> job[c] = NoJob
        /\ pc[c] = "fetch" => job[c][1] = "read"

\* A connection is out exactly while it is remembered, and what it holds
\* when a call commits is the statement of that call.
LastIsOut ==
    /\ \A k \in Conns : (place[k] = "taken" <=> k = last) /\ (pending[k] # {} => k = last)
    /\ \A c \in Callers : pc[c] \in {"fetch", "commit"} =>
        /\ last # NoConn
        /\ Effect(job[c]) \subseteq pending[last]
        /\ Pooled => pending[last] = Effect(job[c])

\* Types, and the two facts the rest stands on.
BackendInv == TypeOK /\ InsideOwns /\ LastIsOut

\* A call that returned is in the database for good: no other call took its
\* connection from it, no crash takes it back.
ReturnedIsDurable == \A j \in returned : Effect(j) \subseteq db

Ended == returned \union UNION {raised[p] : p \in Phases}

\* What reaches the database is the statement of the call that commits.  Only
\* a statement whose own commit raised may still come later, and only on the
\* one connection of SQLite, which kept it.
OnlyOwnCommits ==
    [][\A j \in db' \ db :
        \/ \E c \in Callers : pc[c] = "commit" /\ pc'[c] # "commit" /\ job[c] = j
        \/ ~Pooled /\ j \in raised["commit"]]_vars

\* The pool loses a connection to a read whose rows could not be fetched, and
\* to nothing else: with fewer such errors than connections, there is one for
\* the next call.
PoolSuffices ==
    owner = NoOne /\ Cardinality(raised["fetch"]) < PoolSize
        => ~Pooled \/ \E k \in Conns : place[k] = "pool"

----------------------------------------------------------------------------
(* Refinement: a call is one atomic statement, or on the one connection of *)
(* SQLite, which may keep what it could not commit, a statement and such   *)
(* remains.                                                                *)

Promise == INSTANCE AtomicStore WITH
    Late <- ~Pooled,
    active <- {job[c] : c \in Callers} \ {NoJob},
    raised <- UNION {raised[p] : p \in Phases}

\* The store is what the other models take it for; with SQLite, a statement
\* whose call raised may come in late.
AtomicSpec == Promise!Spec
=============================================================================

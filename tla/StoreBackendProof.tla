------------------------- MODULE StoreBackendProof -------------------------
(***************************************************************************)
(* Proofs about StoreBackend, for any callers, any pool, any faults: the   *)
(* lock and the remembered connection belong together (BackendInv), no     *)
(* call that returned is undone or committed by another, and the store     *)
(* implements AtomicStore.                                                 *)
(***************************************************************************)
EXTENDS StoreBackend, FiniteSetTheorems, TLAPS

\* A call is one of those counted, is not ended, and is made by one caller.
Numbered ==
    /\ \A c \in Callers : job[c] # NoJob => job[c][2] <= calls /\ job[c] \notin Ended
    /\ \A c, d \in Callers : job[c] = job[d] /\ job[c] # NoJob => c = d
    /\ \A j \in Ended : j[2] <= calls

\* On the one connection, what is not committed is the statement of the call
\* about to commit, or of calls whose commit raised.
Leftover ==
    ~Pooled =>
        /\ last = 1
        /\ \A j \in pending[1] :
            \/ j \in raised["commit"]
            \/ \E c \in Callers : pc[c] \in {"fetch", "commit"} /\ job[c] = j

\* A transaction holds writes.
WritesOnly == \A k \in Conns : \A j \in pending[k] : j[1] = "write"

Inv == BackendInv /\ Numbered /\ Leftover /\ WritesOnly

LEMMA ConnFacts ==
    /\ Conns \subseteq Nat /\ NoConn \notin Conns
    /\ ~Pooled => Conns = {1}
    /\ 1 \in Conns
BY BackendAssumption DEF Conns, NoConn

LEMMA JobFacts ==
    /\ NoJob \notin Jobs
    /\ \A j \in Jobs : Effect(j) \subseteq Jobs /\ Effect(j) \subseteq {j}
    /\ \A j \in Jobs : \A i \in Effect(j) : i[1] = "write"
BY DEF NoJob, Jobs, Effect

THEOREM InitBackend == Init => BackendInv
BY BackendAssumption, NoOneAssumption, ConnFacts
   DEF Init, BackendInv, TypeOK, InsideOwns, LastIsOut, Fresh, NoJob, NoConn, NoOne, Held, Phases

LEMMA CallKeeps ==
    ASSUME BackendInv, NEW c \in Callers, NEW kind \in {"write", "read"}, Call(c, kind)
    PROVE  BackendInv'
<1>1. <<kind, calls + 1>> \in Jobs /\ <<kind, calls + 1>> # NoJob
    BY BackendAssumption DEF BackendInv, TypeOK, Call, Jobs, NoJob
<1>2. TypeOK'
    BY <1>1, BackendAssumption DEF BackendInv, TypeOK, Call, conns, ended
<1>3. InsideOwns'
    BY <1>1, NoOneAssumption DEF BackendInv, TypeOK, InsideOwns, Call, Held
<1>4. LastIsOut'
    BY DEF BackendInv, TypeOK, LastIsOut, Call, conns, Held
<1> QED
    BY <1>2, <1>3, <1>4 DEF BackendInv

LEMMA AcquireKeeps ==
    ASSUME BackendInv, NEW c \in Callers, Acquire(c)
    PROVE  BackendInv'
<1>2. TypeOK'
    BY DEF BackendInv, TypeOK, Acquire, conns, ended, Held
<1>3. InsideOwns'
    BY NoOneAssumption DEF BackendInv, TypeOK, InsideOwns, Acquire, Held
<1>4. LastIsOut'
    BY DEF BackendInv, TypeOK, LastIsOut, Acquire, conns
<1> QED
    BY <1>2, <1>3, <1>4 DEF BackendInv

\* A call that leaves is out of the lock, whatever it did to the connections.
LEMMA LeaveKeeps ==
    ASSUME BackendInv, NEW c \in Callers, pc[c] \in Held, Leave(c)
    PROVE  /\ InsideOwns'
           /\ pc' \in [Callers -> {"idle", "wait"} \union Held]
           /\ job' \in [Callers -> Jobs \union {NoJob}]
           /\ owner' \in Callers \union {NoOne}
           /\ \A d \in Callers : pc'[d] \notin Held
           /\ job[c] \in Jobs
<1>1. job[c] \in Jobs /\ job[c] # NoJob
    BY JobFacts DEF BackendInv, TypeOK, InsideOwns, Held
<1>2. pc' \in [Callers -> {"idle", "wait"} \union Held] /\ job' \in [Callers -> Jobs \union {NoJob}]
    BY DEF Leave, BackendInv, TypeOK
<1>3. \A d \in Callers : pc'[d] \notin Held
    BY DEF Leave, BackendInv, TypeOK, InsideOwns, Held
<1>4. InsideOwns'
    BY <1>1, <1>3, NoOneAssumption DEF Leave, BackendInv, TypeOK, InsideOwns, Held
<1> QED
    BY <1>1, <1>2, <1>3, <1>4 DEF Leave

\* PutConn leaves the backend as it was connected, but for what is lost.
LEMMA PutConnKeeps ==
    ASSUME BackendInv, PutConn
    PROVE  /\ last' \in Conns \union {NoConn}
           /\ place' \in [Conns -> {"pool", "taken", "lost"}]
           /\ pending' \in [Conns -> SUBSET Jobs]
           /\ \A k \in Conns : (place'[k] = "taken" <=> k = last') /\ (pending'[k] # {} => k = last')
<1>1. CASE Pooled /\ last # NoConn
    BY <1>1, ConnFacts DEF PutConn, BackendInv, TypeOK, LastIsOut
<1>2. CASE ~(Pooled /\ last # NoConn)
    BY <1>2, ConnFacts DEF PutConn, BackendInv, TypeOK, LastIsOut, Fresh
<1> QED
    BY <1>1, <1>2

\* A call that raises keeps the invariant if the connections do.
LEMMA RaiseKeeps ==
    ASSUME BackendInv, NEW c \in Callers, NEW phase \in Phases, pc[c] \in Held, Raise(c, phase),
           UNCHANGED <<calls, crashes>>, db' \subseteq Jobs,
           last' \in Conns \union {NoConn},
           place' \in [Conns -> {"pool", "taken", "lost"}],
           pending' \in [Conns -> SUBSET Jobs],
           \A k \in Conns : (place'[k] = "taken" <=> k = last') /\ (pending'[k] # {} => k = last')
    PROVE  BackendInv'
<1>1. Leave(c) /\ returned' = returned
    BY DEF Raise
<1>2. raised' \in [Phases -> SUBSET Jobs]
    BY <1>1, LeaveKeeps DEF Raise, BackendInv, TypeOK
<1>3. TypeOK'
    BY <1>1, <1>2, LeaveKeeps DEF BackendInv, TypeOK
<1>4. LastIsOut'
    BY <1>1, LeaveKeeps DEF LastIsOut, Held
<1> QED
    BY <1>1, <1>3, <1>4, LeaveKeeps DEF BackendInv

LEMMA TakeConnKeeps ==
    ASSUME BackendInv, NEW c \in Callers, NEW k \in Conns, TakeConn(c, k)
    PROVE  BackendInv'
<1> USE DEF TakeConn, At, AfterExecute, Continue
<1>1. job[c] \in Jobs /\ owner = c
    BY DEF BackendInv, TypeOK, InsideOwns, Held
<1>2. Effect(job[c]) \subseteq Jobs
    BY <1>1, JobFacts
<1>3. TypeOK'
    <2>1. pc' \in [Callers -> {"idle", "wait"} \union Held]
        BY DEF BackendInv, TypeOK, Held
    <2>2. place' \in [Conns -> {"pool", "taken", "lost"}] /\ pending' \in [Conns -> SUBSET Jobs]
        BY <1>2 DEF BackendInv, TypeOK
    <2> QED
        BY <2>1, <2>2 DEF BackendInv, TypeOK, ended
<1>4. InsideOwns'
    BY DEF BackendInv, TypeOK, InsideOwns, Held
<1>5. LastIsOut'
    <2>1. \A d \in Callers : pc'[d] \in {"fetch", "commit"} => d = c
        BY <1>1 DEF BackendInv, TypeOK, InsideOwns, Held
    <2>2. \A x \in Conns : (place'[x] = "taken" <=> x = last') /\ (pending'[x] # {} => x = last')
        BY DEF BackendInv, TypeOK, LastIsOut
    <2>3. last' # NoConn /\ pending'[last'] = Effect(job'[c])
        BY ConnFacts
    <2> QED
        BY <2>1, <2>2, <2>3 DEF LastIsOut
<1> QED
    BY <1>3, <1>4, <1>5 DEF BackendInv

LEMMA RunOnOnlyKeeps ==
    ASSUME BackendInv, NEW c \in Callers, RunOnOnly(c), last = 1
    PROVE  BackendInv'
<1> USE DEF RunOnOnly, At, AfterExecute, Continue
<1>1. job[c] \in Jobs /\ owner = c
    BY DEF BackendInv, TypeOK, InsideOwns, Held
<1>2. Effect(job[c]) \subseteq Jobs
    BY <1>1, JobFacts
<1>3. TypeOK'
    BY <1>2, ConnFacts DEF BackendInv, TypeOK, ended, Held
<1>4. InsideOwns'
    BY DEF BackendInv, TypeOK, InsideOwns, Held
<1>5. LastIsOut'
    <2>1. \A d \in Callers : pc'[d] \in {"fetch", "commit"} => d = c
        BY <1>1 DEF BackendInv, TypeOK, InsideOwns, Held
    <2>2. Effect(job[c]) \subseteq pending'[1]
        BY ConnFacts DEF BackendInv, TypeOK
    <2> QED
        BY <2>1, <2>2, ConnFacts DEF BackendInv, TypeOK, LastIsOut
<1> QED
    BY <1>3, <1>4, <1>5 DEF BackendInv

LEMMA FetchKeeps ==
    ASSUME BackendInv, NEW c \in Callers, Fetch(c)
    PROVE  BackendInv'
<1> USE DEF Fetch, At, Continue
<1>1. TypeOK'
    BY DEF BackendInv, TypeOK, conns, ended, Held
<1>2. InsideOwns'
    BY DEF BackendInv, TypeOK, InsideOwns, Held
<1>3. LastIsOut'
    BY DEF BackendInv, TypeOK, LastIsOut, conns
<1> QED
    BY <1>1, <1>2, <1>3 DEF BackendInv

LEMMA FailureKeeps ==
    ASSUME BackendInv, NEW c \in Callers, ExecuteFails(c) \/ Exhausted(c) \/ FetchFails(c)
    PROVE  BackendInv'
<1>1. PICK phase \in Phases : Raise(c, phase)
    BY DEF ExecuteFails, Exhausted, FetchFails, Phases
<1>2. UNCHANGED <<place, pending, last, db, calls, crashes>> /\ pc[c] \in Held
    BY DEF ExecuteFails, Exhausted, FetchFails, At, Held, conns
<1> QED
    BY <1>1, <1>2, RaiseKeeps DEF BackendInv, TypeOK, LastIsOut

LEMMA CommitKeeps ==
    ASSUME BackendInv, NEW c \in Callers, Commit(c)
    PROVE  BackendInv'
<1>1. Leave(c) /\ PutConn /\ pc[c] \in Held
    BY DEF Commit, Return, At, Held
<1>2. Remembered \subseteq Jobs
    BY DEF Remembered, BackendInv, TypeOK
<1>3. TypeOK'
    BY <1>1, <1>2, LeaveKeeps, PutConnKeeps DEF Commit, Return, At, BackendInv, TypeOK
<1>4. LastIsOut'
    BY <1>1, LeaveKeeps, PutConnKeeps DEF LastIsOut, Held
<1> QED
    BY <1>1, <1>3, <1>4, LeaveKeeps DEF BackendInv

LEMMA CommitFailsKeeps ==
    ASSUME BackendInv, NEW c \in Callers, CommitFails(c)
    PROVE  BackendInv'
<1>1. Raise(c, "commit") /\ "commit" \in Phases /\ pc[c] \in Held /\ UNCHANGED <<calls, crashes>>
    BY DEF CommitFails, At, Held, Phases
<1>2. Remembered \subseteq Jobs /\ db' \subseteq Jobs
    BY DEF Remembered, BackendInv, TypeOK, CommitFails
<1>3. CASE PutConn
    BY <1>1, <1>2, <1>3, PutConnKeeps, RaiseKeeps
<1>4. CASE UNCHANGED conns
    BY <1>1, <1>2, <1>4, RaiseKeeps DEF conns, BackendInv, TypeOK, LastIsOut
<1> QED
    BY <1>3, <1>4 DEF CommitFails

LEMMA CrashKeeps ==
    ASSUME BackendInv, Crash
    PROVE  BackendInv'
<1>1. Remembered \subseteq Jobs
    BY DEF Remembered, BackendInv, TypeOK
<1>2. TypeOK'
    BY <1>1, BackendAssumption, ConnFacts DEF Crash, BackendInv, TypeOK, Fresh, ended
<1>3. InsideOwns'
    BY NoOneAssumption DEF Crash, InsideOwns, Held
<1>4. LastIsOut'
    BY ConnFacts DEF Crash, LastIsOut, Fresh
<1> QED
    BY <1>2, <1>3, <1>4 DEF BackendInv

LEMMA NextKeepsBackend == Inv /\ [Next]_vars => BackendInv'
<1> SUFFICES ASSUME Inv, [Next]_vars PROVE BackendInv'
    OBVIOUS
<1>0. BackendInv
    BY DEF Inv
<1>1. CASE UNCHANGED vars
    BY <1>0, <1>1 DEF vars, BackendInv, TypeOK, InsideOwns, LastIsOut
<1>2. CASE Crash
    BY <1>0, <1>2, CrashKeeps
<1>3. ASSUME NEW c \in Callers, Work(c) \/ Acquire(c) \/ \E kind \in {"write", "read"} : Call(c, kind)
      PROVE  BackendInv'
    <2>1. CASE Acquire(c)
        BY <1>0, <2>1, AcquireKeeps
    <2>2. CASE \E kind \in {"write", "read"} : Call(c, kind)
        BY <1>0, <2>2, CallKeeps
    <2>3. CASE \E k \in Conns : TakeConn(c, k)
        BY <1>0, <2>3, TakeConnKeeps
    <2>4. CASE RunOnOnly(c)
        <3>1. last = 1
            BY <2>4 DEF Inv, Leftover, RunOnOnly
        <3> QED
            BY <1>0, <2>4, <3>1, RunOnOnlyKeeps
    <2>5. CASE Fetch(c)
        BY <1>0, <2>5, FetchKeeps
    <2>6. CASE ExecuteFails(c) \/ Exhausted(c) \/ FetchFails(c)
        BY <1>0, <2>6, FailureKeeps
    <2>7. CASE Commit(c)
        BY <1>0, <2>7, CommitKeeps
    <2>8. CASE CommitFails(c)
        BY <1>0, <2>8, CommitFailsKeeps
    <2> QED
        BY <1>3, <2>1, <2>2, <2>3, <2>4, <2>5, <2>6, <2>7, <2>8 DEF Work
<1> QED
    BY <1>1, <1>2, <1>3 DEF Next

----------------------------------------------------------------------------
(* The calls and what they leave.                                          *)

\* Every step calls, goes on, returns, raises or crashes, and changes the
\* books accordingly.
Goes(c) == /\ job' = job /\ calls' = calls /\ ended' = ended
           /\ pc[c] # "commit" /\ \A d \in Callers : d # c => pc'[d] = pc[d]

RaiseStep(c, phase) ==
    /\ Raise(c, phase) /\ pc[c] = phase /\ calls' = calls
    /\ db' \in IF phase = "commit" /\ Pooled THEN {db, db \union Remembered} ELSE {db}

LEMMA StepKinds ==
    ASSUME Inv, Next
    PROVE  \/ Crash
           \/ \E c \in Callers :
                \/ \E kind \in {"write", "read"} : Call(c, kind)
                \/ Goes(c) /\ UNCHANGED db
                \/ Commit(c)
                \/ \E phase \in Phases : RaiseStep(c, phase)
<1>1. ASSUME NEW c \in Callers, NEW phase, pc'= [pc EXCEPT ![c] = phase]
      PROVE  \A d \in Callers : d # c => pc'[d] = pc[d]
    BY <1>1 DEF Inv, BackendInv, TypeOK
<1>2. ASSUME NEW c \in Callers, Acquire(c) PROVE Goes(c) /\ UNCHANGED db
    BY <1>1, <1>2 DEF Acquire, Goes
<1>3. ASSUME NEW c \in Callers, (\E k \in Conns : TakeConn(c, k)) \/ RunOnOnly(c) \/ Fetch(c)
      PROVE  Goes(c) /\ UNCHANGED db
    BY <1>1, <1>3 DEF TakeConn, RunOnOnly, Fetch, AfterExecute, Continue, At, Goes
<1>4. ASSUME NEW c \in Callers, ExecuteFails(c) \/ Exhausted(c) \/ FetchFails(c) \/ CommitFails(c)
      PROVE  \E phase \in Phases : RaiseStep(c, phase)
    BY <1>4 DEF ExecuteFails, Exhausted, FetchFails, CommitFails, At, Phases, RaiseStep
<1> QED
    BY <1>2, <1>3, <1>4 DEF Next, Work

LEMMA NumberedKept == Inv /\ [Next]_vars => Numbered'
<1> SUFFICES ASSUME Inv, [Next]_vars PROVE Numbered'
    OBVIOUS
<1>0. /\ calls \in Nat /\ job \in [Callers -> Jobs \union {NoJob}]
      /\ raised \in [Phases -> SUBSET Jobs] /\ Numbered /\ returned \subseteq Jobs
    BY BackendAssumption DEF Inv, BackendInv, TypeOK
<1>1. CASE UNCHANGED vars
    BY <1>0, <1>1 DEF vars, Numbered, Ended
<1>2. CASE Crash
    BY <1>0, <1>2 DEF Crash, Numbered, Ended, ended
<1>3. ASSUME NEW c \in Callers, NEW kind \in {"write", "read"}, Call(c, kind)
      PROVE  Numbered'
    <2> DEFINE new == <<kind, calls + 1>>
    <2>1. new[2] = calls + 1 /\ \A j \in Ended : j[2] <= calls
        BY <1>0 DEF Numbered
    <2>2. \A j \in Ended : j \in Jobs /\ j[2] \in Nat
        BY <1>0, BackendAssumption DEF Ended, Jobs
    <2>3. \A d \in Callers : job[d] # NoJob => job[d][2] \in Nat
        BY <1>0, BackendAssumption DEF Jobs
    <2>4. new \notin Ended
        BY <1>0, <2>1, <2>2
    <2>5. Ended' = Ended /\ calls' = calls + 1
        BY <1>3 DEF Call, Ended, ended
    <2>6. job' = [job EXCEPT ![c] = new] /\ job'[c] = new /\ \A d \in Callers : d # c => job'[d] = job[d]
        BY <1>0, <1>3 DEF Call
    <2>7. \A d \in Callers : job[d] # NoJob => job[d] # new
        BY <1>0, <2>1, <2>3 DEF Numbered
    <2>8. \A d \in Callers : job'[d] # NoJob => job'[d][2] <= calls' /\ job'[d] \notin Ended'
        BY <1>0, <2>1, <2>3, <2>4, <2>5, <2>6 DEF Numbered
    <2>9. \A j \in Ended' : j[2] <= calls'
        BY <1>0, <2>1, <2>2, <2>5
    <2>10. \A d, e \in Callers : job'[d] = job'[e] /\ job'[d] # NoJob => d = e
        BY <1>0, <2>6, <2>7 DEF Numbered
    <2> QED
        BY <2>8, <2>9, <2>10 DEF Numbered
<1>4. ASSUME NEW c \in Callers, Goes(c) PROVE Numbered'
    BY <1>0, <1>4 DEF Goes, Numbered, Ended, ended
<1>5. ASSUME NEW c \in Callers, Leave(c), calls' = calls, pc[c] \in Held, Ended' = Ended \union {job[c]}
      PROVE  Numbered'
    <2>1. job[c] # NoJob
        BY <1>5 DEF Inv, BackendInv, InsideOwns, Held
    <2>2. job'[c] = NoJob /\ \A d \in Callers : d # c => job'[d] = job[d]
        BY <1>0, <1>5 DEF Leave
    <2> QED
        BY <1>0, <1>5, <2>1, <2>2 DEF Numbered
<1>6. ASSUME NEW c \in Callers, Commit(c) PROVE Numbered'
    BY <1>5, <1>6 DEF Commit, Return, At, Ended, Held
<1>7. ASSUME NEW c \in Callers, NEW phase \in Phases, RaiseStep(c, phase)
      PROVE  Numbered'
    <2>1. raised'[phase] = raised[phase] \union {job[c]} /\ \A p \in Phases \ {phase} : raised'[p] = raised[p]
        BY <1>0, <1>7 DEF RaiseStep, Raise
    <2>2. Ended' = Ended \union {job[c]}
        BY <1>7, <2>1 DEF RaiseStep, Raise, Ended
    <2> QED
        BY <1>5, <1>7, <2>2 DEF RaiseStep, Raise, Held, Phases
<1> QED
    BY <1>1, <1>2, <1>3, <1>4, <1>6, <1>7, StepKinds

LEMMA LeftoverKept == Inv /\ [Next]_vars => Leftover'
<1> SUFFICES ASSUME Inv, [Next]_vars, ~Pooled PROVE Leftover'
    BY DEF Leftover
<1>0. /\ TypeOK /\ InsideOwns /\ last = 1 /\ Conns = {1}
      /\ pending = [k \in Conns |-> pending[1]]
    BY ConnFacts DEF Inv, Leftover, BackendInv, TypeOK
<1>1. CASE UNCHANGED vars
    BY <1>1 DEF vars, Inv, Leftover
<1>2. CASE Crash
    BY <1>2, ConnFacts DEF Crash, Fresh, Leftover
<1>3. ASSUME NEW c \in Callers, RunOnOnly(c) PROVE Leftover'
    <2>1. pc'[c] \in {"fetch", "commit"} /\ job' = job
        BY <1>0, <1>3 DEF RunOnOnly, AfterExecute, Continue, TypeOK
    <2>2. pending'[1] \subseteq pending[1] \union {job[c]}
        <3>1. job[c] \in Jobs
            BY <1>0, <1>3 DEF RunOnOnly, At, TypeOK, InsideOwns, Held
        <3> QED
            BY <1>0, <1>3, <3>1, JobFacts DEF RunOnOnly
    <2>3. \A d \in Callers : pc[d] \in {"fetch", "commit"} => pc'[d] = pc[d]
        BY <1>0, <1>3 DEF RunOnOnly, At, AfterExecute, Continue, TypeOK
    <2> QED
        BY <1>0, <1>3, <2>1, <2>2, <2>3
           DEF Inv, Leftover, RunOnOnly, AfterExecute, Continue, ended
<1>4. ASSUME NEW c \in Callers, Fetch(c) PROVE Leftover'
    <2>1. \A d \in Callers : pc[d] \in {"fetch", "commit"} => pc'[d] \in {"fetch", "commit"}
        BY <1>0, <1>4 DEF Fetch, At, Continue, TypeOK
    <2> QED
        BY <1>4, <2>1 DEF Inv, Leftover, Fetch, Continue, conns, ended
<1>5. ASSUME NEW c \in Callers, ExecuteFails(c) \/ FetchFails(c)
      PROVE  Leftover'
    <2>1. UNCHANGED <<pending, last>> /\ pc[c] \in {"execute", "fetch"}
        BY <1>5 DEF ExecuteFails, FetchFails, At, conns
    <2>2. PICK phase \in Phases \ {"commit"} : Raise(c, phase)
        BY <1>5 DEF ExecuteFails, FetchFails, Phases
    <2>3. raised'["commit"] = raised["commit"]
        BY <1>0, <2>2 DEF Raise, TypeOK, Phases
    <2>4. \A d \in Callers : d # c => pc'[d] = pc[d] /\ job'[d] = job[d]
        BY <1>0, <2>2 DEF Raise, Leave, TypeOK
    <2>5. pc[c] = "fetch" => job[c] \notin pending[1]
        \* the call that cannot read its rows wrote nothing
        <3>1. ASSUME pc[c] = "fetch", job[c] \in pending[1] PROVE FALSE
            <4>1. job[c][1] = "read"
                BY <1>0, <3>1 DEF InsideOwns
            <4>2. \A j \in pending[1] : j[1] = "write"
                BY <1>0 DEF Inv, WritesOnly
            <4> QED
                BY <3>1, <4>1, <4>2
        <3> QED
            BY <3>1
    <2> QED
        BY <2>1, <2>3, <2>4, <2>5 DEF Inv, Leftover
<1>6. ASSUME NEW c \in Callers, Commit(c) \/ (CommitFails(c) /\ PutConn)
      PROVE  Leftover'
    <2>1. pending' = Fresh.pending /\ last' = last
        BY <1>6 DEF Commit, CommitFails, PutConn
    <2> QED
        BY <1>0, <2>1 DEF Fresh, Leftover
<1>7. ASSUME NEW c \in Callers, CommitFails(c), UNCHANGED conns PROVE Leftover'
    <2>1. raised'["commit"] = raised["commit"] \union {job[c]}
        BY <1>0, <1>7 DEF CommitFails, Raise, TypeOK, Phases
    <2>2. \A d \in Callers : d # c => pc'[d] = pc[d] /\ job'[d] = job[d]
        BY <1>0, <1>7 DEF CommitFails, Raise, Leave, TypeOK
    <2> QED
        BY <1>7, <2>1, <2>2 DEF Inv, Leftover, conns
<1>8. ASSUME NEW c \in Callers, Acquire(c) \/ \E kind \in {"write", "read"} : Call(c, kind)
      PROVE  Leftover'
    <2>1. UNCHANGED <<pending, last, raised>> /\ pc[c] \in {"wait", "idle"}
        BY <1>8 DEF Acquire, Call, conns, ended
    <2>2. \A d \in Callers : d # c => pc'[d] = pc[d] /\ job'[d] = job[d]
        BY <1>0, <1>8 DEF Acquire, Call, TypeOK
    <2> QED
        BY <2>1, <2>2 DEF Inv, Leftover
<1>9. ASSUME NEW c \in Callers, Work(c) PROVE Leftover'
    <2>1. ~(\E k \in Conns : TakeConn(c, k)) /\ ~Exhausted(c)
        BY DEF TakeConn, Exhausted
    <2>2. CommitFails(c) => PutConn \/ UNCHANGED conns
        BY DEF CommitFails
    <2>3. CASE RunOnOnly(c) \/ Fetch(c) \/ Commit(c)
        BY <1>3, <1>4, <1>6, <2>3
    <2>4. CASE ExecuteFails(c) \/ FetchFails(c)
        BY <1>5, <2>4
    <2>5. CASE CommitFails(c)
        BY <1>6, <1>7, <2>2, <2>5
    <2> QED
        BY <1>9, <2>1, <2>3, <2>4, <2>5 DEF Work
<1> QED
    BY <1>1, <1>2, <1>8, <1>9 DEF Next

LEMMA WritesOnlyKept == Inv /\ [Next]_vars => WritesOnly'
<1> SUFFICES ASSUME Inv, [Next]_vars PROVE WritesOnly'
    OBVIOUS
<1>0. TypeOK /\ InsideOwns /\ WritesOnly
    BY DEF Inv, BackendInv
<1>1. CASE UNCHANGED <<pending>>
    BY <1>0, <1>1 DEF WritesOnly
<1>2. CASE pending' = Fresh.pending
    BY <1>2 DEF Fresh, WritesOnly
<1>3. CASE PutConn
    BY <1>0, <1>3, ConnFacts DEF PutConn, Fresh, WritesOnly, TypeOK
<1>4. ASSUME NEW c \in Callers, pc[c] = "execute"
      PROVE  \A i \in Effect(job[c]) : i[1] = "write"
    <2>1. job[c] \in Jobs
        BY <1>0, <1>4 DEF TypeOK, InsideOwns, Held
    <2> QED
        BY <2>1, JobFacts
<1>5. ASSUME NEW c \in Callers, NEW k \in Conns, TakeConn(c, k) PROVE WritesOnly'
    BY <1>0, <1>4, <1>5 DEF TakeConn, At, WritesOnly
<1>6. ASSUME NEW c \in Callers, RunOnOnly(c) PROVE WritesOnly'
    BY <1>0, <1>4, <1>6, ConnFacts DEF RunOnOnly, At, WritesOnly, TypeOK
<1>7. CASE UNCHANGED vars \/ Crash
    BY <1>1, <1>2, <1>7 DEF Crash, vars
<1>8. ASSUME NEW c \in Callers, Work(c) PROVE WritesOnly'
    BY <1>1, <1>3, <1>5, <1>6, <1>8
       DEF Work, ExecuteFails, Exhausted, Fetch, FetchFails, Commit, CommitFails, conns
<1>9. ASSUME NEW c \in Callers, Acquire(c) \/ \E kind \in {"write", "read"} : Call(c, kind)
      PROVE  WritesOnly'
    BY <1>1, <1>9 DEF Acquire, Call, conns
<1> QED
    BY <1>7, <1>8, <1>9 DEF Next

\* The strengthened invariant, for the theorems below.
THEOREM StrongInvariant == Spec => []Inv
<1>1. Init => Inv
    <2>1. Init => Numbered /\ Leftover /\ WritesOnly
        BY ConnFacts DEF Init, Numbered, Leftover, WritesOnly, Fresh, Ended, Phases
    <2> QED
        BY <2>1, InitBackend DEF Inv
<1>2. Inv /\ [Next]_vars => Inv'
    BY NextKeepsBackend, NumberedKept, LeftoverKept, WritesOnlyKept DEF Inv
<1> QED
    BY <1>1, <1>2, PTL DEF Spec

\* In every state of every behaviour the books and the lock agree: who is
\* past the lock owns it, and the connection it will commit holds its own
\* statement (_execute, _fetchone, _fetchall and the two backends).
THEOREM BackendInvariant == Spec => []BackendInv
<1>1. Inv => BackendInv
    BY DEF Inv
<1> QED
    BY <1>1, StrongInvariant, PTL

----------------------------------------------------------------------------
(* What a call may rely on.                                                *)

\* The database only grows, and by what is remembered.
LEMMA DbGrows ==
    ASSUME Inv, [Next]_vars
    PROVE  db \subseteq db' /\ db' \subseteq db \union Remembered
BY StepKinds DEF vars, Crash, Call, Commit, Next, Work, Acquire, TakeConn, ExecuteFails, Exhausted,
    RunOnOnly, Fetch, FetchFails, CommitFails

\* A call that returned wrote what it had to, for good (db.py, _execute).
THEOREM ReturnedStays == Spec => []ReturnedIsDurable
<1>1. Init => ReturnedIsDurable
    BY DEF Init, ReturnedIsDurable
<1>2. Inv /\ ReturnedIsDurable /\ [Next]_vars => ReturnedIsDurable'
    <2> SUFFICES ASSUME Inv, ReturnedIsDurable, [Next]_vars PROVE ReturnedIsDurable'
        OBVIOUS
    <2>1. db \subseteq db'
        BY DbGrows
    <2>2. CASE returned' = returned
        BY <2>1, <2>2 DEF ReturnedIsDurable
    <2>3. ASSUME NEW c \in Callers, Commit(c) PROVE ReturnedIsDurable'
        <3>1. Effect(job[c]) \subseteq Remembered
            BY <2>3 DEF Commit, At, Remembered, Inv, BackendInv, LastIsOut
        <3> QED
            BY <2>1, <2>3, <3>1 DEF Commit, Return, ReturnedIsDurable
    <2> QED
        BY <2>2, <2>3, StepKinds DEF vars, Crash, Call, Goes, RaiseStep, Raise, ended
<1> QED
    BY <1>1, <1>2, StrongInvariant, PTL DEF Spec

\* A commit makes the statement of its own call durable and no other, save
\* those that SQLite kept from commits that raised.
THEOREM CommitsAreOwn == Spec => OnlyOwnCommits
<1>1. ASSUME Inv, [Next]_vars, NEW j \in db', j \notin db
      PROVE  \/ \E c \in Callers : pc[c] = "commit" /\ pc'[c] # "commit" /\ job[c] = j
             \/ ~Pooled /\ j \in raised["commit"]
    <2>0. TypeOK /\ InsideOwns /\ LastIsOut /\ Leftover
        BY <1>1 DEF Inv, BackendInv
    <2>1. j \in Remembered
        BY <1>1, DbGrows
    <2>2. PICK c \in Callers : pc[c] = "commit" /\ pc'[c] # "commit"
        <3>1. CASE Crash
            BY <1>1, <3>1 DEF Crash
        <3>2. ASSUME NEW c \in Callers, Commit(c) \/ (Raise(c, "commit") /\ pc[c] = "commit")
              PROVE  pc[c] = "commit" /\ pc'[c] # "commit"
            BY <2>0, <3>2 DEF Commit, At, Return, Raise, Leave, TypeOK
        <3>3. ASSUME NEW c \in Callers, CommitFails(c) PROVE pc[c] = "commit" /\ Raise(c, "commit")
            BY <3>3 DEF CommitFails, At
        <3>4. ASSUME NEW c \in Callers, Acquire(c) \/ \E kind \in {"write", "read"} : Call(c, kind)
              PROVE  db' = db
            BY <3>4 DEF Acquire, Call
        <3>5. ASSUME NEW c \in Callers, Work(c), ~Commit(c), ~CommitFails(c) PROVE db' = db
            BY <3>5 DEF Work, TakeConn, ExecuteFails, Exhausted, RunOnOnly, Fetch, FetchFails
        <3>6. db' # db /\ Next
            BY <1>1 DEF vars
        <3>7. CASE \E c \in Callers : Commit(c) \/ CommitFails(c)
            BY <3>2, <3>3, <3>7
        <3> QED
            BY <3>1, <3>4, <3>5, <3>6, <3>7 DEF Next
    <2>3. j \in pending[last] /\ last # NoConn
        BY <2>1 DEF Remembered
    <2>4. CASE Pooled
        <3>1. j \in Effect(job[c]) /\ job[c] \in Jobs
            BY <2>0, <2>2, <2>3, <2>4 DEF LastIsOut, TypeOK, InsideOwns
        <3> QED
            BY <2>2, <3>1, JobFacts
    <2>5. CASE ~Pooled
        <3>1. j \in raised["commit"] \/ \E d \in Callers : pc[d] \in {"fetch", "commit"} /\ job[d] = j
            BY <2>0, <2>3, <2>5 DEF Leftover
        <3>2. \A d \in Callers : pc[d] \in {"fetch", "commit"} => d = c
            BY <2>0, <2>2 DEF InsideOwns, Held
        <3> QED
            BY <2>2, <2>5, <3>1, <3>2
    <2> QED
        BY <2>4, <2>5
<1>2. Inv /\ [Next]_vars =>
        [\A j \in db' \ db :
            \/ \E c \in Callers : pc[c] = "commit" /\ pc'[c] # "commit" /\ job[c] = j
            \/ ~Pooled /\ j \in raised["commit"]]_vars
    BY <1>1
<1> QED
    BY <1>2, StrongInvariant, PTL DEF Spec, OnlyOwnCommits

----------------------------------------------------------------------------
(* The store implements AtomicStore.                                       *)

Active == {job[c] : c \in Callers} \ {NoJob}
AllRaised == UNION {raised[p] : p \in Phases}

\* A call that leaves is one of the active ones, and the others stay.
LEMMA LeaveActive ==
    ASSUME Inv, NEW c \in Callers, pc[c] \in Held, Leave(c)
    PROVE  job[c] \in Active /\ job[c] \in Jobs /\ Active' = Active \ {job[c]}
<1>1. job[c] # NoJob /\ job[c] \in Jobs
    BY LeaveKeeps DEF Inv, BackendInv, InsideOwns, Held
<1>2. \A d \in Callers : d # c => job[d] # job[c] /\ job'[d] = job[d]
    BY <1>1 DEF Leave, Inv, BackendInv, TypeOK, Numbered
<1>3. job'[c] = NoJob
    BY DEF Leave, Inv, BackendInv, TypeOK
<1> QED
    BY <1>1, <1>2, <1>3 DEF Active

LEMMA CallStarts ==
    ASSUME Inv, NEW c \in Callers, NEW kind \in {"write", "read"}, Call(c, kind)
    PROVE  \E j \in Jobs : j \notin Active \union Ended /\ Active' = Active \union {j}
<1> DEFINE new == <<kind, calls + 1>>
<1>0. job \in [Callers -> Jobs \union {NoJob}] /\ calls \in Nat /\ job[c] = NoJob
    BY BackendAssumption DEF Inv, BackendInv, TypeOK, InsideOwns, Call
<1>1. new \in Jobs /\ new # NoJob
    BY <1>0, BackendAssumption DEF Call, Jobs, NoJob
<1>2. new \notin Active \union Ended
    <2>1. new[2] = calls + 1
        OBVIOUS
    <2>2. new \notin Ended
        <3>1. ASSUME new \in Ended PROVE FALSE
            <4>1. new[2] <= calls
                BY <3>1 DEF Inv, Numbered
            <4> QED
                BY <1>0, <2>1, <4>1
        <3> QED
            BY <3>1
    <2>3. ASSUME NEW d \in Callers, job[d] = new PROVE FALSE
        <3>1. job[d][2] <= calls
            BY <1>1, <2>3 DEF Inv, Numbered
        <3> QED
            BY <1>0, <2>1, <2>3, <3>1
    <2> QED
        BY <2>2, <2>3 DEF Active
<1>3. job'[c] = new /\ \A d \in Callers : d # c => job'[d] = job[d]
    BY <1>0 DEF Call
<1> QED
    BY <1>0, <1>1, <1>2, <1>3 DEF Active

\* What a commit on a pooled connection adds is the statement of its call.
LEMMA RememberedIsOwn ==
    ASSUME Inv, Pooled, NEW c \in Callers, pc[c] = "commit"
    PROVE  Remembered = Effect(job[c])
BY DEF Remembered, Inv, BackendInv, LastIsOut

\* On the one connection it is that and what calls that raised left behind.
LEMMA RememberedIsOwed ==
    ASSUME Inv, NEW c \in Callers, pc[c] = "commit"
    PROVE  \E late \in SUBSET Promise!Owed : Remembered = Effect(job[c]) \union late
<1>1. CASE Pooled
    <2>1. {} \in SUBSET Promise!Owed /\ Remembered = Effect(job[c]) \union {}
        BY <1>1, RememberedIsOwn
    <2> QED
        BY <2>1
<1>2. CASE ~Pooled
    <2>1. Effect(job[c]) \subseteq Remembered /\ last = 1 /\ Remembered = pending[1]
        BY <1>2, ConnFacts DEF Remembered, Inv, BackendInv, LastIsOut, Leftover
    <2>2. ASSUME NEW j \in Remembered, j \notin Effect(job[c]) PROVE j \in Promise!Owed
        <3>1. j[1] = "write"
            BY <2>1, <2>2, ConnFacts DEF Inv, WritesOnly
        <3>2. j \in Effect(j)
            BY <3>1 DEF Effect
        <3>3. \A d \in Callers : pc[d] \in {"fetch", "commit"} => d = c
            BY DEF Inv, BackendInv, InsideOwns, Held
        <3>4. j \in raised["commit"]
            BY <1>2, <2>1, <2>2, <3>2, <3>3 DEF Inv, Leftover
        <3>5. j \in AllRaised
            BY <3>4 DEF AllRaised, Phases
        <3> QED
            BY <1>2, <3>2, <3>5 DEF Promise!Owed, AllRaised
    <2>3. Remembered \ Effect(job[c]) \in SUBSET Promise!Owed
        BY <2>2
    <2> QED
        BY <2>1, <2>3
<1> QED
    BY <1>1, <1>2

LEMMA StepIsAtomic ==
    ASSUME Inv, [Next]_vars
    PROVE  Promise!Next \/ UNCHANGED <<Active, db, returned, AllRaised>>
<1>1. CASE UNCHANGED vars
    BY <1>1 DEF vars, Active, AllRaised
<1>2. CASE Crash
    <2>1. Active' = {} /\ returned' = returned /\ AllRaised' = AllRaised
        BY <1>2 DEF Crash, Active, AllRaised, ended
    <2>2. \E done \in SUBSET Active, late \in SUBSET Promise!Owed :
              db' = db \union (UNION {Effect(j) : j \in done}) \union late
        <3>1. CASE db' = db
            <4>1. UNION {Effect(j) : j \in {}} = {} /\ {} \in SUBSET Promise!Owed
                OBVIOUS
            <4>2. {} \in SUBSET Active /\ db' = db \union (UNION {Effect(j) : j \in {}}) \union {}
                BY <3>1, <4>1
            <4> QED
                BY <4>1, <4>2
        <3>2. CASE \E c \in Callers : pc[c] = "commit" /\ db' = db \union Remembered
            <4>1. PICK c \in Callers : pc[c] = "commit" /\ db' = db \union Remembered
                BY <3>2
            <4>2. {job[c]} \in SUBSET Active
                BY <4>1 DEF Active, Inv, BackendInv, InsideOwns
            <4>3. UNION {Effect(j) : j \in {job[c]}} = Effect(job[c])
                OBVIOUS
            <4>4. PICK late \in SUBSET Promise!Owed : Remembered = Effect(job[c]) \union late
                BY <4>1, RememberedIsOwed
            <4>5. db' = db \union (UNION {Effect(j) : j \in {job[c]}}) \union late
                <5>1. db \union (Effect(job[c]) \union late) = (db \union Effect(job[c])) \union late
                    OBVIOUS
                <5>2. db' = db \union (Effect(job[c]) \union late)
                    BY <4>1, <4>4
                <5> QED
                    BY <4>3, <5>1, <5>2
            <4> QED
                BY <4>2, <4>5
        <3> QED
            BY <1>2, <3>1, <3>2 DEF Crash
    <2> QED
        BY <2>1, <2>2 DEF Promise!Next, Promise!Crash, Active, AllRaised
<1>3. ASSUME NEW c \in Callers, NEW kind \in {"write", "read"}, Call(c, kind)
      PROVE  Promise!Next
    <2>1. PICK j \in Jobs : j \notin Active \union Ended /\ Active' = Active \union {j}
        BY <1>3, CallStarts
    <2>2. UNCHANGED <<db, returned, AllRaised>>
        BY <1>3 DEF Call, ended, AllRaised
    <2>3. Promise!Start(j)
        BY <2>1, <2>2 DEF Promise!Start, Active, AllRaised, Ended
    <2> QED
        BY <2>3 DEF Promise!Next
<1>4. ASSUME NEW c \in Callers, Goes(c), UNCHANGED db
      PROVE  UNCHANGED <<Active, db, returned, AllRaised>>
    BY <1>4 DEF Goes, Active, AllRaised, ended
<1>5. ASSUME NEW c \in Callers, Commit(c) PROVE Promise!Next
    <2>1. Leave(c) /\ pc[c] \in Held /\ pc[c] = "commit"
        BY <1>5 DEF Commit, Return, At, Held
    <2>2. PICK late \in SUBSET Promise!Owed : db' = db \union Effect(job[c]) \union late
        BY <1>5, <2>1, RememberedIsOwed DEF Commit
    <2>3. returned' = returned \union {job[c]} /\ AllRaised' = AllRaised
        BY <1>5 DEF Commit, Return, AllRaised
    <2>4. PICK j \in Jobs : j = job[c]
        BY <2>1, LeaveActive
    <2>5. Promise!Return(j)
        BY <2>1, <2>2, <2>3, <2>4, LeaveActive DEF Promise!Return, Active, AllRaised
    <2> QED
        BY <2>5 DEF Promise!Next
<1>6. ASSUME NEW c \in Callers, NEW phase \in Phases, RaiseStep(c, phase)
      PROVE  Promise!Next
    <2>1. Leave(c) /\ pc[c] \in Held /\ returned' = returned
        BY <1>6 DEF RaiseStep, Raise, Held, Phases
    <2>2. AllRaised' = AllRaised \union {job[c]}
        <3>1. raised'[phase] = raised[phase] \union {job[c]}
              /\ \A p \in Phases \ {phase} : raised'[p] = raised[p]
            BY <1>6 DEF RaiseStep, Raise, Inv, BackendInv, TypeOK
        <3> QED
            BY <3>1 DEF AllRaised
    <2>3. db' \in {db, db \union Effect(job[c])}
        <3>1. CASE pc[c] = "commit" /\ Pooled
            <4>1. Remembered = Effect(job[c])
                BY <3>1, RememberedIsOwn
            <4>2. db' \in {db, db \union Remembered}
                BY <1>6, <3>1 DEF RaiseStep
            <4> QED
                BY <4>1, <4>2
        <3>2. CASE ~(pc[c] = "commit" /\ Pooled)
            BY <1>6, <3>2 DEF RaiseStep
        <3> QED
            BY <3>1, <3>2
    <2>4. PICK j \in Jobs : j = job[c]
        BY <2>1, LeaveActive
    <2>5. Promise!Raise(j)
        BY <2>1, <2>2, <2>3, <2>4, LeaveActive DEF Promise!Raise, Active, AllRaised
    <2> QED
        BY <2>5 DEF Promise!Next
<1> QED
    BY <1>1, <1>2, <1>3, <1>4, <1>5, <1>6, StepKinds

\* Every call takes effect at one moment between its start and its end, or
\* not at all; on PostgreSQL never after an error was reported, on SQLite
\* only with the commit of a later call.
THEOREM StoreIsAtomic == Spec => AtomicSpec
<1>1. Init => Promise!Init
    BY DEF Init, Promise!Init, Phases
<1>2. Inv /\ [Next]_vars => [Promise!Next]_<<Active, db, returned, AllRaised>>
    BY StepIsAtomic
<1> QED
    BY <1>1, <1>2, StrongInvariant, PTL DEF Spec, AtomicSpec, Promise!Spec, Active, AllRaised

----------------------------------------------------------------------------
(* The pool runs dry by lost rows only.                                    *)

Out == {k \in Conns : place[k] # "pool"}
Busy == \E c \in Callers : pc[c] \in {"fetch", "commit"}

\* Of the connections that are out, all but one were lost to a read whose
\* rows could not be fetched.
OutCounted ==
    Pooled => Cardinality(Out) <= Cardinality(raised["fetch"]) + (IF Busy THEN 1 ELSE 0)

LEMMA Finite ==
    ASSUME Inv
    PROVE  /\ IsFiniteSet(Out) /\ Cardinality(Out) \in Nat
           /\ IsFiniteSet(raised["fetch"]) /\ Cardinality(raised["fetch"]) \in Nat
           /\ Pooled => Cardinality(Conns) = PoolSize
<1>1. IsFiniteSet(Conns) /\ (Pooled => Cardinality(Conns) = PoolSize)
    <2>1. IsFiniteSet(1..PoolSize) /\ Cardinality(1..PoolSize) = PoolSize
        BY BackendAssumption, FS_Interval
    <2>2. ~Pooled => IsFiniteSet(Conns)
        BY ConnFacts, FS_Singleton
    <2> QED
        BY <2>1, <2>2 DEF Conns
<1>2. IsFiniteSet(Jobs)
    <2>1. IsFiniteSet(1..MaxCalls)
        BY BackendAssumption, FS_Interval
    <2>2. IsFiniteSet({"write", "read"})
        <3>1. IsFiniteSet({"write"})
            BY FS_Singleton
        <3>2. IsFiniteSet({"write"} \union {"read"})
            BY <3>1, FS_AddElement
        <3>3. {"write"} \union {"read"} = {"write", "read"}
            OBVIOUS
        <3> QED
            BY <3>2, <3>3
    <2> QED
        BY <2>1, <2>2, FS_Product DEF Jobs
<1>3. IsFiniteSet(Out)
    BY <1>1, FS_Subset DEF Out
<1>4. IsFiniteSet(raised["fetch"])
    <2>1. raised["fetch"] \subseteq Jobs
        BY DEF Inv, BackendInv, TypeOK, Phases
    <2> QED
        BY <1>2, <2>1, FS_Subset
<1> QED
    BY <1>1, <1>3, <1>4, FS_CardinalityType

LEMMA OutCountedKept == Inv /\ OutCounted /\ [Next]_vars => OutCounted'
<1> SUFFICES ASSUME Inv, OutCounted, [Next]_vars, Pooled PROVE OutCounted'
    BY DEF OutCounted
<1>0. /\ TypeOK /\ InsideOwns /\ LastIsOut
      /\ Cardinality(Out) <= Cardinality(raised["fetch"]) + (IF Busy THEN 1 ELSE 0)
    BY DEF Inv, BackendInv, OutCounted
<1>1. CASE UNCHANGED vars
    BY <1>0, <1>1 DEF vars, OutCounted, Out, Busy
<1>2. CASE Crash
    <2>1. Out' = {}
        BY <1>2 DEF Crash, Fresh, Out
    <2>2. Cardinality({}) = 0
        BY FS_EmptySet
    <2>3. raised' = raised /\ ~Busy'
        BY <1>2 DEF Crash, ended, Busy
    <2> QED
        BY <2>1, <2>2, <2>3, Finite DEF OutCounted
<1>3. ASSUME NEW c \in Callers, UNCHANGED <<place, raised>>, NEW phase,
             pc' = [pc EXCEPT ![c] = phase], pc[c] = "fetch" <=> phase = "commit",
             phase # "fetch", pc[c] # "commit"
      PROVE  OutCounted'
    <2>1. Out' = Out /\ Busy' = Busy
        BY <1>0, <1>3 DEF Out, Busy, TypeOK
    <2> QED
        BY <1>0, <1>3, <2>1 DEF OutCounted
<1>4. ASSUME NEW c \in Callers, NEW k \in Conns, TakeConn(c, k) PROVE OutCounted'
    <2>1. ~Busy /\ Busy'
        BY <1>0, <1>4 DEF TakeConn, At, AfterExecute, Continue, InsideOwns, TypeOK, Busy, Held
    <2>2. Out' = Out \union {k} /\ raised' = raised /\ k \notin Out
        BY <1>0, <1>4 DEF TakeConn, AfterExecute, Continue, Out, LastIsOut, TypeOK, ended
    <2>3. Cardinality(Out') = Cardinality(Out) + 1
        BY <2>2, Finite, FS_AddElement
    <2> QED
        BY <1>0, <2>1, <2>2, <2>3, Finite DEF OutCounted
<1>5. ASSUME NEW c \in Callers, NEW phase \in {"execute", "fetch"}, Raise(c, phase), pc[c] = phase,
             UNCHANGED place
      PROVE  OutCounted'
    <2>1. Out' = Out /\ ~Busy'
        <3>1. Leave(c) /\ pc[c] \in Held
            BY <1>5 DEF Raise, Held, Phases
        <3> QED
            BY <1>5, <3>1, LeaveKeeps DEF Inv, Out, Busy, Held
    <2>2. CASE phase = "execute"
        <3>1. raised'["fetch"] = raised["fetch"] /\ ~Busy
            BY <1>0, <1>5, <2>2 DEF Raise, TypeOK, Phases, InsideOwns, Busy, Held
        <3> QED
            BY <1>0, <2>1, <3>1 DEF OutCounted
    <2>3. CASE phase = "fetch"
        <3>1. raised'["fetch"] = raised["fetch"] \union {job[c]}
            BY <1>0, <1>5, <2>3 DEF Raise, TypeOK, Phases
        <3>2. job[c] \notin raised["fetch"]
            BY <1>0, <1>5, <2>3 DEF Inv, Numbered, Ended, InsideOwns, Phases
        <3>3. Cardinality(raised'["fetch"]) = Cardinality(raised["fetch"]) + 1
            BY <3>1, <3>2, Finite, FS_AddElement
        <3> QED
            BY <1>0, <2>1, <3>3, Finite DEF OutCounted
    <2> QED
        BY <2>2, <2>3
<1>6. ASSUME NEW c \in Callers, Commit(c) \/ CommitFails(c) PROVE OutCounted'
    <2>1. Leave(c) /\ pc[c] = "commit" /\ PutConn
        BY <1>6 DEF Commit, CommitFails, Return, Raise, At
    <2>2. last # NoConn /\ last \in Out /\ Busy
        BY <1>0, <2>1 DEF LastIsOut, TypeOK, Out, Busy
    <2>3. Out' = Out \ {last}
        BY <1>0, <2>1, <2>2 DEF PutConn, Out, TypeOK
    <2>4. ~Busy'
        BY <2>1, LeaveKeeps DEF Inv, Busy, Held
    <2>5. raised'["fetch"] = raised["fetch"]
        BY <1>0, <1>6 DEF Commit, CommitFails, Return, Raise, TypeOK, Phases
    <2>6. Cardinality(Out') = Cardinality(Out) - 1
        BY <2>2, <2>3, Finite, FS_RemoveElement
    <2> QED
        BY <1>0, <2>2, <2>4, <2>5, <2>6, Finite DEF OutCounted
<1>7. ASSUME NEW c \in Callers, Work(c) PROVE OutCounted'
    <2>1. ~RunOnOnly(c)
        BY DEF RunOnOnly
    <2>2. ExecuteFails(c) \/ Exhausted(c) \/ FetchFails(c) =>
            \E phase \in {"execute", "fetch"} : Raise(c, phase) /\ pc[c] = phase /\ UNCHANGED place
        BY DEF ExecuteFails, Exhausted, FetchFails, At, conns
    <2>3. CASE Fetch(c)
        BY <1>3, <2>3 DEF Fetch, At, Continue, conns, ended
    <2> QED
        BY <1>4, <1>5, <1>6, <1>7, <2>1, <2>2, <2>3 DEF Work
<1>8. ASSUME NEW c \in Callers, Acquire(c) PROVE OutCounted'
    BY <1>3, <1>8 DEF Acquire, conns, ended
<1>9. ASSUME NEW c \in Callers, NEW kind \in {"write", "read"}, Call(c, kind) PROVE OutCounted'
    BY <1>3, <1>9 DEF Call, conns, ended
<1> QED
    BY <1>1, <1>2, <1>7, <1>8, <1>9 DEF Next

\* With fewer reads that lost their rows than the pool has connections, the
\* next call finds one (PostgresBackend.execute, fetchone, fetchall, commit).
THEOREM PoolLasts == Spec => []PoolSuffices
<1>1. Init => OutCounted
    <2>1. Init /\ Pooled => Out = {} /\ raised["fetch"] = {} /\ ~Busy
        BY DEF Init, Fresh, Out, Busy, Phases
    <2> QED
        BY <2>1, FS_EmptySet DEF OutCounted
<1>2. Inv /\ OutCounted => PoolSuffices
    <2> SUFFICES ASSUME Inv, OutCounted, Pooled, owner = NoOne,
                        Cardinality(raised["fetch"]) < PoolSize,
                        \A k \in Conns : place[k] # "pool"
                 PROVE  FALSE
        BY DEF PoolSuffices
    <2>1. Out = Conns
        BY DEF Out
    <2>2. ~Busy
        BY NoOneAssumption DEF Inv, BackendInv, InsideOwns, Busy, Held
    <2> QED
        BY <2>1, <2>2, Finite, BackendAssumption DEF OutCounted
<1> QED
    BY <1>1, <1>2, OutCountedKept, StrongInvariant, PTL DEF Spec
=============================================================================

------------------------- MODULE TaskPipelineProof -------------------------
(***************************************************************************)
(* Theorems about TaskPipeline, for every number of processes, tasks,      *)
(* agents, attempts, statement errors and crashes.                         *)
(***************************************************************************)
EXTENDS TaskPipeline, TLAPS

USE ProcessAssumption, AgentAssumption, MoneyAssumption, BoundAssumption

\* What an agent is offered for is a natural number within the budget.
LEMMA PriceInBudget ==
    ASSUME NEW t \in Tasks, NEW a \in Offered(t)
    PROVE  /\ a \in Agents
           /\ Price(t, a) \in Nat
           /\ Price(t, a) <= Budget[t]
BY DEF Offered, Price

\* The candidates of run_task are a list of offers, cut to MaxAttempts.
LEMMA CandidatesAreOffers ==
    ASSUME NEW t \in Tasks, NEW found \in MatchLists(t)
    PROVE  /\ Candidates(found) \in Seq(Agents)
           /\ Len(Candidates(found)) <= MaxAttempts
           /\ \A i \in 1 .. Len(Candidates(found)) :
                  Candidates(found)[i] \in Offered(t)
<1>1. PICK m \in 0 .. MaxMatches : found \in [1 .. m -> Offered(t)]
  BY DEF MatchLists, SeqOf
<1>2. found \in Seq(Offered(t)) /\ Len(found) = m
  BY <1>1
<1>3. Offered(t) \subseteq Agents
  BY DEF Offered
<1>4. CASE Len(found) <= MaxAttempts
  BY <1>1, <1>2, <1>3, <1>4 DEF Candidates
<1>5. CASE ~ (Len(found) <= MaxAttempts)
  <2>1. Candidates(found) = SubSeq(found, 1, MaxAttempts)
    BY <1>5 DEF Candidates
  <2>2. SubSeq(found, 1, MaxAttempts) \in Seq(Offered(t))
    BY <1>2, <1>5
  <2>3. Len(SubSeq(found, 1, MaxAttempts)) = MaxAttempts
    BY <1>2, <1>5
  <2> QED
    BY <2>1, <2>2, <2>3, <1>3
<1> QED
  BY <1>4, <1>5

\* A hop of an agent may be added to a task object.
LEMMA AddHopType ==
    ASSUME NEW m \in TaskOut, NEW a \in Agents, NEW ok \in BOOLEAN,
           NEW p \in {"verify", "escrow", "invoke", "settle"}
    PROVE  /\ AddHop(m, p, a, ok) \in TaskOut
           /\ AddHop(m, p, a, ok).status = m.status
           /\ AddHop(m, p, a, ok).agent = m.agent
           /\ AddHop(m, p, a, ok).spent = m.spent
<1>1. [phase |-> p, agent |-> a, ok |-> ok] \in Hops
  BY DEF Hops
<1>2. Append(m.hops, [phase |-> p, agent |-> a, ok |-> ok]) \in Seq(Hops)
  BY <1>1 DEF TaskOut
<1> QED
  BY <1>2 DEF AddHop, TaskOut

----------------------------------------------------------------------------
(* Steps in general                                                         *)

\* A request that goes on changes its own frame and the loop, well-typed.
LEMMA ContinueLocal ==
    ASSUME TypeOK, NEW t \in Tasks, NEW next \in Points, NEW m \in TaskOut,
           Continue(t, next, m)
    PROVE  /\ pc' \in [Tasks -> Points]
           /\ mem' \in [Tasks -> TaskOut]
           /\ running' \in [Procs -> SUBSET Tasks]
           /\ pc'[t] = next
           /\ mem'[t] = m
           /\ \A u \in Tasks \ {t} : pc'[u] = pc[u] /\ mem'[u] = mem[u]
BY DEF TypeOK, Continue

\* So does an exception.
LEMMA RaiseLocal ==
    ASSUME TypeOK, NEW t \in Tasks, Raise(t)
    PROVE  /\ pc' \in [Tasks -> Points]
           /\ mem' \in [Tasks -> TaskOut]
           /\ running' \in [Procs -> SUBSET Tasks]
           /\ pc'[t] = IF pc[t] \in InTry THEN "cleanup" ELSE "raised"
           /\ mem'[t] = mem[t]
           /\ \A u \in Tasks \ {t} : pc'[u] = pc[u] /\ mem'[u] = mem[u]
<1> DEFINE next == IF pc[t] \in InTry THEN "cleanup" ELSE "raised"
<1>1. next \in Points
  BY DEF Points, Gone
<1>2. mem[t] \in TaskOut
  BY DEF TypeOK
<1>3. Continue(t, next, mem[t])
  BY DEF Raise
<1> QED
  BY <1>1, <1>2, <1>3, ContinueLocal

\* What a statement does to the request that executes it: all of it and the
\* request goes on, or an error is counted, the effect is there or not, and
\* the request raises.
Outcome(t, r, h, next, m) ==
    \/ /\ row' = r /\ holds' = h
       /\ pc'[t] = next /\ mem'[t] = m
       /\ faults' = faults
    \/ /\ faults' > 0
       /\ \/ row' = r /\ holds' = h
          \/ row' = row /\ holds' = holds
       /\ pc'[t] = (IF pc[t] \in InTry THEN "cleanup" ELSE "raised")
       /\ mem'[t] = mem[t]

LEMMA ExecuteLocal ==
    ASSUME TypeOK, NEW t \in Tasks, NEW next \in Points, NEW m \in TaskOut,
           NEW r \in [Tasks -> TaskOut],
           NEW h \in [Tasks -> [Slots -> EscrowHold]],
           NEW f \in [Tasks -> SUBSET (Kinds \X (0 .. MaxAttempts))],
           Execute(t, r, h, f, next, m)
    PROVE  /\ row' \in [Tasks -> TaskOut]
           /\ holds' \in [Tasks -> [Slots -> EscrowHold]]
           /\ feed' \in [Tasks -> SUBSET (Kinds \X (0 .. MaxAttempts))]
           /\ pc' \in [Tasks -> Points]
           /\ mem' \in [Tasks -> TaskOut]
           /\ running' \in [Procs -> SUBSET Tasks]
           /\ faults' \in 0 .. MaxFaults
           /\ UNCHANGED <<up, sweep, stale, served, crashes>>
           /\ Outcome(t, r, h, next, m)
           /\ \A u \in Tasks \ {t} : pc'[u] = pc[u] /\ mem'[u] = mem[u]
           /\ faults' >= faults
<1>1. UNCHANGED <<up, sweep, stale, served, crashes>>
  BY DEF Execute, world
<1>2. faults \in 0 .. MaxFaults
  BY DEF TypeOK
<1>3. CASE /\ row' = r /\ holds' = h /\ feed' = f
           /\ Continue(t, next, m)
           /\ UNCHANGED faults
  <2>1. /\ pc' \in [Tasks -> Points]
        /\ mem' \in [Tasks -> TaskOut]
        /\ running' \in [Procs -> SUBSET Tasks]
        /\ pc'[t] = next
        /\ mem'[t] = m
        /\ \A u \in Tasks \ {t} : pc'[u] = pc[u] /\ mem'[u] = mem[u]
    BY <1>3, ContinueLocal
  <2> QED
    BY <1>1, <1>2, <1>3, <2>1 DEF Outcome
<1>4. CASE /\ faults < MaxFaults
           /\ faults' = faults + 1
           /\ \/ row' = r /\ holds' = h /\ feed' = f
              \/ UNCHANGED db
           /\ Raise(t)
  <2>1. /\ pc' \in [Tasks -> Points]
        /\ mem' \in [Tasks -> TaskOut]
        /\ running' \in [Procs -> SUBSET Tasks]
        /\ pc'[t] = IF pc[t] \in InTry THEN "cleanup" ELSE "raised"
        /\ mem'[t] = mem[t]
        /\ \A u \in Tasks \ {t} : pc'[u] = pc[u] /\ mem'[u] = mem[u]
    BY <1>4, RaiseLocal
  <2>2. /\ faults' \in 0 .. MaxFaults
        /\ faults' > 0
        /\ faults' >= faults
    BY <1>2, <1>4
  <2>3. /\ row' \in [Tasks -> TaskOut]
        /\ holds' \in [Tasks -> [Slots -> EscrowHold]]
        /\ feed' \in [Tasks -> SUBSET (Kinds \X (0 .. MaxAttempts))]
    BY <1>4 DEF TypeOK, db
  <2>4. \/ row' = r /\ holds' = h
        \/ row' = row /\ holds' = holds
    BY <1>4 DEF db
  <2> QED
    BY <1>1, <2>1, <2>2, <2>3, <2>4 DEF Outcome
<1> QED
  BY <1>3, <1>4 DEF Execute

\* A task whose rows and request are as before keeps its invariant: the
\* record of what agents served and of what failed only grows.
LEMMA Untouched ==
    ASSUME TypeOK, NEW u \in Tasks, TaskInv(u),
           row'[u] = row[u], holds'[u] = holds[u], pc'[u] = pc[u],
           mem'[u] = mem[u], cands'[u] = cands[u], attempt'[u] = attempt[u],
           served \subseteq served', faults' \in Nat, faults' >= faults
    PROVE  TaskInv(u)'
<1>1. /\ SlotsFollowFrame(u)'
      /\ AttemptStarted(u)'
      /\ HoldIsOffer(u)'
      /\ SettledFrame(u)'
  BY DEF TaskInv, SlotsFollowFrame, AttemptStarted, HoldIsOffer, SettledFrame,
         Candidate, Live
<1>2. faults > 0 => faults' > 0
  BY DEF TypeOK
<1>3. CleanupHold(u)' /\ Guarded(u)'
  BY <1>2 DEF TaskInv, CleanupHold, Guarded
<1>4. Exposure(u)' /\ (row'[u].status = "completed" => Paid(u)')
  BY DEF TaskInv, Exposure, Paid, Live
<1> QED
  BY <1>1, <1>3, <1>4 DEF TaskInv

----------------------------------------------------------------------------
(* Statements of a request                                                  *)

\* Nothing changes for the other tasks.
OthersKept(t) ==
    \A u \in Tasks \ {t} :
        /\ row'[u] = row[u] /\ holds'[u] = holds[u]
        /\ pc'[u] = pc[u] /\ mem'[u] = mem[u]
        /\ cands'[u] = cands[u] /\ attempt'[u] = attempt[u]

\* A step of the request of t that keeps the types and the invariant of t
\* keeps the invariant of every task.
LEMMA LocalStep ==
    ASSUME PipelineInv, NEW t \in Tasks, TypeOK', TaskInv(t)', OthersKept(t),
           served \subseteq served', faults' >= faults
    PROVE  PipelineInv'
<1>1. TypeOK
  BY DEF PipelineInv
<1>2. faults' \in Nat
  BY DEF TypeOK
<1>3. ASSUME NEW u \in Tasks \ {t} PROVE TaskInv(u)'
  <2>1. TaskInv(u)
    BY DEF PipelineInv
  <2> QED
    BY <1>1, <1>2, <2>1, Untouched DEF OthersKept
<1> QED
  BY <1>3 DEF PipelineInv

\* What a statement that writes x to the row of t and y to its holds may do.
LocalOutcome(t, x, y, next, m) ==
    \/ /\ row'[t] = x /\ holds'[t] = y
       /\ pc'[t] = next /\ mem'[t] = m
    \/ /\ faults' > 0
       /\ \/ row'[t] = x /\ holds'[t] = y
          \/ row'[t] = row[t] /\ holds'[t] = holds[t]
       /\ pc'[t] = (IF pc[t] \in InTry THEN "cleanup" ELSE "raised")
       /\ mem'[t] = mem[t]

LEMMA StatementStep ==
    ASSUME PipelineInv, NEW t \in Tasks, NEW next \in Points,
           NEW m \in TaskOut, NEW x \in TaskOut,
           NEW y \in [Slots -> EscrowHold],
           NEW f \in [Tasks -> SUBSET (Kinds \X (0 .. MaxAttempts))],
           Execute(t, [row EXCEPT ![t] = x], [holds EXCEPT ![t] = y], f,
                   next, m),
           cands' = cands,
           attempt' \in [Tasks -> Nat],
           attempt'[t] <= Len(cands[t]),
           \A u \in Tasks \ {t} : attempt'[u] = attempt[u]
    PROVE  /\ TypeOK'
           /\ OthersKept(t)
           /\ LocalOutcome(t, x, y, next, m)
           /\ served' = served
           /\ faults' \in Nat
           /\ faults' >= faults
<1> DEFINE r == [row EXCEPT ![t] = x]
           h == [holds EXCEPT ![t] = y]
<1>1. TypeOK
  BY DEF PipelineInv
<1>2. /\ r \in [Tasks -> TaskOut]
      /\ h \in [Tasks -> [Slots -> EscrowHold]]
  BY <1>1 DEF TypeOK
<1>3. Execute(t, r, h, f, next, m)
  OBVIOUS
<1>4. /\ r[t] = x /\ h[t] = y
      /\ \A u \in Tasks \ {t} : r[u] = row[u] /\ h[u] = holds[u]
  BY <1>1 DEF TypeOK
<1> HIDE DEF r, h
<1>5. /\ row' \in [Tasks -> TaskOut]
      /\ holds' \in [Tasks -> [Slots -> EscrowHold]]
      /\ feed' \in [Tasks -> SUBSET (Kinds \X (0 .. MaxAttempts))]
      /\ pc' \in [Tasks -> Points]
      /\ mem' \in [Tasks -> TaskOut]
      /\ running' \in [Procs -> SUBSET Tasks]
      /\ faults' \in 0 .. MaxFaults
      /\ UNCHANGED <<up, sweep, stale, served, crashes>>
      /\ Outcome(t, r, h, next, m)
      /\ \A u \in Tasks \ {t} : pc'[u] = pc[u] /\ mem'[u] = mem[u]
      /\ faults' >= faults
  BY <1>1, <1>2, <1>3, ExecuteLocal
<1>6. \A u \in Tasks : /\ Len(cands'[u]) <= MaxAttempts
                       /\ attempt'[u] <= Len(cands'[u])
  BY <1>1 DEF TypeOK
<1>7. TypeOK'
  BY <1>1, <1>5, <1>6 DEF TypeOK
<1>8. \A u \in Tasks \ {t} : row'[u] = row[u] /\ holds'[u] = holds[u]
  BY <1>4, <1>5 DEF Outcome
<1>9. LocalOutcome(t, x, y, next, m)
  BY <1>4, <1>5 DEF Outcome, LocalOutcome
<1> QED
  BY <1>5, <1>7, <1>8, <1>9 DEF OthersKept

\* MeshStore.emit and MeshStore.update_task are such statements.
LEMMA EmitStep ==
    ASSUME PipelineInv, NEW t \in Tasks, NEW next \in Points,
           NEW m \in TaskOut, NEW kind \in Kinds, NEW j \in 0 .. MaxAttempts,
           Emit(t, kind, j, next, m), UNCHANGED <<cands, attempt>>
    PROVE  /\ TypeOK'
           /\ OthersKept(t)
           /\ LocalOutcome(t, row[t], holds[t], next, m)
           /\ served' = served
           /\ faults' \in Nat
           /\ faults' >= faults
<1> DEFINE f == [feed EXCEPT ![t] = @ \union {<<kind, j>>}]
<1>1. TypeOK
  BY DEF PipelineInv
<1>2. /\ row[t] \in TaskOut
      /\ holds[t] \in [Slots -> EscrowHold]
      /\ f \in [Tasks -> SUBSET (Kinds \X (0 .. MaxAttempts))]
      /\ attempt \in [Tasks -> Nat]
      /\ attempt[t] <= Len(cands[t])
  BY <1>1 DEF TypeOK
<1>3. row = [row EXCEPT ![t] = row[t]] /\ holds = [holds EXCEPT ![t] = holds[t]]
  BY <1>1 DEF TypeOK
<1>4. Execute(t, row, holds, f, next, m)
  BY DEF Emit
<1>5. Execute(t, [row EXCEPT ![t] = row[t]], [holds EXCEPT ![t] = holds[t]],
              f, next, m)
  BY <1>3, <1>4
<1> HIDE DEF f
<1> QED
  BY <1>2, <1>5, StatementStep

LEMMA UpdateStep ==
    ASSUME PipelineInv, NEW t \in Tasks, NEW next \in Points,
           NEW m \in TaskOut, UpdateTask(t, m, next), cands' = cands,
           attempt' \in [Tasks -> Nat],
           attempt'[t] <= Len(cands[t]),
           \A u \in Tasks \ {t} : attempt'[u] = attempt[u]
    PROVE  /\ TypeOK'
           /\ OthersKept(t)
           /\ LocalOutcome(t, m, holds[t], next, m)
           /\ served' = served
           /\ faults' \in Nat
           /\ faults' >= faults
<1>1. TypeOK
  BY DEF PipelineInv
<1>2. /\ holds[t] \in [Slots -> EscrowHold]
      /\ feed \in [Tasks -> SUBSET (Kinds \X (0 .. MaxAttempts))]
  BY <1>1 DEF TypeOK
<1>3. holds = [holds EXCEPT ![t] = holds[t]]
  BY <1>1 DEF TypeOK
<1>4. Execute(t, [row EXCEPT ![t] = m], holds, feed, next, m)
  BY DEF UpdateTask
<1>5. Execute(t, [row EXCEPT ![t] = m], [holds EXCEPT ![t] = holds[t]],
              feed, next, m)
  BY <1>3, <1>4
<1> QED
  BY <1>2, <1>5, StatementStep

\* MeshStore.update_escrow_status of the current attempt, likewise.
LEMMA SettleStep ==
    ASSUME PipelineInv, NEW t \in Tasks, NEW next \in Points,
           NEW m \in TaskOut, NEW s \in {"released", "refunded"},
           attempt[t] \in Slots,
           Execute(t, row, Settled(t, s), feed, next, m),
           UNCHANGED <<cands, attempt>>
    PROVE  /\ TypeOK'
           /\ OthersKept(t)
           /\ LocalOutcome(t, row[t],
                           [holds[t] EXCEPT ![attempt[t]].status = s], next, m)
           /\ served' = served
           /\ faults' \in Nat
           /\ faults' >= faults
<1> DEFINE y == [holds[t] EXCEPT ![attempt[t]].status = s]
<1>1. TypeOK
  BY DEF PipelineInv
<1>2. /\ row[t] \in TaskOut
      /\ holds[t] \in [Slots -> EscrowHold]
      /\ feed \in [Tasks -> SUBSET (Kinds \X (0 .. MaxAttempts))]
      /\ attempt \in [Tasks -> Nat]
      /\ attempt[t] <= Len(cands[t])
  BY <1>1 DEF TypeOK
<1>3. y \in [Slots -> EscrowHold]
  <2>1. [holds[t][attempt[t]] EXCEPT !.status = s] \in EscrowHold
    <3>1. holds[t][attempt[t]] \in EscrowHold
      BY <1>2
    <3> HIDE DEF y
    <3> QED
      BY <3>1 DEF EscrowHold
  <2>2. y = [holds[t] EXCEPT ![attempt[t]] =
                  [holds[t][attempt[t]] EXCEPT !.status = s]]
    OBVIOUS
  <2> QED
    BY <1>2, <2>1, <2>2
<1>4. /\ row = [row EXCEPT ![t] = row[t]]
      /\ Settled(t, s) = [holds EXCEPT ![t] = y]
  BY <1>1 DEF TypeOK, Settled
<1>5. Execute(t, [row EXCEPT ![t] = row[t]], [holds EXCEPT ![t] = y], feed,
              next, m)
  BY <1>4
<1> HIDE DEF y
<1>6. /\ TypeOK'
      /\ OthersKept(t)
      /\ LocalOutcome(t, row[t], y, next, m)
      /\ served' = served
      /\ faults' \in Nat
      /\ faults' >= faults
  BY <1>2, <1>3, <1>5, StatementStep
<1> QED
  BY <1>6 DEF y

----------------------------------------------------------------------------
(* Steps that leave the holds of the task alone                             *)

Early == {"idle", "created", "start", "started", "discover"}
Between == {"next", "failing", "preflight", "healthy", "unhealthy", "hold"}
Settling == {"settled", "closing"}

\* A live request has not written a completed row.
LEMMA LiveRow ==
    ASSUME NEW t \in Tasks, TaskInv(t), pc[t] \notin Gone
    PROVE  row[t].status # "completed"
BY DEF TaskInv, SettledFrame, Gone

\* The request goes on within the try, within the settlement, or outside.
LEMMA MovedInv ==
    ASSUME TypeOK, NEW t \in Tasks, TaskInv(t), NEW next,
           pc[t] \notin Gone \union {"cleanup"}, pc'[t] = next,
           \/ next \in InTry /\ pc[t] \in InTry
           \/ next \in Settling /\ pc[t] \in Settling
           \/ next \in Early \union Between /\ pc[t] \in Early \union Between,
           holds'[t] = holds[t], cands'[t] = cands[t],
           attempt'[t] = attempt[t], AttemptStarted(t)', SettledFrame(t)'
    PROVE  TaskInv(t)'
<1> USE DEF InTry, Early, Between, Settling, Gone
<1>1. row'[t].status # "completed"
  BY DEF SettledFrame
<1>2. SlotsFollowFrame(t)'
  <2>1. attempt[t] \in Nat /\ Slots \subseteq Nat \ {0}
    BY DEF TypeOK, Slots
  <2>2. pc[t] \in Early => attempt[t] = 0
    BY DEF TaskInv, AttemptStarted
  <2> QED
    BY <2>1, <2>2 DEF TaskInv, SlotsFollowFrame, Live
<1>3. HoldIsOffer(t)'
  BY DEF TaskInv, HoldIsOffer, HoldTaken, Candidate
<1>4. CleanupHold(t)'
  BY DEF CleanupHold
<1>5. Guarded(t)'
  BY DEF TaskInv, Guarded
<1>6. Exposure(t)'
  BY DEF TaskInv, Exposure, Live
<1> QED
  BY <1>1, <1>2, <1>3, <1>4, <1>5, <1>6 DEF TaskInv

\* The request raises: to the finally, where its hold is still held, or out,
\* where nothing is held or an error has been counted.
LEMMA RaisedInv ==
    ASSUME TypeOK, NEW t \in Tasks, TaskInv(t),
           pc[t] \notin Gone \union {"cleanup"},
           pc'[t] = (IF pc[t] \in InTry THEN "cleanup" ELSE "raised"),
           faults' > 0 \/ pc[t] \in InTry \union {"discover", "preflight"},
           holds'[t] = holds[t], cands'[t] = cands[t],
           row'[t].status # "completed",
           attempt'[t] = attempt[t]
    PROVE  TaskInv(t)'
<1>1. SlotsFollowFrame(t)'
  <2>1. CASE pc[t] \in InTry
    <3>1. pc'[t] = "cleanup"
      BY <2>1
    <3>2. pc[t] \notin Gone
      OBVIOUS
    <3> QED
      BY <3>1, <3>2 DEF TaskInv, SlotsFollowFrame, Live, InTry
  <2>2. CASE pc[t] \notin InTry
    BY <2>2 DEF SlotsFollowFrame, Gone
  <2> QED
    BY <2>1, <2>2
<1>2. AttemptStarted(t)'
  BY DEF TaskInv, AttemptStarted, HoldTaken, InTry
<1>3. HoldIsOffer(t)'
  BY DEF TaskInv, HoldIsOffer, HoldTaken, InTry
<1>4. SettledFrame(t)'
  BY DEF SettledFrame
<1>5. pc[t] \in InTry =>
          attempt[t] \in Slots /\ holds[t][attempt[t]].status = "held"
  BY DEF TypeOK, TaskInv, AttemptStarted, HoldTaken, SlotsFollowFrame, Slots,
         Gone
<1>6. CleanupHold(t)'
  BY <1>5 DEF CleanupHold
<1>7. Guarded(t)'
  <2>1. CASE pc[t] \in InTry
    BY <2>1 DEF TaskInv, Guarded, InTry
  <2>2. CASE pc[t] \notin InTry /\ faults' > 0
    BY <2>2 DEF Guarded
  <2>3. CASE pc[t] \in {"discover", "preflight"}
    BY <2>3 DEF TaskInv, Guarded, InTry
  <2> QED
    BY <2>1, <2>2, <2>3
<1>8. Exposure(t)'
  BY DEF TaskInv, Exposure, Live
<1> QED
  BY <1>1, <1>2, <1>3, <1>4, <1>6, <1>7, <1>8 DEF TaskInv

\* The request of t may go from where it is to next with task object m.
MayMove(t, next, m) ==
    /\ pc[t] \notin Gone \union {"cleanup"}
    /\ \/ next \in InTry /\ pc[t] \in InTry
       \/ next \in Settling /\ pc[t] \in Settling
       \/ next \in Early \union Between /\ pc[t] \in Early \union Between
    /\ next \in HoldTaken \union (Between \ {"next", "failing"}) =>
           attempt[t] > 0
    /\ next \in Early => attempt[t] = 0
    /\ next \in Settling => m.agent = mem[t].agent /\ m.spent = mem[t].spent
    /\ next \in {"accepted", "release"} => <<t, attempt[t]>> \in served
    /\ next \in {"held", "escrowed"} => m.status = "escrowed"

LEMMA GoesOn ==
    ASSUME TypeOK, NEW t \in Tasks, TaskInv(t), NEW next, NEW m,
           MayMove(t, next, m), pc'[t] = next, mem'[t] = m,
           row'[t].status # "completed", holds'[t] = holds[t],
           cands'[t] = cands[t], attempt'[t] = attempt[t], served' = served
    PROVE  TaskInv(t)'
<1>1. AttemptStarted(t)'
  BY DEF AttemptStarted, MayMove, HoldTaken, InTry, Between, Settling, Early
<1>2. SettledFrame(t)'
  <2>1. next \in Settling => /\ mem'[t].agent = Candidate(t)
                             /\ mem'[t].spent = Price(t, Candidate(t))
    <3>1. next \in Settling => pc[t] \in Settling
      BY DEF MayMove, Settling, InTry, Early, Between
    <3> QED
      BY <3>1 DEF TaskInv, SettledFrame, MayMove, Settling
  <2>2. next \in {"accepted", "release", "settled", "closing"} =>
            <<t, attempt[t]>> \in served
    BY DEF TaskInv, SettledFrame, MayMove, Settling, InTry, Early, Between
  <2>3. next \in {"held", "escrowed"} => mem'[t].status = "escrowed"
    BY DEF MayMove
  <2>4. Candidate(t)' = Candidate(t) /\ attempt'[t] = attempt[t]
    BY DEF Candidate
  <2> QED
    BY <2>1, <2>2, <2>3, <2>4 DEF SettledFrame, Settling
<1> QED
  BY <1>1, <1>2, MovedInv DEF MayMove

LEMMA QuietStatement ==
    ASSUME PipelineInv, NEW t \in Tasks, NEW next, NEW m, NEW x,
           MayMove(t, next, m), x.status # "completed",
           LocalOutcome(t, x, holds[t], next, m),
           TypeOK', OthersKept(t), UNCHANGED <<cands, attempt>>,
           served' = served, faults' >= faults
    PROVE  PipelineInv'
<1>1. TypeOK /\ TaskInv(t)
  BY DEF PipelineInv
<1>2. pc[t] \notin Gone \union {"cleanup"}
  BY DEF MayMove
<1>3. row[t].status # "completed"
  BY <1>1, <1>2, LiveRow
<1>4. row'[t].status # "completed" /\ holds'[t] = holds[t]
  BY <1>3 DEF LocalOutcome
<1>5. cands'[t] = cands[t] /\ attempt'[t] = attempt[t]
  OBVIOUS
<1>6. TaskInv(t)'
  <2>1. CASE pc'[t] = next /\ mem'[t] = m
    BY <1>1, <1>4, <1>5, <2>1, GoesOn
  <2>2. CASE faults' > 0 /\ pc'[t] = (IF pc[t] \in InTry THEN "cleanup"
                                                        ELSE "raised")
    BY <1>1, <1>2, <1>4, <1>5, <2>2, RaisedInv
  <2> QED
    BY <2>1, <2>2 DEF LocalOutcome
<1> QED
  BY <1>6, LocalStep

----------------------------------------------------------------------------
(* The actions of a request, one by one                                     *)

\* In an attempt there is a slot and a candidate, offered within the budget.
LEMMA InAttempt ==
    ASSUME TypeOK, NEW t \in Tasks, TaskInv(t),
           pc[t] \in HoldTaken \union (Between \ {"next", "failing"})
                       \union {"cleanup"}
    PROVE  /\ attempt[t] \in Slots
           /\ Candidate(t) \in Offered(t)
           /\ Candidate(t) \in Agents
           /\ Price(t, Candidate(t)) \in Nat
           /\ Price(t, Candidate(t)) <= Budget[t]
<1>1. attempt[t] > 0
  BY DEF TaskInv, AttemptStarted, HoldTaken, Between
<1>2. attempt[t] \in 1 .. Len(cands[t]) /\ attempt[t] \in Slots
  <2>1. /\ attempt[t] \in Nat /\ attempt[t] <= Len(cands[t])
        /\ Len(cands[t]) \in Nat /\ Len(cands[t]) <= MaxAttempts
    BY DEF TypeOK
  <2> QED
    BY <1>1, <2>1 DEF Slots
<1>3. Candidate(t) \in Offered(t)
  BY <1>2 DEF TaskInv, HoldIsOffer, Candidate
<1> QED
  BY <1>2, <1>3, PriceInBudget

\* An event that moves the request on, its task object at most longer.
LEMMA EmitKeeps ==
    ASSUME PipelineInv, NEW t \in Tasks, NEW next \in Points,
           NEW m \in TaskOut, NEW kind \in Kinds, NEW j \in 0 .. MaxAttempts,
           MayMove(t, next, m),
           Emit(t, kind, j, next, m), UNCHANGED <<cands, attempt>>
    PROVE  PipelineInv'
<1>1. TypeOK /\ TaskInv(t)
  BY DEF PipelineInv
<1>2. /\ TypeOK'
      /\ OthersKept(t)
      /\ LocalOutcome(t, row[t], holds[t], next, m)
      /\ served' = served
      /\ faults' >= faults
  BY EmitStep
<1>3. row[t].status # "completed"
  BY <1>1, LiveRow DEF MayMove
<1> QED
  BY <1>2, <1>3, QuietStatement

\* A saved task object that moves the request on.
LEMMA UpdateKeeps ==
    ASSUME PipelineInv, NEW t \in Tasks, NEW next \in Points,
           NEW m \in TaskOut, MayMove(t, next, m), m.status # "completed",
           UpdateTask(t, m, next), UNCHANGED <<cands, attempt>>
    PROVE  PipelineInv'
<1>1. attempt \in [Tasks -> Nat] /\ attempt[t] <= Len(cands[t])
  BY DEF PipelineInv, TypeOK
<1>2. /\ TypeOK'
      /\ OthersKept(t)
      /\ LocalOutcome(t, m, holds[t], next, m)
      /\ served' = served
      /\ faults' >= faults
  BY <1>1, UpdateStep
<1> QED
  BY <1>2, QuietStatement

\* The typed parts of the state of one task.
LEMMA TaskTypes ==
    ASSUME TypeOK, NEW t \in Tasks
    PROVE  /\ row[t] \in TaskOut
           /\ mem[t] \in TaskOut
           /\ holds[t] \in [Slots -> EscrowHold]
           /\ attempt \in [Tasks -> Nat]
           /\ attempt[t] <= Len(cands[t])
BY DEF TypeOK

LEMMA SubmitKeeps ==
    ASSUME PipelineInv, NEW t \in Tasks, Submit(t)
    PROVE  PipelineInv'
<1>1. TaskInv(t) /\ pc[t] = "idle" /\ UNCHANGED <<cands, attempt>>
  BY DEF PipelineInv, Submit, Turn
<1>2. /\ QueuedTask \in TaskOut
      /\ QueuedTask.status # "completed"
      /\ "created" \in Points
  BY DEF QueuedTask, TaskOut, InProgress, Points
<1>3. MayMove(t, "created", QueuedTask)
  BY <1>1 DEF MayMove, TaskInv, AttemptStarted, Gone, InTry, Settling, Early,
              Between, HoldTaken
<1>4. UpdateTask(t, QueuedTask, "created")
  BY DEF Submit, UpdateTask
<1> QED
  BY <1>1, <1>2, <1>3, <1>4, UpdateKeeps

LEMMA AnnounceTaskKeeps ==
    ASSUME PipelineInv, NEW t \in Tasks, AnnounceTask(t)
    PROVE  PipelineInv'
<1>1. TaskInv(t) /\ pc[t] = "created" /\ UNCHANGED <<cands, attempt>>
  BY DEF PipelineInv, AnnounceTask, Turn
<1>2. mem[t] \in TaskOut /\ "start" \in Points /\ "task_created" \in Kinds
  BY DEF PipelineInv, TypeOK, Points, Kinds
<1>3. MayMove(t, "start", mem[t])
  BY <1>1 DEF MayMove, TaskInv, AttemptStarted, Gone, InTry, Settling, Early,
              Between, HoldTaken
<1>4. Emit(t, "task_created", 0, "start", mem[t]) /\ 0 \in 0 .. MaxAttempts
  BY DEF AnnounceTask
<1> QED
  BY <1>1, <1>2, <1>3, <1>4, EmitKeeps

LEMMA StartDiscoveryKeeps ==
    ASSUME PipelineInv, NEW t \in Tasks, StartDiscovery(t)
    PROVE  PipelineInv'
<1> DEFINE m == [mem[t] EXCEPT !.status = "discovering"]
<1>1. TaskInv(t) /\ pc[t] = "start" /\ UNCHANGED <<cands, attempt>>
  BY DEF PipelineInv, StartDiscovery, Turn
<1>2. mem[t] \in TaskOut
  BY DEF PipelineInv, TypeOK
<1>3. m \in TaskOut /\ m.status # "completed" /\ "started" \in Points
  BY <1>2 DEF TaskOut, InProgress, Points
<1>4. UpdateTask(t, m, "started")
  BY DEF StartDiscovery
<1> HIDE DEF m
<1>5. MayMove(t, "started", m)
  BY <1>1 DEF MayMove, TaskInv, AttemptStarted, Gone, InTry, Settling, Early,
              Between, HoldTaken
<1> QED
  BY <1>1, <1>3, <1>4, <1>5, UpdateKeeps

LEMMA AnnounceDiscoveryKeeps ==
    ASSUME PipelineInv, NEW t \in Tasks, AnnounceDiscovery(t)
    PROVE  PipelineInv'
<1>1. TaskInv(t) /\ pc[t] = "started" /\ UNCHANGED <<cands, attempt>>
  BY DEF PipelineInv, AnnounceDiscovery, Turn
<1>2. mem[t] \in TaskOut /\ "discover" \in Points /\ "discovery" \in Kinds
  BY DEF PipelineInv, TypeOK, Points, Kinds
<1>3. MayMove(t, "discover", mem[t])
  BY <1>1 DEF MayMove, TaskInv, AttemptStarted, Gone, InTry, Settling, Early,
              Between, HoldTaken
<1>4. Emit(t, "discovery", 0, "discover", mem[t]) /\ 0 \in 0 .. MaxAttempts
  BY DEF AnnounceDiscovery
<1> QED
  BY <1>1, <1>2, <1>3, <1>4, EmitKeeps

LEMMA AnnounceCheckKeeps ==
    ASSUME PipelineInv, NEW t \in Tasks, AnnounceCheck(t)
    PROVE  PipelineInv'
<1>1. PICK at \in {"healthy", "unhealthy"} :
          /\ Turn(t, at)
          /\ Emit(t, "verification", attempt[t],
                  IF at = "healthy" THEN "hold" ELSE "next", mem[t])
  BY DEF AnnounceCheck
<1> DEFINE next == IF at = "healthy" THEN "hold" ELSE "next"
<1>2. /\ TypeOK /\ TaskInv(t) /\ pc[t] \in {"healthy", "unhealthy"}
      /\ UNCHANGED <<cands, attempt>>
  BY <1>1 DEF PipelineInv, AnnounceCheck, Turn
<1>3. attempt[t] \in 0 .. MaxAttempts /\ attempt[t] > 0
  BY <1>2, InAttempt DEF Between, Slots
<1>4. mem[t] \in TaskOut /\ next \in Points /\ "verification" \in Kinds
  <2>1. mem[t] \in TaskOut
    BY DEF PipelineInv, TypeOK
  <2> QED
    BY <2>1 DEF Points, Kinds
<1>5. MayMove(t, next, mem[t])
  BY <1>2, <1>3 DEF MayMove, Gone, InTry, Settling, Early, Between, HoldTaken
<1>6. Emit(t, "verification", attempt[t], next, mem[t])
  BY <1>1
<1> QED
  BY <1>2, <1>3, <1>4, <1>5, <1>6, EmitKeeps

LEMMA AnnounceHoldKeeps ==
    ASSUME PipelineInv, NEW t \in Tasks, AnnounceHold(t)
    PROVE  PipelineInv'
<1> DEFINE m == AddHop(mem[t], "escrow", Candidate(t), TRUE)
<1>1. /\ TypeOK /\ TaskInv(t) /\ pc[t] = "held"
      /\ UNCHANGED <<cands, attempt>>
  BY DEF PipelineInv, AnnounceHold, Turn
<1>2. attempt[t] \in 0 .. MaxAttempts /\ Candidate(t) \in Agents
      /\ attempt[t] > 0
  BY <1>1, InAttempt DEF HoldTaken, InTry, Slots
<1>3. m \in TaskOut /\ m.status = "escrowed"
  <2>1. mem[t].status = "escrowed"
    BY <1>1 DEF TaskInv, SettledFrame
  <2> QED
    BY <1>1, <1>2, <2>1, TaskTypes, AddHopType
<1>4. Emit(t, "escrow", attempt[t], "escrowed", m)
  BY DEF AnnounceHold
<1> HIDE DEF m
<1>5. MayMove(t, "escrowed", m)
  BY <1>1, <1>2, <1>3 DEF MayMove, Gone, InTry, Settling, Early, Between
<1>6. "escrowed" \in Points /\ "escrow" \in Kinds
  BY DEF Points, InTry, Kinds
<1> QED
  BY <1>1, <1>2, <1>3, <1>4, <1>5, <1>6, EmitKeeps

LEMMA SaveEscrowedKeeps ==
    ASSUME PipelineInv, NEW t \in Tasks, SaveEscrowed(t)
    PROVE  PipelineInv'
<1>1. /\ TypeOK /\ TaskInv(t) /\ pc[t] = "escrowed"
      /\ UNCHANGED <<cands, attempt>>
  BY DEF PipelineInv, SaveEscrowed, Turn
<1>2. attempt[t] > 0 /\ mem[t].status = "escrowed"
  BY <1>1 DEF TaskInv, AttemptStarted, SettledFrame, HoldTaken, InTry
<1>3. mem[t] \in TaskOut /\ "invoking" \in Points
  BY <1>1, TaskTypes DEF Points, InTry
<1>4. MayMove(t, "invoking", mem[t])
  BY <1>1, <1>2 DEF MayMove, Gone, InTry, Settling, Early, Between
<1>5. UpdateTask(t, mem[t], "invoking")
  BY DEF SaveEscrowed
<1> QED
  BY <1>1, <1>2, <1>3, <1>4, <1>5, UpdateKeeps

LEMMA SaveInvokingKeeps ==
    ASSUME PipelineInv, NEW t \in Tasks, SaveInvoking(t)
    PROVE  PipelineInv'
<1> DEFINE m == [mem[t] EXCEPT !.status = "invoking"]
<1>1. /\ TypeOK /\ TaskInv(t) /\ pc[t] = "invoking"
      /\ UNCHANGED <<cands, attempt>>
  BY DEF PipelineInv, SaveInvoking, Turn
<1>2. attempt[t] > 0
  BY <1>1 DEF TaskInv, AttemptStarted, HoldTaken, InTry
<1>3. mem[t] \in TaskOut
  BY <1>1, TaskTypes
<1>4. m \in TaskOut /\ m.status # "completed" /\ "invoke" \in Points
  BY <1>3 DEF TaskOut, InProgress, Points, InTry
<1>5. UpdateTask(t, m, "invoke")
  BY DEF SaveInvoking
<1> HIDE DEF m
<1>6. MayMove(t, "invoke", m)
  BY <1>1, <1>2 DEF MayMove, Gone, InTry, Settling, Early, Between
<1> QED
  BY <1>1, <1>4, <1>5, <1>6, UpdateKeeps

LEMMA AnnounceInvokeKeeps ==
    ASSUME PipelineInv, NEW t \in Tasks, AnnounceInvoke(t)
    PROVE  PipelineInv'
<1>1. PICK at \in {"accepted", "rejected"} :
          /\ Turn(t, at)
          /\ Emit(t, "invoke", attempt[t],
                  IF at = "accepted" THEN "release" ELSE "refund", mem[t])
  BY DEF AnnounceInvoke
<1> DEFINE next == IF at = "accepted" THEN "release" ELSE "refund"
<1>2. /\ TypeOK /\ TaskInv(t) /\ pc[t] = at
      /\ UNCHANGED <<cands, attempt>>
  BY <1>1 DEF PipelineInv, AnnounceInvoke, Turn
<1>3. attempt[t] \in 0 .. MaxAttempts /\ attempt[t] > 0
  BY <1>2, InAttempt DEF HoldTaken, InTry, Slots
<1>4. mem[t] \in TaskOut
  BY <1>2, TaskTypes
<1>5. next \in Points /\ "invoke" \in Kinds
  BY DEF Points, InTry, Kinds
<1>6. at = "accepted" => <<t, attempt[t]>> \in served
  BY <1>2 DEF TaskInv, SettledFrame
<1>7. MayMove(t, next, mem[t])
  BY <1>2, <1>3, <1>6 DEF MayMove, Gone, InTry, Settling, Early, Between
<1>8. Emit(t, "invoke", attempt[t], next, mem[t])
  BY <1>1
<1> QED
  BY <1>2, <1>3, <1>4, <1>5, <1>7, <1>8, EmitKeeps

LEMMA AnnounceSettleKeeps ==
    ASSUME PipelineInv, NEW t \in Tasks, AnnounceSettle(t)
    PROVE  PipelineInv'
<1> DEFINE m == AddHop(mem[t], "settle", Candidate(t), TRUE)
<1>1. /\ TypeOK /\ TaskInv(t) /\ pc[t] = "settled"
      /\ UNCHANGED <<cands, attempt>>
  BY DEF PipelineInv, AnnounceSettle, Turn
<1>2. /\ attempt[t] \in 0 .. MaxAttempts /\ Candidate(t) \in Agents
      /\ attempt[t] > 0
  BY <1>1, InAttempt DEF HoldTaken, InTry, Slots
<1>3. m \in TaskOut /\ m.agent = mem[t].agent /\ m.spent = mem[t].spent
  BY <1>1, <1>2, TaskTypes, AddHopType
<1>4. Emit(t, "settle", attempt[t], "closing", m)
  BY DEF AnnounceSettle
<1> HIDE DEF m
<1>5. MayMove(t, "closing", m)
  BY <1>1, <1>2, <1>3 DEF MayMove, Gone, InTry, Settling, Early, Between
<1>6. "closing" \in Points /\ "settle" \in Kinds
  BY DEF Points, Kinds
<1> QED
  BY <1>1, <1>2, <1>3, <1>4, <1>5, <1>6, EmitKeeps

LEMMA FailExhaustedKeeps ==
    ASSUME PipelineInv, NEW t \in Tasks, FailExhausted(t)
    PROVE  PipelineInv'
<1> DEFINE m == [mem[t] EXCEPT !.status = "failed", !.done = TRUE]
<1>1. /\ TypeOK /\ TaskInv(t) /\ pc[t] = "next"
      /\ UNCHANGED <<cands, attempt>>
  BY DEF PipelineInv, FailExhausted, Turn
<1>2. mem[t] \in TaskOut
  BY <1>1, TaskTypes
<1>3. m \in TaskOut /\ m.status # "completed" /\ "failing" \in Points
  BY <1>2 DEF TaskOut, Terminal, Points
<1>4. UpdateTask(t, m, "failing")
  BY DEF FailExhausted
<1> HIDE DEF m
<1>5. MayMove(t, "failing", m)
  BY <1>1 DEF MayMove, Gone, InTry, Settling, Early, Between, HoldTaken
<1> QED
  BY <1>1, <1>3, <1>4, <1>5, UpdateKeeps

\* An answer to an await that moves the request on.
LEMMA ReplyKeeps ==
    ASSUME PipelineInv, NEW t \in Tasks, NEW next \in Points,
           NEW m \in TaskOut, MayMove(t, next, m), Continue(t, next, m),
           UNCHANGED <<db, cands, attempt, up, sweep, world, faults>>
    PROVE  PipelineInv'
<1>1. TypeOK /\ TaskInv(t)
  BY DEF PipelineInv
<1>2. /\ UNCHANGED <<row, holds, feed, cands, attempt, up, sweep, faults>>
      /\ UNCHANGED <<stale, served, crashes>>
  BY DEF db, world
<1>3. /\ pc' \in [Tasks -> Points]
      /\ mem' \in [Tasks -> TaskOut]
      /\ running' \in [Procs -> SUBSET Tasks]
      /\ pc'[t] = next /\ mem'[t] = m
      /\ \A u \in Tasks \ {t} : pc'[u] = pc[u] /\ mem'[u] = mem[u]
  BY <1>1, ContinueLocal
<1>4. TypeOK'
  BY <1>1, <1>2, <1>3 DEF TypeOK
<1>5. row'[t].status # "completed"
  BY <1>1, <1>2, LiveRow DEF MayMove
<1>6. TaskInv(t)'
  BY <1>1, <1>2, <1>3, <1>5, GoesOn
<1>7. OthersKept(t)
  BY <1>2, <1>3 DEF OthersKept
<1>8. served \subseteq served' /\ faults' >= faults
  BY <1>1, <1>2 DEF TypeOK
<1> QED
  BY <1>4, <1>6, <1>7, <1>8, LocalStep

LEMMA PreflightReplyKeeps ==
    ASSUME PipelineInv, NEW t \in Tasks, PreflightReply(t)
    PROVE  PipelineInv'
<1>1. PICK ok \in BOOLEAN :
          Continue(t, IF ok THEN "healthy" ELSE "unhealthy",
                   AddHop(mem[t], "verify", Candidate(t), ok))
  BY DEF PreflightReply
<1> DEFINE next == IF ok THEN "healthy" ELSE "unhealthy"
           m == AddHop(mem[t], "verify", Candidate(t), ok)
<1>2. /\ TypeOK /\ TaskInv(t) /\ pc[t] = "preflight"
      /\ UNCHANGED <<db, cands, attempt, up, sweep, world, faults>>
  BY DEF PipelineInv, PreflightReply, Turn
<1>3. Candidate(t) \in Agents /\ attempt[t] > 0
  BY <1>2, InAttempt DEF Between, Slots
<1>4. m \in TaskOut
  BY <1>2, <1>3, TaskTypes, AddHopType
<1>5. Continue(t, next, m)
  BY <1>1
<1>6. next \in Points
  BY DEF Points
<1> HIDE DEF m
<1>7. MayMove(t, next, m)
  BY <1>2, <1>3 DEF MayMove, Gone, InTry, Settling, Early, Between, HoldTaken
<1> QED
  BY <1>2, <1>4, <1>5, <1>6, <1>7, ReplyKeeps

LEMMA InvokeReplyKeeps ==
    ASSUME PipelineInv, NEW t \in Tasks, InvokeReply(t)
    PROVE  PipelineInv'
<1>1. PICK ok \in BOOLEAN :
          /\ ok => <<t, attempt[t]>> \in served
          /\ Continue(t, IF ok THEN "accepted" ELSE "rejected",
                      AddHop(mem[t], "invoke", Candidate(t), ok))
  BY DEF InvokeReply
<1> DEFINE next == IF ok THEN "accepted" ELSE "rejected"
           m == AddHop(mem[t], "invoke", Candidate(t), ok)
<1>2. /\ TypeOK /\ TaskInv(t) /\ pc[t] = "invoke"
      /\ UNCHANGED <<db, cands, attempt, up, sweep, world, faults>>
  BY DEF PipelineInv, InvokeReply, Turn
<1>3. Candidate(t) \in Agents /\ attempt[t] > 0
  BY <1>2, InAttempt DEF HoldTaken, InTry, Slots
<1>4. m \in TaskOut
  BY <1>2, <1>3, TaskTypes, AddHopType
<1>5. Continue(t, next, m)
  BY <1>1
<1>6. next \in Points
  BY DEF Points, InTry
<1> HIDE DEF m
<1>7. MayMove(t, next, m)
  BY <1>1, <1>2, <1>3 DEF MayMove, Gone, InTry, Settling, Early, Between
<1> QED
  BY <1>2, <1>4, <1>5, <1>6, <1>7, ReplyKeeps

LEMMA DiscoverReplyKeeps ==
    ASSUME PipelineInv, NEW t \in Tasks, DiscoverReply(t)
    PROVE  PipelineInv'
<1>1. PICK found \in MatchLists(t) :
          cands' = [cands EXCEPT ![t] = Candidates(found)]
  BY DEF DiscoverReply
<1>2. /\ Candidates(found) \in Seq(Agents)
      /\ Len(Candidates(found)) <= MaxAttempts
      /\ \A i \in 1 .. Len(Candidates(found)) :
             Candidates(found)[i] \in Offered(t)
  BY CandidatesAreOffers
<1>3. /\ TypeOK /\ TaskInv(t) /\ pc[t] = "discover" /\ mem[t] \in TaskOut
      /\ Continue(t, "next", mem[t]) /\ "next" \in Points
  BY TaskTypes DEF PipelineInv, DiscoverReply, Turn, Points
<1>4. /\ UNCHANGED <<row, holds, feed, attempt, up, sweep, faults>>
      /\ UNCHANGED <<stale, served, crashes>>
  BY DEF DiscoverReply, db, world
<1>5. /\ pc' \in [Tasks -> Points]
      /\ mem' \in [Tasks -> TaskOut]
      /\ running' \in [Procs -> SUBSET Tasks]
      /\ pc'[t] = "next" /\ mem'[t] = mem[t]
      /\ \A u \in Tasks \ {t} : pc'[u] = pc[u] /\ mem'[u] = mem[u]
  BY <1>3, ContinueLocal
<1>6. attempt[t] = 0
  BY <1>3 DEF TaskInv, AttemptStarted
<1>7. /\ cands'[t] = Candidates(found)
      /\ \A u \in Tasks \ {t} : cands'[u] = cands[u]
      /\ cands' \in [Tasks -> Seq(Agents)]
  BY <1>1, <1>2, <1>3 DEF TypeOK
<1>8. \A u \in Tasks : /\ Len(cands'[u]) <= MaxAttempts
                       /\ attempt'[u] <= Len(cands'[u])
  <2>1. Len(Candidates(found)) \in Nat
    BY <1>2
  <2>2. Len(cands'[t]) <= MaxAttempts /\ attempt'[t] <= Len(cands'[t])
    BY <1>2, <1>4, <1>6, <1>7, <2>1
  <2>3. \A u \in Tasks \ {t} : /\ Len(cands'[u]) <= MaxAttempts
                               /\ attempt'[u] <= Len(cands'[u])
    BY <1>3, <1>4, <1>7 DEF TypeOK
  <2> QED
    BY <2>2, <2>3
<1>9. TypeOK'
  BY <1>3, <1>4, <1>5, <1>7, <1>8 DEF TypeOK
<1>10. TaskInv(t)'
  <2>1. row'[t].status # "completed"
    BY <1>3, <1>4, LiveRow DEF Gone
  <2>2. SlotsFollowFrame(t)'
    BY <1>3, <1>4, <1>5, <1>6
       DEF TaskInv, SlotsFollowFrame, Live, InTry, Gone, Slots
  <2>3. AttemptStarted(t)' /\ CleanupHold(t)' /\ SettledFrame(t)'
    BY <1>5, <2>1 DEF AttemptStarted, CleanupHold, SettledFrame, HoldTaken,
                      InTry
  <2>4. HoldIsOffer(t)'
    BY <1>2, <1>3, <1>4, <1>5, <1>7
       DEF TaskInv, HoldIsOffer, Offered, Price, HoldTaken, InTry
  <2>5. Guarded(t)' /\ Exposure(t)'
    BY <1>3, <1>4, <1>5 DEF TaskInv, Guarded, Exposure, Live, InTry
  <2> QED
    BY <2>1, <2>2, <2>3, <2>4, <2>5 DEF TaskInv
<1>11. OthersKept(t)
  BY <1>4, <1>5, <1>7 DEF OthersKept
<1>12. served \subseteq served' /\ faults' >= faults
  BY <1>3, <1>4 DEF TypeOK
<1> QED
  BY <1>9, <1>10, <1>11, <1>12, LocalStep

----------------------------------------------------------------------------
(* Steps that end a request, start an attempt or touch its hold             *)

\* What is left to show where the request is over.
LEMMA GoneInv ==
    ASSUME NEW t \in Tasks, pc'[t] \in Gone,
           \A i \in 1 .. Len(cands'[t]) : cands'[t][i] \in Offered(t)',
           \A j \in Slots : holds'[t][j].amount <= Budget[t],
           Guarded(t)', Exposure(t)',
           row'[t].status = "completed" =>
               pc'[t] \in {"ended", "raised"} /\ Paid(t)'
    PROVE  TaskInv(t)'
<1> USE DEF Gone
<1>1. SlotsFollowFrame(t)'
  BY DEF SlotsFollowFrame
<1>2. AttemptStarted(t)' /\ CleanupHold(t)'
  BY DEF AttemptStarted, CleanupHold, HoldTaken, InTry
<1>3. HoldIsOffer(t)'
  BY DEF HoldIsOffer, HoldTaken, InTry
<1>4. SettledFrame(t)'
  BY DEF SettledFrame
<1> QED
  BY <1>1, <1>2, <1>3, <1>4 DEF TaskInv

\* Outside an attempt that has its hold, nothing of the task is kept.
LEMMA NothingKept ==
    ASSUME TypeOK, NEW t \in Tasks, TaskInv(t), pc[t] \in Early \union Between
    PROVE  /\ \A j \in Slots : ~Live(holds[t][j])
           /\ \A j \in Slots : j > attempt[t] => holds[t][j].status = "none"
<1>1. pc[t] \notin Gone
  BY DEF Gone, Early, Between
<1>2. \A j \in Slots : j > attempt[t] => holds[t][j].status = "none"
  BY <1>1 DEF TaskInv, SlotsFollowFrame
<1>3. attempt[t] \in Nat
  BY DEF TypeOK
<1>4. \A j \in Slots : j <= attempt[t] => ~Live(holds[t][j])
  <2>1. CASE pc[t] \in Between
    BY <1>1, <1>3, <2>1 DEF TaskInv, SlotsFollowFrame, Slots, Between
  <2>2. CASE pc[t] \in Early
    BY <1>3, <2>2 DEF TaskInv, AttemptStarted, Early, Slots
  <2> QED
    BY <2>1, <2>2
<1> QED
  BY <1>2, <1>3, <1>4 DEF Live, Slots

LEMMA StartAttemptKeeps ==
    ASSUME PipelineInv, NEW t \in Tasks, StartAttempt(t)
    PROVE  PipelineInv'
<1> DEFINE m == [mem[t] EXCEPT !.status = "verifying"]
<1>1. /\ TypeOK /\ TaskInv(t) /\ pc[t] = "next"
      /\ cands' = cands /\ attempt[t] < Len(cands[t])
      /\ attempt' = [attempt EXCEPT ![t] = @ + 1]
      /\ UpdateTask(t, m, "preflight")
  BY DEF PipelineInv, StartAttempt, Turn
<1>2. m \in TaskOut /\ m.status # "completed" /\ "preflight" \in Points
  <2>1. mem[t] \in TaskOut
    BY <1>1, TaskTypes
  <2> QED
    BY <2>1 DEF TaskOut, InProgress, Points
<1>3. /\ attempt \in [Tasks -> Nat]
      /\ Len(cands[t]) \in Nat
      /\ cands \in [Tasks -> Seq(Agents)]
  BY <1>1 DEF TypeOK
<1>4. /\ attempt' \in [Tasks -> Nat]
      /\ attempt'[t] = attempt[t] + 1
      /\ attempt'[t] <= Len(cands[t])
      /\ \A u \in Tasks \ {t} : attempt'[u] = attempt[u]
  BY <1>1, <1>3
<1> HIDE DEF m
<1>5. /\ TypeOK'
      /\ OthersKept(t)
      /\ LocalOutcome(t, m, holds[t], "preflight", m)
      /\ served' = served
      /\ faults' >= faults
  BY <1>1, <1>2, <1>4, UpdateStep
<1>6. /\ row'[t].status # "completed" /\ holds'[t] = holds[t]
      /\ cands'[t] = cands[t]
  <2>1. row[t].status # "completed"
    BY <1>1, LiveRow DEF Gone
  <2> QED
    BY <1>1, <1>2, <1>5, <2>1 DEF LocalOutcome
<1>7. /\ \A j \in Slots : ~Live(holds[t][j])
      /\ \A j \in Slots : j > attempt[t] => holds[t][j].status = "none"
  BY <1>1, NothingKept DEF Between
<1>8. Guarded(t)' /\ Exposure(t)'
  BY <1>6, <1>7 DEF Guarded, Exposure, Live
<1>9. CASE pc'[t] = "preflight"
  <2>1. SlotsFollowFrame(t)'
    BY <1>3, <1>4, <1>6, <1>7, <1>9
       DEF SlotsFollowFrame, Live, InTry, Slots
  <2>2. AttemptStarted(t)' /\ CleanupHold(t)'
    BY <1>3, <1>4, <1>9 DEF AttemptStarted, CleanupHold
  <2>3. HoldIsOffer(t)' /\ SettledFrame(t)'
    BY <1>1, <1>6, <1>9
       DEF TaskInv, HoldIsOffer, SettledFrame, HoldTaken, InTry
  <2> QED
    BY <1>6, <1>8, <2>1, <2>2, <2>3, <1>5, LocalStep DEF TaskInv
<1>10. CASE pc'[t] = "raised"
  <2>1. /\ \A i \in 1 .. Len(cands'[t]) : cands'[t][i] \in Offered(t)'
        /\ \A j \in Slots : holds'[t][j].amount <= Budget[t]
    BY <1>1, <1>6 DEF TaskInv, HoldIsOffer, Offered, Price
  <2>2. TaskInv(t)'
    BY <1>6, <1>8, <1>10, <2>1, GoneInv DEF Gone
  <2> QED
    BY <1>5, <2>2, LocalStep
<1> QED
  BY <1>1, <1>5, <1>9, <1>10 DEF LocalOutcome, InTry

LEMMA HoldKeeps ==
    ASSUME PipelineInv, NEW t \in Tasks, Hold(t)
    PROVE  PipelineInv'
<1> DEFINE hold == [status |-> "held", agent |-> Candidate(t),
                    amount |-> Price(t, Candidate(t))]
           y == [holds[t] EXCEPT ![attempt[t]] = hold]
           m == [mem[t] EXCEPT !.status = "escrowed"]
<1>1. /\ TypeOK /\ TaskInv(t) /\ pc[t] = "hold"
      /\ UNCHANGED <<cands, attempt>>
      /\ Execute(t, row, [holds EXCEPT ![t][attempt[t]] = hold], feed, "held",
                 m)
  BY DEF PipelineInv, Hold, Turn
<1>2. /\ attempt[t] \in Slots
      /\ Candidate(t) \in Agents
      /\ Price(t, Candidate(t)) \in Nat
      /\ Price(t, Candidate(t)) <= Budget[t]
  BY <1>1, InAttempt DEF Between
<1>3. /\ row[t] \in TaskOut /\ mem[t] \in TaskOut
      /\ holds[t] \in [Slots -> EscrowHold]
      /\ attempt \in [Tasks -> Nat]
      /\ attempt[t] <= Len(cands[t])
  BY <1>1, TaskTypes
<1>4. /\ hold \in EscrowHold
      /\ hold.status = "held" /\ hold.agent = Candidate(t)
      /\ hold.amount = Price(t, Candidate(t))
  BY <1>2 DEF EscrowHold
<1> HIDE DEF hold
<1>5. /\ y \in [Slots -> EscrowHold]
      /\ y[attempt[t]] = hold
      /\ \A j \in Slots \ {attempt[t]} : y[j] = holds[t][j]
  BY <1>2, <1>3, <1>4
<1>6. m \in TaskOut /\ m.status = "escrowed" /\ "held" \in Points
  BY <1>3 DEF TaskOut, InProgress, Points, InTry
<1>7. /\ row = [row EXCEPT ![t] = row[t]]
      /\ [holds EXCEPT ![t][attempt[t]] = hold] = [holds EXCEPT ![t] = y]
      /\ feed \in [Tasks -> SUBSET (Kinds \X (0 .. MaxAttempts))]
  BY <1>1 DEF TypeOK
<1>8. Execute(t, [row EXCEPT ![t] = row[t]], [holds EXCEPT ![t] = y], feed,
              "held", m)
  BY <1>1, <1>7
<1> HIDE DEF m, y
<1>9. /\ TypeOK'
      /\ OthersKept(t)
      /\ LocalOutcome(t, row[t], y, "held", m)
      /\ served' = served
      /\ faults' >= faults
  BY <1>1, <1>3, <1>5, <1>6, <1>7, <1>8, StatementStep
<1>10. /\ \A j \in Slots : ~Live(holds[t][j])
       /\ \A j \in Slots : j > attempt[t] => holds[t][j].status = "none"
  BY <1>1, NothingKept DEF Between
<1>11. row'[t].status # "completed" /\ cands'[t] = cands[t]
       /\ attempt'[t] = attempt[t]
  BY <1>1, <1>9, LiveRow DEF LocalOutcome, Gone
<1>12. /\ \A i \in 1 .. Len(cands'[t]) : cands'[t][i] \in Offered(t)'
       /\ \A j \in Slots : holds[t][j].amount <= Budget[t]
  BY <1>1, <1>11 DEF TaskInv, HoldIsOffer, Offered, Price
<1>13. CASE holds'[t] = y
  <2>1. /\ \A j \in Slots : holds'[t][j].amount <= Budget[t]
        /\ Exposure(t)'
        /\ \A j \in Slots : holds'[t][j].status = "held" => j = attempt[t]
    <3>1. /\ holds'[t][attempt[t]] = hold
          /\ \A j \in Slots \ {attempt[t]} : holds'[t][j] = holds[t][j]
      BY <1>5, <1>13
    <3>2. \A j \in Slots \ {attempt[t]} : ~Live(holds'[t][j])
      BY <1>10, <3>1
    <3>3. \A j \in Slots : holds'[t][j].amount <= Budget[t]
      BY <1>2, <1>4, <1>12, <3>1
    <3>4. Exposure(t)'
      BY <3>2, <3>3 DEF Exposure
    <3>5. \A j \in Slots : holds'[t][j].status = "held" => j = attempt[t]
      BY <3>2 DEF Live
    <3> QED
      BY <3>3, <3>4, <3>5
  <2>2. CASE pc'[t] = "held" /\ mem'[t] = m
    <3>1. SlotsFollowFrame(t)'
      <4>1. holds'[t][attempt[t]].status = "held"
        BY <1>4, <1>5, <1>13
      <4>2. \A j \in Slots \ {attempt[t]} : holds'[t][j] = holds[t][j]
        BY <1>5, <1>13
      <4>3. attempt[t] \in Nat /\ Slots \subseteq Nat
        BY <1>2 DEF Slots
      <4> QED
        BY <1>10, <1>11, <2>2, <4>1, <4>2, <4>3 DEF SlotsFollowFrame, Live
    <3>2. AttemptStarted(t)' /\ CleanupHold(t)'
      BY <1>2, <1>11, <2>2 DEF AttemptStarted, CleanupHold, Slots
    <3>3. HoldIsOffer(t)'
      BY <1>4, <1>5, <1>11, <1>12, <1>13, <2>1, <2>2
         DEF HoldIsOffer, Candidate, Price
    <3>4. SettledFrame(t)' /\ Guarded(t)'
      BY <1>6, <1>11, <2>1, <2>2 DEF SettledFrame, Guarded, InTry
    <3> QED
      BY <1>9, <1>11, <2>1, <3>1, <3>2, <3>3, <3>4, LocalStep DEF TaskInv
  <2>3. CASE pc'[t] = "raised" /\ faults' > 0
    <3>1. Guarded(t)'
      BY <2>3 DEF Guarded
    <3>2. TaskInv(t)'
      BY <1>11, <1>12, <2>1, <2>3, <3>1, GoneInv DEF Gone
    <3> QED
      BY <1>9, <3>2, LocalStep
  <2> QED
    BY <1>1, <1>9, <2>2, <2>3 DEF LocalOutcome, InTry
<1>14. CASE holds'[t] = holds[t] /\ pc'[t] = "raised"
  <2>1. Guarded(t)' /\ Exposure(t)'
    BY <1>10, <1>14 DEF Guarded, Exposure, Live
  <2>2. TaskInv(t)'
    BY <1>11, <1>12, <1>14, <2>1, GoneInv DEF Gone
  <2> QED
    BY <1>9, <2>2, LocalStep
<1> QED
  BY <1>1, <1>9, <1>13, <1>14 DEF LocalOutcome, InTry

\* The holds of t once the current one has the status s.
WithStatus(t, s) == [holds[t] EXCEPT ![attempt[t]].status = s]

\* In the try, the current hold is held and the others are not kept; settling
\* it keeps it within the budget and the only one.
LEMMA SettlingKeepsLedger ==
    ASSUME TypeOK, NEW t \in Tasks, TaskInv(t), pc[t] \in InTry,
           NEW s \in {"released", "refunded"}
    PROVE  /\ attempt[t] \in Slots
           /\ holds[t][attempt[t]].status = "held"
           /\ \A j \in Slots \ {attempt[t]} : ~Live(holds[t][j])
           /\ WithStatus(t, s)[attempt[t]] =
                  [holds[t][attempt[t]] EXCEPT !.status = s]
           /\ WithStatus(t, s)[attempt[t]].status = s
           /\ WithStatus(t, s)[attempt[t]].agent = holds[t][attempt[t]].agent
           /\ WithStatus(t, s)[attempt[t]].amount = holds[t][attempt[t]].amount
           /\ \A j \in Slots \ {attempt[t]} : WithStatus(t, s)[j] = holds[t][j]
<1>1. attempt[t] \in Slots
  BY InAttempt DEF HoldTaken
<1>2. holds[t][attempt[t]].status = "held"
  BY <1>1 DEF TaskInv, SlotsFollowFrame, InTry, Gone
<1>3. \A j \in Slots \ {attempt[t]} : ~Live(holds[t][j])
  BY <1>1, <1>2 DEF TaskInv, Exposure, Live
<1>4. holds[t] \in [Slots -> EscrowHold]
  BY TaskTypes
<1>5. holds[t][attempt[t]] \in EscrowHold
  BY <1>1, <1>4
<1>6. /\ WithStatus(t, s)[attempt[t]] =
             [holds[t][attempt[t]] EXCEPT !.status = s]
      /\ \A j \in Slots \ {attempt[t]} : WithStatus(t, s)[j] = holds[t][j]
  BY <1>1, <1>4 DEF WithStatus
<1> QED
  BY <1>1, <1>2, <1>3, <1>5, <1>6 DEF EscrowHold

\* A settlement that raises, its effect done or not, leads to the finally.
LEMMA SettlingRaises ==
    ASSUME TypeOK, NEW t \in Tasks, TaskInv(t), pc[t] \in InTry,
           NEW s \in {"released", "refunded"},
           holds'[t] \in {holds[t], WithStatus(t, s)},
           pc'[t] = "cleanup", faults' > 0, row'[t].status # "completed",
           cands'[t] = cands[t], attempt'[t] = attempt[t]
    PROVE  TaskInv(t)'
<1>1. /\ attempt[t] \in Slots
      /\ holds[t][attempt[t]].status = "held"
      /\ \A j \in Slots \ {attempt[t]} : ~Live(holds[t][j])
      /\ WithStatus(t, s)[attempt[t]].status = s
      /\ WithStatus(t, s)[attempt[t]].amount = holds[t][attempt[t]].amount
      /\ \A j \in Slots \ {attempt[t]} : WithStatus(t, s)[j] = holds[t][j]
  BY SettlingKeepsLedger
<1>2. /\ holds'[t][attempt[t]].status \in {"held", s}
      /\ holds'[t][attempt[t]].amount = holds[t][attempt[t]].amount
      /\ \A j \in Slots \ {attempt[t]} : holds'[t][j] = holds[t][j]
  BY <1>1
<1> HIDE DEF WithStatus
<1>3. attempt[t] \in Nat /\ Slots \subseteq Nat
  BY <1>1 DEF Slots
<1>4. SlotsFollowFrame(t)'
  <2>1. pc[t] \notin Gone
    BY DEF InTry, Gone
  <2>2. \A j \in Slots : /\ j > attempt[t] => holds[t][j].status = "none"
                         /\ j < attempt[t] => ~Live(holds[t][j])
    BY <2>1 DEF TaskInv, SlotsFollowFrame
  <2> QED
    BY <1>2, <1>3, <2>2 DEF SlotsFollowFrame, Live, InTry
<1>5. AttemptStarted(t)' /\ SettledFrame(t)'
  BY <1>1 DEF AttemptStarted, SettledFrame, Slots
<1>6. \A j \in Slots : holds'[t][j].amount <= Budget[t]
  BY <1>2 DEF TaskInv, HoldIsOffer
<1>7. HoldIsOffer(t)'
  BY <1>6 DEF TaskInv, HoldIsOffer, HoldTaken, InTry
<1>8. CleanupHold(t)' /\ Guarded(t)'
  <2>1. CleanupHold(t)'
    BY <1>2 DEF CleanupHold
  <2>2. Guarded(t)'
    BY <1>1, <1>2 DEF Guarded, Live
  <2> QED
    BY <2>1, <2>2
<1>9. Exposure(t)'
  BY <1>1, <1>2, <1>6 DEF Exposure, Live
<1> QED
  BY <1>4, <1>5, <1>7, <1>8, <1>9 DEF TaskInv

LEMMA ReleaseKeeps ==
    ASSUME PipelineInv, NEW t \in Tasks, Release(t)
    PROVE  PipelineInv'
<1> DEFINE m == [mem[t] EXCEPT !.spent = Price(t, Candidate(t)),
                               !.agent = Candidate(t),
                               !.status = "completed"]
           y == WithStatus(t, "released")
<1>1. /\ TypeOK /\ TaskInv(t) /\ pc[t] = "release"
      /\ UNCHANGED <<cands, attempt>>
      /\ Execute(t, row, Settled(t, "released"), feed, "settled", m)
  BY DEF PipelineInv, Release, Turn
<1>2. pc[t] \in InTry
  BY <1>1 DEF InTry
<1>3. /\ attempt[t] \in Slots
      /\ Candidate(t) \in Agents
      /\ Price(t, Candidate(t)) \in Nat
      /\ mem[t] \in TaskOut
  BY <1>1, <1>2, InAttempt, TaskTypes DEF HoldTaken
<1>4. m \in TaskOut /\ m.agent = Candidate(t)
      /\ m.spent = Price(t, Candidate(t)) /\ "settled" \in Points
  BY <1>3 DEF TaskOut, Terminal, Points
<1> HIDE DEF m
<1>5. /\ TypeOK'
      /\ OthersKept(t)
      /\ LocalOutcome(t, row[t], y, "settled", m)
      /\ served' = served
      /\ faults' >= faults
  BY <1>1, <1>3, <1>4, SettleStep DEF WithStatus
<1>6. /\ row'[t].status # "completed"
      /\ cands'[t] = cands[t] /\ attempt'[t] = attempt[t]
  BY <1>1, <1>5, LiveRow DEF LocalOutcome, Gone
<1>7. CASE pc'[t] = "settled" /\ mem'[t] = m /\ holds'[t] = y
  <2>1. /\ \A j \in Slots \ {attempt[t]} : ~Live(holds'[t][j])
        /\ holds'[t][attempt[t]].status = "released"
        /\ holds'[t][attempt[t]].agent = holds[t][attempt[t]].agent
        /\ holds'[t][attempt[t]].amount = holds[t][attempt[t]].amount
        /\ \A j \in Slots \ {attempt[t]} : holds'[t][j] = holds[t][j]
    <3>1. /\ \A j \in Slots \ {attempt[t]} : ~Live(holds[t][j])
          /\ y[attempt[t]].status = "released"
          /\ y[attempt[t]].agent = holds[t][attempt[t]].agent
          /\ y[attempt[t]].amount = holds[t][attempt[t]].amount
          /\ \A j \in Slots \ {attempt[t]} : y[j] = holds[t][j]
      BY <1>1, <1>2, SettlingKeepsLedger
    <3> HIDE DEF y
    <3> QED
      BY <1>7, <3>1
  <2>2. attempt[t] \in Nat /\ Slots \subseteq Nat
    BY <1>3 DEF Slots
  <2>3. SlotsFollowFrame(t)'
    <3>1. \A j \in Slots : /\ j > attempt[t] => holds[t][j].status = "none"
                           /\ j < attempt[t] => ~Live(holds[t][j])
      BY <1>1 DEF TaskInv, SlotsFollowFrame, Gone
    <3> QED
      BY <1>6, <1>7, <2>1, <2>2, <3>1 DEF SlotsFollowFrame, Live, InTry
  <2>4. AttemptStarted(t)' /\ CleanupHold(t)'
    BY <1>3, <1>6, <1>7 DEF AttemptStarted, CleanupHold, Slots
  <2>5. \A j \in Slots : holds'[t][j].amount <= Budget[t]
    BY <1>1, <2>1 DEF TaskInv, HoldIsOffer
  <2>6. HoldIsOffer(t)'
    BY <1>1, <1>2, <1>6, <1>7, <2>1, <2>5
       DEF TaskInv, HoldIsOffer, HoldTaken, Candidate, Price, Offered
  <2>7. SettledFrame(t)'
    BY <1>1, <1>4, <1>5, <1>6, <1>7
       DEF TaskInv, SettledFrame, Candidate, Price
  <2>8. Guarded(t)' /\ Exposure(t)'
    BY <2>1, <2>5 DEF Guarded, Exposure, Live
  <2> QED
    BY <1>5, <1>6, <2>3, <2>4, <2>6, <2>7, <2>8, LocalStep DEF TaskInv
<1>8. CASE /\ pc'[t] = "cleanup" /\ faults' > 0
           /\ holds'[t] \in {holds[t], y}
  BY <1>1, <1>2, <1>5, <1>6, <1>8, SettlingRaises, LocalStep
<1> QED
  BY <1>2, <1>5, <1>7, <1>8 DEF LocalOutcome

LEMMA RefundKeeps ==
    ASSUME PipelineInv, NEW t \in Tasks, Refund(t)
    PROVE  PipelineInv'
<1> DEFINE y == WithStatus(t, "refunded")
<1>1. /\ TypeOK /\ TaskInv(t) /\ pc[t] = "refund"
      /\ UNCHANGED <<cands, attempt>>
      /\ Execute(t, row, Settled(t, "refunded"), feed, "next", mem[t])
  BY DEF PipelineInv, Refund, Turn
<1>2. pc[t] \in InTry
  BY <1>1 DEF InTry
<1>3. attempt[t] \in Slots /\ mem[t] \in TaskOut /\ "next" \in Points
  BY <1>1, <1>2, InAttempt, TaskTypes DEF HoldTaken, Points
<1>4. /\ TypeOK'
      /\ OthersKept(t)
      /\ LocalOutcome(t, row[t], y, "next", mem[t])
      /\ served' = served
      /\ faults' >= faults
  BY <1>1, <1>3, SettleStep DEF WithStatus
<1>5. /\ row'[t].status # "completed"
      /\ cands'[t] = cands[t] /\ attempt'[t] = attempt[t]
  BY <1>1, <1>4, LiveRow DEF LocalOutcome, Gone
<1>6. CASE pc'[t] = "next" /\ holds'[t] = y
  <2>1. /\ \A j \in Slots : ~Live(holds'[t][j])
        /\ holds'[t][attempt[t]].amount = holds[t][attempt[t]].amount
        /\ \A j \in Slots \ {attempt[t]} : holds'[t][j] = holds[t][j]
    <3>1. /\ \A j \in Slots \ {attempt[t]} : ~Live(holds[t][j])
          /\ y[attempt[t]].status = "refunded"
          /\ y[attempt[t]].amount = holds[t][attempt[t]].amount
          /\ \A j \in Slots \ {attempt[t]} : y[j] = holds[t][j]
      BY <1>1, <1>2, SettlingKeepsLedger
    <3> HIDE DEF y
    <3> QED
      BY <1>6, <3>1 DEF Live
  <2>2. attempt[t] \in Nat /\ Slots \subseteq Nat
    BY <1>3 DEF Slots
  <2>3. SlotsFollowFrame(t)'
    <3>1. \A j \in Slots : j > attempt[t] => holds[t][j].status = "none"
      BY <1>1 DEF TaskInv, SlotsFollowFrame, Gone
    <3> QED
      BY <1>5, <1>6, <2>1, <2>2, <3>1 DEF SlotsFollowFrame, InTry
  <2>4. AttemptStarted(t)' /\ CleanupHold(t)' /\ SettledFrame(t)'
    BY <1>5, <1>6 DEF AttemptStarted, CleanupHold, SettledFrame, HoldTaken,
                      InTry
  <2>5. \A j \in Slots : holds'[t][j].amount <= Budget[t]
    BY <1>1, <2>1 DEF TaskInv, HoldIsOffer
  <2>6. HoldIsOffer(t)'
    BY <1>1, <1>5, <1>6, <2>5
       DEF TaskInv, HoldIsOffer, HoldTaken, InTry, Offered, Price
  <2>7. Guarded(t)' /\ Exposure(t)'
    BY <2>1 DEF Guarded, Exposure, Live
  <2> QED
    BY <1>4, <1>5, <2>3, <2>4, <2>6, <2>7, LocalStep DEF TaskInv
<1>7. CASE /\ pc'[t] = "cleanup" /\ faults' > 0
           /\ holds'[t] \in {holds[t], y}
  BY <1>1, <1>2, <1>4, <1>5, <1>7, SettlingRaises, LocalStep
<1> QED
  BY <1>2, <1>4, <1>6, <1>7 DEF LocalOutcome

LEMMA CompleteKeeps ==
    ASSUME PipelineInv, NEW t \in Tasks, Complete(t)
    PROVE  PipelineInv'
<1> DEFINE m == [mem[t] EXCEPT !.done = TRUE]
<1>1. /\ TypeOK /\ TaskInv(t) /\ pc[t] = "closing"
      /\ UNCHANGED <<cands, attempt>>
      /\ UpdateTask(t, m, "ended")
  BY DEF PipelineInv, Complete, Turn
<1>2. /\ attempt[t] \in Slots /\ mem[t] \in TaskOut
      /\ holds[t] \in [Slots -> EscrowHold]
      /\ attempt \in [Tasks -> Nat] /\ attempt[t] <= Len(cands[t])
  BY <1>1, InAttempt, TaskTypes DEF HoldTaken
<1>3. /\ m \in TaskOut /\ m.agent = mem[t].agent /\ m.spent = mem[t].spent
      /\ "ended" \in Points
  BY <1>2 DEF TaskOut, Points, Gone
<1> HIDE DEF m
<1>4. /\ TypeOK'
      /\ OthersKept(t)
      /\ LocalOutcome(t, m, holds[t], "ended", m)
      /\ served' = served
      /\ faults' >= faults
  BY <1>1, <1>2, <1>3, UpdateStep
<1>5. /\ pc'[t] \in {"ended", "raised"}
      /\ row'[t] \in {row[t], m}
      /\ holds'[t] = holds[t] /\ cands'[t] = cands[t]
  BY <1>1, <1>4 DEF LocalOutcome, InTry
<1>6. /\ holds[t][attempt[t]].status = "released"
      /\ holds[t][attempt[t]].agent = mem[t].agent
      /\ holds[t][attempt[t]].amount = mem[t].spent
      /\ <<t, attempt[t]>> \in served
      /\ \A j \in Slots \ {attempt[t]} : ~Live(holds[t][j])
  <2>1. holds[t][attempt[t]].status = "released"
    BY <1>1, <1>2 DEF TaskInv, SlotsFollowFrame, Gone
  <2>2. /\ holds[t][attempt[t]].agent = mem[t].agent
        /\ holds[t][attempt[t]].amount = mem[t].spent
        /\ <<t, attempt[t]>> \in served
    BY <1>1 DEF TaskInv, HoldIsOffer, SettledFrame, HoldTaken
  <2>3. \A j \in Slots \ {attempt[t]} : ~Live(holds[t][j])
    BY <1>1, <1>2, <2>1 DEF TaskInv, Exposure, Live
  <2> QED
    BY <2>1, <2>2, <2>3
<1>7. row'[t].status = "completed" => Paid(t)'
  <2>1. row[t].status # "completed"
    BY <1>1, LiveRow DEF Gone
  <2>2. CASE row'[t] = m
    <3>1. holds[t][attempt[t]] \in EscrowHold
      BY <1>2
    <3>2. holds[t][attempt[t]] = [status |-> "released", agent |-> m.agent,
                                  amount |-> m.spent]
      BY <1>3, <1>6, <3>1 DEF EscrowHold
    <3> QED
      BY <1>2, <1>4, <1>5, <1>6, <2>2, <3>2 DEF Paid, Live
  <2> QED
    BY <1>5, <2>1, <2>2
<1>8. Guarded(t)' /\ Exposure(t)'
  BY <1>1, <1>5, <1>6 DEF TaskInv, Guarded, Exposure, Live
<1>9. /\ \A i \in 1 .. Len(cands'[t]) : cands'[t][i] \in Offered(t)'
      /\ \A j \in Slots : holds'[t][j].amount <= Budget[t]
  BY <1>1, <1>5 DEF TaskInv, HoldIsOffer, Offered, Price
<1>10. TaskInv(t)'
  BY <1>5, <1>7, <1>8, <1>9, GoneInv DEF Gone
<1> QED
  BY <1>4, <1>10, LocalStep

LEMMA AnnounceFailureKeeps ==
    ASSUME PipelineInv, NEW t \in Tasks, AnnounceFailure(t)
    PROVE  PipelineInv'
<1>1. /\ TypeOK /\ TaskInv(t) /\ pc[t] = "failing"
      /\ UNCHANGED <<cands, attempt>>
      /\ Emit(t, "error", 0, "ended", mem[t]) /\ 0 \in 0 .. MaxAttempts
  BY DEF PipelineInv, AnnounceFailure, Turn
<1>2. mem[t] \in TaskOut /\ "ended" \in Points /\ "error" \in Kinds
  BY <1>1, TaskTypes DEF Points, Gone, Kinds
<1>3. /\ TypeOK'
      /\ OthersKept(t)
      /\ LocalOutcome(t, row[t], holds[t], "ended", mem[t])
      /\ served' = served
      /\ faults' >= faults
  BY <1>1, <1>2, EmitStep
<1>4. /\ pc'[t] \in {"ended", "raised"} /\ row'[t].status # "completed"
      /\ holds'[t] = holds[t] /\ cands'[t] = cands[t]
  BY <1>1, <1>3, LiveRow DEF LocalOutcome, InTry, Gone
<1>5. \A j \in Slots : ~Live(holds[t][j])
  BY <1>1, NothingKept DEF Between
<1>6. Guarded(t)' /\ Exposure(t)'
  BY <1>4, <1>5 DEF Guarded, Exposure, Live
<1>7. /\ \A i \in 1 .. Len(cands'[t]) : cands'[t][i] \in Offered(t)'
      /\ \A j \in Slots : holds'[t][j].amount <= Budget[t]
  BY <1>1, <1>4 DEF TaskInv, HoldIsOffer, Offered, Price
<1>8. TaskInv(t)'
  BY <1>4, <1>6, <1>7, GoneInv DEF Gone
<1> QED
  BY <1>3, <1>8, LocalStep

LEMMA AwaitRaisesKeeps ==
    ASSUME PipelineInv, NEW t \in Tasks, AwaitRaises(t)
    PROVE  PipelineInv'
<1>1. /\ TypeOK /\ TaskInv(t) /\ pc[t] \in {"discover", "preflight", "invoke"}
      /\ Raise(t)
      /\ UNCHANGED <<row, holds, feed, cands, attempt, up, sweep, faults>>
      /\ UNCHANGED <<stale, served, crashes>>
  BY DEF PipelineInv, AwaitRaises, Turn, db, world
<1>2. /\ pc' \in [Tasks -> Points]
      /\ mem' \in [Tasks -> TaskOut]
      /\ running' \in [Procs -> SUBSET Tasks]
      /\ pc'[t] = IF pc[t] \in InTry THEN "cleanup" ELSE "raised"
      /\ mem'[t] = mem[t]
      /\ \A u \in Tasks \ {t} : pc'[u] = pc[u] /\ mem'[u] = mem[u]
  BY <1>1, RaiseLocal
<1>3. TypeOK'
  BY <1>1, <1>2 DEF TypeOK
<1>4. pc[t] \notin Gone \union {"cleanup"} /\ row'[t].status # "completed"
  BY <1>1, LiveRow DEF Gone
<1>5. pc[t] \in InTry \union {"discover", "preflight"}
  BY <1>1 DEF InTry
<1>6. TaskInv(t)'
  BY <1>1, <1>2, <1>4, <1>5, RaisedInv
<1>7. OthersKept(t)
  BY <1>1, <1>2 DEF OthersKept
<1>8. faults' >= faults
  BY <1>1 DEF TypeOK
<1> QED
  BY <1>1, <1>3, <1>6, <1>7, <1>8, LocalStep

LEMMA CleanupKeeps ==
    ASSUME PipelineInv, NEW t \in Tasks, Cleanup(t)
    PROVE  PipelineInv'
<1>1. /\ TypeOK /\ TaskInv(t) /\ pc[t] = "cleanup"
      /\ mem[t] \in TaskOut /\ "raised" \in Points
      /\ Continue(t, "raised", mem[t])
      /\ UNCHANGED <<row, feed, cands, attempt, up, sweep>>
      /\ UNCHANGED <<stale, served, crashes>>
  BY TaskTypes DEF PipelineInv, Cleanup, Turn, world, Points, Gone
<1>2. /\ attempt[t] \in Slots
      /\ holds \in [Tasks -> [Slots -> EscrowHold]]
  BY <1>1, InAttempt DEF TypeOK
<1> DEFINE y == WithStatus(t, "refunded")
<1>3. /\ y \in [Slots -> EscrowHold]
      /\ y[attempt[t]].status = "refunded"
      /\ y[attempt[t]].amount = holds[t][attempt[t]].amount
      /\ \A j \in Slots \ {attempt[t]} : y[j] = holds[t][j]
  <2>1. holds[t] \in [Slots -> EscrowHold] /\ holds[t][attempt[t]] \in EscrowHold
    BY <1>1, <1>2
  <2>2. [holds[t][attempt[t]] EXCEPT !.status = "refunded"] \in EscrowHold
    BY <2>1 DEF EscrowHold
  <2>3. /\ y[attempt[t]] = [holds[t][attempt[t]] EXCEPT !.status = "refunded"]
        /\ \A j \in Slots \ {attempt[t]} : y[j] = holds[t][j]
        /\ y \in [Slots -> EscrowHold]
    BY <1>2, <2>1, <2>2 DEF WithStatus
  <2> QED
    BY <2>1, <2>3 DEF EscrowHold
<1>4. Settled(t, "refunded") = [holds EXCEPT ![t] = y]
  BY <1>2 DEF Settled, WithStatus
<1> HIDE DEF y
<1>5. /\ faults' \in 0 .. MaxFaults /\ faults' >= faults
      /\ holds' \in [Tasks -> [Slots -> EscrowHold]]
      /\ \A u \in Tasks \ {t} : holds'[u] = holds[u]
      /\ holds'[t] = y \/ (holds'[t] = holds[t] /\ faults' > 0)
  <2>1. faults \in 0 .. MaxFaults
    BY <1>1 DEF TypeOK
  <2>2. \/ holds' = [holds EXCEPT ![t] = y] /\ faults' = faults
        \/ /\ faults < MaxFaults /\ faults' = faults + 1
           /\ holds' \in {holds, [holds EXCEPT ![t] = y]}
    BY <1>4 DEF Cleanup
  <2> QED
    BY <1>2, <1>3, <2>1, <2>2
<1>6. /\ pc' \in [Tasks -> Points]
      /\ mem' \in [Tasks -> TaskOut]
      /\ running' \in [Procs -> SUBSET Tasks]
      /\ pc'[t] = "raised"
      /\ \A u \in Tasks \ {t} : pc'[u] = pc[u] /\ mem'[u] = mem[u]
  BY <1>1, ContinueLocal
<1>7. TypeOK'
  BY <1>1, <1>5, <1>6 DEF TypeOK
<1>8. \A j \in Slots \ {attempt[t]} : ~Live(holds[t][j])
  <2>1. \A j \in Slots : /\ j > attempt[t] => holds[t][j].status = "none"
                         /\ j < attempt[t] => ~Live(holds[t][j])
    BY <1>1 DEF TaskInv, SlotsFollowFrame, Gone
  <2>2. \A j \in Slots \ {attempt[t]} : j > attempt[t] \/ j < attempt[t]
    BY <1>2 DEF Slots
  <2> QED
    BY <2>1, <2>2 DEF Live
<1>9. \A j \in Slots : holds'[t][j].amount <= Budget[t]
  BY <1>1, <1>3, <1>5 DEF TaskInv, HoldIsOffer
<1>10. Guarded(t)' /\ Exposure(t)'
  <2>1. \A j \in Slots \ {attempt[t]} : ~Live(holds'[t][j])
    BY <1>3, <1>5, <1>8
  <2>2. ~Live(holds'[t][attempt[t]]) \/ faults' > 0
    BY <1>3, <1>5 DEF Live
  <2>3. Guarded(t)'
    BY <1>2, <1>6, <2>1, <2>2 DEF Guarded, Live
  <2>4. Exposure(t)'
    BY <1>2, <1>9, <2>1 DEF Exposure, Live
  <2> QED
    BY <2>3, <2>4
<1>11. /\ \A i \in 1 .. Len(cands'[t]) : cands'[t][i] \in Offered(t)'
       /\ row'[t].status # "completed"
  BY <1>1, LiveRow DEF TaskInv, HoldIsOffer, Offered, Price, Gone
<1>12. TaskInv(t)'
  BY <1>6, <1>9, <1>10, <1>11, GoneInv DEF Gone
<1>13. OthersKept(t)
  BY <1>1, <1>5, <1>6 DEF OthersKept
<1> QED
  BY <1>1, <1>5, <1>7, <1>12, <1>13, LocalStep

----------------------------------------------------------------------------
(* The sweep and the world                                                  *)

\* Steps that leave requests and their rows alone.
LEMMA StillStep ==
    ASSUME PipelineInv, TypeOK',
           UNCHANGED <<row, holds, pc, mem, cands, attempt>>,
           served \subseteq served', faults' >= faults
    PROVE  PipelineInv'
<1>1. TypeOK /\ faults' \in Nat
  <2>1. TypeOK
    BY DEF PipelineInv
  <2>2. faults' \in Nat
    BY DEF TypeOK
  <2> QED
    BY <2>1, <2>2
<1>2. ASSUME NEW u \in Tasks PROVE TaskInv(u)'
  <2>1. TaskInv(u)
    BY DEF PipelineInv
  <2> QED
    BY <1>1, <2>1, Untouched
<1> QED
  BY <1>2 DEF PipelineInv

LEMMA AgentServesKeeps ==
    ASSUME PipelineInv, NEW t \in Tasks, AgentServes(t)
    PROVE  PipelineInv'
<1>1. /\ TypeOK /\ TaskInv(t) /\ pc[t] = "invoke"
      /\ served' = served \union {<<t, attempt[t]>>}
      /\ UNCHANGED <<row, holds, feed, pc, mem, cands, attempt, up, running,
                     sweep, stale, faults, crashes>>
  BY DEF PipelineInv, AgentServes, db, frame
<1>2. attempt[t] \in Slots
  BY <1>1, InAttempt DEF HoldTaken, InTry
<1>3. TypeOK'
  BY <1>1, <1>2 DEF TypeOK
<1>4. faults' >= faults
  BY <1>1 DEF TypeOK
<1> QED
  BY <1>1, <1>3, <1>4, StillStep

LEMMA AgeKeeps ==
    ASSUME PipelineInv, NEW t \in Tasks, Age(t)
    PROVE  PipelineInv'
<1>1. /\ TypeOK
      /\ stale' = [stale EXCEPT ![t] = TRUE]
      /\ UNCHANGED <<row, holds, feed, pc, mem, cands, attempt, up, running,
                     sweep, served, faults, crashes>>
  BY DEF PipelineInv, Age, db, frame
<1>2. TypeOK' /\ faults' >= faults
  <2>1. TypeOK'
    BY <1>1 DEF TypeOK
  <2>2. faults' >= faults
    BY <1>1 DEF TypeOK
  <2> QED
    BY <2>1, <2>2
<1> QED
  BY <1>1, <1>2, StillStep

LEMMA RestartKeeps ==
    ASSUME PipelineInv, NEW p \in Procs, Restart(p)
    PROVE  PipelineInv'
<1>1. /\ TypeOK
      /\ up' = [up EXCEPT ![p] = TRUE]
      /\ UNCHANGED <<row, holds, feed, pc, mem, cands, attempt, running,
                     sweep, stale, served, faults, crashes>>
  BY DEF PipelineInv, Restart, db, frame, world
<1>2. TypeOK'
  BY <1>1 DEF TypeOK
<1>3. faults' >= faults
  BY <1>1 DEF TypeOK
<1> QED
  BY <1>1, <1>2, <1>3, StillStep

\* A record of a sweep stays one when its sets are replaced.
LEMMA SweepTypes ==
    ASSUME TypeOK, NEW p \in Procs,
           NEW todo \in SUBSET Tasks, NEW marked \in SUBSET Tasks
    PROVE  LET Sweeps == [Procs -> [todo : SUBSET Tasks, marked : SUBSET Tasks]]
           IN  /\ [sweep EXCEPT ![p].todo = todo] \in Sweeps
               /\ [sweep EXCEPT ![p].marked = marked] \in Sweeps
               /\ [sweep EXCEPT ![p].todo = todo, ![p].marked = marked]
                      \in Sweeps
               /\ [sweep EXCEPT ![p] = Asleep] \in Sweeps
<1> DEFINE Rows == [todo : SUBSET Tasks, marked : SUBSET Tasks]
<1>1. sweep \in [Procs -> Rows]
  BY DEF TypeOK
<1>2. sweep[p] \in Rows
  BY <1>1
<1>3. /\ [sweep[p] EXCEPT !.todo = todo] \in Rows
      /\ [sweep[p] EXCEPT !.marked = marked] \in Rows
      /\ [[sweep[p] EXCEPT !.todo = todo] EXCEPT !.marked = marked] \in Rows
      /\ Asleep \in Rows
  BY <1>2 DEF Asleep
<1>4. [sweep EXCEPT ![p].todo = todo] \in [Procs -> Rows]
  BY <1>1, <1>3
<1>5. /\ [sweep EXCEPT ![p].marked = marked] \in [Procs -> Rows]
      /\ [sweep EXCEPT ![p] = Asleep] \in [Procs -> Rows]
  BY <1>1, <1>3
<1>6. [sweep EXCEPT ![p].todo = todo, ![p].marked = marked] \in [Procs -> Rows]
  BY <1>1, <1>3
<1> QED
  BY <1>4, <1>5, <1>6

LEMMA SweepSelectKeeps ==
    ASSUME PipelineInv, NEW p \in Procs, SweepSelect(p)
    PROVE  PipelineInv'
<1>1. PICK found \in SUBSET Tasks : sweep' = [sweep EXCEPT ![p].todo = found]
  BY DEF SweepSelect
<1>2. /\ TypeOK
      /\ UNCHANGED <<row, holds, feed, pc, mem, cands, attempt, up, running,
                     stale, served, faults, crashes>>
  BY DEF PipelineInv, SweepSelect, db, frame, world
<1>3. sweep' \in [Procs -> [todo : SUBSET Tasks, marked : SUBSET Tasks]]
  BY <1>1, <1>2, SweepTypes
<1>4. TypeOK'
  BY <1>2, <1>3 DEF TypeOK
<1>5. faults' >= faults
  BY <1>2 DEF TypeOK
<1> QED
  BY <1>2, <1>4, <1>5, StillStep

LEMMA SweepEmitKeeps ==
    ASSUME PipelineInv, NEW p \in Procs, SweepEmit(p)
    PROVE  PipelineInv'
<1> DEFINE announced(t) == [feed EXCEPT ![t] = @ \union {<<"error", 0>>}]
<1>1. /\ TypeOK
      /\ UNCHANGED <<row, holds, pc, mem, cands, attempt, up, running,
                     stale, served, crashes>>
  BY DEF PipelineInv, SweepEmit, frame, world
<1>2. PICK t \in sweep[p].marked :
          \/ /\ feed' = announced(t)
             /\ sweep' = [sweep EXCEPT ![p].marked = {}]
             /\ faults' = faults
          \/ /\ faults < MaxFaults
             /\ faults' = faults + 1
             /\ feed' \in {feed, announced(t)}
             /\ sweep' = [sweep EXCEPT ![p] = Asleep]
  BY DEF SweepEmit
<1>3. t \in Tasks
  BY <1>1 DEF TypeOK
<1>4. announced(t) \in [Tasks -> SUBSET (Kinds \X (0 .. MaxAttempts))]
  BY <1>1, <1>3 DEF TypeOK, Kinds
<1> HIDE DEF announced
<1>5. feed' \in [Tasks -> SUBSET (Kinds \X (0 .. MaxAttempts))]
  BY <1>1, <1>2, <1>4 DEF TypeOK
<1>6. sweep' \in [Procs -> [todo : SUBSET Tasks, marked : SUBSET Tasks]]
  <2>1. [sweep EXCEPT ![p] = Asleep]
            \in [Procs -> [todo : SUBSET Tasks, marked : SUBSET Tasks]]
    BY <1>1, SweepTypes
  <2>2. [sweep EXCEPT ![p].marked = {}]
            \in [Procs -> [todo : SUBSET Tasks, marked : SUBSET Tasks]]
    BY <1>1, SweepTypes
  <2> QED
    BY <1>2, <2>1, <2>2
<1>7. faults' \in 0 .. MaxFaults /\ faults' >= faults
  BY <1>1, <1>2 DEF TypeOK
<1>8. TypeOK'
  BY <1>1, <1>5, <1>6, <1>7 DEF TypeOK
<1> QED
  BY <1>1, <1>7, <1>8, StillStep

LEMMA SweepUpdateKeeps ==
    ASSUME PipelineInv, NEW p \in Procs, SweepUpdate(p)
    PROVE  PipelineInv'
<1> DEFINE failed(t) == [row EXCEPT ![t].status = "failed",
                                    ![t].done = TRUE]
<1>1. /\ TypeOK
      /\ UNCHANGED <<holds, feed, pc, mem, cands, attempt, up, running,
                     stale, served, crashes>>
  BY DEF PipelineInv, SweepUpdate, frame, world
<1>2. PICK t \in sweep[p].todo :
          \/ /\ row' = failed(t)
             /\ sweep' = [sweep EXCEPT ![p].todo = @ \ {t},
                                       ![p].marked = {t}]
             /\ faults' = faults
          \/ /\ faults < MaxFaults
             /\ faults' = faults + 1
             /\ row' \in {row, failed(t)}
             /\ sweep' = [sweep EXCEPT ![p] = Asleep]
  BY DEF SweepUpdate
<1>3. t \in Tasks
  BY <1>1 DEF TypeOK
<1>4. /\ row \in [Tasks -> TaskOut]
      /\ failed(t) \in [Tasks -> TaskOut]
      /\ failed(t)[t].status = "failed"
      /\ \A u \in Tasks \ {t} : failed(t)[u] = row[u]
  <2>1. row \in [Tasks -> TaskOut] /\ row[t] \in TaskOut
    BY <1>1, <1>3 DEF TypeOK
  <2>2. [[row[t] EXCEPT !.status = "failed"] EXCEPT !.done = TRUE] \in TaskOut
    BY <2>1 DEF TaskOut, Terminal
  <2> QED
    BY <1>3, <2>1, <2>2 DEF TaskOut
<1> HIDE DEF failed
<1>5. row' \in [Tasks -> TaskOut]
  BY <1>2, <1>4
<1>6. sweep' \in [Procs -> [todo : SUBSET Tasks, marked : SUBSET Tasks]]
  <2>1. [sweep EXCEPT ![p] = Asleep]
            \in [Procs -> [todo : SUBSET Tasks, marked : SUBSET Tasks]]
    BY <1>1, SweepTypes
  <2>2. sweep[p].todo \ {t} \in SUBSET Tasks /\ {t} \in SUBSET Tasks
    BY <1>1, <1>3 DEF TypeOK
  <2>3. [sweep EXCEPT ![p].todo = @ \ {t}, ![p].marked = {t}]
            \in [Procs -> [todo : SUBSET Tasks, marked : SUBSET Tasks]]
    BY <1>1, <2>2, SweepTypes
  <2> QED
    BY <1>2, <2>1, <2>3
<1>7. faults' \in 0 .. MaxFaults /\ faults' >= faults
  BY <1>1, <1>2 DEF TypeOK
<1>8. TypeOK'
  BY <1>1, <1>5, <1>6, <1>7 DEF TypeOK
<1>9. ASSUME NEW u \in Tasks PROVE TaskInv(u)'
  <2>1. TaskInv(u) /\ faults' \in Nat
    BY <1>7 DEF PipelineInv
  <2>2. CASE row'[u] = row[u]
    BY <1>1, <1>7, <2>1, <2>2, Untouched
  <2>3. CASE row'[u].status = "failed"
    <3>1. /\ SlotsFollowFrame(u)' /\ AttemptStarted(u)'
          /\ HoldIsOffer(u)' /\ SettledFrame(u)'
      BY <1>1, <2>1, <2>3
         DEF TaskInv, SlotsFollowFrame, AttemptStarted, HoldIsOffer,
             SettledFrame, Candidate, Live
    <3>2. faults > 0 => faults' > 0
      BY <1>1, <1>7 DEF TypeOK
    <3>3. CleanupHold(u)' /\ Guarded(u)'
      BY <1>1, <2>1, <3>2 DEF TaskInv, CleanupHold, Guarded
    <3>4. Exposure(u)'
      BY <1>1, <2>1 DEF TaskInv, Exposure, Live
    <3> QED
      BY <2>3, <3>1, <3>3, <3>4 DEF TaskInv
  <2> QED
    BY <1>2, <1>4, <2>2, <2>3
<1> QED
  BY <1>8, <1>9 DEF PipelineInv

LEMMA CrashKeeps ==
    ASSUME PipelineInv, NEW p \in Procs, Crash(p)
    PROVE  PipelineInv'
<1>1. /\ TypeOK
      /\ crashes < MaxCrashes /\ crashes' = crashes + 1
      /\ up' = [up EXCEPT ![p] = FALSE]
      /\ running' = [running EXCEPT ![p] = {}]
      /\ sweep' = [sweep EXCEPT ![p] = Asleep]
      /\ UNCHANGED <<row, holds, feed, mem, cands, attempt, stale, served,
                     faults>>
  BY DEF PipelineInv, Crash, db
<1>2. pc' = [t \in Tasks |->
                IF Home[t] = p /\ pc[t] \notin Gone \union {"idle"}
                THEN "crashed" ELSE pc[t]]
  BY DEF Crash
<1>3. \A u \in Tasks :
          \/ pc'[u] = pc[u]
          \/ pc[u] \notin Gone /\ pc'[u] = "crashed"
  BY <1>2
<1>4. pc' \in [Tasks -> Points]
  BY <1>1, <1>2 DEF TypeOK, Points, Gone
<1>5. /\ up' \in [Procs -> BOOLEAN]
      /\ running' \in [Procs -> SUBSET Tasks]
      /\ sweep' \in [Procs -> [todo : SUBSET Tasks, marked : SUBSET Tasks]]
      /\ crashes' \in 0 .. MaxCrashes
  BY <1>1 DEF TypeOK, Asleep
<1>6. TypeOK'
  BY <1>1, <1>4, <1>5 DEF TypeOK
<1>7. faults' \in Nat /\ faults' >= faults
  BY <1>1 DEF TypeOK
<1>8. ASSUME NEW u \in Tasks PROVE TaskInv(u)'
  <2>1. TaskInv(u)
    BY DEF PipelineInv
  <2>2. CASE pc'[u] = pc[u]
    BY <1>1, <1>7, <2>1, <2>2, Untouched
  <2>3. CASE pc[u] \notin Gone /\ pc'[u] = "crashed"
    <3>1. row'[u].status # "completed"
      BY <1>1, <2>1, <2>3, LiveRow
    <3>2. Guarded(u)' /\ Exposure(u)'
      BY <1>1, <2>1, <2>3 DEF TaskInv, Guarded, Exposure, Live
    <3>3. /\ \A i \in 1 .. Len(cands'[u]) : cands'[u][i] \in Offered(u)'
          /\ \A j \in Slots : holds'[u][j].amount <= Budget[u]
      BY <1>1, <2>1 DEF TaskInv, HoldIsOffer, Offered, Price
    <3> QED
      BY <2>3, <3>1, <3>2, <3>3, GoneInv DEF Gone
  <2> QED
    BY <1>3, <2>2, <2>3
<1> QED
  BY <1>6, <1>8 DEF PipelineInv

----------------------------------------------------------------------------
(* The theorems                                                             *)

LEMMA InitHolds == Init => PipelineInv
<1> SUFFICES ASSUME Init PROVE PipelineInv
  OBVIOUS
<1>1. AbsentTask \in TaskOut /\ AbsentTask.status = "absent"
  <2>1. QueuedTask \in TaskOut
    BY DEF QueuedTask, TaskOut, InProgress
  <2>2. [QueuedTask EXCEPT !.status = "absent"] \in TaskOut
    BY <2>1 DEF TaskOut
  <2>3. [QueuedTask EXCEPT !.status = "absent"].status = "absent"
    BY <2>1 DEF TaskOut
  <2> QED
    BY <2>2, <2>3 DEF AbsentTask
<1>2. NoHold \in EscrowHold /\ NoHold.status = "none" /\ NoHold.amount = 0
  BY DEF NoHold, EscrowHold
<1>3. TypeOK
  <2>1. /\ row \in [Tasks -> TaskOut]
        /\ holds \in [Tasks -> [Slots -> EscrowHold]]
        /\ mem \in [Tasks -> TaskOut]
    BY <1>1, <1>2 DEF Init
  <2>2. /\ feed \in [Tasks -> SUBSET (Kinds \X (0 .. MaxAttempts))]
        /\ pc \in [Tasks -> Points]
        /\ running \in [Procs -> SUBSET Tasks]
        /\ up \in [Procs -> BOOLEAN]
        /\ stale \in [Tasks -> BOOLEAN]
        /\ served \subseteq Tasks \X Slots
    BY DEF Init, Points
  <2>3. /\ cands \in [Tasks -> Seq(Agents)]
        /\ attempt \in [Tasks -> Nat]
        /\ \A t \in Tasks : /\ Len(cands[t]) <= MaxAttempts
                            /\ attempt[t] <= Len(cands[t])
    BY DEF Init
  <2>4. sweep \in [Procs -> [todo : SUBSET Tasks, marked : SUBSET Tasks]]
    BY DEF Init, Asleep
  <2>5. faults \in 0 .. MaxFaults /\ crashes \in 0 .. MaxCrashes
    BY DEF Init
  <2> QED
    BY <2>1, <2>2, <2>3, <2>4, <2>5 DEF TypeOK
<1>4. ASSUME NEW t \in Tasks PROVE TaskInv(t)
  <2>1. /\ pc[t] = "idle" /\ row[t].status = "absent" /\ attempt[t] = 0
        /\ cands[t] = << >>
        /\ \A j \in Slots : holds[t][j] = NoHold
    BY <1>1 DEF Init
  <2>2. SlotsFollowFrame(t) /\ AttemptStarted(t) /\ CleanupHold(t)
    BY <1>2, <2>1
       DEF SlotsFollowFrame, AttemptStarted, CleanupHold, Live, InTry,
           HoldTaken, Slots
  <2>3. HoldIsOffer(t) /\ SettledFrame(t)
    BY <1>2, <2>1 DEF HoldIsOffer, SettledFrame, HoldTaken, InTry
  <2>4. Guarded(t) /\ Exposure(t)
    BY <1>2, <2>1 DEF Guarded, Exposure, Live
  <2> QED
    BY <2>1, <2>2, <2>3, <2>4 DEF TaskInv
<1> QED
  BY <1>3, <1>4 DEF PipelineInv

LEMMA NextKeeps == PipelineInv /\ [Next]_vars => PipelineInv'
<1> SUFFICES ASSUME PipelineInv, [Next]_vars PROVE PipelineInv'
  OBVIOUS
<1>1. ASSUME NEW t \in Tasks,
             Submit(t) \/ RunTask(t) \/ AgentServes(t) \/ Age(t)
      PROVE  PipelineInv'
  <2>1. CASE Submit(t)
    BY <2>1, SubmitKeeps
  <2>2. CASE RunTask(t)
    <3>1. CASE AnnounceTask(t)
      BY <3>1, AnnounceTaskKeeps
    <3>2. CASE StartDiscovery(t)
      BY <3>2, StartDiscoveryKeeps
    <3>3. CASE AnnounceDiscovery(t)
      BY <3>3, AnnounceDiscoveryKeeps
    <3>4. CASE DiscoverReply(t)
      BY <3>4, DiscoverReplyKeeps
    <3>5. CASE StartAttempt(t)
      BY <3>5, StartAttemptKeeps
    <3>6. CASE PreflightReply(t)
      BY <3>6, PreflightReplyKeeps
    <3>7. CASE AnnounceCheck(t)
      BY <3>7, AnnounceCheckKeeps
    <3>8. CASE Hold(t)
      BY <3>8, HoldKeeps
    <3>9. CASE AnnounceHold(t)
      BY <3>9, AnnounceHoldKeeps
    <3>10. CASE SaveEscrowed(t)
      BY <3>10, SaveEscrowedKeeps
    <3>11. CASE SaveInvoking(t)
      BY <3>11, SaveInvokingKeeps
    <3>12. CASE InvokeReply(t)
      BY <3>12, InvokeReplyKeeps
    <3>13. CASE AnnounceInvoke(t)
      BY <3>13, AnnounceInvokeKeeps
    <3>14. CASE Release(t)
      BY <3>14, ReleaseKeeps
    <3>15. CASE AnnounceSettle(t)
      BY <3>15, AnnounceSettleKeeps
    <3>16. CASE Complete(t)
      BY <3>16, CompleteKeeps
    <3>17. CASE Refund(t)
      BY <3>17, RefundKeeps
    <3>18. CASE FailExhausted(t)
      BY <3>18, FailExhaustedKeeps
    <3>19. CASE AnnounceFailure(t)
      BY <3>19, AnnounceFailureKeeps
    <3>20. CASE AwaitRaises(t)
      BY <3>20, AwaitRaisesKeeps
    <3>21. CASE Cleanup(t)
      BY <3>21, CleanupKeeps
    <3> QED
            BY <2>2, <3>1, <3>2, <3>3, <3>4, <3>5, <3>6, <3>7, <3>8, <3>9,
         <3>10, <3>11, <3>12, <3>13, <3>14, <3>15, <3>16, <3>17, <3>18,
         <3>19, <3>20, <3>21 DEF RunTask
  <2>3. CASE AgentServes(t)
    BY <2>3, AgentServesKeeps
  <2>4. CASE Age(t)
    BY <2>4, AgeKeeps
  <2> QED
    BY <1>1, <2>1, <2>2, <2>3, <2>4
<1>2. ASSUME NEW p \in Procs, StaleTaskSweep(p) \/ Crash(p) \/ Restart(p)
      PROVE  PipelineInv'
  <2>1. CASE SweepSelect(p)
    BY <2>1, SweepSelectKeeps
  <2>2. CASE SweepUpdate(p)
    BY <2>2, SweepUpdateKeeps
  <2>3. CASE SweepEmit(p)
    BY <2>3, SweepEmitKeeps
  <2>4. CASE Crash(p)
    BY <2>4, CrashKeeps
  <2>5. CASE Restart(p)
    BY <2>5, RestartKeeps
  <2> QED
    BY <1>2, <2>1, <2>2, <2>3, <2>4, <2>5 DEF StaleTaskSweep
<1>3. ASSUME UNCHANGED vars PROVE PipelineInv'
  <2>1. UNCHANGED <<row, holds, feed, pc, mem, cands, attempt, up, running,
                    sweep, stale, served, faults, crashes>>
    BY <1>3 DEF vars
  <2>2. TypeOK /\ TypeOK' /\ faults' >= faults
    <3>1. TypeOK
      BY DEF PipelineInv
    <3>2. TypeOK'
      BY <2>1, <3>1 DEF TypeOK
    <3>3. faults' >= faults
      BY <2>1, <3>1 DEF TypeOK
    <3> QED
      BY <3>1, <3>2, <3>3
  <2> QED
    BY <2>1, <2>2, StillStep
<1> QED
  BY <1>1, <1>2, <1>3 DEF Next, Finished

\* The inductive invariant holds of every behaviour: whatever raises, crashes
\* or interleaves, a request at each of its points knows what it left in the
\* ledger, and what it leaves behind when it is gone is accounted for.
THEOREM PipelineInvariant == Spec => []PipelineInv
<1>1. Init => PipelineInv
  BY InitHolds
<1>2. PipelineInv /\ [Next]_vars => PipelineInv'
  BY NextKeeps
<1> QED
  BY <1>1, <1>2, PTL DEF Spec

\* Every variable keeps its type; the loop of run_task never indexes beyond
\* the candidates that the slice to max_agent_attempts left.
THEOREM TypeCorrect == Spec => []TypeOK
<1>1. PipelineInv => TypeOK
  BY DEF PipelineInv
<1> QED
  BY <1>1, PipelineInvariant, PTL

\* Two holds of one task never cost its consumer money at the same time, and
\* none exceeds the budget of the task: the candidate loop, the refund of a
\* failed candidate and the finally of run_task, under errors and crashes.
THEOREM ExposureBounded == Spec => []ConsumerExposure
<1>1. PipelineInv => ConsumerExposure
  BY DEF PipelineInv, TaskInv, ConsumerExposure
<1> QED
  BY <1>1, PipelineInvariant, PTL

\* A row that says "completed" names the agent and the amount of the one
\* released hold of the task, and that agent executed that attempt: what
\* run_task writes after EscrowLedger.release agrees with the ledger.
THEOREM CompletedPaid == Spec => []CompletedIsPaid
<1>1. PipelineInv => CompletedIsPaid
  BY DEF PipelineInv, TaskInv, CompletedIsPaid
<1> QED
  BY <1>1, PipelineInvariant, PTL

\* A hold is only ever left "held" by a process that died or by a statement
\* that raised where run_task has no finally around it.
THEOREM HoldsGuarded == Spec => []HoldsAreGuarded
<1>1. PipelineInv => HoldsAreGuarded
  BY DEF PipelineInv, TaskInv, HoldsAreGuarded
<1> QED
  BY <1>1, PipelineInvariant, PTL
============================================================================

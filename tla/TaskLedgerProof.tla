-------------------------- MODULE TaskLedgerProof --------------------------
(***************************************************************************)
(* What follows from the invariant of TaskPipeline.  As long as no         *)
(* statement raises, every step of it, crashes and sweeps included, is one *)
(* step of the ledger (EscrowLedger) or leaves it alone, and an accepted   *)
(* answer is paid.  What the feed announces of money is true whatever      *)
(* happens, and so are the hops of a completed task; who executes a call   *)
(* had passed a preflight at the address of the call; and endings are      *)
(* final and one, and report the amount released, if no run outlasts       *)
(* task_stale_seconds.                                                     *)
(***************************************************************************)
EXTENDS TaskPipelineProof, SumLemmas

\* Where an attempt has started and has not taken its hold.
Fresh == {"preflight", "healthy", "unhealthy", "hold"}

\* The slot of a fresh attempt has never been used.
FreshSlot(t) ==
    pc[t] \in Fresh => holds[t][attempt[t]].status = "none"

LedgerInv == PipelineInv /\ \A t \in Tasks : FreshSlot(t)

\* The status of every hold, as the ledger sees it.
Statuses == [t \in Tasks |-> [j \in Slots |-> holds[t][j].status]]

----------------------------------------------------------------------------
(* Steps that leave the ledger alone                                        *)

Quiet(t) ==
    \/ Submit(t) \/ AnnounceTask(t) \/ StartDiscovery(t)
    \/ AnnounceDiscovery(t) \/ DiscoverReply(t) \/ PreflightReply(t)
    \/ AnnounceCheck(t) \/ AnnounceHold(t) \/ SaveEscrowed(t)
    \/ SaveInvoking(t) \/ InvokeReply(t) \/ AnnounceInvoke(t)
    \/ AnnounceSettle(t) \/ Complete(t) \/ FailExhausted(t)
    \/ AnnounceFailure(t) \/ AwaitRaises(t)

\* These steps keep every hold, and no attempt becomes fresh by them.
LEMMA QuietSteps ==
    ASSUME TypeOK, NEW t \in Tasks, Quiet(t)
    PROVE  /\ holds' = holds
           /\ attempt' = attempt
           /\ pc'[t] \in Fresh => pc[t] \in Fresh
           /\ \A u \in Tasks \ {t} : pc'[u] = pc[u]
<1>1. pc \in [Tasks -> Points]
  BY DEF TypeOK
<1>2. CASE Submit(t)
  BY <1>1, <1>2 DEF Submit, Turn, Execute, Fresh, UpdateTask, Raise, db, Continue
<1>3. CASE AnnounceTask(t)
  BY <1>1, <1>3 DEF AnnounceTask, Turn, Execute, Fresh, Emit, Raise, db, Continue
<1>4. CASE StartDiscovery(t)
  BY <1>1, <1>4 DEF StartDiscovery, Turn, Execute, Fresh, UpdateTask, Raise, db, Continue
<1>5. CASE AnnounceDiscovery(t)
  BY <1>1, <1>5 DEF AnnounceDiscovery, Turn, Execute, Fresh, Emit, Raise, db, Continue
<1>6. CASE DiscoverReply(t)
  BY <1>1, <1>6 DEF DiscoverReply, Turn, Fresh, db, Continue
<1>7. CASE PreflightReply(t)
  BY <1>1, <1>7 DEF PreflightReply, Turn, Fresh, db, Continue
<1>8. CASE AnnounceCheck(t)
  BY <1>1, <1>8 DEF AnnounceCheck, Turn, Execute, Fresh, Emit, Raise, db, Continue
<1>9. CASE AnnounceHold(t)
  BY <1>1, <1>9 DEF AnnounceHold, Turn, Execute, Fresh, Emit, Raise, db, Continue
<1>10. CASE SaveEscrowed(t)
  BY <1>1, <1>10 DEF SaveEscrowed, Turn, Execute, Fresh, UpdateTask, Raise, db, Continue
<1>11. CASE SaveInvoking(t)
  BY <1>1, <1>11 DEF SaveInvoking, Turn, Execute, Fresh, UpdateTask, Raise, db, Continue
<1>12. CASE InvokeReply(t)
  BY <1>1, <1>12 DEF InvokeReply, Turn, Fresh, db, Continue
<1>13. CASE AnnounceInvoke(t)
  BY <1>1, <1>13 DEF AnnounceInvoke, Turn, Execute, Fresh, Emit, Raise, db, Continue
<1>14. CASE AnnounceSettle(t)
  BY <1>1, <1>14 DEF AnnounceSettle, Turn, Execute, Fresh, Emit, Raise, db, Continue
<1>15. CASE Complete(t)
  BY <1>1, <1>15 DEF Complete, Turn, Execute, Fresh, UpdateTask, Raise, db, Continue
<1>16. CASE FailExhausted(t)
  BY <1>1, <1>16 DEF FailExhausted, Turn, Execute, Fresh, UpdateTask, Raise, db, Continue
<1>17. CASE AnnounceFailure(t)
  BY <1>1, <1>17 DEF AnnounceFailure, Turn, Execute, Fresh, Emit, Raise, db, Continue
<1>18. CASE AwaitRaises(t)
  BY <1>1, <1>18 DEF AwaitRaises, Raise, Continue, Fresh, db
<1> QED
  BY <1>2, <1>3, <1>4, <1>5, <1>6, <1>7, <1>8, <1>9, <1>10, <1>11, <1>12, <1>13, <1>14, <1>15, <1>16, <1>17, <1>18 DEF Quiet

\* Steps outside a request touch no hold, and make no attempt fresh.
LEMMA OtherSteps ==
    ASSUME TypeOK,
           \/ \E t \in Tasks : AgentServes(t) \/ Age(t)
           \/ \E p \in Procs : StaleTaskSweep(p) \/ Crash(p) \/ Restart(p)
           \/ UNCHANGED vars
    PROVE  /\ holds' = holds
           /\ attempt' = attempt
           /\ \A u \in Tasks : pc'[u] \in Fresh => pc'[u] = pc[u]
<1>1. ASSUME NEW t \in Tasks, AgentServes(t) \/ Age(t)
      PROVE  UNCHANGED <<holds, attempt, pc>>
  BY <1>1 DEF AgentServes, Age, db, frame
<1>2. ASSUME NEW p \in Procs, StaleTaskSweep(p) \/ Restart(p)
      PROVE  UNCHANGED <<holds, attempt, pc>>
  BY <1>2 DEF StaleTaskSweep, SweepSelect, SweepUpdate, SweepEmit, Restart,
              db, frame
<1>3. ASSUME NEW p \in Procs, Crash(p)
      PROVE  /\ holds' = holds
             /\ attempt' = attempt
             /\ \A u \in Tasks : pc'[u] \in Fresh => pc'[u] = pc[u]
  BY <1>3 DEF Crash, db, Fresh
<1>4. ASSUME UNCHANGED vars PROVE UNCHANGED <<holds, attempt, pc>>
  BY <1>4 DEF vars
<1> QED
  BY <1>1, <1>2, <1>3, <1>4

----------------------------------------------------------------------------
(* Steps that are steps of the ledger                                       *)

\* A statement that may not raise has its effect.
LEMMA NoError ==
    ASSUME MaxFaults = 0, TypeOK, NEW t \in Tasks, NEW r, NEW h, NEW f,
           NEW next, NEW m, Execute(t, r, h, f, next, m)
    PROVE  /\ holds' = h
           /\ pc' = [pc EXCEPT ![t] = next]
BY DEF Execute, Continue, TypeOK

\* A statement that sets the status of one held hold is a settlement.
LEMMA SettlesOne ==
    ASSUME TypeOK, NEW t \in Tasks, NEW j \in Slots,
           NEW s \in {"released", "refunded"},
           holds[t][j].status = "held",
           holds' = [holds EXCEPT ![t][j].status = s]
    PROVE  Ledger!Next
<1>1. holds \in [Tasks -> [Slots -> EscrowHold]]
  BY DEF TypeOK
<1>2. ASSUME NEW u \in Tasks, NEW k \in Slots
      PROVE  holds'[u][k].status =
                 IF u = t /\ k = j THEN s ELSE holds[u][k].status
  <2>1. CASE u = t
    BY <1>1, <2>1 DEF EscrowHold
  <2>2. CASE u # t
    BY <1>1, <2>2
  <2> QED
    BY <2>1, <2>2
<1>3. Statuses' = [Statuses EXCEPT ![t][j] = s]
  <2>1. Statuses' = [u \in Tasks |-> [k \in Slots |-> holds'[u][k].status]]
    BY DEF Statuses
  <2>2. [Statuses EXCEPT ![t][j] = s] =
            [u \in Tasks |-> [k \in Slots |->
                IF u = t /\ k = j THEN s ELSE holds[u][k].status]]
    BY DEF Statuses
  <2> QED
    BY <1>2, <2>1, <2>2
<1>4. Statuses[t][j] = "held"
  BY DEF Statuses
<1>5. Ledger!Settle(t, j, s)
  BY <1>3, <1>4 DEF Ledger!Settle, Statuses
<1> QED
  BY <1>5 DEF Ledger!Next

\* A statement that inserts a hold into an unused slot of a task that owes
\* nothing is a hold.
LEMMA HoldsOne ==
    ASSUME TypeOK, NEW t \in Tasks, NEW j \in Slots, NEW x \in EscrowHold,
           x.status = "held",
           holds[t][j].status = "none",
           \A k \in Slots : ~Live(holds[t][k]),
           holds' = [holds EXCEPT ![t][j] = x]
    PROVE  Ledger!Next
<1>1. holds \in [Tasks -> [Slots -> EscrowHold]]
  BY DEF TypeOK
<1>2. ASSUME NEW u \in Tasks, NEW k \in Slots
      PROVE  holds'[u][k].status =
                 IF u = t /\ k = j THEN "held" ELSE holds[u][k].status
  <2>1. CASE u = t
    BY <1>1, <2>1
  <2>2. CASE u # t
    BY <1>1, <2>2
  <2> QED
    BY <2>1, <2>2
<1>3. Statuses' = [Statuses EXCEPT ![t][j] = "held"]
  <2>1. Statuses' = [u \in Tasks |-> [k \in Slots |-> holds'[u][k].status]]
    BY DEF Statuses
  <2>2. [Statuses EXCEPT ![t][j] = "held"] =
            [u \in Tasks |-> [k \in Slots |->
                IF u = t /\ k = j THEN "held" ELSE holds[u][k].status]]
    <3>1. Statuses[t] = [k \in Slots |-> holds[t][k].status]
      BY DEF Statuses
    <3>2. [Statuses[t] EXCEPT ![j] = "held"] =
              [k \in Slots |-> IF k = j THEN "held" ELSE holds[t][k].status]
      BY <3>1
    <3> QED
      BY <3>2 DEF Statuses
  <2>3. \A u \in Tasks :
            [k \in Slots |-> holds'[u][k].status] =
            [k \in Slots |-> IF u = t /\ k = j
                             THEN "held" ELSE holds[u][k].status]
    BY <1>2
  <2> QED
    BY <2>1, <2>2, <2>3
<1>4. /\ Statuses[t][j] = "none"
      /\ \A k \in Slots : ~Ledger!Live(Statuses[t][k])
  BY DEF Statuses, Live, Ledger!Live
<1>5. Ledger!Hold(t, j)
  BY <1>3, <1>4 DEF Ledger!Hold, Statuses
<1> QED
  BY <1>5 DEF Ledger!Next

\* What a step must do: move the ledger as it promises, and keep the slots of
\* fresh attempts unused.
Promised ==
    /\ Ledger!Next \/ Statuses' = Statuses
    /\ \A t \in Tasks : FreshSlot(t)'

LEMMA StartAttemptPromised ==
    ASSUME LedgerInv, NEW t \in Tasks, StartAttempt(t)
    PROVE  Promised
<1>1. /\ TypeOK /\ TaskInv(t) /\ pc[t] = "next"
      /\ attempt[t] < Len(cands[t])
      /\ attempt' = [attempt EXCEPT ![t] = @ + 1]
  BY DEF LedgerInv, PipelineInv, StartAttempt, Turn
<1>2. /\ holds' = holds
      /\ \A u \in Tasks \ {t} : pc'[u] = pc[u]
  BY <1>1 DEF StartAttempt, UpdateTask, Execute, Raise, Continue, db, TypeOK
<1>3. attempt \in [Tasks -> Nat] /\ Len(cands[t]) <= MaxAttempts
      /\ Len(cands[t]) \in Nat
  BY <1>1 DEF TypeOK
<1>4. attempt'[t] \in Slots /\ attempt'[t] > attempt[t]
  <2>1. attempt[t] \in Nat /\ attempt'[t] = attempt[t] + 1
    BY <1>1, <1>3
  <2>2. attempt[t] < Len(cands[t])
    BY <1>1
  <2>3. Len(cands[t]) \in Nat /\ Len(cands[t]) <= MaxAttempts
    BY <1>3
  <2>4. MaxAttempts \in Nat
    BY BoundAssumption
  <2>5. attempt[t] + 1 \in 1 .. MaxAttempts
    BY <2>1, <2>2, <2>3, <2>4
  <2> QED
    BY <2>1, <2>5 DEF Slots
<1>5. holds[t][attempt'[t]].status = "none"
  BY <1>1, <1>4, NothingKept DEF Between
<1>6. ASSUME NEW u \in Tasks PROVE FreshSlot(u)'
  BY <1>1, <1>2, <1>3, <1>5 DEF LedgerInv, FreshSlot
<1> QED
  BY <1>2, <1>6 DEF Promised, Statuses

LEMMA HoldPromised ==
    ASSUME MaxFaults = 0, LedgerInv, NEW t \in Tasks, Hold(t)
    PROVE  Promised
<1> DEFINE x == [status |-> "held", agent |-> Candidate(t),
                 amount |-> Price(t, Candidate(t))]
<1>1. /\ TypeOK /\ TaskInv(t) /\ pc[t] = "hold" /\ attempt' = attempt
      /\ FreshSlot(t)
  BY DEF LedgerInv, PipelineInv, Hold, Turn
<1>2. /\ holds' = [holds EXCEPT ![t][attempt[t]] = x]
      /\ pc' = [pc EXCEPT ![t] = "held"]
  BY <1>1, NoError DEF Hold
<1>3. attempt[t] \in Slots /\ x \in EscrowHold /\ x.status = "held"
  <2>1. /\ attempt[t] \in Slots
        /\ Candidate(t) \in Agents
        /\ Price(t, Candidate(t)) \in Nat
    BY <1>1, InAttempt DEF Between
  <2> QED
    BY <2>1 DEF EscrowHold
<1>4. holds[t][attempt[t]].status = "none"
  BY <1>1 DEF FreshSlot, Fresh
<1>5. \A k \in Slots : ~Live(holds[t][k])
  BY <1>1, NothingKept DEF Between
<1> HIDE DEF x
<1>6. Ledger!Next
  BY <1>1, <1>2, <1>3, <1>4, <1>5, HoldsOne
<1>7. ASSUME NEW u \in Tasks PROVE FreshSlot(u)'
  BY <1>1, <1>2 DEF LedgerInv, FreshSlot, Fresh, TypeOK
<1> QED
  BY <1>6, <1>7 DEF Promised

\* A step of the request of t that settles its held hold.
LEMMA SettlementPromised ==
    ASSUME LedgerInv, NEW t \in Tasks, NEW s \in {"released", "refunded"},
           NEW next,
           attempt[t] \in Slots, holds[t][attempt[t]].status = "held",
           holds' = Settled(t, s), attempt' = attempt,
           pc' = [pc EXCEPT ![t] = next], next \notin Fresh
    PROVE  Promised
<1>1. TypeOK
  BY DEF LedgerInv, PipelineInv
<1>2. Ledger!Next
  BY <1>1, SettlesOne DEF Settled
<1>3. ASSUME NEW u \in Tasks PROVE FreshSlot(u)'
  BY <1>1 DEF LedgerInv, FreshSlot, Settled, TypeOK
<1> QED
  BY <1>2, <1>3 DEF Promised

LEMMA ReleasePromised ==
    ASSUME MaxFaults = 0, LedgerInv, NEW t \in Tasks, Release(t)
    PROVE  Promised
<1>1. /\ TypeOK /\ TaskInv(t) /\ pc[t] = "release" /\ attempt' = attempt
  BY DEF LedgerInv, PipelineInv, Release, Turn
<1>2. /\ holds' = Settled(t, "released")
      /\ pc' = [pc EXCEPT ![t] = "settled"]
  BY <1>1, NoError DEF Release
<1>3. attempt[t] \in Slots /\ holds[t][attempt[t]].status = "held"
  BY <1>1, SettlingKeepsLedger DEF InTry
<1> QED
  BY <1>1, <1>2, <1>3, SettlementPromised DEF Fresh

LEMMA RefundPromised ==
    ASSUME MaxFaults = 0, LedgerInv, NEW t \in Tasks, Refund(t)
    PROVE  Promised
<1>1. /\ TypeOK /\ TaskInv(t) /\ pc[t] = "refund" /\ attempt' = attempt
  BY DEF LedgerInv, PipelineInv, Refund, Turn
<1>2. /\ holds' = Settled(t, "refunded")
      /\ pc' = [pc EXCEPT ![t] = "next"]
  BY <1>1, NoError DEF Refund
<1>3. attempt[t] \in Slots /\ holds[t][attempt[t]].status = "held"
  BY <1>1, SettlingKeepsLedger DEF InTry
<1> QED
  BY <1>1, <1>2, <1>3, SettlementPromised DEF Fresh

\* The finally finds the hold still held: only a statement that raised after
\* its effect would have settled it already.
LEMMA CleanupPromised ==
    ASSUME MaxFaults = 0, LedgerInv, NEW t \in Tasks, Cleanup(t)
    PROVE  Promised
<1>1. /\ TypeOK /\ TaskInv(t) /\ pc[t] = "cleanup" /\ attempt' = attempt
      /\ faults = 0
  BY DEF LedgerInv, PipelineInv, Cleanup, Turn, TypeOK
<1>2. /\ holds' = Settled(t, "refunded")
      /\ pc' = [pc EXCEPT ![t] = "raised"]
  BY <1>1 DEF Cleanup, Continue
<1>3. holds[t][attempt[t]].status = "held"
  BY <1>1 DEF TaskInv, CleanupHold
<1>4. attempt[t] \in Slots
  BY <1>1, InAttempt
<1> QED
  BY <1>1, <1>2, <1>3, <1>4, SettlementPromised DEF Fresh

----------------------------------------------------------------------------
(* The refinement                                                           *)

LEMMA QuietPromised ==
    ASSUME LedgerInv, NEW t \in Tasks, Quiet(t)
    PROVE  Promised
<1>1. /\ holds' = holds
      /\ attempt' = attempt
      /\ pc'[t] \in Fresh => pc[t] \in Fresh
      /\ \A u \in Tasks \ {t} : pc'[u] = pc[u]
  BY QuietSteps DEF LedgerInv, PipelineInv
<1>2. ASSUME NEW u \in Tasks PROVE FreshSlot(u)'
  BY <1>1 DEF LedgerInv, FreshSlot
<1> QED
  BY <1>1, <1>2 DEF Promised, Statuses

LEMMA NextPromised ==
    ASSUME MaxFaults = 0, LedgerInv, [Next]_vars
    PROVE  Promised
<1>1. ASSUME NEW t \in Tasks, Submit(t) \/ RunTask(t) PROVE Promised
  <2>1. CASE Quiet(t)
    BY <2>1, QuietPromised
  <2>2. CASE StartAttempt(t)
    BY <2>2, StartAttemptPromised
  <2>3. CASE Hold(t)
    BY <2>3, HoldPromised
  <2>4. CASE Release(t)
    BY <2>4, ReleasePromised
  <2>5. CASE Refund(t)
    BY <2>5, RefundPromised
  <2>6. CASE Cleanup(t)
    BY <2>6, CleanupPromised
  <2> QED
    BY <1>1, <2>1, <2>2, <2>3, <2>4, <2>5, <2>6 DEF RunTask, Quiet
<1>2. ASSUME \/ \E t \in Tasks : AgentServes(t) \/ Age(t)
             \/ \E p \in Procs : StaleTaskSweep(p) \/ Crash(p) \/ Restart(p)
             \/ UNCHANGED vars
      PROVE  Promised
  <2>1. /\ holds' = holds
        /\ attempt' = attempt
        /\ \A u \in Tasks : pc'[u] \in Fresh => pc'[u] = pc[u]
    BY <1>2, OtherSteps DEF LedgerInv, PipelineInv
  <2>2. ASSUME NEW u \in Tasks PROVE FreshSlot(u)'
    BY <2>1 DEF LedgerInv, FreshSlot
  <2> QED
    BY <2>1, <2>2 DEF Promised, Statuses
<1> QED
  BY <1>1, <1>2 DEF Next, Finished

\* Without statement errors the request of every task keeps the promise of
\* the ledger, with any number of crashes, sweeps, tasks and candidates:
\* create_escrow_hold only runs for a task that owes nothing, and
\* update_escrow_status only settles a row that is held, once.
THEOREM LedgerKept ==
    ASSUME MaxFaults = 0
    PROVE  Spec => LedgerSpec
<1>1. Init => Ledger!Init /\ \A t \in Tasks : FreshSlot(t)
  BY DEF Init, Ledger!Init, FreshSlot, Fresh, NoHold
<1>2. LedgerInv /\ [Next]_vars => LedgerInv'
  <2> SUFFICES ASSUME LedgerInv, [Next]_vars PROVE LedgerInv'
    OBVIOUS
  <2>1. PipelineInv'
    BY NextKeeps DEF LedgerInv
  <2>2. Promised
    BY NextPromised
  <2> QED
    BY <2>1, <2>2 DEF Promised, LedgerInv
<1>3. LedgerInv /\ [Next]_vars => [Ledger!Next]_Statuses
  BY NextPromised DEF Promised
<1>4. Init => LedgerInv
  BY <1>1, InitHolds DEF LedgerInv
<1>5. Spec => []LedgerInv
  BY <1>2, <1>4, PTL DEF Spec
<1>6. Spec => Ledger!Init /\ [][Ledger!Next]_Statuses
  BY <1>1, <1>3, <1>5, PTL DEF Spec
<1> QED
  BY <1>6, PTL DEF LedgerSpec, Ledger!Spec, Statuses

----------------------------------------------------------------------------
(* What the feed tells of the ledger                                        *)

Announced(t) ==
    \A j \in Slots :
        /\ <<"settle", j>> \in feed[t] => holds[t][j].status = "released"
        /\ <<"escrow", j>> \in feed[t] => holds[t][j].status # "none"

\* A hold that the finally has to refund was not announced as settled, even
\* if its release came through before the statement raised.
CleanupUnsettled(t) ==
    pc[t] = "cleanup" => <<"settle", attempt[t]>> \notin feed[t]

FeedInv == PipelineInv /\ \A t \in Tasks : Announced(t) /\ CleanupUnsettled(t)

\* What a step of the request of t may add to the feed: nothing of money, or
\* the settlement or the hold of its attempt, where it has just made it.
Announces(t) ==
    /\ \A u \in Tasks \ {t} : feed'[u] = feed[u] /\ pc'[u] = pc[u]
    /\ \A j \in Slots :
        /\ <<"settle", j>> \in feed'[t] =>
               <<"settle", j>> \in feed[t] \/ (pc[t] = "settled" /\ j = attempt[t])
        /\ <<"escrow", j>> \in feed'[t] =>
               <<"escrow", j>> \in feed[t] \/ (pc[t] = "held" /\ j = attempt[t])
    /\ pc'[t] = "cleanup" => pc[t] \in InTry

\* A step of one request, by what it adds to the feed and where it goes.
LEMMA StepTells ==
    ASSUME TypeOK, NEW t \in Tasks, NEW next, next # "cleanup",
           pc' \in {[pc EXCEPT ![t] = next],
                    [pc EXCEPT ![t] = IF pc[t] \in InTry
                                      THEN "cleanup" ELSE "raised"]},
           \A u \in Tasks \ {t} : feed'[u] = feed[u],
           \A j \in Slots :
               /\ <<"settle", j>> \in feed'[t] =>
                      <<"settle", j>> \in feed[t] \/ (pc[t] = "settled" /\ j = attempt[t])
               /\ <<"escrow", j>> \in feed'[t] =>
                      <<"escrow", j>> \in feed[t] \/ (pc[t] = "held" /\ j = attempt[t])
    PROVE  Announces(t)
<1>1. pc \in [Tasks -> Points]
  BY DEF TypeOK
<1>2. \A u \in Tasks \ {t} : pc'[u] = pc[u]
  BY <1>1
<1>3. pc'[t] = "cleanup" => pc[t] \in InTry
  BY <1>1
<1> QED
  BY <1>2, <1>3 DEF Announces

\* A step that leaves the feed alone.
LEMMA SilentTells ==
    ASSUME TypeOK, NEW t \in Tasks, NEW next, next # "cleanup", feed' = feed,
           pc' \in {[pc EXCEPT ![t] = next],
                    [pc EXCEPT ![t] = IF pc[t] \in InTry
                                      THEN "cleanup" ELSE "raised"]}
    PROVE  Announces(t)
<1>1. \A u \in Tasks \ {t} : feed'[u] = feed[u]
  OBVIOUS
<1>2. feed'[t] = feed[t]
  OBVIOUS
<1>3. \A j \in Slots :
        /\ <<"settle", j>> \in feed'[t] => <<"settle", j>> \in feed[t]
        /\ <<"escrow", j>> \in feed'[t] => <<"escrow", j>> \in feed[t]
  BY <1>2
<1>4. pc \in [Tasks -> Points]
  BY DEF TypeOK
<1>5. \A u \in Tasks \ {t} : pc'[u] = pc[u]
  BY <1>4
<1>6. pc'[t] = "cleanup" => pc[t] \in InTry
  BY <1>4
<1> QED
  BY <1>1, <1>3, <1>5, <1>6 DEF Announces

\* A statement that leaves the feed alone.
LEMMA UpdateTells ==
    ASSUME TypeOK, NEW t \in Tasks, NEW r, NEW next, NEW m,
           Execute(t, r, holds, feed, next, m), next # "cleanup"
    PROVE  Announces(t)
<1>1. /\ feed' = feed
      /\ pc' \in {[pc EXCEPT ![t] = next],
                  [pc EXCEPT ![t] = IF pc[t] \in InTry
                                    THEN "cleanup" ELSE "raised"]}
  BY DEF Execute, Raise, Continue, db
<1> QED
  BY <1>1, SilentTells

\* The answer to an await.
LEMMA ReplyTells ==
    ASSUME TypeOK, NEW t \in Tasks, NEW next, NEW m,
           Continue(t, next, m), UNCHANGED db, next # "cleanup"
    PROVE  Announces(t)
<1>1. feed' = feed /\ pc' = [pc EXCEPT ![t] = next]
  BY DEF Continue, db
<1> QED
  BY <1>1, SilentTells

\* An event: of a step, or of the money that the step before it has moved.
LEMMA EmitTells ==
    ASSUME TypeOK, NEW t \in Tasks, NEW kind, NEW i, NEW next, NEW m,
           Emit(t, kind, i, next, m), next # "cleanup",
           \/ kind \notin {"settle", "escrow"}
           \/ i = attempt[t] /\ <<kind, pc[t]>> \in {<<"settle", "settled">>, <<"escrow", "held">>}
    PROVE  Announces(t)
<1>1. /\ \/ feed' = feed
         \/ feed' = [feed EXCEPT ![t] = @ \union {<<kind, i>>}]
      /\ pc' \in {[pc EXCEPT ![t] = next],
                  [pc EXCEPT ![t] = IF pc[t] \in InTry
                                    THEN "cleanup" ELSE "raised"]}
  BY DEF Emit, Execute, Raise, Continue, db
<1>2. feed \in [Tasks -> SUBSET (Kinds \X (0 .. MaxAttempts))]
  BY DEF TypeOK
<1>3. /\ \A u \in Tasks \ {t} : feed'[u] = feed[u]
      /\ feed'[t] \subseteq feed[t] \union {<<kind, i>>}
  BY <1>1, <1>2
<1>4. \A j \in Slots :
        /\ <<"settle", j>> \in feed'[t] =>
               <<"settle", j>> \in feed[t] \/ (pc[t] = "settled" /\ j = attempt[t])
        /\ <<"escrow", j>> \in feed'[t] =>
               <<"escrow", j>> \in feed[t] \/ (pc[t] = "held" /\ j = attempt[t])
  <2>1. ASSUME NEW j, NEW k, <<k, j>> = <<kind, i>> PROVE k = kind /\ j = i
    BY <2>1
  <2>2. ASSUME NEW j \in Slots, <<"settle", j>> = <<kind, i>>
        PROVE  pc[t] = "settled" /\ j = attempt[t]
    BY <2>2
  <2>3. ASSUME NEW j \in Slots, <<"escrow", j>> = <<kind, i>>
        PROVE  pc[t] = "held" /\ j = attempt[t]
    BY <2>3
  <2>4. ASSUME NEW x, x \in feed'[t] PROVE x \in feed[t] \/ x = <<kind, i>>
    BY <1>3, <2>4
  <2>5. ASSUME NEW j \in Slots, <<"settle", j>> \in feed'[t]
        PROVE  <<"settle", j>> \in feed[t] \/ (pc[t] = "settled" /\ j = attempt[t])
    <3>1. CASE <<"settle", j>> \in feed[t]
      BY <3>1
    <3>2. CASE <<"settle", j>> = <<kind, i>>
      BY <2>2, <3>2
    <3> QED
      BY <2>4, <2>5, <3>1, <3>2
  <2>6. ASSUME NEW j \in Slots, <<"escrow", j>> \in feed'[t]
        PROVE  <<"escrow", j>> \in feed[t] \/ (pc[t] = "held" /\ j = attempt[t])
    <3>1. CASE <<"escrow", j>> \in feed[t]
      BY <3>1
    <3>2. CASE <<"escrow", j>> = <<kind, i>>
      BY <2>3, <3>2
    <3> QED
      BY <2>4, <2>6, <3>1, <3>2
  <2> QED
    BY <2>5, <2>6
<1> QED
  BY <1>1, <1>3, <1>4, StepTells

\* Steps that keep every hold.
LEMMA QuietTells ==
    ASSUME TypeOK, NEW t \in Tasks, Quiet(t)
    PROVE  Announces(t)
<1>1. CASE Submit(t)
  BY <1>1, UpdateTells DEF Submit, UpdateTask
<1>2. CASE AnnounceTask(t)
  BY <1>2, EmitTells DEF AnnounceTask, Turn
<1>3. CASE StartDiscovery(t)
  BY <1>3, UpdateTells DEF StartDiscovery, UpdateTask
<1>4. CASE AnnounceDiscovery(t)
  BY <1>4, EmitTells DEF AnnounceDiscovery, Turn
<1>5. CASE DiscoverReply(t)
  BY <1>5, ReplyTells DEF DiscoverReply
<1>6. CASE PreflightReply(t)
  BY <1>6, ReplyTells DEF PreflightReply
<1>7. CASE AnnounceCheck(t)
  BY <1>7, EmitTells DEF AnnounceCheck, Turn
<1>8. CASE AnnounceHold(t)
  BY <1>8, EmitTells DEF AnnounceHold, Turn
<1>9. CASE SaveEscrowed(t)
  BY <1>9, UpdateTells DEF SaveEscrowed, UpdateTask
<1>10. CASE SaveInvoking(t)
  BY <1>10, UpdateTells DEF SaveInvoking, UpdateTask
<1>11. CASE InvokeReply(t)
  BY <1>11, ReplyTells DEF InvokeReply
<1>12. CASE AnnounceInvoke(t)
  BY <1>12, EmitTells DEF AnnounceInvoke, Turn
<1>13. CASE AnnounceSettle(t)
  BY <1>13, EmitTells DEF AnnounceSettle, Turn
<1>14. CASE Complete(t)
  BY <1>14, UpdateTells DEF Complete, UpdateTask
<1>15. CASE FailExhausted(t)
  BY <1>15, UpdateTells DEF FailExhausted, UpdateTask
<1>16. CASE AnnounceFailure(t)
  BY <1>16, EmitTells DEF AnnounceFailure, Turn
<1>17. CASE AwaitRaises(t)
  <2>1. /\ feed' = feed
        /\ pc' = [pc EXCEPT ![t] = IF pc[t] \in InTry
                                  THEN "cleanup" ELSE "raised"]
    BY <1>17 DEF AwaitRaises, Raise, Continue, db
  <2> DEFINE next == "raised"
  <2>2. next # "cleanup"
    OBVIOUS
  <2> QED
    BY <2>1, <2>2, SilentTells
<1> QED
  BY <1>1, <1>2, <1>3, <1>4, <1>5, <1>6, <1>7, <1>8, <1>9, <1>10, <1>11, <1>12, <1>13, <1>14, <1>15, <1>16, <1>17 DEF Quiet

\* What is announced stays true where no hold changes, and Announces says why.
LEMMA QuietKeepsFeed ==
    ASSUME FeedInv, NEW t \in Tasks, Quiet(t)
    PROVE  \A u \in Tasks : Announced(u)' /\ CleanupUnsettled(u)'
<1>1. Announces(t) /\ holds' = holds /\ attempt' = attempt
  BY QuietTells, QuietSteps DEF FeedInv, PipelineInv
<1>2. SlotsFollowFrame(t)
  BY DEF FeedInv, PipelineInv, TaskInv
<1>3. /\ pc[t] \in InTry => holds[t][attempt[t]].status = "held"
      /\ pc[t] = "settled" => holds[t][attempt[t]].status = "released"
  <2>1. pc[t] \in InTry \union {"settled"} => attempt[t] \in Slots
    BY InAttempt DEF FeedInv, PipelineInv, HoldTaken
  <2>2. pc[t] \in InTry \union {"settled"} => pc[t] \notin Gone
    BY DEF InTry, Gone
  <2> QED
    BY <1>2, <2>1, <2>2 DEF SlotsFollowFrame
<1>4. ASSUME NEW u \in Tasks \ {t} PROVE Announced(u)' /\ CleanupUnsettled(u)'
  BY <1>1 DEF FeedInv, Announces, Announced, CleanupUnsettled
<1>5. Announced(t)'
  BY <1>1, <1>3 DEF FeedInv, Announces, Announced, InTry
<1>6. ASSUME pc'[t] = "cleanup" PROVE <<"settle", attempt[t]>> \notin feed'[t]
  <2>1. pc[t] \in InTry /\ attempt[t] \in Slots
    BY <1>1, <1>6, InAttempt DEF Announces, FeedInv, PipelineInv, HoldTaken
  <2>2. holds[t][attempt[t]].status = "held" /\ pc[t] # "settled"
    BY <1>3, <2>1 DEF InTry
  <2>3. <<"settle", attempt[t]>> \notin feed[t]
    BY <2>1, <2>2 DEF FeedInv, Announced
  <2> QED
    BY <1>1, <2>1, <2>2, <2>3 DEF Announces
<1> QED
  BY <1>1, <1>4, <1>5, <1>6 DEF CleanupUnsettled

\* Steps that set the hold of an attempt whose settlement is not announced.
LEMMA SlotKeepsFeed ==
    ASSUME FeedInv, NEW t \in Tasks, attempt[t] \in Slots,
           <<"settle", attempt[t]>> \notin feed[t],
           feed' = feed, attempt' = attempt,
           \A u \in Tasks, j \in Slots :
               \/ holds'[u][j].status = holds[u][j].status
               \/ u = t /\ j = attempt[t] /\ holds'[u][j].status # "none",
           \A u \in Tasks \ {t} : pc'[u] = pc[u]
    PROVE  \A u \in Tasks : Announced(u)' /\ CleanupUnsettled(u)'
<1>1. ASSUME NEW u \in Tasks PROVE Announced(u)'
  <2>1. Announced(u)
    BY DEF FeedInv
  <2>2. ASSUME NEW j \in Slots, <<"settle", j>> \in feed'[u]
        PROVE  holds'[u][j].status = "released"
    BY <2>1, <2>2 DEF Announced
  <2>3. ASSUME NEW j \in Slots, <<"escrow", j>> \in feed'[u]
        PROVE  holds'[u][j].status # "none"
    BY <2>1, <2>3 DEF Announced
  <2> QED
    BY <2>2, <2>3 DEF Announced
<1>2. ASSUME NEW u \in Tasks PROVE CleanupUnsettled(u)'
  BY DEF FeedInv, CleanupUnsettled
<1> QED
  BY <1>1, <1>2

\* The statements of the ledger only touch a slot nothing was told to settle.
LEMMA MoneyKeepsFeed ==
    ASSUME FeedInv, NEW t \in Tasks,
           Hold(t) \/ Release(t) \/ Refund(t) \/ Cleanup(t)
    PROVE  \A u \in Tasks : Announced(u)' /\ CleanupUnsettled(u)'
<1>1. /\ TypeOK /\ TaskInv(t)
      /\ holds \in [Tasks -> [Slots -> EscrowHold]]
      /\ pc[t] \in {"hold", "release", "refund", "cleanup"}
      /\ feed' = feed /\ attempt' = attempt
  BY DEF FeedInv, PipelineInv, TypeOK, Hold, Release, Refund, Cleanup, Turn, Execute, db
<1>2. attempt[t] \in Slots
  BY <1>1, InAttempt DEF HoldTaken, InTry, Between
<1>3. <<"settle", attempt[t]>> \notin feed[t]
  <2>1. pc[t] # "cleanup" => holds[t][attempt[t]].status # "released"
    BY <1>1, <1>2 DEF TaskInv, SlotsFollowFrame, InTry, Gone, Live
  <2> QED
    BY <1>2, <2>1 DEF FeedInv, Announced, CleanupUnsettled
<1>4. \A u \in Tasks \ {t} : pc'[u] = pc[u]
  BY <1>1 DEF TypeOK, Hold, Release, Refund, Cleanup, Execute, Raise, Continue
<1>5. \/ holds' = holds
      \/ \E x \in EscrowHold :
            x.status # "none" /\ holds' = [holds EXCEPT ![t][attempt[t]] = x]
  <2>1. CASE Hold(t)
    <3>1. /\ Candidate(t) \in Agents /\ Price(t, Candidate(t)) \in Nat
      BY <1>1, <2>1, InAttempt DEF Hold, Turn, Between
    <3> QED
      BY <2>1, <3>1 DEF Hold, Execute, db, EscrowHold
  <2>2. ASSUME NEW s \in {"released", "refunded"}, holds' = Settled(t, s)
        PROVE  \E x \in EscrowHold :
                  x.status # "none" /\ holds' = [holds EXCEPT ![t][attempt[t]] = x]
    <3> DEFINE x == [holds[t][attempt[t]] EXCEPT !.status = s]
    <3>1. holds[t][attempt[t]] \in EscrowHold
      BY <1>1, <1>2
    <3>2. x \in EscrowHold /\ x.status # "none"
      BY <3>1 DEF EscrowHold
    <3>3. holds' = [holds EXCEPT ![t][attempt[t]] = x]
      BY <1>1, <1>2, <2>2 DEF Settled
    <3> QED
      BY <3>2, <3>3
  <2>3. CASE Release(t) \/ Refund(t) \/ Cleanup(t)
    BY <2>2, <2>3 DEF Release, Refund, Cleanup, Execute, db
  <2> QED
    BY <2>1, <2>3
<1>6. \A u \in Tasks, j \in Slots :
        \/ holds'[u][j].status = holds[u][j].status
        \/ u = t /\ j = attempt[t] /\ holds'[u][j].status # "none"
  <2>1. CASE holds' = holds
    BY <2>1
  <2>2. ASSUME NEW x \in EscrowHold, x.status # "none",
               holds' = [holds EXCEPT ![t][attempt[t]] = x],
               NEW u \in Tasks, NEW j \in Slots
        PROVE  \/ holds'[u][j].status = holds[u][j].status
               \/ u = t /\ j = attempt[t] /\ holds'[u][j].status # "none"
    <3>1. CASE u = t
      BY <1>1, <1>2, <2>2, <3>1
    <3>2. CASE u # t
      BY <1>1, <2>2, <3>2
    <3> QED
      BY <3>1, <3>2
  <2> QED
    BY <1>5, <2>1, <2>2
<1> QED
  BY <1>1, <1>2, <1>3, <1>4, <1>6, SlotKeepsFeed

\* No step makes the feed tell what the ledger does not hold.
LEMMA NextKeepsFeed == FeedInv /\ [Next]_vars => FeedInv'
<1> SUFFICES ASSUME FeedInv, [Next]_vars
             PROVE  \A u \in Tasks : Announced(u)' /\ CleanupUnsettled(u)'
  BY NextKeeps DEF FeedInv
<1>1. TypeOK
  BY DEF FeedInv, PipelineInv
<1>2. ASSUME NEW t \in Tasks, StartAttempt(t)
      PROVE  \A u \in Tasks : Announced(u)' /\ CleanupUnsettled(u)'
  <2>1. /\ holds' = holds /\ feed' = feed
        /\ pc'[t] # "cleanup"
        /\ \A u \in Tasks \ {t} : pc'[u] = pc[u] /\ attempt'[u] = attempt[u]
    BY <1>1, <1>2 DEF StartAttempt, Turn, UpdateTask, Execute, Raise, Continue, db, TypeOK, InTry
  <2> QED
    BY <2>1 DEF FeedInv, Announced, CleanupUnsettled
<1>3. ASSUME \/ \E t \in Tasks : AgentServes(t) \/ Age(t)
             \/ \E p \in Procs : StaleTaskSweep(p) \/ Crash(p) \/ Restart(p)
             \/ UNCHANGED vars
      PROVE  \A u \in Tasks : Announced(u)' /\ CleanupUnsettled(u)'
  <2>1. holds' = holds /\ attempt' = attempt
    BY <1>1, <1>3, OtherSteps
  <2>2. \A u \in Tasks : pc'[u] = "cleanup" => pc[u] = "cleanup"
    <3>1. ASSUME NEW p \in Procs, Crash(p)
          PROVE  \A u \in Tasks : pc'[u] = "cleanup" => pc[u] = "cleanup"
      BY <3>1 DEF Crash
    <3>2. CASE pc' = pc
      BY <3>2
    <3>3. (\E p \in Procs : Crash(p)) \/ pc' = pc
      BY <1>3 DEF AgentServes, Age, StaleTaskSweep, SweepSelect, SweepUpdate, SweepEmit,
                  Restart, frame, vars
    <3> QED
      BY <3>1, <3>2, <3>3
  <2>3. \A u \in Tasks : feed'[u] \subseteq feed[u] \union {<<"error", 0>>}
    <3>1. ASSUME NEW p \in Procs, SweepEmit(p)
          PROVE  \A u \in Tasks : feed'[u] \subseteq feed[u] \union {<<"error", 0>>}
      BY <1>1, <3>1 DEF SweepEmit, TypeOK
    <3> QED
      BY <1>3, <3>1 DEF AgentServes, Age, StaleTaskSweep, SweepSelect, SweepUpdate,
                        Restart, Crash, db, vars
  <2>4. \A u \in Tasks, j \in Slots :
           /\ <<"settle", j>> \in feed'[u] => <<"settle", j>> \in feed[u]
           /\ <<"escrow", j>> \in feed'[u] => <<"escrow", j>> \in feed[u]
    BY <2>3
  <2>5. ASSUME NEW u \in Tasks, pc'[u] = "cleanup" PROVE attempt[u] \in Slots
    BY <2>2, <2>5, InAttempt DEF FeedInv, PipelineInv
  <2> QED
    BY <2>1, <2>2, <2>4, <2>5 DEF FeedInv, Announced, CleanupUnsettled
<1> QED
  BY <1>2, <1>3, QuietKeepsFeed, MoneyKeepsFeed DEF Next, Finished, RunTask, Quiet

\* What the activity feed tells of money is true, whatever raises or crashes:
\* an announced settlement is a released hold, and stays one.
THEOREM AnnouncedStaysSettled == Spec => []AnnouncedIsSettled
<1>1. Init => FeedInv
  BY InitHolds DEF Init, FeedInv, Announced, CleanupUnsettled
<1>2. FeedInv => AnnouncedIsSettled
  BY DEF FeedInv, Announced, AnnouncedIsSettled
<1> QED
  BY <1>1, <1>2, NextKeepsFeed, PTL DEF Spec

----------------------------------------------------------------------------
(* Endings are final where no run outlasts task_stale_seconds               *)

Over(t) == pc[t] \in Gone

\* A task only grows stale when its request is over; an ended row belongs to
\* a request that writes it no more; and a sweep has selected no other.
EndingKept(t) ==
    /\ stale[t] => Over(t)
    /\ row[t].status \in Terminal => Over(t) \/ pc[t] = "failing"
    /\ \A p \in Procs :
           t \in sweep[p].todo => Over(t) /\ row[t].status # "completed"

EndInv == PipelineInv /\ \A t \in Tasks : EndingKept(t)

\* What a step of the request of t does to the endings.
RequestEnds(t) ==
    /\ ~Over(t)
    /\ \A u \in Tasks \ {t} : row'[u] = row[u] /\ pc'[u] = pc[u]
    /\ pc[t] = "failing" => row' = row /\ Over(t)'
    /\ \/ row'[t] = row[t]
       \/ row'[t].status \notin Terminal
       \/ Over(t)' \/ pc'[t] = "failing"
    /\ UNCHANGED <<stale, sweep>>

\* UpdateTask: only the last write of a request makes its row an ended one.
LEMMA WriteEnds ==
    ASSUME TypeOK, NEW t \in Tasks, NEW m, NEW next,
           Execute(t, [row EXCEPT ![t] = m], holds, feed, next, m),
           ~Over(t), pc[t] # "failing",
           \/ m.status \notin Terminal
           \/ next \in Gone \union {"failing"} /\ pc[t] \notin InTry
    PROVE  RequestEnds(t)
<1>1. /\ row' \in {row, [row EXCEPT ![t] = m]}
      /\ pc' \in {[pc EXCEPT ![t] = next],
                  [pc EXCEPT ![t] = IF pc[t] \in InTry
                                    THEN "cleanup" ELSE "raised"]}
      /\ UNCHANGED <<stale, sweep>>
  BY DEF Execute, Raise, Continue, db, world
<1>2. row \in [Tasks -> TaskOut] /\ pc \in [Tasks -> Points]
  BY DEF TypeOK
<1>3. \A u \in Tasks \ {t} : row'[u] = row[u] /\ pc'[u] = pc[u]
  BY <1>1, <1>2
<1>4. row'[t] = row[t] \/ row'[t] = m
  BY <1>1, <1>2
<1>5. pc'[t] = next \/ pc'[t] = IF pc[t] \in InTry THEN "cleanup" ELSE "raised"
  BY <1>1, <1>2
<1>6. \/ m.status \notin Terminal
      \/ Over(t)' \/ pc'[t] = "failing"
  BY <1>5 DEF Over, Gone
<1> QED
  BY <1>1, <1>3, <1>4, <1>6 DEF RequestEnds

\* A step that leaves the row alone; only AnnounceFailure runs at "failing".
LEMMA KeepEnds ==
    ASSUME TypeOK, NEW t \in Tasks, NEW next, row' = row,
           pc' \in {[pc EXCEPT ![t] = next],
                    [pc EXCEPT ![t] = IF pc[t] \in InTry
                                      THEN "cleanup" ELSE "raised"]},
           UNCHANGED <<stale, sweep>>, ~Over(t),
           pc[t] = "failing" => next \in Gone
    PROVE  RequestEnds(t)
<1>1. pc \in [Tasks -> Points]
  BY DEF TypeOK
<1>2. \A u \in Tasks \ {t} : pc'[u] = pc[u]
  BY <1>1
<1>3. pc[t] = "failing" => Over(t)'
  BY <1>1 DEF Over, Gone, InTry
<1> QED
  BY <1>2, <1>3 DEF RequestEnds

\* A statement on another table than tasks.
LEMMA StatementEnds ==
    ASSUME TypeOK, NEW t \in Tasks, NEW h, NEW f, NEW next, NEW m,
           Execute(t, row, h, f, next, m), ~Over(t),
           pc[t] = "failing" => next \in Gone
    PROVE  RequestEnds(t)
<1>1. /\ row' = row
      /\ pc' \in {[pc EXCEPT ![t] = next],
                  [pc EXCEPT ![t] = IF pc[t] \in InTry
                                    THEN "cleanup" ELSE "raised"]}
      /\ UNCHANGED <<stale, sweep>>
  BY DEF Execute, Raise, Continue, db, world
<1> QED
  BY <1>1, KeepEnds

\* The answer to an await, and the end of the finally.
LEMMA AnswerEnds ==
    ASSUME TypeOK, NEW t \in Tasks, NEW next, NEW m, Continue(t, next, m),
           row' = row, UNCHANGED <<stale, sweep>>, ~Over(t), pc[t] # "failing"
    PROVE  RequestEnds(t)
<1>1. pc' = [pc EXCEPT ![t] = next]
  BY DEF Continue
<1> QED
  BY <1>1, KeepEnds

\* Every step of a request leaves ended rows alone, and ends its own last.
LEMMA EveryRequestEnds ==
    ASSUME EndInv, NEW t \in Tasks, Submit(t) \/ RunTask(t)
    PROVE  RequestEnds(t)
<1>1. /\ TypeOK /\ SettledFrame(t) /\ mem[t] \in TaskOut
  BY DEF EndInv, PipelineInv, TaskInv, TypeOK
<1>2. CASE Submit(t)
  BY <1>1, <1>2, WriteEnds DEF Submit, Turn, QueuedTask, Over, Gone, Terminal
<1>3. CASE StartDiscovery(t)
  <2>1. [mem[t] EXCEPT !.status = "discovering"].status \notin Terminal
    BY <1>1 DEF TaskOut, Terminal
  <2> QED
    BY <1>1, <2>1, <1>3, WriteEnds DEF StartDiscovery, UpdateTask, Turn, Over, Gone
<1>4. CASE StartAttempt(t)
  <2>1. [mem[t] EXCEPT !.status = "verifying"].status \notin Terminal
    BY <1>1 DEF TaskOut, Terminal
  <2> QED
    BY <1>1, <2>1, <1>4, WriteEnds DEF StartAttempt, UpdateTask, Turn, Over, Gone
<1>5. CASE SaveEscrowed(t)
  <2>1. mem[t].status \notin Terminal
    BY <1>1, <1>5 DEF SaveEscrowed, Turn, SettledFrame, Terminal
  <2> QED
    BY <1>1, <2>1, <1>5, WriteEnds DEF SaveEscrowed, UpdateTask, Turn, Over, Gone
<1>6. CASE SaveInvoking(t)
  <2>1. [mem[t] EXCEPT !.status = "invoking"].status \notin Terminal
    BY <1>1 DEF TaskOut, Terminal
  <2> QED
    BY <1>1, <2>1, <1>6, WriteEnds DEF SaveInvoking, UpdateTask, Turn, Over, Gone
<1>7. CASE Complete(t)
  BY <1>1, <1>7, WriteEnds DEF Complete, UpdateTask, Turn, Over, Gone, InTry
<1>8. CASE FailExhausted(t)
  BY <1>1, <1>8, WriteEnds DEF FailExhausted, UpdateTask, Turn, Over, Gone, InTry
<1>9. CASE AnnounceTask(t)
  BY <1>1, <1>9, StatementEnds DEF AnnounceTask, Emit, Turn, Over, Gone
<1>10. CASE AnnounceDiscovery(t)
  BY <1>1, <1>10, StatementEnds DEF AnnounceDiscovery, Emit, Turn, Over, Gone
<1>11. CASE AnnounceCheck(t)
  BY <1>1, <1>11, StatementEnds DEF AnnounceCheck, Emit, Turn, Over, Gone
<1>12. CASE AnnounceHold(t)
  BY <1>1, <1>12, StatementEnds DEF AnnounceHold, Emit, Turn, Over, Gone
<1>13. CASE AnnounceInvoke(t)
  BY <1>1, <1>13, StatementEnds DEF AnnounceInvoke, Emit, Turn, Over, Gone
<1>14. CASE AnnounceSettle(t)
  BY <1>1, <1>14, StatementEnds DEF AnnounceSettle, Emit, Turn, Over, Gone
<1>15. CASE AnnounceFailure(t)
  BY <1>1, <1>15, StatementEnds DEF AnnounceFailure, Emit, Turn, Over, Gone
<1>16. CASE Hold(t)
  BY <1>1, <1>16, StatementEnds DEF Hold, Turn, Over, Gone
<1>17. CASE Release(t)
  BY <1>1, <1>17, StatementEnds DEF Release, Turn, Over, Gone
<1>18. CASE Refund(t)
  BY <1>1, <1>18, StatementEnds DEF Refund, Turn, Over, Gone
<1>19. CASE DiscoverReply(t)
  BY <1>1, <1>19, AnswerEnds DEF DiscoverReply, Turn, Over, Gone, db, world
<1>20. CASE PreflightReply(t)
  BY <1>1, <1>20, AnswerEnds DEF PreflightReply, Turn, Over, Gone, db, world
<1>21. CASE InvokeReply(t)
  BY <1>1, <1>21, AnswerEnds DEF InvokeReply, Turn, Over, Gone, db, world
<1>22. CASE AwaitRaises(t)
  BY <1>1, <1>22, AnswerEnds DEF AwaitRaises, Raise, Turn, Over, Gone, db, world
<1>23. CASE Cleanup(t)
  BY <1>1, <1>23, AnswerEnds DEF Cleanup, Turn, Over, Gone, world
<1> QED
  BY <1>2, <1>3, <1>4, <1>5, <1>6, <1>7, <1>8, <1>9, <1>10, <1>11,
     <1>12, <1>13, <1>14, <1>15, <1>16, <1>17, <1>18, <1>19, <1>20,
     <1>21, <1>22, <1>23 DEF RunTask

\* An ended row is only rewritten by a sweep that has selected it, and then
\* it has failed already.
LEMMA StepKeepsEndings ==
    ASSUME Overrun = FALSE, EndInv, [Next]_vars
    PROVE  \A u \in Tasks :
              /\ EndingKept(u)'
              /\ row[u].status = "completed" => row'[u] = row[u]
              /\ row[u].status \in Terminal => row'[u].status = row[u].status
<1> DEFINE Good == \A u \in Tasks :
              /\ EndingKept(u)'
              /\ row[u].status = "completed" => row'[u] = row[u]
              /\ row[u].status \in Terminal => row'[u].status = row[u].status
<1>1. /\ row \in [Tasks -> TaskOut]
      /\ stale \in [Tasks -> BOOLEAN]
      /\ sweep \in [Procs -> [todo : SUBSET Tasks, marked : SUBSET Tasks]]
  BY DEF EndInv, PipelineInv, TypeOK
<1>2. ASSUME NEW t \in Tasks, Submit(t) \/ RunTask(t) PROVE Good
  <2>1. RequestEnds(t)
    BY <1>2, EveryRequestEnds
  <2>2. EndingKept(t)
    BY DEF EndInv
  <2>3. ASSUME NEW u \in Tasks \ {t}
        PROVE  EndingKept(u)' /\ row'[u] = row[u]
    BY <2>1, <2>3 DEF RequestEnds, EndInv, EndingKept, Over
  <2>4. row[t].status \in Terminal => row'[t] = row[t]
    BY <2>1, <2>2 DEF RequestEnds, EndingKept
  <2>5. row'[t].status \in Terminal => Over(t)' \/ pc'[t] = "failing"
    BY <2>1, <2>2 DEF RequestEnds, EndingKept
  <2>6. EndingKept(t)'
    BY <2>1, <2>2, <2>5 DEF RequestEnds, EndingKept
  <2> QED
    BY <2>3, <2>4, <2>6 DEF Terminal
<1>3. ASSUME NEW t \in Tasks, AgentServes(t) PROVE Good
  BY <1>3 DEF AgentServes, db, frame, EndInv, EndingKept, Over
<1>4. ASSUME NEW t \in Tasks, Age(t) PROVE Good
  <2>1. /\ row' = row /\ pc' = pc /\ sweep' = sweep
        /\ stale' = [stale EXCEPT ![t] = TRUE]
        /\ Over(t)
    BY <1>4 DEF Age, db, frame, Over
  <2>2. \A u \in Tasks : stale'[u] => stale[u] \/ u = t
    BY <1>1, <2>1
  <2> QED
    BY <2>1, <2>2 DEF EndInv, EndingKept, Over
<1>5. ASSUME NEW p \in Procs, SweepSelect(p) PROVE Good
  <2> DEFINE found == {t \in Tasks : /\ row[t].status \in InProgress
                                     /\ ~row[t].done
                                     /\ stale[t]}
  <2>1. /\ row' = row /\ pc' = pc /\ stale' = stale
        /\ sweep' = [sweep EXCEPT ![p].todo = found]
    BY <1>5 DEF SweepSelect, db, frame, world
  <2>2. \A q \in Procs, u \in Tasks :
           u \in sweep'[q].todo => u \in sweep[q].todo \/ u \in found
    BY <1>1, <2>1
  <2>3. \A u \in found : Over(u) /\ row[u].status # "completed"
    BY DEF EndInv, EndingKept, InProgress
  <2> QED
    BY <2>1, <2>2, <2>3 DEF EndInv, EndingKept, Over
<1>6. ASSUME NEW p \in Procs, SweepUpdate(p) PROVE Good
  <2>1. PICK t \in sweep[p].todo :
           row' \in {row, [row EXCEPT ![t].status = "failed", ![t].done = TRUE]}
    BY <1>6 DEF SweepUpdate
  <2>2. t \in Tasks /\ Over(t) /\ row[t].status # "completed"
    BY <1>1 DEF EndInv, EndingKept
  <2>3. /\ pc' = pc /\ stale' = stale
        /\ \A q \in Procs : sweep'[q].todo \subseteq sweep[q].todo
    BY <1>1, <1>6 DEF SweepUpdate, Asleep, frame, world
  <2>4. \A u \in Tasks :
           \/ row'[u] = row[u]
           \/ u = t /\ row'[u].status = "failed"
    BY <1>1, <2>1, <2>2 DEF TaskOut
  <2> QED
    BY <2>2, <2>3, <2>4 DEF EndInv, EndingKept, Over, Terminal
<1>7. ASSUME NEW p \in Procs, SweepEmit(p) PROVE Good
  <2>1. /\ row' = row /\ pc' = pc /\ stale' = stale
        /\ \A q \in Procs : sweep'[q].todo \subseteq sweep[q].todo
    BY <1>1, <1>7 DEF SweepEmit, Asleep, frame, world
  <2> QED
    BY <2>1 DEF EndInv, EndingKept, Over
<1>8. ASSUME NEW p \in Procs, Crash(p) PROVE Good
  <2>1. /\ row' = row /\ stale' = stale
        /\ \A q \in Procs : sweep'[q].todo \subseteq sweep[q].todo
    BY <1>1, <1>8 DEF Crash, Asleep, db
  <2>2. \A u \in Tasks : pc'[u] = pc[u] \/ Over(u)'
    BY <1>8 DEF Crash, Over, Gone
  <2> QED
    BY <2>1, <2>2 DEF EndInv, EndingKept, Over
<1>9. ASSUME NEW p \in Procs, Restart(p) PROVE Good
  BY <1>9 DEF Restart, db, frame, world, EndInv, EndingKept, Over
<1>10. CASE UNCHANGED vars
  BY <1>10 DEF vars, EndInv, EndingKept, Over
<1> QED
  BY <1>2, <1>3, <1>4, <1>5, <1>6, <1>7, <1>8, <1>9, <1>10
     DEF Next, Finished, StaleTaskSweep

\* The invariant of the endings, for every behaviour without an overrun.
LEMMA EndingsHold ==
    ASSUME Overrun = FALSE
    PROVE  Spec => []EndInv
<1>1. Init => EndInv
  BY InitHolds DEF Init, EndInv, EndingKept, AbsentTask, QueuedTask, Asleep, Terminal
<1>2. EndInv /\ [Next]_vars => EndInv'
  BY NextKeeps, StepKeepsEndings DEF EndInv
<1> QED
  BY <1>1, <1>2, PTL DEF Spec

\* Where no run outlasts task_stale_seconds, an ended task is never moved
\* again, dead-lettered ones included, with any number of processes that
\* sweep, of statements that raise and of crashes.
THEOREM EndedStaysEnded ==
    ASSUME Overrun = FALSE
    PROVE  Spec => TerminalIsFinal
<1>1. EndInv /\ [Next]_vars =>
        \A t \in Tasks :
            row[t].status \in Terminal => row'[t].status = row[t].status
  BY StepKeepsEndings
<1> QED
  BY <1>1, EndingsHold, PTL DEF Spec, TerminalIsFinal

\* The request of a task writes no other row.
LEMMA RequestRows ==
    ASSUME TypeOK, NEW t \in Tasks, Submit(t) \/ RunTask(t), NEW u \in Tasks \ {t}
    PROVE  row'[u] = row[u]
<1>1. \E m : row' \in {row, [row EXCEPT ![t] = m]}
  BY DEF Submit, RunTask, AnnounceTask, StartDiscovery, AnnounceDiscovery,
         DiscoverReply, StartAttempt, PreflightReply, AnnounceCheck, Hold,
         AnnounceHold, SaveEscrowed, SaveInvoking, InvokeReply, AnnounceInvoke,
         Release, AnnounceSettle, Complete, Refund, FailExhausted,
         AnnounceFailure, AwaitRaises, Cleanup, Emit, UpdateTask, Execute, db
<1> QED
  BY <1>1 DEF TypeOK

\* What a sweep has selected is not completed while it waits for its UPDATE.
SweptInv ==
    /\ PipelineInv
    /\ \A p \in Procs, t \in Tasks :
           t \in sweep[p].todo => row[t].status # "completed"

\* A sweep holds the loop from its SELECT on, so no request of its process
\* completes a task in between, stale or not.
LEMMA AloneKeepsCompleted ==
    ASSUME \A p, q \in Procs : p = q, SweptInv, [Next]_vars
    PROVE  /\ SweptInv'
           /\ \A u \in Tasks : row[u].status = "completed" => row'[u] = row[u]
<1> DEFINE Good ==
             /\ \A p \in Procs, t \in Tasks :
                    t \in sweep'[p].todo => row'[t].status # "completed"
             /\ \A u \in Tasks : row[u].status = "completed" => row'[u] = row[u]
<1>1. /\ TypeOK /\ row \in [Tasks -> TaskOut]
      /\ sweep \in [Procs -> [todo : SUBSET Tasks, marked : SUBSET Tasks]]
  BY DEF SweptInv, PipelineInv, TypeOK
<1>2. ASSUME NEW t \in Tasks, Submit(t) \/ RunTask(t) PROVE Good
  <2>1. \E at : at \notin {"ended", "raised"} /\ Turn(t, at)
    BY <1>2 DEF Submit, RunTask, AnnounceTask, StartDiscovery, AnnounceDiscovery,
         DiscoverReply, StartAttempt, PreflightReply, AnnounceCheck, Hold,
         AnnounceHold, SaveEscrowed, SaveInvoking, InvokeReply, AnnounceInvoke,
         Release, AnnounceSettle, Complete, Refund, FailExhausted,
         AnnounceFailure, AwaitRaises, Cleanup
  <2>2. sweep' = sweep
    BY <1>2 DEF Submit, RunTask, AnnounceTask, StartDiscovery, AnnounceDiscovery,
         DiscoverReply, StartAttempt, PreflightReply, AnnounceCheck, Hold,
         AnnounceHold, SaveEscrowed, SaveInvoking, InvokeReply, AnnounceInvoke,
         Release, AnnounceSettle, Complete, Refund, FailExhausted,
         AnnounceFailure, AwaitRaises, Cleanup, Emit, UpdateTask, Execute
  <2>3. \A p \in Procs : sweep[p] = Asleep
    BY <2>1, ProcessAssumption DEF Turn
  <2>4. \A p \in Procs : sweep'[p].todo = {}
    BY <2>2, <2>3 DEF Asleep
  <2>5. row[t].status # "completed"
    BY <2>1 DEF Turn, SweptInv, PipelineInv, TaskInv, SettledFrame
  <2>6. \A u \in Tasks \ {t} : row'[u] = row[u]
    BY <1>1, <1>2, RequestRows
  <2> QED
    BY <2>4, <2>5, <2>6
<1>3. ASSUME NEW p \in Procs, SweepUpdate(p) PROVE Good
  <2>1. PICK t \in sweep[p].todo :
           row' \in {row, [row EXCEPT ![t].status = "failed", ![t].done = TRUE]}
    BY <1>3 DEF SweepUpdate
  <2>2. t \in Tasks /\ row[t].status # "completed"
    BY <1>1 DEF SweptInv
  <2>3. \A q \in Procs : sweep'[q].todo \subseteq sweep[q].todo
    BY <1>1, <1>3 DEF SweepUpdate, Asleep
  <2>4. \A u \in Tasks :
           \/ row'[u] = row[u]
           \/ u = t /\ row'[u].status = "failed"
    BY <1>1, <2>1, <2>2 DEF TaskOut
  <2> QED
    BY <2>2, <2>3, <2>4 DEF SweptInv
<1>4. ASSUME NEW p \in Procs, SweepSelect(p) PROVE Good
  <2> DEFINE found == {t \in Tasks : /\ row[t].status \in InProgress
                                     /\ ~row[t].done
                                     /\ stale[t]}
  <2>1. row' = row /\ sweep' = [sweep EXCEPT ![p].todo = found]
    BY <1>4 DEF SweepSelect, db
  <2>2. \A q \in Procs, u \in Tasks :
           u \in sweep'[q].todo => u \in sweep[q].todo \/ u \in found
    BY <1>1, <2>1
  <2>3. \A u \in found : row[u].status # "completed"
    BY DEF InProgress
  <2> QED
    BY <2>1, <2>2, <2>3 DEF SweptInv
<1>5. ASSUME \/ \E t \in Tasks : AgentServes(t) \/ Age(t)
             \/ \E p \in Procs : SweepEmit(p) \/ Crash(p) \/ Restart(p)
             \/ UNCHANGED vars
      PROVE  Good
  <2>1. row' = row
    BY <1>5 DEF AgentServes, Age, SweepEmit, Crash, Restart, db, vars
  <2>2. ASSUME NEW p \in Procs, SweepEmit(p) \/ Crash(p)
        PROVE  \A q \in Procs : sweep'[q].todo \subseteq sweep[q].todo
    BY <1>1, <2>2 DEF SweepEmit, Crash, Asleep
  <2>3. sweep' = sweep \/ \E p \in Procs : SweepEmit(p) \/ Crash(p)
    BY <1>5 DEF AgentServes, Age, Restart, vars
  <2>4. \A q \in Procs : sweep'[q].todo \subseteq sweep[q].todo
    BY <2>2, <2>3
  <2> QED
    BY <2>1, <2>4 DEF SweptInv
<1>6. Good
  BY <1>2, <1>3, <1>4, <1>5 DEF Next, Finished, StaleTaskSweep
<1>7. PipelineInv'
  BY NextKeeps DEF SweptInv
<1> QED
  BY <1>6, <1>7 DEF SweptInv

\* Nor is a completed row rewritten there, in any of its fields; and with one
\* process it never is, however long a run takes: a task can only complete
\* between the SELECT and the UPDATE of a sweep of another process.
THEOREM CompletedStaysFinal ==
    ASSUME Overrun = FALSE \/ \A p, q \in Procs : p = q
    PROVE  Spec => CompletedIsFinal
<1>1. CASE Overrun = FALSE
  <2>1. EndInv /\ [Next]_vars =>
          \A t \in Tasks : row[t].status = "completed" => row'[t] = row[t]
    BY <1>1, StepKeepsEndings
  <2>2. Spec => []EndInv
    BY <1>1, EndingsHold
  <2> QED
    BY <2>1, <2>2, PTL DEF Spec, CompletedIsFinal
<1>2. CASE \A p, q \in Procs : p = q
  <2>1. Init => SweptInv
    BY InitHolds DEF Init, SweptInv, Asleep
  <2>2. SweptInv /\ [Next]_vars => SweptInv'
    BY <1>2, AloneKeepsCompleted
  <2>3. SweptInv /\ [Next]_vars =>
          \A t \in Tasks : row[t].status = "completed" => row'[t] = row[t]
    BY <1>2, AloneKeepsCompleted
  <2> QED
    BY <2>1, <2>2, <2>3, PTL DEF Spec, CompletedIsFinal
<1> QED
  BY <1>1, <1>2

----------------------------------------------------------------------------
(* An accepted answer is paid, as long as no statement raises               *)

Answered(m) ==
    \E i \in DOMAIN m.hops : m.hops[i].phase = "invoke" /\ m.hops[i].ok

\* From an accepted answer to the end of the request.
Paying == {"accepted", "release", "settled", "closing", "ended", "crashed"}

AnswerKept(t) ==
    Answered(mem[t]) =>
        /\ pc[t] \in Paying
        /\ pc[t] = "ended" => holds[t][attempt[t]].status = "released"

AnswerInv == PipelineInv /\ \A t \in Tasks : AnswerKept(t)

\* A hop other than a good invocation is no answer.
LEMMA HopAnswers ==
    ASSUME NEW m \in TaskOut, NEW phase, NEW a, NEW ok \in BOOLEAN,
           Answered(AddHop(m, phase, a, ok))
    PROVE  Answered(m) \/ (phase = "invoke" /\ ok)
<1> DEFINE hop == [phase |-> phase, agent |-> a, ok |-> ok]
           n == Len(m.hops)
<1>1. /\ m.hops \in Seq(Hops)
      /\ AddHop(m, phase, a, ok).hops = Append(m.hops, hop)
  BY DEF AddHop, TaskOut
<1>2. PICK i \in DOMAIN Append(m.hops, hop) :
         Append(m.hops, hop)[i].phase = "invoke" /\ Append(m.hops, hop)[i].ok
  BY <1>1, Zenon DEF Answered
<1>3. n \in Nat /\ DOMAIN m.hops = 1 .. n /\ DOMAIN Append(m.hops, hop) = 1 .. n + 1
  BY <1>1
<1>4. CASE i = n + 1
  <2>1. Append(m.hops, hop)[i] = hop
    BY <1>1, <1>3, <1>4
  <2> QED
    BY <1>2, <2>1
<1>5. CASE i \in 1 .. n
  <2>1. Append(m.hops, hop)[i] = m.hops[i] /\ i \in DOMAIN m.hops
    BY <1>1, <1>3, <1>5
  <2> QED
    BY <1>2, <2>1, Zenon DEF Answered
<1> QED
  BY <1>2, <1>3, <1>4, <1>5

\* A statement that cannot raise moves its request on.
LEMMA MovesOn ==
    ASSUME MaxFaults = 0, TypeOK, NEW t \in Tasks, NEW r, NEW h, NEW f,
           NEW next, NEW m, Execute(t, r, h, f, next, m)
    PROVE  Continue(t, next, m) /\ holds' = h
BY DEF Execute, TypeOK

\* Continue moves one request and no other.
LEMMA ContinueMoves ==
    ASSUME TypeOK, NEW t \in Tasks, NEW next, NEW m, Continue(t, next, m)
    PROVE  /\ pc'[t] = next /\ mem'[t] = m
           /\ \A u \in Tasks \ {t} : pc'[u] = pc[u] /\ mem'[u] = mem[u]
BY DEF Continue, TypeOK

\* Before an answer: a step that does not accept one keeps the promise.
LEMMA UnansweredKeeps ==
    ASSUME TypeOK, NEW t \in Tasks, NEW next, NEW m, Continue(t, next, m),
           AnswerKept(t), pc[t] \notin Paying,
           Answered(m) => Answered(mem[t])
    PROVE  AnswerKept(t)'
<1>1. mem'[t] = m
  BY ContinueMoves
<1>2. ~Answered(mem[t]')
  BY <1>1 DEF AnswerKept
<1> QED
  BY <1>2 DEF AnswerKept, Answered

\* After it: one step to the next point before the end.
LEMMA AnsweredKeeps ==
    ASSUME TypeOK, NEW t \in Tasks, NEW next, NEW m, Continue(t, next, m),
           next \in Paying, next # "ended"
    PROVE  AnswerKept(t)'
<1>1. pc'[t] = next
  BY ContinueMoves
<1> QED
  BY <1>1 DEF AnswerKept

\* Every step of the request of t keeps what an accepted answer is owed.
LEMMA RequestKeepsAnswer ==
    ASSUME MaxFaults = 0, AnswerInv, NEW t \in Tasks, Submit(t) \/ RunTask(t)
    PROVE  AnswerKept(t)'
<1>1. TypeOK /\ AnswerKept(t) /\ mem[t] \in TaskOut /\ TaskInv(t)
  BY DEF AnswerInv, PipelineInv, TypeOK
<1>2. ASSUME NEW next, NEW m, Continue(t, next, m), pc[t] \notin Paying,
             m.hops = mem[t].hops
      PROVE  AnswerKept(t)'
  <2>1. Answered(m) => Answered(mem[t])
    BY <1>2 DEF Answered
  <2> QED
    BY <1>1, <2>1, <1>2, UnansweredKeeps
<1>3. ASSUME NEW next, NEW phase, NEW ok \in BOOLEAN,
             Continue(t, next, AddHop(mem[t], phase, Candidate(t), ok)),
             pc[t] \notin Paying, phase # "invoke" \/ ~ok
      PROVE  AnswerKept(t)'
  BY <1>1, <1>3, HopAnswers, UnansweredKeeps
<1>4. CASE Submit(t)
  <2>1. Continue(t, "created", QueuedTask) /\ pc[t] = "idle"
    BY <1>1, <1>4, MovesOn DEF Submit, Turn
  <2>2. ~Answered(QueuedTask)
    BY DEF Answered, QueuedTask
  <2> QED
    BY <1>1, <2>1, <2>2, UnansweredKeeps DEF Paying
<1>5. CASE AnnounceTask(t)
  <2>1. Continue(t, "start", mem[t]) /\ pc[t] = "created"
    BY <1>1, <1>5, MovesOn DEF AnnounceTask, Turn, Emit
  <2> QED
    BY <1>2, <2>1 DEF Paying
<1>6. CASE StartDiscovery(t)
  <2>1. Continue(t, "started", [mem[t] EXCEPT !.status = "discovering"]) /\ pc[t] = "start"
    BY <1>1, <1>6, MovesOn DEF StartDiscovery, Turn, UpdateTask
  <2>2. [mem[t] EXCEPT !.status = "discovering"].hops = mem[t].hops
    BY <1>1 DEF TaskOut
  <2> QED
    BY <1>2, <2>1, <2>2 DEF Paying
<1>7. CASE AnnounceDiscovery(t)
  <2>1. Continue(t, "discover", mem[t]) /\ pc[t] = "started"
    BY <1>1, <1>7, MovesOn DEF AnnounceDiscovery, Turn, Emit
  <2> QED
    BY <1>2, <2>1 DEF Paying
<1>8. CASE DiscoverReply(t)
  <2>1. Continue(t, "next", mem[t]) /\ pc[t] = "discover"
    BY <1>1, <1>8, MovesOn DEF DiscoverReply, Turn
  <2> QED
    BY <1>2, <2>1 DEF Paying
<1>9. CASE StartAttempt(t)
  <2>1. Continue(t, "preflight", [mem[t] EXCEPT !.status = "verifying"]) /\ pc[t] = "next"
    BY <1>1, <1>9, MovesOn DEF StartAttempt, Turn, UpdateTask
  <2>2. [mem[t] EXCEPT !.status = "verifying"].hops = mem[t].hops
    BY <1>1 DEF TaskOut
  <2> QED
    BY <1>2, <2>1, <2>2 DEF Paying
<1>10. CASE PreflightReply(t)
  <2>1. PICK ok \in BOOLEAN :
           Continue(t, IF ok THEN "healthy" ELSE "unhealthy",
                    AddHop(mem[t], "verify", Candidate(t), ok))
    BY <1>10 DEF PreflightReply
  <2> QED
    BY <1>3, <2>1, <1>10 DEF PreflightReply, Turn, Paying
<1>11. CASE AnnounceCheck(t)
  <2>1. PICK at \in {"healthy", "unhealthy"} :
           /\ Turn(t, at)
           /\ Emit(t, "verification", attempt[t],
                   IF at = "healthy" THEN "hold" ELSE "next", mem[t])
    BY <1>11 DEF AnnounceCheck
  <2>2. Continue(t, IF at = "healthy" THEN "hold" ELSE "next", mem[t])
    BY <1>1, <2>1, MovesOn DEF Emit
  <2> QED
    BY <1>2, <2>1, <2>2 DEF Turn, Paying
<1>12. CASE Hold(t)
  <2>1. Continue(t, "held", [mem[t] EXCEPT !.status = "escrowed"]) /\ pc[t] = "hold"
    BY <1>1, <1>12, MovesOn DEF Hold, Turn
  <2>2. [mem[t] EXCEPT !.status = "escrowed"].hops = mem[t].hops
    BY <1>1 DEF TaskOut
  <2> QED
    BY <1>2, <2>1, <2>2 DEF Paying
<1>13. CASE AnnounceHold(t)
  <2>1. /\ Continue(t, "escrowed", AddHop(mem[t], "escrow", Candidate(t), TRUE))
        /\ pc[t] = "held"
    BY <1>1, <1>13, MovesOn DEF AnnounceHold, Emit, Turn
  <2> DEFINE m == AddHop(mem[t], "escrow", Candidate(t), TRUE)
  <2>2. TRUE \in BOOLEAN /\ "escrow" # "invoke"
    OBVIOUS
  <2>3. Answered(m) => Answered(mem[t])
    BY <1>1, <2>2, HopAnswers, Zenon
  <2>4. Continue(t, "escrowed", m) /\ pc[t] \notin Paying
    BY <2>1 DEF Paying
  <2> HIDE DEF m
  <2> QED
    BY <1>1, <2>3, <2>4, UnansweredKeeps
<1>14. CASE SaveEscrowed(t)
  <2>1. Continue(t, "invoking", mem[t]) /\ pc[t] = "escrowed"
    BY <1>1, <1>14, MovesOn DEF SaveEscrowed, Turn, UpdateTask
  <2> QED
    BY <1>2, <2>1 DEF Paying
<1>15. CASE SaveInvoking(t)
  <2>1. Continue(t, "invoke", [mem[t] EXCEPT !.status = "invoking"]) /\ pc[t] = "invoking"
    BY <1>1, <1>15, MovesOn DEF SaveInvoking, Turn, UpdateTask
  <2>2. [mem[t] EXCEPT !.status = "invoking"].hops = mem[t].hops
    BY <1>1 DEF TaskOut
  <2> QED
    BY <1>2, <2>1, <2>2 DEF Paying
<1>16. CASE InvokeReply(t)
  <2>1. PICK ok \in BOOLEAN :
           Continue(t, IF ok THEN "accepted" ELSE "rejected",
                    AddHop(mem[t], "invoke", Candidate(t), ok))
    BY <1>16 DEF InvokeReply
  <2>2. CASE ok
    BY <1>1, <2>1, <2>2, AnsweredKeeps DEF Paying
  <2>3. CASE ~ok
    BY <1>3, <2>1, <2>3, <1>16 DEF InvokeReply, Turn, Paying
  <2> QED
    BY <2>2, <2>3
<1>17. CASE AnnounceInvoke(t)
  <2>1. PICK at \in {"accepted", "rejected"} :
           /\ Turn(t, at)
           /\ Emit(t, "invoke", attempt[t],
                   IF at = "accepted" THEN "release" ELSE "refund", mem[t])
    BY <1>17 DEF AnnounceInvoke
  <2>2. Continue(t, IF at = "accepted" THEN "release" ELSE "refund", mem[t])
    BY <1>1, <2>1, MovesOn DEF Emit
  <2>3. CASE at = "accepted"
    BY <1>1, <2>2, <2>3, AnsweredKeeps DEF Paying
  <2>4. CASE at = "rejected"
    BY <1>2, <2>1, <2>2, <2>4 DEF Turn, Paying
  <2> QED
    BY <2>3, <2>4
<1>18. CASE Release(t)
  <2>1. \E m : Continue(t, "settled", m)
    BY <1>1, <1>18, MovesOn DEF Release
  <2> QED
    BY <1>1, <2>1, AnsweredKeeps DEF Paying
<1>19. CASE AnnounceSettle(t)
  <2>1. \E m : Continue(t, "closing", m)
    BY <1>1, <1>19, MovesOn DEF AnnounceSettle, Emit
  <2> QED
    BY <1>1, <2>1, AnsweredKeeps DEF Paying
<1>20. CASE Complete(t)
  <2>1. pc[t] = "closing" /\ holds' = holds /\ attempt' = attempt
    BY <1>1, <1>20, MovesOn DEF Complete, UpdateTask, Turn
  <2>2. attempt[t] \in Slots
    BY <1>1, <2>1, InAttempt DEF HoldTaken
  <2>3. holds'[t][attempt'[t]].status = "released"
    BY <1>1, <2>1, <2>2 DEF TaskInv, SlotsFollowFrame, Gone
  <2>4. \E m : Continue(t, "ended", m)
    BY <1>1, <1>20, MovesOn DEF Complete, UpdateTask
  <2>5. pc'[t] = "ended"
    BY <1>1, <2>4, ContinueMoves
  <2> QED
    BY <2>3, <2>5 DEF AnswerKept, Paying
<1>21. CASE Refund(t)
  <2>1. Continue(t, "next", mem[t]) /\ pc[t] = "refund"
    BY <1>1, <1>21, MovesOn DEF Refund, Turn
  <2> QED
    BY <1>2, <2>1 DEF Paying
<1>22. CASE FailExhausted(t)
  <2>1. Continue(t, "failing", [mem[t] EXCEPT !.status = "failed", !.done = TRUE]) /\ pc[t] = "next"
    BY <1>1, <1>22, MovesOn DEF FailExhausted, Turn, UpdateTask
  <2>2. [mem[t] EXCEPT !.status = "failed", !.done = TRUE].hops = mem[t].hops
    BY <1>1 DEF TaskOut
  <2> QED
    BY <1>2, <2>1, <2>2 DEF Paying
<1>23. CASE AnnounceFailure(t)
  <2>1. Continue(t, "ended", mem[t]) /\ pc[t] = "failing"
    BY <1>1, <1>23, MovesOn DEF AnnounceFailure, Turn, Emit
  <2> QED
    BY <1>2, <2>1 DEF Paying
<1>24. CASE AwaitRaises(t)
  <2>1. /\ \E next : Continue(t, next, mem[t])
        /\ pc[t] \in {"discover", "preflight", "invoke"}
    BY <1>24 DEF AwaitRaises, Raise, Turn
  <2> QED
    BY <1>2, <2>1 DEF Paying
<1>25. CASE Cleanup(t)
  <2>1. Continue(t, "raised", mem[t]) /\ pc[t] = "cleanup"
    BY <1>25 DEF Cleanup, Turn
  <2> QED
    BY <1>2, <2>1 DEF Paying
<1> QED
  BY <1>4, <1>5, <1>6, <1>7, <1>8, <1>9, <1>10, <1>11, <1>12, <1>13,
     <1>14, <1>15, <1>16, <1>17, <1>18, <1>19, <1>20, <1>21, <1>22,
     <1>23, <1>24, <1>25 DEF RunTask

\* The request of a task leaves the frames and the holds of others alone.
LEMMA RequestIsOwn ==
    ASSUME TypeOK, NEW t \in Tasks, Submit(t) \/ RunTask(t), NEW u \in Tasks \ {t}
    PROVE  /\ pc'[u] = pc[u] /\ mem'[u] = mem[u]
           /\ attempt'[u] = attempt[u] /\ holds'[u] = holds[u]
<1>1. \E next, m : Continue(t, next, m)
  BY DEF Submit, RunTask, AnnounceTask, StartDiscovery, AnnounceDiscovery,
         DiscoverReply, StartAttempt, PreflightReply, AnnounceCheck, Hold,
         AnnounceHold, SaveEscrowed, SaveInvoking, InvokeReply, AnnounceInvoke,
         Release, AnnounceSettle, Complete, Refund, FailExhausted,
         AnnounceFailure, AwaitRaises, Cleanup, Emit, UpdateTask, Execute, Raise
<1>2. pc'[u] = pc[u] /\ mem'[u] = mem[u]
  BY <1>1, ContinueMoves
<1>3. attempt'[u] = attempt[u]
  <2>1. attempt' = attempt \/ attempt' = [attempt EXCEPT ![t] = @ + 1]
    BY DEF Submit, RunTask, AnnounceTask, StartDiscovery, AnnounceDiscovery,
         DiscoverReply, StartAttempt, PreflightReply, AnnounceCheck, Hold,
         AnnounceHold, SaveEscrowed, SaveInvoking, InvokeReply, AnnounceInvoke,
         Release, AnnounceSettle, Complete, Refund, FailExhausted,
         AnnounceFailure, AwaitRaises, Cleanup
  <2> QED
    BY <2>1 DEF TypeOK
<1>4. holds'[u] = holds[u]
  <2>1. CASE Quiet(t)
    BY <2>1, QuietSteps
  <2>2. CASE StartAttempt(t)
    BY <2>2 DEF StartAttempt, UpdateTask, Execute, db
  <2>3. ASSUME NEW h, holds' \in {holds, h}, h[u] = holds[u]
        PROVE  holds'[u] = holds[u]
    BY <2>3
  <2>4. CASE Hold(t)
    BY <2>4 DEF Hold, Execute, db, TypeOK
  <2>5. CASE Release(t) \/ Refund(t) \/ Cleanup(t)
    BY <2>5 DEF Release, Refund, Cleanup, Settled, Execute, db, TypeOK
  <2> QED
    BY <2>1, <2>2, <2>4, <2>5 DEF RunTask, Quiet
<1> QED
  BY <1>2, <1>3, <1>4

\* So does every other step: nothing but its request pays or ends a call.
LEMMA NextKeepsAnswer ==
    ASSUME MaxFaults = 0, AnswerInv, [Next]_vars
    PROVE  \A u \in Tasks : AnswerKept(u)'
<1>1. TypeOK
  BY DEF AnswerInv, PipelineInv
<1>2. ASSUME NEW t \in Tasks, Submit(t) \/ RunTask(t), NEW u \in Tasks
      PROVE  AnswerKept(u)'
  <2>1. CASE u = t
    BY <1>2, <2>1, RequestKeepsAnswer
  <2>2. CASE u # t
    <3>1. /\ pc'[u] = pc[u] /\ mem'[u] = mem[u]
          /\ attempt'[u] = attempt[u] /\ holds'[u] = holds[u]
      BY <1>1, <1>2, <2>2, RequestIsOwn
    <3>2. AnswerKept(u)
      BY DEF AnswerInv
    <3> QED
      BY <3>1, <3>2 DEF AnswerKept, Answered
  <2> QED
    BY <2>1, <2>2
<1>3. ASSUME \/ \E t \in Tasks : AgentServes(t) \/ Age(t)
             \/ \E p \in Procs : StaleTaskSweep(p) \/ Crash(p) \/ Restart(p)
             \/ UNCHANGED vars,
             NEW u \in Tasks
      PROVE  AnswerKept(u)'
  <2>1. holds' = holds /\ attempt' = attempt
    BY <1>1, <1>3, OtherSteps
  <2>2. mem' = mem /\ pc'[u] \in {pc[u], "crashed"}
    <3>1. ASSUME NEW p \in Procs, Crash(p)
          PROVE  mem' = mem /\ pc'[u] \in {pc[u], "crashed"}
      BY <3>1 DEF Crash
    <3>2. (\E p \in Procs : Crash(p)) \/ (pc' = pc /\ mem' = mem)
      BY <1>3 DEF AgentServes, Age, StaleTaskSweep, SweepSelect, SweepUpdate,
                  SweepEmit, Restart, frame, vars
    <3> QED
      BY <3>1, <3>2
  <2>3. AnswerKept(u)
    BY DEF AnswerInv
  <2> QED
    BY <2>1, <2>2, <2>3 DEF AnswerKept, Answered, Paying
<1> QED
  BY <1>2, <1>3 DEF Next, Finished

\* As long as no statement raises, an agent whose answer was accepted has the
\* hold of its attempt released by the end of the request, whatever crashes
\* and whatever a sweep writes meanwhile.
THEOREM AcceptedStaysPaid ==
    ASSUME MaxFaults = 0
    PROVE  Spec => []AcceptedIsReleased
<1>1. Init => AnswerInv
  BY InitHolds DEF Init, AnswerInv, AnswerKept, Answered, AbsentTask, QueuedTask
<1>2. AnswerInv /\ [Next]_vars => AnswerInv'
  BY NextKeeps, NextKeepsAnswer DEF AnswerInv
<1>3. AnswerInv => AcceptedIsReleased
  BY DEF AnswerInv, AnswerKept, Answered, Paying, AcceptedIsReleased
<1> QED
  BY <1>1, <1>2, <1>3, PTL DEF Spec

----------------------------------------------------------------------------
(* One ending per task, in a world without errors, crashes and overruns     *)

\* What the request, the row, the feed and the sweeps know of the ending.
OneEnd(t) ==
    /\ pc[t] \in {"settled", "closing"} => mem[t].status = "completed"
    /\ pc[t] = "failing" => row[t].status = "failed"
    /\ <<"error", 0>> \in feed[t] => row[t].status = "failed"
    /\ \A p \in Procs : t \in sweep[p].marked => row[t].status = "failed"
    /\ \A j \in Slots :
           <<"settle", j>> \in feed[t] =>
               pc[t] = "closing" \/ row[t].status = "completed"

OneInv == EndInv /\ \A t \in Tasks : OneEnd(t)

\* A step of a request that ends its task at most once.
LEMMA EndsOnce ==
    ASSUME TypeOK, NEW t \in Tasks, OneEnd(t), NEW next, NEW m,
           Continue(t, next, m), sweep' = sweep,
           row[t].status \in Terminal => row'[t].status = row[t].status,
           next \in {"settled", "closing"} => m.status = "completed",
           next = "failing" => row'[t].status = "failed",
           pc[t] = "closing" => row'[t].status = "completed",
           <<"error", 0>> \in feed'[t] => <<"error", 0>> \in feed[t] \/ pc[t] = "failing",
           \A j \in Slots :
               <<"settle", j>> \in feed'[t] => <<"settle", j>> \in feed[t] \/ next = "closing"
    PROVE  OneEnd(t)'
<1>1. pc'[t] = next /\ mem'[t] = m
  BY ContinueMoves
<1>2. row[t].status \in {"failed", "completed"} => row'[t].status = row[t].status
  BY DEF Terminal
<1>3. /\ pc'[t] \in {"settled", "closing"} => mem'[t].status = "completed"
      /\ pc'[t] = "failing" => row'[t].status = "failed"
  BY <1>1
<1>4. <<"error", 0>> \in feed'[t] => row'[t].status = "failed"
  BY <1>2 DEF OneEnd
<1>5. \A p \in Procs : t \in sweep'[p].marked => row'[t].status = "failed"
  BY <1>2 DEF OneEnd
<1>6. ASSUME NEW j \in Slots, <<"settle", j>> \in feed'[t]
      PROVE  pc'[t] = "closing" \/ row'[t].status = "completed"
  BY <1>1, <1>2, <1>6 DEF OneEnd
<1> QED
  BY <1>3, <1>4, <1>5, <1>6 DEF OneEnd

\* Steps that emit nothing, before the end of the task.
LEMMA SilentOnce ==
    ASSUME TypeOK, NEW t \in Tasks, OneEnd(t), NEW next, NEW m,
           Continue(t, next, m), sweep' = sweep, feed' = feed,
           row[t].status \in Terminal => row'[t].status = row[t].status,
           pc[t] # "closing", next \notin {"settled", "closing", "failing"}
    PROVE  OneEnd(t)'
<1>1. feed'[t] = feed[t]
  OBVIOUS
<1>2. /\ <<"error", 0>> \in feed'[t] => <<"error", 0>> \in feed[t]
      /\ \A j \in Slots : <<"settle", j>> \in feed'[t] => <<"settle", j>> \in feed[t]
  BY <1>1
<1> QED
  BY <1>2, EndsOnce

\* An event is emitted as it is where nothing raises.
LEMMA EmitsSurely ==
    ASSUME MaxFaults = 0, TypeOK, NEW t \in Tasks, NEW kind, NEW i, NEW next,
           NEW m, Emit(t, kind, i, next, m)
    PROVE  /\ Continue(t, next, m) /\ sweep' = sweep /\ row' = row
           /\ feed'[t] = feed[t] \union {<<kind, i>>}
<1>1. /\ Continue(t, next, m) /\ sweep' = sweep /\ row' = row
      /\ feed' = [feed EXCEPT ![t] = @ \union {<<kind, i>>}]
  BY DEF Emit, Execute, TypeOK
<1>2. feed'[t] = feed[t] \union {<<kind, i>>}
  BY <1>1 DEF TypeOK
<1> QED
  BY <1>1, <1>2

\* An event of neither ending, before the end of the task.
LEMMA EmitOnce ==
    ASSUME MaxFaults = 0, TypeOK, NEW t \in Tasks, OneEnd(t),
           NEW kind, NEW i, NEW next, NEW m, Emit(t, kind, i, next, m),
           kind \notin {"settle", "error"}, pc[t] # "closing",
           next \notin {"settled", "closing", "failing"}
    PROVE  OneEnd(t)'
<1>1. /\ Continue(t, next, m) /\ sweep' = sweep /\ row' = row
  BY EmitsSurely
<1>2. feed'[t] = feed[t] \union {<<kind, i>>}
  BY EmitsSurely
<1>3. <<"error", 0>> # <<kind, i>> /\ \A j \in Slots : <<"settle", j>> # <<kind, i>>
  OBVIOUS
<1>4. /\ <<"error", 0>> \in feed'[t] => <<"error", 0>> \in feed[t]
      /\ \A j \in Slots : <<"settle", j>> \in feed'[t] => <<"settle", j>> \in feed[t]
  BY <1>2, <1>3
<1> QED
  BY <1>1, <1>4, EndsOnce

\* Every step of the request of t keeps its endings apart.
LEMMA RequestEndsOnce ==
    ASSUME MaxFaults = 0, OneInv, NEW t \in Tasks, Submit(t) \/ RunTask(t),
           row[t].status \in Terminal => row'[t].status = row[t].status
    PROVE  OneEnd(t)'
<1>1. TypeOK /\ OneEnd(t) /\ mem[t] \in TaskOut /\ row \in [Tasks -> TaskOut]
      /\ feed \in [Tasks -> SUBSET (Kinds \X (0 .. MaxAttempts))]
  BY DEF OneInv, EndInv, PipelineInv, TypeOK
<1>2. ASSUME NEW r, NEW h, NEW next, NEW m, Execute(t, r, h, feed, next, m),
             pc[t] # "closing", next \notin {"settled", "closing", "failing"}
      PROVE  OneEnd(t)'
  <2>1. Continue(t, next, m) /\ sweep' = sweep /\ feed' = feed
    BY <1>1, <1>2 DEF Execute, TypeOK
  <2> QED
    BY <1>1, <2>1, <1>2, SilentOnce
<1>3. CASE Submit(t)
  BY <1>2, <1>3 DEF Submit, Turn
<1>4. CASE StartDiscovery(t)
  BY <1>2, <1>4 DEF StartDiscovery, Turn, UpdateTask
<1>5. CASE StartAttempt(t)
  BY <1>2, <1>5 DEF StartAttempt, Turn, UpdateTask
<1>6. CASE Hold(t)
  BY <1>2, <1>6 DEF Hold, Turn
<1>7. CASE SaveEscrowed(t)
  BY <1>2, <1>7 DEF SaveEscrowed, Turn, UpdateTask
<1>8. CASE SaveInvoking(t)
  BY <1>2, <1>8 DEF SaveInvoking, Turn, UpdateTask
<1>9. CASE Refund(t)
  BY <1>2, <1>9 DEF Refund, Turn
<1>10. CASE AnnounceTask(t)
  BY <1>1, <1>10, EmitOnce DEF AnnounceTask, Turn
<1>11. CASE AnnounceDiscovery(t)
  BY <1>1, <1>11, EmitOnce DEF AnnounceDiscovery, Turn
<1>12. CASE AnnounceCheck(t)
  <2>1. PICK at \in {"healthy", "unhealthy"} :
           /\ pc[t] = at
           /\ Emit(t, "verification", attempt[t],
                   IF at = "healthy" THEN "hold" ELSE "next", mem[t])
    BY <1>12 DEF AnnounceCheck, Turn
  <2> QED
    BY <1>1, <2>1, EmitOnce
<1>13. CASE AnnounceInvoke(t)
  <2>1. PICK at \in {"accepted", "rejected"} :
           /\ pc[t] = at
           /\ Emit(t, "invoke", attempt[t],
                   IF at = "accepted" THEN "release" ELSE "refund", mem[t])
    BY <1>13 DEF AnnounceInvoke, Turn
  <2> QED
    BY <1>1, <2>1, EmitOnce
<1>14. CASE AnnounceHold(t)
  <2>1. /\ \E m : Emit(t, "escrow", attempt[t], "escrowed", m)
        /\ pc[t] = "held"
    BY <1>14 DEF AnnounceHold, Turn
  <2> QED
    BY <1>1, <2>1, EmitOnce
<1>15. CASE DiscoverReply(t)
  BY <1>1, <1>15, SilentOnce DEF DiscoverReply, Turn, db
<1>16. CASE PreflightReply(t)
  <2>1. \E ok \in BOOLEAN : \E m :
           Continue(t, IF ok THEN "healthy" ELSE "unhealthy", m)
    BY <1>16 DEF PreflightReply
  <2>2. sweep' = sweep /\ feed' = feed /\ row' = row /\ pc[t] # "closing"
    BY <1>16 DEF PreflightReply, Turn, db
  <2> QED
    BY <1>1, <2>1, <2>2, SilentOnce
<1>17. CASE InvokeReply(t)
  <2>1. \E ok \in BOOLEAN : \E m :
           Continue(t, IF ok THEN "accepted" ELSE "rejected", m)
    BY <1>17 DEF InvokeReply
  <2>2. sweep' = sweep /\ feed' = feed /\ row' = row /\ pc[t] # "closing"
    BY <1>17 DEF InvokeReply, Turn, db
  <2> QED
    BY <1>1, <2>1, <2>2, SilentOnce
<1>18. CASE Release(t)
  <2> DEFINE m == [mem[t] EXCEPT !.spent = Price(t, Candidate(t)),
                                !.agent = Candidate(t),
                                !.status = "completed"]
  <2>1. /\ Continue(t, "settled", m) /\ pc[t] = "release"
        /\ sweep' = sweep /\ feed' = feed
    BY <1>1, <1>18 DEF Release, Turn, Execute, TypeOK
  <2>2. m.status = "completed"
    BY <1>1 DEF TaskOut
  <2>3. feed'[t] = feed[t]
    BY <2>1
  <2>4. /\ <<"error", 0>> \in feed'[t] => <<"error", 0>> \in feed[t]
        /\ \A j \in Slots : <<"settle", j>> \in feed'[t] => <<"settle", j>> \in feed[t]
    BY <2>3
  <2> HIDE DEF m
  <2> QED
    BY <1>1, <2>1, <2>2, <2>4, EndsOnce
<1>19. CASE AnnounceSettle(t)
  <2> DEFINE m == AddHop(mem[t], "settle", Candidate(t), TRUE)
  <2>1. /\ Continue(t, "closing", m) /\ pc[t] = "settled"
        /\ sweep' = sweep /\ row' = row
        /\ feed'[t] = feed[t] \union {<<"settle", attempt[t]>>}
    BY <1>1, <1>19, EmitsSurely DEF AnnounceSettle, Turn
  <2>2. m.status = "completed"
    BY <1>1, <2>1 DEF TaskOut, AddHop, OneEnd
  <2>4. <<"error", 0>> \in feed'[t] => <<"error", 0>> \in feed[t]
    BY <2>1
  <2> HIDE DEF m
  <2> QED
    BY <1>1, <2>1, <2>2, <2>4, EndsOnce
<1>20. CASE Complete(t)
  <2> DEFINE m == [mem[t] EXCEPT !.done = TRUE]
  <2>1. /\ Continue(t, "ended", m) /\ pc[t] = "closing"
        /\ sweep' = sweep /\ feed' = feed /\ row' = [row EXCEPT ![t] = m]
    BY <1>1, <1>20 DEF Complete, Turn, UpdateTask, Execute, TypeOK
  <2>2. row'[t].status = "completed"
    BY <1>1, <2>1 DEF TaskOut, OneEnd
  <2>3. feed'[t] = feed[t]
    BY <2>1
  <2>4. /\ <<"error", 0>> \in feed'[t] => <<"error", 0>> \in feed[t]
        /\ \A j \in Slots : <<"settle", j>> \in feed'[t] => <<"settle", j>> \in feed[t]
    BY <2>3
  <2> HIDE DEF m
  <2> QED
    BY <1>1, <2>1, <2>2, <2>4, EndsOnce
<1>21. CASE FailExhausted(t)
  <2> DEFINE m == [mem[t] EXCEPT !.status = "failed", !.done = TRUE]
  <2>1. /\ Continue(t, "failing", m) /\ pc[t] = "next"
        /\ sweep' = sweep /\ feed' = feed /\ row' = [row EXCEPT ![t] = m]
    BY <1>1, <1>21 DEF FailExhausted, Turn, UpdateTask, Execute, TypeOK
  <2>2. row'[t].status = "failed"
    BY <1>1, <2>1 DEF TaskOut
  <2>3. feed'[t] = feed[t]
    BY <2>1
  <2>4. /\ <<"error", 0>> \in feed'[t] => <<"error", 0>> \in feed[t]
        /\ \A j \in Slots : <<"settle", j>> \in feed'[t] => <<"settle", j>> \in feed[t]
    BY <2>3
  <2> HIDE DEF m
  <2> QED
    BY <1>1, <2>1, <2>2, <2>4, EndsOnce
<1>22. CASE AnnounceFailure(t)
  <2>1. /\ Continue(t, "ended", mem[t]) /\ pc[t] = "failing"
        /\ sweep' = sweep /\ row' = row
        /\ feed'[t] = feed[t] \union {<<"error", 0>>}
    BY <1>1, <1>22, EmitsSurely DEF AnnounceFailure, Turn
  <2>3. \A j \in Slots : <<"settle", j>> \in feed'[t] => <<"settle", j>> \in feed[t]
    BY <2>1
  <2> QED
    BY <1>1, <2>1, <2>3, EndsOnce
<1>23. CASE AwaitRaises(t)
  <2>1. /\ Continue(t, IF pc[t] \in InTry THEN "cleanup" ELSE "raised", mem[t])
        /\ pc[t] # "closing" /\ sweep' = sweep /\ feed' = feed
    BY <1>23 DEF AwaitRaises, Raise, Turn, db
  <2> DEFINE next == IF pc[t] \in InTry THEN "cleanup" ELSE "raised"
  <2>2. next \notin {"settled", "closing", "failing"}
    OBVIOUS
  <2> QED
    BY <1>1, <2>1, <2>2, SilentOnce
<1>24. CASE Cleanup(t)
  BY <1>1, <1>24, SilentOnce DEF Cleanup, Turn
<1> QED
  BY <1>3, <1>4, <1>5, <1>6, <1>7, <1>8, <1>9, <1>10, <1>11, <1>12,
     <1>13, <1>14, <1>15, <1>16, <1>17, <1>18, <1>19, <1>20, <1>21,
     <1>22, <1>23, <1>24 DEF RunTask

\* So does every other step: a sweep only tells of rows it has failed.
LEMMA StepEndsOnce ==
    ASSUME MaxFaults = 0, MaxCrashes = 0, Overrun = FALSE, OneInv, [Next]_vars
    PROVE  \A u \in Tasks : OneEnd(u)'
<1>1. TypeOK /\ EndInv /\ ~(faults < MaxFaults)
  <2>1. TypeOK /\ EndInv
    BY DEF OneInv, EndInv, PipelineInv
  <2>2. ~(faults < MaxFaults)
    BY <2>1 DEF TypeOK
  <2> QED
    BY <2>1, <2>2
<1>2. \A u \in Tasks :
         row[u].status \in Terminal => row'[u].status = row[u].status
  BY <1>1, StepKeepsEndings
<1>3. \A u \in Tasks :
         row[u].status \in {"failed", "completed"} => row'[u].status = row[u].status
  BY <1>2 DEF Terminal
<1>4. ASSUME NEW t \in Tasks, Submit(t) \/ RunTask(t), NEW u \in Tasks
      PROVE  OneEnd(u)'
  <2>1. CASE u = t
    BY <1>2, <1>4, <2>1, RequestEndsOnce
  <2>2. CASE u # t
    <3>1. RequestEnds(t)
      BY <1>1, <1>4, EveryRequestEnds
    <3>2. /\ row'[u] = row[u] /\ pc'[u] = pc[u] /\ sweep' = sweep
      BY <2>2, <3>1 DEF RequestEnds
    <3>3. mem'[u] = mem[u]
      BY <1>1, <1>4, <2>2, RequestIsOwn
    <3>4. feed'[u] = feed[u]
      <4>1. \/ feed' = feed
            \/ \E kind, i : feed' = [feed EXCEPT ![t] = @ \union {<<kind, i>>}]
        BY <1>4 DEF Submit, RunTask, AnnounceTask, StartDiscovery,
             AnnounceDiscovery, DiscoverReply, StartAttempt, PreflightReply,
             AnnounceCheck, Hold, AnnounceHold, SaveEscrowed, SaveInvoking,
             InvokeReply, AnnounceInvoke, Release, AnnounceSettle, Complete,
             Refund, FailExhausted, AnnounceFailure, AwaitRaises, Cleanup,
             Emit, UpdateTask, Execute, db
      <4> QED
        BY <1>1, <2>2, <4>1 DEF TypeOK
    <3> QED
      BY <3>2, <3>3, <3>4 DEF OneInv, OneEnd
  <2> QED
    BY <2>1, <2>2
<1>5. ASSUME NEW t \in Tasks, AgentServes(t) \/ Age(t), NEW u \in Tasks
      PROVE  OneEnd(u)'
  BY <1>5 DEF AgentServes, Age, db, frame, OneInv, OneEnd
<1>6. ASSUME NEW p \in Procs, SweepSelect(p), NEW u \in Tasks PROVE OneEnd(u)'
  <2>1. /\ row' = row /\ pc' = pc /\ mem' = mem /\ feed' = feed
        /\ \A q \in Procs : sweep'[q].marked = sweep[q].marked
    BY <1>1, <1>6 DEF SweepSelect, db, frame, TypeOK
  <2> QED
    BY <2>1 DEF OneInv, OneEnd
<1>7. ASSUME NEW p \in Procs, SweepUpdate(p), NEW u \in Tasks PROVE OneEnd(u)'
  <2>1. PICK t \in sweep[p].todo :
           /\ row' = [row EXCEPT ![t].status = "failed", ![t].done = TRUE]
           /\ sweep' = [sweep EXCEPT ![p].todo = @ \ {t}, ![p].marked = {t}]
    BY <1>1, <1>7 DEF SweepUpdate
  <2>2. t \in Tasks /\ row'[t].status = "failed"
    BY <1>1, <2>1 DEF TypeOK, TaskOut
  <2>3. pc' = pc /\ mem' = mem /\ feed' = feed
    BY <1>7 DEF SweepUpdate, frame
  <2>4. \A q \in Procs : sweep'[q].marked \subseteq sweep[q].marked \union {t}
    BY <1>1, <2>1 DEF TypeOK
  <2>5. \A q \in Procs : u \in sweep'[q].marked => row'[u].status = "failed"
    BY <1>3, <2>2, <2>4 DEF OneInv, OneEnd
  <2> QED
    BY <1>3, <2>3, <2>5 DEF OneInv, OneEnd
<1>8. ASSUME NEW p \in Procs, SweepEmit(p), NEW u \in Tasks PROVE OneEnd(u)'
  <2>1. PICK t \in sweep[p].marked :
           /\ feed' = [feed EXCEPT ![t] = @ \union {<<"error", 0>>}]
           /\ sweep' = [sweep EXCEPT ![p].marked = {}]
    BY <1>1, <1>8 DEF SweepEmit
  <2>2. t \in Tasks /\ row[t].status = "failed"
    BY <1>1, <2>1 DEF TypeOK, OneInv, OneEnd
  <2>3. row' = row /\ pc' = pc /\ mem' = mem
    BY <1>8 DEF SweepEmit, frame
  <2>4. \A q \in Procs : sweep'[q].marked \subseteq sweep[q].marked
    BY <1>1, <2>1 DEF TypeOK
  <2>5. CASE u = t
    <3>1. feed'[u] = feed[u] \union {<<"error", 0>>}
      BY <1>1, <2>1, <2>2, <2>5 DEF TypeOK
    <3>2. \A j \in Slots : <<"settle", j>> \in feed'[u] => <<"settle", j>> \in feed[u]
      BY <3>1
    <3> QED
      BY <2>2, <2>3, <2>4, <2>5, <3>2 DEF OneInv, OneEnd
  <2>6. CASE u # t
    <3>1. feed'[u] = feed[u]
      BY <1>1, <2>1, <2>2, <2>6 DEF TypeOK
    <3> QED
      BY <2>3, <2>4, <3>1 DEF OneInv, OneEnd
  <2> QED
    BY <2>5, <2>6
<1>9. ASSUME NEW p \in Procs, Restart(p), NEW u \in Tasks PROVE OneEnd(u)'
  BY <1>9 DEF Restart, db, frame, OneInv, OneEnd
<1>10. ASSUME NEW p \in Procs PROVE ~Crash(p)
  BY <1>1 DEF Crash, TypeOK
<1>11. ASSUME UNCHANGED vars, NEW u \in Tasks PROVE OneEnd(u)'
  BY <1>11 DEF vars, OneInv, OneEnd
<1> QED
  BY <1>4, <1>5, <1>6, <1>7, <1>8, <1>9, <1>10, <1>11
     DEF Next, Finished, StaleTaskSweep

\* Without errors, crashes and runs that outlast task_stale_seconds, the feed
\* never tells both endings of one task, with any number of processes that
\* sweep the same table.
THEOREM EndingIsOne ==
    ASSUME MaxFaults = 0, MaxCrashes = 0, Overrun = FALSE
    PROVE  Spec => []OneEnding
<1>1. Init => OneInv
  BY InitHolds DEF Init, OneInv, OneEnd, EndInv, EndingKept, AbsentTask,
                   QueuedTask, Asleep, Terminal
<1>2. OneInv /\ [Next]_vars => OneInv'
  BY NextKeeps, StepKeepsEndings, StepEndsOnce DEF OneInv, EndInv
<1>3. ASSUME OneInv, NEW t \in Tasks, NEW j \in Slots,
             <<"settle", j>> \in feed[t], <<"error", 0>> \in feed[t]
      PROVE  FALSE
  <2>1. row[t].status = "failed"
    BY <1>3 DEF OneInv, OneEnd
  <2>2. pc[t] = "closing"
    BY <1>3, <2>1 DEF OneInv, OneEnd
  <2>3. pc[t] \in Gone \/ pc[t] = "failing"
    BY <2>1, <1>3 DEF OneInv, EndInv, EndingKept, Over, Terminal
  <2> QED
    BY <2>2, <2>3 DEF Gone
<1>4. OneInv => OneEnding
  BY <1>3 DEF OneEnding
<1> QED
  BY <1>1, <1>2, <1>4, PTL DEF Spec
----------------------------------------------------------------------------
(* The trail of a completed task tells its ledger, whatever raises          *)

\* Tells, of any slots: the escrow hops tell the taken ones in their order.
TellsOf(slots, hops, taken) ==
    LET told == {i \in DOMAIN hops : hops[i].phase = "escrow"}
    IN  \E hop \in [taken -> told] :
            /\ told \subseteq {hop[j] : j \in taken}
            /\ \A j, k \in taken : j < k => hop[j] < hop[k]
            /\ \A j \in taken : hops[hop[j]].agent = slots[j].agent

TakenOf(slots) == {j \in Slots : slots[j].status # "none"}

\* All the holds but the one that is not announced yet.
Told(slots, at, j) == IF at = "held" THEN TakenOf(slots) \ {j} ELSE TakenOf(slots)

\* The hops of a live request tell its holds, and so does a completed row.
TrailKept(t) ==
    /\ pc[t] \notin Gone \union {"cleanup"} =>
           TellsOf(holds[t], mem[t].hops, Told(holds[t], pc[t], attempt[t]))
    /\ row[t].status = "completed" =>
           TellsOf(holds[t], row[t].hops, TakenOf(holds[t]))

TrailInv == LedgerInv /\ \A t \in Tasks : TrailKept(t)

\* The trail of no holds.
LEMMA NothingTold ==
    ASSUME NEW slots, TakenOf(slots) = {}
    PROVE  TellsOf(slots, << >>, TakenOf(slots))
<1> DEFINE hop == [j \in {} |-> 0]
<1>1. hop \in [{} -> {}]
  OBVIOUS
<1>2. {i \in DOMAIN << >> : << >>[i].phase = "escrow"} = {}
  OBVIOUS
<1> QED
  BY <1>1, <1>2 DEF TellsOf

\* What a trail tells depends on the agents of the holds alone.
LEMMA SameTold ==
    ASSUME NEW slots, NEW other, NEW hops, NEW taken, TellsOf(slots, hops, taken),
           \A j \in taken : other[j].agent = slots[j].agent
    PROVE  TellsOf(other, hops, taken)
BY DEF TellsOf

\* A hop of another phase tells of no hold.
LEMMA ToldStill ==
    ASSUME NEW slots, NEW hops \in Seq(Hops), NEW taken, TellsOf(slots, hops, taken),
           NEW hop \in Hops, hop.phase # "escrow"
    PROVE  TellsOf(slots, Append(hops, hop), taken)
<1> DEFINE more == Append(hops, hop)
           told == {i \in DOMAIN hops : hops[i].phase = "escrow"}
           now == {i \in DOMAIN more : more[i].phase = "escrow"}
<1>1. /\ DOMAIN hops = 1 .. Len(hops) /\ Len(hops) \in Nat
      /\ DOMAIN more = 1 .. Len(hops) + 1
      /\ more[Len(hops) + 1] = hop
      /\ \A i \in DOMAIN hops : more[i] = hops[i]
  OBVIOUS
<1>2. \A i \in DOMAIN more : i \in DOMAIN hops \/ i = Len(hops) + 1
  BY <1>1
<1>3. DOMAIN hops \subseteq DOMAIN more
  BY <1>1
<1> HIDE DEF more
<1>4. now = told
  BY <1>1, <1>2, <1>3
<1>5. \A i \in told : more[i] = hops[i]
  BY <1>1
<1>6. PICK g \in [taken -> told] :
         /\ told \subseteq {g[j] : j \in taken}
         /\ \A j, k \in taken : j < k => g[j] < g[k]
         /\ \A j \in taken : hops[g[j]].agent = slots[j].agent
  BY DEF TellsOf
<1>7. \A j \in taken : more[g[j]].agent = slots[j].agent
  BY <1>5, <1>6
<1> HIDE DEF told, now
<1>8. \E f \in [taken -> now] :
         /\ now \subseteq {f[j] : j \in taken}
         /\ \A j, k \in taken : j < k => f[j] < f[k]
         /\ \A j \in taken : more[f[j]].agent = slots[j].agent
  BY <1>4, <1>6, <1>7
<1> QED
  BY <1>8 DEF TellsOf, now, more

\* The escrow hop of a hold beyond all the others tells of that hold.
LEMMA ToldNext ==
    ASSUME NEW slots, NEW hops \in Seq(Hops), NEW taken, taken \subseteq Nat,
           NEW n \in Nat, n \notin taken, \A j \in taken : j < n,
           TellsOf(slots, hops, taken),
           NEW hop \in Hops, hop.phase = "escrow", hop.agent = slots[n].agent
    PROVE  TellsOf(slots, Append(hops, hop), taken \union {n})
<1> DEFINE more == Append(hops, hop)
           last == Len(hops) + 1
           told == {i \in DOMAIN hops : hops[i].phase = "escrow"}
           now == {i \in DOMAIN more : more[i].phase = "escrow"}
<1>1. /\ DOMAIN hops = 1 .. Len(hops) /\ Len(hops) \in Nat
      /\ DOMAIN more = 1 .. last
      /\ more[last] = hop
      /\ \A i \in DOMAIN hops : more[i] = hops[i]
  OBVIOUS
<1>2. \A i \in DOMAIN more : i \in DOMAIN hops \/ i = last
  BY <1>1
<1>3. DOMAIN hops \subseteq DOMAIN more /\ last \in DOMAIN more
  BY <1>1
<1>4. last \in Nat /\ \A i \in told : i \in Nat /\ i < last
  BY <1>1
<1> HIDE DEF more, last
<1>5. now = told \union {last}
  BY <1>1, <1>2, <1>3
<1>6. \A i \in told : more[i] = hops[i]
  BY <1>1
<1>7. PICK g \in [taken -> told] :
         /\ told \subseteq {g[j] : j \in taken}
         /\ \A j, k \in taken : j < k => g[j] < g[k]
         /\ \A j \in taken : hops[g[j]].agent = slots[j].agent
  BY DEF TellsOf
<1> HIDE DEF told, now
<1> DEFINE f == [j \in taken \union {n} |-> IF j = n THEN last ELSE g[j]]
<1>8. /\ f[n] = last
      /\ \A j \in taken : f[j] = g[j] /\ g[j] \in told
  OBVIOUS
<1>9. f \in [taken \union {n} -> now]
  BY <1>5
<1> HIDE DEF f
<1>10. now \subseteq {f[j] : j \in taken \union {n}}
  <2>1. ASSUME NEW i \in told PROVE \E j \in taken \union {n} : i = f[j]
    BY <1>7, <1>8
  <2> QED
    BY <1>5, <1>8, <2>1
<1>11. ASSUME NEW j \in taken \union {n}, NEW k \in taken \union {n}, j < k
       PROVE  f[j] < f[k]
  <2>1. CASE j \in taken /\ k \in taken
    BY <1>7, <1>8, <1>11, <2>1
  <2>2. CASE k = n /\ j \in taken
    BY <1>4, <1>8, <2>2
  <2>3. CASE j = n
    BY <1>11, <2>3
  <2> QED
    BY <2>1, <2>2, <2>3
<1>12. \A j \in taken \union {n} : more[f[j]].agent = slots[j].agent
  BY <1>1, <1>6, <1>7, <1>8
<1>13. \E e \in [taken \union {n} -> now] :
         /\ now \subseteq {e[j] : j \in taken \union {n}}
         /\ \A j, k \in taken \union {n} : j < k => e[j] < e[k]
         /\ \A j \in taken \union {n} : more[e[j]].agent = slots[j].agent
  BY <1>9, <1>10, <1>11, <1>12
<1> QED
  BY <1>13 DEF TellsOf, now, more

\* The slot of a fresh attempt stays unused, whatever raises.
LEMMA FreshKeeps ==
    ASSUME LedgerInv, [Next]_vars
    PROVE  \A u \in Tasks : FreshSlot(u)'
<1>1. TypeOK /\ holds \in [Tasks -> [Slots -> EscrowHold]]
  BY DEF LedgerInv, PipelineInv, TypeOK
<1>2. ASSUME NEW t \in Tasks, Submit(t) \/ RunTask(t), NEW u \in Tasks
      PROVE  FreshSlot(u)'
  <2>1. CASE u # t
    <3>1. /\ pc'[u] = pc[u] /\ attempt'[u] = attempt[u] /\ holds'[u] = holds[u]
      BY <1>1, <1>2, <2>1, RequestIsOwn
    <3> QED
      BY <3>1 DEF LedgerInv, FreshSlot
  <2>2. CASE Quiet(t)
    BY <2>2, QuietPromised DEF Promised
  <2>3. CASE StartAttempt(t)
    BY <2>3, StartAttemptPromised DEF Promised
  <2>4. CASE u = t /\ (Hold(t) \/ Release(t) \/ Refund(t) \/ Cleanup(t))
    <3>1. \E next, m : Continue(t, next, m) /\ next \notin Fresh
      BY <2>4 DEF Hold, Release, Refund, Cleanup, Execute, Raise, Fresh
    <3>2. pc'[t] \notin Fresh
      BY <1>1, <3>1, ContinueMoves
    <3> QED
      BY <2>4, <3>2 DEF FreshSlot
  <2> QED
    BY <1>2, <2>1, <2>2, <2>3, <2>4 DEF RunTask, Quiet
<1>3. ASSUME \/ \E t \in Tasks : AgentServes(t) \/ Age(t)
             \/ \E p \in Procs : StaleTaskSweep(p) \/ Crash(p) \/ Restart(p)
             \/ UNCHANGED vars,
             NEW u \in Tasks
      PROVE  FreshSlot(u)'
  <2>1. /\ holds' = holds
        /\ attempt' = attempt
        /\ \A v \in Tasks : pc'[v] \in Fresh => pc'[v] = pc[v]
    BY <1>1, <1>3, OtherSteps
  <2> QED
    BY <2>1 DEF LedgerInv, FreshSlot
<1> QED
  BY <1>2, <1>3 DEF Next, Finished

\* A statement other than Hold: whatever it writes, and whether it raises or
\* not, tells the holds there are then.
LEMMA StatementTells ==
    ASSUME TypeOK, NEW t \in Tasks, NEW r, NEW h, NEW f, NEW next, NEW m,
           Execute(t, r, h, f, next, m), next # "held",
           row[t].status # "completed",
           r \in {row, [row EXCEPT ![t] = m]},
           TellsOf(holds[t], m.hops, TakenOf(holds[t])),
           TellsOf(h[t], m.hops, TakenOf(h[t]))
    PROVE  TrailKept(t)'
<1>1. /\ row'[t] \in {row[t], m}
      /\ holds'[t] \in {holds[t], h[t]}
  BY DEF Execute, db, TypeOK
<1>2. \/ pc'[t] = next /\ mem'[t] = m
      \/ pc'[t] \in {"cleanup", "raised"}
  <2>1. \/ Continue(t, next, m)
        \/ Continue(t, IF pc[t] \in InTry THEN "cleanup" ELSE "raised", mem[t])
    BY DEF Execute, Raise
  <2> QED
    BY <2>1, ContinueMoves
<1>3. TellsOf(holds'[t], m.hops, TakenOf(holds'[t]))
  BY <1>1
<1>4. row'[t].status = "completed" => row'[t] = m
  BY <1>1
<1>5. pc'[t] \notin Gone \union {"cleanup"} =>
        TellsOf(holds'[t], mem'[t].hops, Told(holds'[t], pc'[t], attempt'[t]))
  BY <1>2, <1>3 DEF Gone, Told
<1>6. row'[t].status = "completed" =>
        TellsOf(holds'[t], row'[t].hops, TakenOf(holds'[t]))
  BY <1>3, <1>4
<1> QED
  BY <1>5, <1>6 DEF TrailKept

\* The answer to an await.
LEMMA AnswerTells ==
    ASSUME TypeOK, NEW t \in Tasks, NEW next, NEW m, Continue(t, next, m),
           row' = row, row[t].status # "completed",
           \/ next \in Gone \union {"cleanup"}
           \/ /\ next # "held" /\ holds' = holds
              /\ TellsOf(holds[t], m.hops, TakenOf(holds[t]))
    PROVE  TrailKept(t)'
<1>1. pc'[t] = next /\ mem'[t] = m
  BY ContinueMoves
<1>2. row'[t].status # "completed"
  OBVIOUS
<1>3. pc'[t] \notin Gone \union {"cleanup"} =>
        TellsOf(holds'[t], mem'[t].hops, Told(holds'[t], pc'[t], attempt'[t]))
  BY <1>1 DEF Told
<1> QED
  BY <1>2, <1>3 DEF TrailKept

\* Settling a hold leaves the trail of the task true.
LEMMA SettledTold ==
    ASSUME TypeOK, NEW t \in Tasks, NEW s \in {"released", "refunded"},
           attempt[t] \in Slots, holds[t][attempt[t]].status # "none", NEW hops,
           TellsOf(holds[t], hops, TakenOf(holds[t]))
    PROVE  TellsOf(Settled(t, s)[t], hops, TakenOf(Settled(t, s)[t]))
<1> DEFINE y == Settled(t, s)[t]
<1>1. holds[t] \in [Slots -> EscrowHold] /\ holds \in [Tasks -> [Slots -> EscrowHold]]
  BY DEF TypeOK
<1>2. y = [holds[t] EXCEPT ![attempt[t]].status = s]
  BY <1>1 DEF Settled
<1>3. ASSUME NEW j \in Slots
      PROVE  /\ y[j].agent = holds[t][j].agent
             /\ y[j].status # "none" <=> holds[t][j].status # "none"
  BY <1>1, <1>2 DEF EscrowHold
<1> HIDE DEF y
<1>4. TakenOf(y) = TakenOf(holds[t]) /\ TakenOf(y) \subseteq Slots
  BY <1>3 DEF TakenOf
<1>5. TellsOf(y, hops, TakenOf(holds[t]))
  BY <1>3, <1>4, SameTold
<1> QED
  BY <1>4, <1>5 DEF y

\* A step that adds no hop, or one of another phase than escrow.
Follows(m, t) ==
    \/ m.hops = mem[t].hops
    \/ \E p \in {"verify", "invoke", "settle"}, ok \in BOOLEAN :
          m = AddHop(mem[t], p, Candidate(t), ok)

\* It leaves the trail true.
LEMMA FollowsTells ==
    ASSUME NEW t \in Tasks, mem[t] \in TaskOut, NEW m, Follows(m, t),
           Candidate(t) \in Agents \/ m.hops = mem[t].hops,
           NEW slots, NEW taken, TellsOf(slots, mem[t].hops, taken)
    PROVE  TellsOf(slots, m.hops, taken)
<1>1. ASSUME NEW p \in {"verify", "invoke", "settle"}, NEW ok \in BOOLEAN,
             m = AddHop(mem[t], p, Candidate(t), ok), Candidate(t) \in Agents
      PROVE  TellsOf(slots, m.hops, taken)
  <2> DEFINE hop == [phase |-> p, agent |-> Candidate(t), ok |-> ok]
  <2>1. hop \in Hops /\ hop.phase # "escrow"
    BY <1>1 DEF Hops
  <2>2. mem[t].hops \in Seq(Hops) /\ m.hops = Append(mem[t].hops, hop)
    BY <1>1 DEF AddHop, TaskOut
  <2> HIDE DEF hop
  <2>3. TellsOf(slots, Append(mem[t].hops, hop), taken)
    BY <2>1, <2>2, ToldStill
  <2> QED
    BY <2>2, <2>3
<1>2. CASE m.hops = mem[t].hops
  BY <1>2
<1> QED
  BY <1>1, <1>2 DEF Follows

\* What a request is about to write before its attempt is announced as held:
\* the announcement adds the hold to the trail.
LEMMA HeldTold ==
    ASSUME TypeOK, NEW t \in Tasks, TaskInv(t), TrailKept(t), pc[t] = "held"
    PROVE  TellsOf(holds[t], AddHop(mem[t], "escrow", Candidate(t), TRUE).hops,
                   TakenOf(holds[t]))
<1> DEFINE n == attempt[t]
           hop == [phase |-> "escrow", agent |-> Candidate(t), ok |-> TRUE]
           taken == TakenOf(holds[t]) \ {n}
<1>1. n \in Slots /\ Candidate(t) \in Agents
  BY InAttempt DEF HoldTaken, InTry
<1>2. TellsOf(holds[t], mem[t].hops, taken)
  BY DEF TrailKept, Told, Gone
<1>3. hop \in Hops /\ hop.phase = "escrow" /\ hop.agent = holds[t][n].agent
  BY <1>1 DEF Hops, TaskInv, HoldIsOffer, HoldTaken, InTry
<1>4. mem[t].hops \in Seq(Hops)
      /\ AddHop(mem[t], "escrow", Candidate(t), TRUE).hops = Append(mem[t].hops, hop)
  BY DEF AddHop, TypeOK, TaskOut
<1>5. holds[t][n].status = "held" /\ \A j \in Slots : j > n => holds[t][j].status = "none"
  BY <1>1 DEF TaskInv, SlotsFollowFrame, InTry, Gone
<1>6. n \in Nat /\ \A j \in Slots : j \in Nat
  BY <1>1 DEF Slots
<1>7. /\ taken \subseteq Nat /\ n \notin taken
      /\ \A j \in taken : j < n
      /\ taken \union {n} = TakenOf(holds[t])
  BY <1>1, <1>5, <1>6 DEF TakenOf
<1> HIDE DEF n, hop, taken
<1>8. TellsOf(holds[t], Append(mem[t].hops, hop), taken \union {n})
  BY <1>2, <1>3, <1>4, <1>6, <1>7, ToldNext
<1> QED
  BY <1>4, <1>7, <1>8

\* Hold takes a new slot: the trail still tells all the others.
LEMMA HoldTells ==
    ASSUME TrailInv, NEW t \in Tasks, Hold(t)
    PROVE  TrailKept(t)'
<1> DEFINE n == attempt[t]
           m == [mem[t] EXCEPT !.status = "escrowed"]
           x == [status |-> "held", agent |-> Candidate(t),
                 amount |-> Price(t, Candidate(t))]
<1>1. /\ TypeOK /\ TaskInv(t) /\ FreshSlot(t) /\ TrailKept(t)
      /\ pc[t] = "hold" /\ attempt' = attempt
      /\ mem[t] \in TaskOut /\ holds \in [Tasks -> [Slots -> EscrowHold]]
  BY DEF TrailInv, LedgerInv, PipelineInv, TypeOK, Hold, Turn
<1>2. n \in Slots
  BY <1>1, InAttempt DEF Between
<1>3. holds[t][n].status = "none"
  BY <1>1 DEF FreshSlot, Fresh
<1>4. /\ TellsOf(holds[t], mem[t].hops, TakenOf(holds[t]))
      /\ row[t].status # "completed"
  BY <1>1 DEF TrailKept, Told, Gone, TaskInv, SettledFrame
<1>5. row' = row
  BY DEF Hold, Execute, db
<1>6. CASE pc'[t] \in {"cleanup", "raised"}
  BY <1>4, <1>5, <1>6 DEF TrailKept, Gone
<1>7. CASE pc'[t] \notin {"cleanup", "raised"}
  <2>1. /\ Continue(t, "held", m)
        /\ holds' = [holds EXCEPT ![t][n] = x]
    <3>1. Raise(t) => pc'[t] \in {"cleanup", "raised"}
      BY <1>1, ContinueMoves DEF Raise
    <3> QED
      BY <1>7, <3>1 DEF Hold, Execute
  <2>2. pc'[t] = "held" /\ mem'[t] = m /\ m.hops = mem[t].hops
    BY <1>1, <2>1, ContinueMoves DEF TaskOut
  <2>3. \A j \in Slots : j # n => holds'[t][j] = holds[t][j]
    BY <1>1, <2>1
  <2>4. TakenOf(holds'[t]) \ {n} = TakenOf(holds[t])
    BY <1>2, <1>3, <2>3 DEF TakenOf
  <2>5. \A j \in TakenOf(holds[t]) : holds'[t][j].agent = holds[t][j].agent
    BY <1>3, <2>3 DEF TakenOf
  <2>6. TellsOf(holds'[t], mem[t].hops, TakenOf(holds[t]))
    BY <1>4, <2>5, SameTold
  <2>7. TellsOf(holds'[t], mem'[t].hops, Told(holds'[t], pc'[t], attempt'[t]))
    BY <1>1, <2>2, <2>4, <2>6 DEF Told
  <2> QED
    BY <1>4, <1>5, <2>7 DEF TrailKept
<1> QED
  BY <1>6, <1>7

\* Every step of a request keeps the trail of its task.
LEMMA RequestTells ==
    ASSUME TrailInv, NEW t \in Tasks, Submit(t) \/ RunTask(t)
    PROVE  TrailKept(t)'
<1>1. /\ TypeOK /\ TaskInv(t) /\ TrailKept(t) /\ FreshSlot(t)
      /\ mem[t] \in TaskOut
  BY DEF TrailInv, LedgerInv, PipelineInv, TypeOK
<1>2. pc[t] \notin Gone \union {"cleanup", "held"} =>
        TellsOf(holds[t], mem[t].hops, TakenOf(holds[t]))
  BY <1>1 DEF TrailKept, Told
<1>3. pc[t] \notin {"ended", "raised"} => row[t].status # "completed"
  BY <1>1 DEF TaskInv, SettledFrame
\* A statement that keeps the holds.
<1>4. ASSUME NEW r, NEW f, NEW next, NEW m,
             Execute(t, r, holds, f, next, m), r \in {row, [row EXCEPT ![t] = m]},
             next # "held", pc[t] \notin Gone \union {"cleanup", "held"},
             Follows(m, t), Candidate(t) \in Agents \/ m.hops = mem[t].hops
      PROVE  TrailKept(t)'
  <2>1. TellsOf(holds[t], m.hops, TakenOf(holds[t]))
    BY <1>1, <1>2, <1>4, FollowsTells
  <2>2. row[t].status # "completed"
    BY <1>3, <1>4 DEF Gone
  <2> QED
    BY <1>1, <1>4, <2>1, <2>2, StatementTells
\* One that settles the hold.
<1>5. ASSUME NEW s \in {"released", "refunded"}, NEW next, NEW m,
             Execute(t, row, Settled(t, s), feed, next, m), next # "held",
             pc[t] \in {"release", "refund"}, m.hops = mem[t].hops
      PROVE  TrailKept(t)'
  <2>1. /\ attempt[t] \in Slots
        /\ holds[t][attempt[t]].status # "none"
    BY <1>1, <1>5, SettlingKeepsLedger DEF InTry
  <2>2. TellsOf(holds[t], m.hops, TakenOf(holds[t])) /\ row[t].status # "completed"
    BY <1>2, <1>3, <1>5 DEF Gone
  <2>3. TellsOf(Settled(t, s)[t], m.hops, TakenOf(Settled(t, s)[t]))
    BY <1>1, <2>1, <2>2, SettledTold
  <2> QED
    BY <1>1, <1>5, <2>2, <2>3, StatementTells
\* The answer to an await.
<1>6. ASSUME NEW next, NEW m, Continue(t, next, m), UNCHANGED db, next # "held",
             pc[t] \notin Gone \union {"cleanup", "held"},
             Follows(m, t), Candidate(t) \in Agents \/ m.hops = mem[t].hops
      PROVE  TrailKept(t)'
  <2>1. TellsOf(holds[t], m.hops, TakenOf(holds[t]))
    BY <1>1, <1>2, <1>6, FollowsTells
  <2>2. row[t].status # "completed"
    BY <1>3, <1>6 DEF Gone
  <2> QED
    BY <1>1, <1>6, <2>1, <2>2, AnswerTells DEF db
<1>7. CASE Submit(t)
  <2>1. /\ Execute(t, [row EXCEPT ![t] = QueuedTask], holds, feed, "created", QueuedTask)
        /\ pc[t] = "idle"
    BY <1>7 DEF Submit, Turn
  <2>2. TakenOf(holds[t]) = {}
    <3>1. attempt[t] = 0
      BY <1>1, <2>1 DEF TaskInv, AttemptStarted
    <3>2. \A j \in Slots : j > attempt[t]
      BY <3>1 DEF Slots
    <3> QED
      BY <1>1, <2>1, <3>2 DEF TaskInv, SlotsFollowFrame, Gone, TakenOf
  <2>3. TellsOf(holds[t], QueuedTask.hops, TakenOf(holds[t]))
    BY <2>2, NothingTold DEF QueuedTask
  <2> QED
    BY <1>1, <1>3, <2>1, <2>3, StatementTells
<1>8. CASE StartDiscovery(t)
  <2> DEFINE m == [mem[t] EXCEPT !.status = "discovering"]
  <2>1. Execute(t, [row EXCEPT ![t] = m], holds, feed, "started", m) /\ pc[t] = "start"
    BY <1>8 DEF StartDiscovery, UpdateTask, Turn
  <2>2. m.hops = mem[t].hops
    BY <1>1 DEF TaskOut
  <2> HIDE DEF m
  <2> QED
    BY <1>4, <2>1, <2>2 DEF Follows, Gone
<1>9. CASE StartAttempt(t)
  <2> DEFINE m == [mem[t] EXCEPT !.status = "verifying"]
  <2>1. Execute(t, [row EXCEPT ![t] = m], holds, feed, "preflight", m) /\ pc[t] = "next"
    BY <1>9 DEF StartAttempt, UpdateTask, Turn
  <2>2. m.hops = mem[t].hops
    BY <1>1 DEF TaskOut
  <2> HIDE DEF m
  <2> QED
    BY <1>4, <2>1, <2>2 DEF Follows, Gone
<1>10. CASE SaveEscrowed(t)
  <2> DEFINE m == mem[t]
  <2>1. Execute(t, [row EXCEPT ![t] = m], holds, feed, "invoking", m) /\ pc[t] = "escrowed"
    BY <1>10 DEF SaveEscrowed, UpdateTask, Turn
  <2>2. m.hops = mem[t].hops
    BY <1>1 DEF TaskOut
  <2> HIDE DEF m
  <2> QED
    BY <1>4, <2>1, <2>2 DEF Follows, Gone
<1>11. CASE SaveInvoking(t)
  <2> DEFINE m == [mem[t] EXCEPT !.status = "invoking"]
  <2>1. Execute(t, [row EXCEPT ![t] = m], holds, feed, "invoke", m) /\ pc[t] = "invoking"
    BY <1>11 DEF SaveInvoking, UpdateTask, Turn
  <2>2. m.hops = mem[t].hops
    BY <1>1 DEF TaskOut
  <2> HIDE DEF m
  <2> QED
    BY <1>4, <2>1, <2>2 DEF Follows, Gone
<1>12. CASE Complete(t)
  <2> DEFINE m == [mem[t] EXCEPT !.done = TRUE]
  <2>1. Execute(t, [row EXCEPT ![t] = m], holds, feed, "ended", m) /\ pc[t] = "closing"
    BY <1>12 DEF Complete, UpdateTask, Turn
  <2>2. m.hops = mem[t].hops
    BY <1>1 DEF TaskOut
  <2> HIDE DEF m
  <2> QED
    BY <1>4, <2>1, <2>2 DEF Follows, Gone
<1>13. CASE FailExhausted(t)
  <2> DEFINE m == [mem[t] EXCEPT !.status = "failed", !.done = TRUE]
  <2>1. Execute(t, [row EXCEPT ![t] = m], holds, feed, "failing", m) /\ pc[t] = "next"
    BY <1>13 DEF FailExhausted, UpdateTask, Turn
  <2>2. m.hops = mem[t].hops
    BY <1>1 DEF TaskOut
  <2> HIDE DEF m
  <2> QED
    BY <1>4, <2>1, <2>2 DEF Follows, Gone
<1>14. CASE AnnounceTask(t)
  <2>1. /\ \E f, next : Execute(t, row, holds, f, next, mem[t]) /\ next # "held"
        /\ pc[t] \notin Gone \union {"cleanup", "held"}
    BY <1>14 DEF AnnounceTask, Emit, Turn, Gone
  <2> QED
    BY <1>4, <2>1 DEF Follows
<1>15. CASE AnnounceDiscovery(t)
  <2>1. /\ \E f, next : Execute(t, row, holds, f, next, mem[t]) /\ next # "held"
        /\ pc[t] \notin Gone \union {"cleanup", "held"}
    BY <1>15 DEF AnnounceDiscovery, Emit, Turn, Gone
  <2> QED
    BY <1>4, <2>1 DEF Follows
<1>16. CASE AnnounceCheck(t)
  <2>1. /\ \E f, next : Execute(t, row, holds, f, next, mem[t]) /\ next # "held"
        /\ pc[t] \notin Gone \union {"cleanup", "held"}
    BY <1>16 DEF AnnounceCheck, Emit, Turn, Gone
  <2> QED
    BY <1>4, <2>1 DEF Follows
<1>17. CASE AnnounceInvoke(t)
  <2>1. /\ \E f, next : Execute(t, row, holds, f, next, mem[t]) /\ next # "held"
        /\ pc[t] \notin Gone \union {"cleanup", "held"}
    BY <1>17 DEF AnnounceInvoke, Emit, Turn, Gone
  <2> QED
    BY <1>4, <2>1 DEF Follows
<1>18. CASE AnnounceFailure(t)
  <2>1. /\ \E f, next : Execute(t, row, holds, f, next, mem[t]) /\ next # "held"
        /\ pc[t] \notin Gone \union {"cleanup", "held"}
    BY <1>18 DEF AnnounceFailure, Emit, Turn, Gone
  <2> QED
    BY <1>4, <2>1 DEF Follows
<1>19. CASE AnnounceSettle(t)
  <2> DEFINE m == AddHop(mem[t], "settle", Candidate(t), TRUE)
  <2>1. /\ \E f : Execute(t, row, holds, f, "closing", m)
        /\ pc[t] = "settled"
    BY <1>19 DEF AnnounceSettle, Emit, Turn
  <2>2. Candidate(t) \in Agents
    BY <1>1, <2>1, InAttempt DEF HoldTaken
  <2>3. Follows(m, t)
    BY DEF Follows
  <2> HIDE DEF m
  <2> QED
    BY <1>4, <2>1, <2>2, <2>3 DEF Gone
<1>20. CASE AnnounceHold(t)
  <2> DEFINE m == AddHop(mem[t], "escrow", Candidate(t), TRUE)
  <2>1. /\ \E f : Execute(t, row, holds, f, "escrowed", m)
        /\ pc[t] = "held"
    BY <1>20 DEF AnnounceHold, Emit, Turn
  <2>2. TellsOf(holds[t], m.hops, TakenOf(holds[t]))
    BY <1>1, <2>1, HeldTold
  <2> HIDE DEF m
  <2> QED
    BY <1>1, <1>3, <2>1, <2>2, StatementTells
<1>21. CASE Hold(t)
  BY <1>21, HoldTells
<1>22. CASE Release(t)
  <2> DEFINE m == [mem[t] EXCEPT !.spent = Price(t, Candidate(t)),
                                !.agent = Candidate(t),
                                !.status = "completed"]
  <2>1. /\ Execute(t, row, Settled(t, "released"), feed, "settled", m)
        /\ pc[t] = "release"
    BY <1>22 DEF Release, Turn
  <2>2. m.hops = mem[t].hops
    BY <1>1 DEF TaskOut
  <2> HIDE DEF m
  <2> QED
    BY <1>5, <2>1, <2>2
<1>23. CASE Refund(t)
  BY <1>5, <1>23 DEF Refund, Turn
<1>24. CASE DiscoverReply(t)
  BY <1>6, <1>24 DEF DiscoverReply, Turn, Follows, Gone
<1>25. CASE PreflightReply(t)
  <2>1. PICK ok \in BOOLEAN :
           Continue(t, IF ok THEN "healthy" ELSE "unhealthy",
                    AddHop(mem[t], "verify", Candidate(t), ok))
    BY <1>25 DEF PreflightReply
  <2> DEFINE m == AddHop(mem[t], "verify", Candidate(t), ok)
             next == IF ok THEN "healthy" ELSE "unhealthy"
  <2>2. pc[t] = "preflight" /\ UNCHANGED db
    BY <1>25 DEF PreflightReply, Turn
  <2>3. Candidate(t) \in Agents
    BY <1>1, <2>2, InAttempt DEF HoldTaken, InTry, Between
  <2>4. Follows(m, t)
    BY DEF Follows
  <2>5. next # "held" /\ Continue(t, next, m)
    BY <2>1
  <2> HIDE DEF m, next
  <2> QED
    BY <1>6, <2>2, <2>3, <2>4, <2>5 DEF Gone
<1>26. CASE InvokeReply(t)
  <2>1. PICK ok \in BOOLEAN :
           Continue(t, IF ok THEN "accepted" ELSE "rejected",
                    AddHop(mem[t], "invoke", Candidate(t), ok))
    BY <1>26 DEF InvokeReply
  <2> DEFINE m == AddHop(mem[t], "invoke", Candidate(t), ok)
             next == IF ok THEN "accepted" ELSE "rejected"
  <2>2. pc[t] = "invoke" /\ UNCHANGED db
    BY <1>26 DEF InvokeReply, Turn
  <2>3. Candidate(t) \in Agents
    BY <1>1, <2>2, InAttempt DEF HoldTaken, InTry, Between
  <2>4. Follows(m, t)
    BY DEF Follows
  <2>5. next # "held" /\ Continue(t, next, m)
    BY <2>1
  <2> HIDE DEF m, next
  <2> QED
    BY <1>6, <2>2, <2>3, <2>4, <2>5 DEF Gone
<1>27. CASE AwaitRaises(t)
  <2>1. /\ Continue(t, IF pc[t] \in InTry THEN "cleanup" ELSE "raised", mem[t])
        /\ pc[t] \in {"discover", "preflight", "invoke"} /\ row' = row
    BY <1>27 DEF AwaitRaises, Raise, Turn, db
  <2> DEFINE next == IF pc[t] \in InTry THEN "cleanup" ELSE "raised"
  <2>2. next \in Gone \union {"cleanup"}
    BY DEF Gone
  <2> HIDE DEF next
  <2>3. Continue(t, next, mem[t])
    BY <2>1 DEF next
  <2> QED
    BY <1>1, <1>3, <2>1, <2>2, <2>3, AnswerTells
<1>28. CASE Cleanup(t)
  <2>1. Continue(t, "raised", mem[t]) /\ pc[t] = "cleanup" /\ row' = row
    BY <1>28 DEF Cleanup, Turn
  <2> QED
    BY <1>1, <1>3, <2>1, AnswerTells DEF Gone
<1> QED
  BY <1>7, <1>8, <1>9, <1>10, <1>11, <1>12, <1>13, <1>14, <1>15, <1>16,
     <1>17, <1>18, <1>19, <1>20, <1>21, <1>22, <1>23, <1>24, <1>25,
     <1>26, <1>27, <1>28
     DEF RunTask

\* So does every other step: a sweep writes no trail and completes no row.
LEMMA NextTells == TrailInv /\ [Next]_vars => TrailInv'
<1> SUFFICES ASSUME TrailInv, [Next]_vars
             PROVE  \A u \in Tasks : FreshSlot(u)' /\ TrailKept(u)'
  BY NextKeeps DEF TrailInv, LedgerInv
<1>1. TypeOK /\ LedgerInv /\ row \in [Tasks -> TaskOut]
  BY DEF TrailInv, LedgerInv, PipelineInv, TypeOK
<1>2. \A u \in Tasks : FreshSlot(u)'
  BY <1>1, FreshKeeps
<1>3. ASSUME NEW t \in Tasks, Submit(t) \/ RunTask(t), NEW u \in Tasks
      PROVE  TrailKept(u)'
  <2>1. CASE u = t
    BY <1>3, <2>1, RequestTells
  <2>2. CASE u # t
    <3>1. /\ pc'[u] = pc[u] /\ mem'[u] = mem[u] /\ row'[u] = row[u]
          /\ attempt'[u] = attempt[u] /\ holds'[u] = holds[u]
      BY <1>1, <1>3, <2>2, RequestIsOwn, RequestRows
    <3> QED
      BY <3>1 DEF TrailInv, TrailKept
  <2> QED
    BY <2>1, <2>2
<1>4. ASSUME \/ \E t \in Tasks : AgentServes(t) \/ Age(t)
             \/ \E p \in Procs : StaleTaskSweep(p) \/ Crash(p) \/ Restart(p)
             \/ UNCHANGED vars,
             NEW u \in Tasks
      PROVE  TrailKept(u)'
  <2>1. holds' = holds /\ attempt' = attempt
    BY <1>1, <1>4, OtherSteps
  <2>2. mem' = mem /\ pc'[u] \in {pc[u], "crashed"}
    <3>1. ASSUME NEW p \in Procs, Crash(p)
          PROVE  mem' = mem /\ pc'[u] \in {pc[u], "crashed"}
      BY <3>1 DEF Crash
    <3>2. (\E p \in Procs : Crash(p)) \/ (pc' = pc /\ mem' = mem)
      BY <1>4 DEF AgentServes, Age, StaleTaskSweep, SweepSelect, SweepUpdate,
                  SweepEmit, Restart, frame, vars
    <3> QED
      BY <3>1, <3>2
  <2>3. row'[u] = row[u] \/ row'[u].status = "failed"
    <3>1. ASSUME NEW p \in Procs, SweepUpdate(p)
          PROVE  row'[u] = row[u] \/ row'[u].status = "failed"
      BY <1>1, <3>1 DEF SweepUpdate, TaskOut
    <3>2. (\E p \in Procs : SweepUpdate(p)) \/ row' = row
      BY <1>4 DEF AgentServes, Age, StaleTaskSweep, SweepSelect,
                  SweepEmit, Restart, Crash, db, vars
    <3> QED
      BY <3>1, <3>2
  <2>4. TrailKept(u)
    BY DEF TrailInv
  <2> QED
    BY <2>1, <2>2, <2>3, <2>4 DEF TrailKept, Gone
<1> QED
  BY <1>2, <1>3, <1>4 DEF Next, Finished

\* The hops of a completed task tell the holds of its ledger, all of them, in
\* their order and with their agents, whatever raises, crashes or sweeps: the
\* next hold is never taken before the last one is in the trail.
THEOREM TrailStaysLedger == Spec => []TrailIsLedger
<1>1. Init => TrailInv
  <2>1. ASSUME Init, NEW t \in Tasks PROVE FreshSlot(t) /\ TrailKept(t)
    <3>1. /\ holds[t] = [j \in Slots |-> NoHold] /\ pc[t] = "idle"
          /\ mem[t] = AbsentTask /\ row[t] = AbsentTask
      BY <2>1 DEF Init
    <3>2. TakenOf(holds[t]) = {}
      BY <3>1 DEF TakenOf, NoHold
    <3>3. TellsOf(holds[t], mem[t].hops, TakenOf(holds[t]))
      BY <3>1, <3>2, NothingTold DEF AbsentTask, QueuedTask
    <3> QED
      BY <3>1, <3>3 DEF FreshSlot, Fresh, TrailKept, Told, AbsentTask, QueuedTask
  <2> QED
    BY <2>1, InitHolds DEF TrailInv, LedgerInv
<1>2. TrailInv => TrailIsLedger
  BY DEF TrailInv, TrailKept, TrailIsLedger, TellsOf, Tells, TakenOf, Taken
<1> QED
  BY <1>1, <1>2, NextTells, PTL DEF Spec

----------------------------------------------------------------------------
(* Who executes a call, or is paid for one, had passed its preflight        *)

\* Past the preflight of the current candidate.
Cleared == HoldTaken \union {"healthy", "hold"}

\* A task has an empty trail before it exists; where the preflight is passed
\* the trail says so; a call is executed under a hold, by an agent that has
\* an address and has passed; and only an executed call is paid.
CheckKept(t) ==
    /\ pc[t] = "idle" => mem[t].hops = << >>
    /\ pc[t] \in Cleared => Passed(mem[t], Candidate(t))
    /\ \A j \in Slots :
        /\ <<t, j>> \in served =>
               /\ holds[t][j].status # "none"
               /\ InvokeRoute(holds[t][j].agent) # "nowhere"
               /\ Passed(mem[t], holds[t][j].agent)
        /\ holds[t][j].status = "released" => <<t, j>> \in served

CheckInv == LedgerInv /\ \A t \in Tasks : CheckKept(t)

\* A longer trail tells no less.
LEMMA PassedStill ==
    ASSUME NEW m \in TaskOut, NEW p, NEW a, NEW ok, NEW b, Passed(m, b)
    PROVE  Passed(AddHop(m, p, a, ok), b)
<1> DEFINE hop == [phase |-> p, agent |-> a, ok |-> ok]
           more == Append(m.hops, hop)
<1>1. m.hops \in Seq(Hops) /\ AddHop(m, p, a, ok).hops = more
  BY DEF AddHop, TaskOut
<1>2. \A i \in DOMAIN m.hops : i \in DOMAIN more /\ more[i] = m.hops[i]
  BY <1>1
<1> HIDE DEF more
<1> QED
  BY <1>1, <1>2 DEF Passed

\* The hop of a passed preflight is in it.
LEMMA PassedNow ==
    ASSUME NEW m \in TaskOut, NEW a
    PROVE  Passed(AddHop(m, "verify", a, TRUE), a)
<1> DEFINE hop == [phase |-> "verify", agent |-> a, ok |-> TRUE]
           more == Append(m.hops, hop)
           last == Len(m.hops) + 1
<1>1. m.hops \in Seq(Hops) /\ AddHop(m, "verify", a, TRUE).hops = more
  BY DEF AddHop, TaskOut
<1>2. last \in DOMAIN more /\ more[last] = hop
  BY <1>1
<1> HIDE DEF more, last
<1> QED
  BY <1>1, <1>2 DEF Passed

\* These holds are those of t, with no agent changed, none forgotten and none
\* paid but for an executed call.
HoldsKept(t, slots) ==
    \A j \in Slots :
        /\ holds[t][j].status # "none" =>
               slots[j].status # "none" /\ slots[j].agent = holds[t][j].agent
        /\ slots[j].status = "released" =>
               holds[t][j].status = "released" \/ <<t, j>> \in served

\* The trail of m has every passed preflight that the one of t has.
TrailKeeps(t, m) == \A b : Passed(mem[t], b) => Passed(m, b)

\* A step of the request of t that keeps its holds and its trail.
LEMMA StepChecks ==
    ASSUME NEW t \in Tasks, CheckKept(t), pc'[t] # "idle", served' = served,
           HoldsKept(t, holds'[t]), TrailKeeps(t, mem'[t]),
           pc'[t] \in Cleared => Passed(mem'[t], Candidate(t)')
    PROVE  CheckKept(t)'
<1>1. ASSUME NEW j \in Slots, <<t, j>> \in served
      PROVE  /\ holds'[t][j].status # "none"
             /\ InvokeRoute(holds'[t][j].agent) # "nowhere"
             /\ Passed(mem'[t], holds'[t][j].agent)
  <2>1. /\ holds[t][j].status # "none"
        /\ InvokeRoute(holds[t][j].agent) # "nowhere"
        /\ Passed(mem[t], holds[t][j].agent)
    BY <1>1 DEF CheckKept
  <2>2. holds'[t][j].status # "none" /\ holds'[t][j].agent = holds[t][j].agent
    BY <2>1 DEF HoldsKept
  <2>3. Passed(mem'[t], holds[t][j].agent)
    BY <2>1 DEF TrailKeeps
  <2> QED
    BY <2>1, <2>2, <2>3
<1>2. ASSUME NEW j \in Slots, holds'[t][j].status = "released"
      PROVE  <<t, j>> \in served
  BY <1>2 DEF CheckKept, HoldsKept
<1>3. \A a : InvokeRoute(a)' = InvokeRoute(a)
  BY DEF InvokeRoute
<1>4. /\ pc'[t] = "idle" => mem'[t].hops = << >>
      /\ \A b : Passed(mem[t], b)' <=> Passed(mem'[t], b)
  BY DEF Passed
<1> QED
  BY <1>1, <1>2, <1>3, <1>4 DEF CheckKept

\* A statement: it moves the request on or raises.
LEMMA StatementChecks ==
    ASSUME TypeOK, NEW t \in Tasks, CheckKept(t), NEW r, NEW h, NEW f,
           NEW next, NEW m, Execute(t, r, h, f, next, m), next # "idle",
           HoldsKept(t, h[t]), TrailKeeps(t, m),
           next \in Cleared => Passed(m, Candidate(t)) /\ Candidate(t)' = Candidate(t)
    PROVE  CheckKept(t)'
<1>1. served' = served /\ holds'[t] \in {holds[t], h[t]}
  BY DEF Execute, world, db
<1>2. \/ pc'[t] = next /\ mem'[t] = m
      \/ pc'[t] \in {"cleanup", "raised"} /\ mem'[t] = mem[t]
  <2>1. \/ Continue(t, next, m)
        \/ Continue(t, IF pc[t] \in InTry THEN "cleanup" ELSE "raised", mem[t])
    BY DEF Execute, Raise
  <2> QED
    BY <2>1, ContinueMoves
<1>3. HoldsKept(t, holds'[t])
  BY <1>1 DEF HoldsKept
<1>4. TrailKeeps(t, mem'[t])
  BY <1>2 DEF TrailKeeps
<1>5. pc'[t] # "idle" /\ (pc'[t] \in Cleared => Passed(mem'[t], Candidate(t)'))
  BY <1>2 DEF Cleared, HoldTaken, InTry
<1> QED
  BY <1>1, <1>3, <1>4, <1>5, StepChecks

\* The answer to an await, and an exception.
LEMMA AnswerChecks ==
    ASSUME TypeOK, NEW t \in Tasks, CheckKept(t), NEW next, NEW m,
           Continue(t, next, m), next # "idle", UNCHANGED served,
           HoldsKept(t, holds'[t]), TrailKeeps(t, m),
           next \in Cleared => Passed(m, Candidate(t)')
    PROVE  CheckKept(t)'
<1>1. pc'[t] = next /\ mem'[t] = m
  BY ContinueMoves
<1> QED
  BY <1>1, StepChecks

\* A settlement changes one status and no agent.
LEMMA SettledKept ==
    ASSUME TypeOK, NEW t \in Tasks, NEW s \in {"released", "refunded"},
           attempt[t] \in Slots,
           s = "released" => <<t, attempt[t]>> \in served
    PROVE  HoldsKept(t, Settled(t, s)[t])
<1> DEFINE y == Settled(t, s)[t]
<1>1. holds[t] \in [Slots -> EscrowHold] /\ holds \in [Tasks -> [Slots -> EscrowHold]]
  BY DEF TypeOK
<1>2. y = [holds[t] EXCEPT ![attempt[t]].status = s]
  BY <1>1 DEF Settled
<1>3. ASSUME NEW j \in Slots
      PROVE  /\ y[j].agent = holds[t][j].agent
             /\ y[j].status = IF j = attempt[t] THEN s ELSE holds[t][j].status
  BY <1>1, <1>2 DEF EscrowHold
<1> HIDE DEF y
<1>4. HoldsKept(t, y)
  BY <1>3 DEF HoldsKept
<1> QED
  BY <1>4 DEF y

\* The candidate of t stays the same.
Same(t) == Candidate(t)' = Candidate(t)

\* Every step of a request keeps what its calls rest on.
LEMMA RequestChecks ==
    ASSUME CheckInv, NEW t \in Tasks, Submit(t) \/ RunTask(t)
    PROVE  CheckKept(t)'
<1>1. /\ TypeOK /\ TaskInv(t) /\ CheckKept(t) /\ FreshSlot(t)
      /\ mem[t] \in TaskOut
  BY DEF CheckInv, LedgerInv, PipelineInv, TypeOK
<1>2. HoldsKept(t, holds[t])
  BY DEF HoldsKept
<1>3. ASSUME NEW m, m.hops = mem[t].hops PROVE TrailKeeps(t, m)
  BY <1>3 DEF TrailKeeps, Passed
\* A statement that keeps the holds and adds no hop.
<1>4. ASSUME NEW r, NEW f, NEW next, NEW m, Execute(t, r, holds, f, next, m),
             next # "idle", m.hops = mem[t].hops,
             next \in Cleared => pc[t] \in Cleared /\ Same(t)
      PROVE  CheckKept(t)'
  <2>1. TrailKeeps(t, m)
    BY <1>3, <1>4
  <2>2. next \in Cleared => Passed(m, Candidate(t)) /\ Candidate(t)' = Candidate(t)
    BY <1>1, <1>4, <2>1 DEF CheckKept, TrailKeeps, Same
  <2> QED
    BY <1>1, <1>2, <1>4, <2>1, <2>2, StatementChecks
\* One that adds a hop.
<1>5. ASSUME NEW r, NEW f, NEW next, NEW p, NEW ok,
             Execute(t, r, holds, f, next, AddHop(mem[t], p, Candidate(t), ok)),
             next # "idle", pc[t] \in Cleared, Same(t)
      PROVE  CheckKept(t)'
  <2> DEFINE m == AddHop(mem[t], p, Candidate(t), ok)
  <2>1. TrailKeeps(t, m)
    BY <1>1, PassedStill DEF TrailKeeps
  <2>2. Passed(m, Candidate(t)) /\ Candidate(t)' = Candidate(t)
    BY <1>1, <1>5, PassedStill DEF CheckKept, Same
  <2>3. Execute(t, r, holds, f, next, m)
    BY <1>5
  <2> HIDE DEF m
  <2> QED
    BY <1>1, <1>2, <1>5, <2>1, <2>2, <2>3, StatementChecks
\* One that settles the hold.
<1>6. ASSUME NEW s \in {"released", "refunded"}, NEW r, NEW f, NEW next, NEW m,
             Execute(t, r, Settled(t, s), f, next, m), next # "idle",
             m.hops = mem[t].hops, next \in Cleared => pc[t] \in Cleared,
             Same(t), pc[t] \in {"release", "refund"},
             s = "released" => pc[t] = "release"
      PROVE  CheckKept(t)'
  <2>1. /\ attempt[t] \in Slots
        /\ s = "released" => <<t, attempt[t]>> \in served
    BY <1>1, <1>6, SettlingKeepsLedger DEF InTry, TaskInv, SettledFrame
  <2>2. HoldsKept(t, Settled(t, s)[t])
    BY <1>1, <2>1, SettledKept
  <2>3. TrailKeeps(t, m)
    BY <1>3, <1>6
  <2>4. next \in Cleared => Passed(m, Candidate(t)) /\ Candidate(t)' = Candidate(t)
    BY <1>1, <1>6, <2>3 DEF CheckKept, TrailKeeps, Same
  <2> QED
    BY <1>1, <1>6, <2>2, <2>3, <2>4, StatementChecks
<1>7. CASE Submit(t)
  <2>1. /\ Execute(t, [row EXCEPT ![t] = QueuedTask], holds, feed, "created", QueuedTask)
        /\ pc[t] = "idle"
    BY <1>7 DEF Submit, Turn
  <2>2. TrailKeeps(t, QueuedTask)
    BY <1>1, <2>1 DEF CheckKept, TrailKeeps, Passed
  <2> QED
    BY <1>1, <1>2, <2>1, <2>2, StatementChecks DEF Cleared, HoldTaken, InTry
<1>8. CASE StartDiscovery(t)
  <2> DEFINE m == [mem[t] EXCEPT !.status = "discovering"]
  <2>1. /\ Execute(t, [row EXCEPT ![t] = m], holds, feed, "started", m)
        /\ pc[t] = "start" /\ Same(t)
    BY <1>8 DEF StartDiscovery, UpdateTask, Turn, Same, Candidate
  <2>2. m.hops = mem[t].hops
    BY <1>1 DEF TaskOut
  <2> HIDE DEF m
  <2> QED
    BY <1>4, <2>1, <2>2 DEF Cleared, HoldTaken, InTry
<1>9. CASE StartAttempt(t)
  <2> DEFINE m == [mem[t] EXCEPT !.status = "verifying"]
  <2>1. Execute(t, [row EXCEPT ![t] = m], holds, feed, "preflight", m)
    BY <1>9 DEF StartAttempt, UpdateTask, Turn
  <2>2. m.hops = mem[t].hops
    BY <1>1 DEF TaskOut
  <2> HIDE DEF m
  <2> QED
    BY <1>4, <2>1, <2>2 DEF Cleared, HoldTaken, InTry
<1>10. CASE SaveEscrowed(t)
  <2> DEFINE m == mem[t]
  <2>1. /\ Execute(t, [row EXCEPT ![t] = m], holds, feed, "invoking", m)
        /\ pc[t] = "escrowed" /\ Same(t)
    BY <1>10 DEF SaveEscrowed, UpdateTask, Turn, Same, Candidate
  <2>2. m.hops = mem[t].hops
    BY <1>1 DEF TaskOut
  <2> HIDE DEF m
  <2> QED
    BY <1>4, <2>1, <2>2 DEF Cleared, HoldTaken, InTry
<1>11. CASE SaveInvoking(t)
  <2> DEFINE m == [mem[t] EXCEPT !.status = "invoking"]
  <2>1. /\ Execute(t, [row EXCEPT ![t] = m], holds, feed, "invoke", m)
        /\ pc[t] = "invoking" /\ Same(t)
    BY <1>11 DEF SaveInvoking, UpdateTask, Turn, Same, Candidate
  <2>2. m.hops = mem[t].hops
    BY <1>1 DEF TaskOut
  <2> HIDE DEF m
  <2> QED
    BY <1>4, <2>1, <2>2 DEF Cleared, HoldTaken, InTry
<1>12. CASE Complete(t)
  <2> DEFINE m == [mem[t] EXCEPT !.done = TRUE]
  <2>1. /\ Execute(t, [row EXCEPT ![t] = m], holds, feed, "ended", m)
        /\ pc[t] = "closing" /\ Same(t)
    BY <1>12 DEF Complete, UpdateTask, Turn, Same, Candidate
  <2>2. m.hops = mem[t].hops
    BY <1>1 DEF TaskOut
  <2> HIDE DEF m
  <2> QED
    BY <1>4, <2>1, <2>2 DEF Cleared, HoldTaken, InTry
<1>13. CASE FailExhausted(t)
  <2> DEFINE m == [mem[t] EXCEPT !.status = "failed", !.done = TRUE]
  <2>1. /\ Execute(t, [row EXCEPT ![t] = m], holds, feed, "failing", m)
        /\ pc[t] = "next" /\ Same(t)
    BY <1>13 DEF FailExhausted, UpdateTask, Turn, Same, Candidate
  <2>2. m.hops = mem[t].hops
    BY <1>1 DEF TaskOut
  <2> HIDE DEF m
  <2> QED
    BY <1>4, <2>1, <2>2 DEF Cleared, HoldTaken, InTry
<1>14. CASE AnnounceTask(t)
  <2>1. \E f, next : /\ Execute(t, row, holds, f, next, mem[t])
                    /\ next # "idle" /\ next \notin Cleared
    BY <1>14 DEF AnnounceTask, Emit, Cleared, HoldTaken, InTry
  <2> QED
    BY <1>4, <2>1
<1>15. CASE AnnounceDiscovery(t)
  <2>1. \E f, next : /\ Execute(t, row, holds, f, next, mem[t])
                    /\ next # "idle" /\ next \notin Cleared
    BY <1>15 DEF AnnounceDiscovery, Emit, Cleared, HoldTaken, InTry
  <2> QED
    BY <1>4, <2>1
<1>16. CASE AnnounceFailure(t)
  <2>1. \E f, next : /\ Execute(t, row, holds, f, next, mem[t])
                    /\ next # "idle" /\ next \notin Cleared
    BY <1>16 DEF AnnounceFailure, Emit, Cleared, HoldTaken, InTry
  <2> QED
    BY <1>4, <2>1
<1>17. CASE AnnounceCheck(t)
  <2>1. PICK at \in {"healthy", "unhealthy"} :
           /\ Turn(t, at)
           /\ Emit(t, "verification", attempt[t],
                   IF at = "healthy" THEN "hold" ELSE "next", mem[t])
    BY <1>17 DEF AnnounceCheck
  <2> DEFINE next == IF at = "healthy" THEN "hold" ELSE "next"
  <2>2. \E f : Execute(t, row, holds, f, next, mem[t])
    BY <2>1 DEF Emit
  <2>3. next # "idle" /\ (next \in Cleared => pc[t] \in Cleared /\ Same(t))
    BY <1>17, <2>1 DEF Turn, Cleared, HoldTaken, InTry, AnnounceCheck, Same, Candidate
  <2> HIDE DEF next
  <2> QED
    BY <1>4, <2>2, <2>3
<1>18. CASE AnnounceInvoke(t)
  <2>1. \E f, next : Execute(t, row, holds, f, next, mem[t]) /\ next # "idle"
    BY <1>18 DEF AnnounceInvoke, Emit
  <2>2. pc[t] \in Cleared /\ Same(t)
    BY <1>18 DEF Turn, Cleared, HoldTaken, InTry, AnnounceInvoke, Same, Candidate
  <2> QED
    BY <1>4, <2>1, <2>2
<1>19. CASE AnnounceSettle(t)
  <2>1. /\ \E f : Execute(t, row, holds, f, "closing",
                       AddHop(mem[t], "settle", Candidate(t), TRUE))
        /\ pc[t] = "settled" /\ Same(t)
    BY <1>19 DEF AnnounceSettle, Emit, Turn, Same, Candidate
  <2> QED
    BY <1>5, <2>1 DEF Cleared, HoldTaken, InTry
<1>20. CASE AnnounceHold(t)
  <2>1. /\ \E f : Execute(t, row, holds, f, "escrowed",
                       AddHop(mem[t], "escrow", Candidate(t), TRUE))
        /\ pc[t] = "held" /\ Same(t)
    BY <1>20 DEF AnnounceHold, Emit, Turn, Same, Candidate
  <2> QED
    BY <1>5, <2>1 DEF Cleared, HoldTaken, InTry
<1>21. CASE Hold(t)
  <2> DEFINE m == [mem[t] EXCEPT !.status = "escrowed"]
             x == [status |-> "held", agent |-> Candidate(t),
                   amount |-> Price(t, Candidate(t))]
             h == [holds EXCEPT ![t][attempt[t]] = x]
  <2>1. Execute(t, row, h, feed, "held", m) /\ pc[t] = "hold" /\ Same(t)
    BY <1>21 DEF Hold, Turn, Same, Candidate
  <2>2. m.hops = mem[t].hops
    BY <1>1 DEF TaskOut
  <2>3. attempt[t] \in Slots /\ holds[t][attempt[t]].status = "none"
    BY <1>1, <2>1, InAttempt DEF Between, FreshSlot, Fresh
  <2>4. HoldsKept(t, h[t])
    <3>1. h[t] = [holds[t] EXCEPT ![attempt[t]] = x]
      BY <1>1 DEF TypeOK
    <3>2. \A j \in Slots : h[t][j] = IF j = attempt[t] THEN x ELSE holds[t][j]
      BY <1>1, <3>1 DEF TypeOK
    <3>3. x.status = "held"
      OBVIOUS
    <3> HIDE DEF x, h
    <3> QED
      BY <2>3, <3>2, <3>3 DEF HoldsKept
  <2> HIDE DEF m, x, h
  <2>5. TrailKeeps(t, m)
    BY <1>3, <2>2
  <2>6. Passed(m, Candidate(t)) /\ Candidate(t)' = Candidate(t)
    BY <1>1, <2>1, <2>5 DEF CheckKept, Cleared, TrailKeeps, Same
  <2> QED
    BY <1>1, <2>1, <2>4, <2>5, <2>6, StatementChecks
<1>22. CASE Release(t)
  <2> DEFINE m == [mem[t] EXCEPT !.spent = Price(t, Candidate(t)),
                                !.agent = Candidate(t),
                                !.status = "completed"]
  <2>1. /\ Execute(t, row, Settled(t, "released"), feed, "settled", m)
        /\ pc[t] = "release" /\ Same(t)
    BY <1>22 DEF Release, Turn, Same, Candidate
  <2>2. m.hops = mem[t].hops
    BY <1>1 DEF TaskOut
  <2> HIDE DEF m
  <2> QED
    BY <1>6, <2>1, <2>2 DEF Cleared, HoldTaken, InTry
<1>23. CASE Refund(t)
  <2>1. /\ Execute(t, row, Settled(t, "refunded"), feed, "next", mem[t])
        /\ pc[t] = "refund" /\ Same(t)
    BY <1>23 DEF Refund, Turn, Same, Candidate
  <2> QED
    BY <1>6, <2>1 DEF Cleared, HoldTaken, InTry
<1>24. CASE DiscoverReply(t)
  <2>1. Continue(t, "next", mem[t]) /\ holds' = holds /\ served' = served
    BY <1>24 DEF DiscoverReply, db, world
  <2> QED
    BY <1>1, <1>2, <1>3, <2>1, AnswerChecks DEF Cleared, HoldTaken, InTry
<1>25. CASE PreflightReply(t)
  <2>1. PICK ok \in BOOLEAN :
           Continue(t, IF ok THEN "healthy" ELSE "unhealthy",
                    AddHop(mem[t], "verify", Candidate(t), ok))
    BY <1>25 DEF PreflightReply
  <2> DEFINE m == AddHop(mem[t], "verify", Candidate(t), ok)
             next == IF ok THEN "healthy" ELSE "unhealthy"
  <2>2. holds' = holds /\ served' = served /\ Same(t)
    BY <1>25 DEF PreflightReply, db, world, Same, Candidate
  <2>3. TrailKeeps(t, m)
    BY <1>1, PassedStill DEF TrailKeeps
  <2>4. next \in Cleared => ok = TRUE
    BY <2>1 DEF Cleared, HoldTaken, InTry
  <2>5. next \in Cleared => Passed(m, Candidate(t)')
    BY <1>1, <2>2, <2>4, PassedNow DEF Same
  <2>6. Continue(t, next, m) /\ next # "idle"
    BY <2>1
  <2> HIDE DEF m, next
  <2> QED
    BY <1>1, <1>2, <2>2, <2>3, <2>5, <2>6, AnswerChecks
<1>26. CASE InvokeReply(t)
  <2>1. PICK ok \in BOOLEAN :
           Continue(t, IF ok THEN "accepted" ELSE "rejected",
                    AddHop(mem[t], "invoke", Candidate(t), ok))
    BY <1>26 DEF InvokeReply
  <2> DEFINE m == AddHop(mem[t], "invoke", Candidate(t), ok)
             next == IF ok THEN "accepted" ELSE "rejected"
  <2>2. /\ holds' = holds /\ served' = served /\ Same(t)
        /\ pc[t] \in Cleared
    BY <1>26 DEF InvokeReply, db, world, Same, Candidate, Turn, Cleared,
                HoldTaken, InTry
  <2>3. TrailKeeps(t, m)
    BY <1>1, PassedStill DEF TrailKeeps
  <2>4. Passed(m, Candidate(t)')
    BY <1>1, <2>2, <2>3 DEF CheckKept, TrailKeeps, Same
  <2>5. Continue(t, next, m) /\ next # "idle"
    BY <2>1
  <2> HIDE DEF m, next
  <2> QED
    BY <1>1, <1>2, <2>2, <2>3, <2>4, <2>5, AnswerChecks
<1>27. CASE AwaitRaises(t)
  <2>1. /\ Continue(t, IF pc[t] \in InTry THEN "cleanup" ELSE "raised", mem[t])
        /\ holds' = holds /\ served' = served
    BY <1>27 DEF AwaitRaises, Raise, db, world
  <2> DEFINE next == IF pc[t] \in InTry THEN "cleanup" ELSE "raised"
  <2>2. next # "idle" /\ next \notin Cleared
    BY DEF Cleared, HoldTaken, InTry
  <2> HIDE DEF next
  <2>3. Continue(t, next, mem[t])
    BY <2>1 DEF next
  <2> QED
    BY <1>1, <1>2, <1>3, <2>1, <2>2, <2>3, AnswerChecks
<1>28. CASE Cleanup(t)
  <2>1. /\ Continue(t, "raised", mem[t]) /\ served' = served
        /\ holds' \in {holds, Settled(t, "refunded")} /\ pc[t] = "cleanup"
    BY <1>28 DEF Cleanup, Turn, world
  <2>2. attempt[t] \in Slots
    BY <1>1, <2>1, InAttempt
  <2>3. HoldsKept(t, Settled(t, "refunded")[t])
    BY <1>1, <2>2, SettledKept
  <2>4. HoldsKept(t, holds'[t])
    BY <1>2, <2>1, <2>3
  <2> QED
    BY <1>1, <1>3, <2>1, <2>4, AnswerChecks DEF Cleared, HoldTaken, InTry
<1> QED
  BY <1>7, <1>8, <1>9, <1>10, <1>11, <1>12, <1>13, <1>14, <1>15,
     <1>16, <1>17, <1>18, <1>19, <1>20, <1>21, <1>22, <1>23, <1>24,
     <1>25, <1>26, <1>27, <1>28
     DEF RunTask

\* The agent executes under the hold of the current attempt, at an address,
\* past its preflight.
LEMMA ServesChecks ==
    ASSUME CheckInv, NEW t \in Tasks, AgentServes(t), NEW u \in Tasks
    PROVE  CheckKept(u)'
<1>1. /\ TypeOK /\ TaskInv(t) /\ CheckKept(t) /\ CheckKept(u)
  BY DEF CheckInv, LedgerInv, PipelineInv
<1>2. /\ pc[t] = "invoke" /\ InvokeRoute(Candidate(t)) # "nowhere"
      /\ served' = served \union {<<t, attempt[t]>>}
      /\ UNCHANGED <<holds, pc, mem, cands, attempt>>
  BY DEF AgentServes, db, frame
<1>3. /\ attempt[t] \in Slots
      /\ holds[t][attempt[t]].status = "held"
      /\ holds[t][attempt[t]].agent = Candidate(t)
  BY <1>1, <1>2, InAttempt DEF HoldTaken, InTry, Gone, TaskInv, SlotsFollowFrame,
                              HoldIsOffer
<1>4. Passed(mem[t], Candidate(t))
  BY <1>1, <1>2 DEF CheckKept, Cleared, HoldTaken, InTry
<1>5. ASSUME NEW j \in Slots, <<u, j>> \in served'
      PROVE  /\ holds[u][j].status # "none"
             /\ InvokeRoute(holds[u][j].agent) # "nowhere"
             /\ Passed(mem[u], holds[u][j].agent)
  <2>1. CASE <<u, j>> \in served
    BY <1>1, <2>1 DEF CheckKept
  <2>2. CASE u = t /\ j = attempt[t]
    BY <1>2, <1>3, <1>4, <2>2
  <2> QED
    BY <1>2, <1>5, <2>1, <2>2
<1>6. /\ pc[u] = "idle" => mem[u].hops = << >>
      /\ pc[u] \in Cleared => Passed(mem[u], Candidate(u))
      /\ \A j \in Slots : holds[u][j].status = "released" => <<u, j>> \in served'
  BY <1>1, <1>2 DEF CheckKept
<1>7. /\ Candidate(u)' = Candidate(u)
      /\ \A a : (InvokeRoute(a)' = InvokeRoute(a)) /\ (Passed(mem[u], a)' <=> Passed(mem[u], a))
  BY <1>2 DEF Candidate, InvokeRoute, Passed
<1> QED
  BY <1>2, <1>5, <1>6, <1>7 DEF CheckKept

\* A task whose request, holds and executed calls are as before.
LEMMA StillChecked ==
    ASSUME NEW u \in Tasks, CheckKept(u), served' = served,
           pc'[u] \in {pc[u], "crashed"}, mem'[u] = mem[u],
           holds'[u] = holds[u], attempt'[u] = attempt[u],
           cands'[u] = cands[u]
    PROVE  CheckKept(u)'
<1>1. /\ Candidate(u)' = Candidate(u)
      /\ \A a : (InvokeRoute(a)' = InvokeRoute(a)) /\ (Passed(mem[u], a)' <=> Passed(mem[u], a))
  BY DEF Candidate, InvokeRoute, Passed
<1> QED
  BY <1>1 DEF CheckKept, Cleared, HoldTaken, InTry

\* The request of a task executes no call, and finds no match for another.
LEMMA RequestServesNothing ==
    ASSUME TypeOK, NEW t \in Tasks, Submit(t) \/ RunTask(t), NEW u \in Tasks \ {t}
    PROVE  served' = served /\ cands'[u] = cands[u]
<1>1. served' = served
  BY DEF Submit, RunTask, AnnounceTask, StartDiscovery, AnnounceDiscovery,
         DiscoverReply, StartAttempt, PreflightReply, AnnounceCheck, Hold,
         AnnounceHold, SaveEscrowed, SaveInvoking, InvokeReply, AnnounceInvoke,
         Release, AnnounceSettle, Complete, Refund, FailExhausted,
         AnnounceFailure, AwaitRaises, Cleanup, Emit, UpdateTask, Execute, world
<1>2. CASE DiscoverReply(t)
  <2>1. cands \in [Tasks -> Seq(Agents)] /\ \E x : cands' = [cands EXCEPT ![t] = x]
    BY <1>2 DEF DiscoverReply, TypeOK
  <2> QED
    BY <1>1, <2>1
<1>3. CASE ~DiscoverReply(t)
  <2>1. cands' = cands
    BY <1>3 DEF Submit, RunTask, AnnounceTask, StartDiscovery, AnnounceDiscovery,
         StartAttempt, PreflightReply, AnnounceCheck, Hold, AnnounceHold,
         SaveEscrowed, SaveInvoking, InvokeReply, AnnounceInvoke, Release,
         AnnounceSettle, Complete, Refund, FailExhausted, AnnounceFailure,
         AwaitRaises, Cleanup
  <2> QED
    BY <1>1, <2>1
<1> QED
  BY <1>2, <1>3

\* Every step keeps it.
LEMMA NextChecks == CheckInv /\ [Next]_vars => CheckInv'
<1> SUFFICES ASSUME CheckInv, [Next]_vars
             PROVE  \A u \in Tasks : FreshSlot(u)' /\ CheckKept(u)'
  BY NextKeeps DEF CheckInv, LedgerInv
<1>1. TypeOK /\ LedgerInv
  BY DEF CheckInv, LedgerInv, PipelineInv
<1>2. \A u \in Tasks : FreshSlot(u)'
  BY <1>1, FreshKeeps
<1>3. ASSUME NEW t \in Tasks, Submit(t) \/ RunTask(t), NEW u \in Tasks
      PROVE  CheckKept(u)'
  <2>1. CASE u = t
    BY <1>3, <2>1, RequestChecks
  <2>2. CASE u # t
    <3>1. /\ pc'[u] = pc[u] /\ mem'[u] = mem[u]
          /\ attempt'[u] = attempt[u] /\ holds'[u] = holds[u]
      BY <1>1, <1>3, <2>2, RequestIsOwn
    <3>2. served' = served /\ cands'[u] = cands[u]
      BY <1>1, <1>3, <2>2, RequestServesNothing
    <3> QED
      BY <3>1, <3>2, StillChecked DEF CheckInv
  <2> QED
    BY <2>1, <2>2
<1>4. ASSUME NEW t \in Tasks, AgentServes(t), NEW u \in Tasks
      PROVE  CheckKept(u)'
  BY <1>4, ServesChecks
<1>5. ASSUME \/ \E t \in Tasks : Age(t)
             \/ \E p \in Procs : StaleTaskSweep(p) \/ Crash(p) \/ Restart(p)
             \/ UNCHANGED vars,
             NEW u \in Tasks
      PROVE  CheckKept(u)'
  <2>1. holds' = holds /\ attempt' = attempt
    BY <1>1, <1>5, OtherSteps
  <2>2. ASSUME NEW p \in Procs, Crash(p)
        PROVE  mem' = mem /\ cands' = cands /\ served' = served /\ pc'[u] \in {pc[u], "crashed"}
    BY <2>2 DEF Crash
  <2>3. (\E p \in Procs : Crash(p)) \/ UNCHANGED <<pc, mem, cands, served>>
    BY <1>5 DEF Age, StaleTaskSweep, SweepSelect, SweepUpdate, SweepEmit, Restart,
                frame, world, vars
  <2> QED
    BY <2>1, <2>2, <2>3, StillChecked DEF CheckInv
<1> QED
  BY <1>2, <1>3, <1>4, <1>5 DEF Next, Finished

\* No agent executes a call, and none is paid, that had not passed the
\* preflight of the task, at the very address the call goes to, whatever is
\* configured and whatever raises, crashes or sweeps.
THEOREM PaidStaysChecked == Spec => []PaidIsChecked
<1>1. Init => CheckInv
  <2>1. ASSUME Init, NEW t \in Tasks PROVE FreshSlot(t) /\ CheckKept(t)
    <3>1. /\ holds[t] = [j \in Slots |-> NoHold] /\ pc[t] = "idle"
          /\ mem[t] = AbsentTask /\ served = {}
      BY <2>1 DEF Init
    <3>2. mem[t].hops = << >>
      BY <3>1 DEF AbsentTask, QueuedTask
    <3> QED
      BY <3>1, <3>2 DEF FreshSlot, Fresh, CheckKept, NoHold, Cleared, HoldTaken, InTry
  <2> QED
    BY <2>1, InitHolds DEF CheckInv, LedgerInv
<1>2. ASSUME NEW a, InvokeRoute(a) # "nowhere"
      PROVE  PreflightRoute(a) = InvokeRoute(a)
  BY <1>2 DEF PreflightRoute, InvokeRoute
<1>3. CheckInv => PaidIsChecked
  BY <1>2 DEF CheckInv, CheckKept, PaidIsChecked
<1> QED
  BY <1>1, <1>3, NextChecks, PTL DEF Spec

----------------------------------------------------------------------------
(* The amount reported is the amount released                               *)

\* Nothing is reported as spent before the settlement, a released hold is
\* about to be reported, and only a completed row reports an amount.
SpentKept(t) ==
    /\ pc[t] \notin {"settled", "closing", "ended"} => mem[t].spent = 0
    /\ row[t].status # "completed" => row[t].spent = 0
    /\ \A j \in Slots :
           holds[t][j].status = "released" =>
               pc[t] \in {"settled", "closing"} \/ row[t].status = "completed"

SpentInv == OneInv /\ \A t \in Tasks : SpentKept(t)

\* The sum of SpentIsLedger.
Amounts(slots, S) == MapThenSumSet(LAMBDA j : slots[j].amount, S)

\* It is the sum of a function, of which SumLemmas speaks.
LEMMA AmountsAre ==
    ASSUME NEW slots, NEW S, S \subseteq Slots, IsFiniteSet(S)
    PROVE  Amounts(slots, S) = Total([j \in Slots |-> slots[j].amount], S)
<1> DEFINE Sums(f) == f = [s \in SUBSET S |->
                  IF s = {} THEN 0
                  ELSE slots[CHOOSE x \in s : TRUE].amount + f[s \ {CHOOSE x \in s : TRUE}]]
           g == CHOOSE f : Sums(f)
           v == [j \in Slots |-> slots[j].amount]
<1>1. Amounts(slots, S) = g[S]
  BY DEF Amounts, MapThenSumSet, MapThenFoldSet
<1>2. IsSum(v, S, g)
  <2>1. ASSUME NEW f PROVE IsSum(v, S, f) <=> Sums(f)
    <3>1. ASSUME NEW s \in SUBSET S, s # {}
          PROVE  v[First(s)] = slots[CHOOSE x \in s : TRUE].amount
      BY <3>1, TakenFrom DEF First
    <3> HIDE DEF v
    <3> QED
      BY <3>1 DEF IsSum, First
  <2> HIDE DEF Sums, v
  <2>2. \E f : Sums(f)
    BY <2>1, SumExists
  <2> QED
    BY <2>1, <2>2
<1> HIDE DEF g, v
<1>3. Total(v, S) = g[S]
  BY <1>2, TotalIs
<1> QED
  BY <1>1, <1>3 DEF v

\* The sum of no amount, and of one.
LEMMA AmountOf ==
    ASSUME NEW slots, \A j \in Slots : slots[j].amount \in Nat
    PROVE  /\ Amounts(slots, {}) = 0
           /\ \A j \in Slots : Amounts(slots, {j}) = slots[j].amount
<1> DEFINE v == [j \in Slots |-> slots[j].amount]
<1>1. \A j \in Slots : v[j] = slots[j].amount
  OBVIOUS
<1>2. Amounts(slots, {}) = Total(v, {})
  BY AmountsAre, FS_EmptySet
<1>3. ASSUME NEW j \in Slots PROVE Amounts(slots, {j}) = Total(v, {j})
  <2> DEFINE S == {j}
  <2>1. S \subseteq Slots /\ IsFiniteSet(S)
    BY FS_Singleton
  <2> HIDE DEF S
  <2>2. Amounts(slots, S) = Total(v, S)
    BY <2>1, AmountsAre
  <2> QED
    BY <2>2 DEF S
<1> HIDE DEF v
<1>4. Total(v, {}) = 0
  BY TotalSteps, FS_EmptySet
<1>5. ASSUME NEW j \in Slots PROVE Total(v, {j}) = slots[j].amount
  <2>1. First({j}) = j /\ {j} \ {j} = {}
    BY TakenFrom
  <2>2. Total(v, {j}) = v[First({j})] + Total(v, {j} \ {First({j})})
    BY TotalSteps, FS_Singleton
  <2> QED
    BY <1>1, <1>4, <2>1, <2>2
<1> QED
  BY <1>2, <1>3, <1>4, <1>5

\* A statement that cannot raise does what it says.
LEMMA WritesSurely ==
    ASSUME MaxFaults = 0, TypeOK, NEW t \in Tasks, NEW r, NEW h, NEW f,
           NEW next, NEW m, Execute(t, r, h, f, next, m)
    PROVE  Continue(t, next, m) /\ row' = r /\ holds' = h
BY DEF Execute, TypeOK

\* Before the settlement: a step that releases nothing reports nothing.
LEMMA NothingSpent ==
    ASSUME TypeOK, NEW t \in Tasks, SettledFrame(t), SpentKept(t), NEW next, NEW m,
           Continue(t, next, m), m.spent = 0,
           pc[t] \notin {"settled", "closing", "ended", "raised"},
           row' \in {row, [row EXCEPT ![t] = m]},
           \A j \in Slots :
               holds'[t][j].status = "released" => holds[t][j].status = "released"
    PROVE  SpentKept(t)'
<1>1. pc'[t] = next /\ mem'[t] = m
  BY ContinueMoves
<1>2. row[t].status # "completed" /\ row[t].spent = 0
  BY DEF SettledFrame, SpentKept
<1>3. row'[t] = row[t] \/ row'[t] = m
  BY DEF TypeOK
<1>4. row'[t].spent = 0
  BY <1>2, <1>3
<1>5. \A j \in Slots : holds'[t][j].status # "released"
  BY <1>2 DEF SpentKept
<1> QED
  BY <1>1, <1>4, <1>5 DEF SpentKept

\* A refund releases no hold.
LEMMA RefundsOne ==
    ASSUME TypeOK, NEW t \in Tasks, holds' = Settled(t, "refunded")
    PROVE  \A j \in Slots :
              holds'[t][j].status = "released" => holds[t][j].status = "released"
<1>1. holds[t] \in [Slots -> EscrowHold] /\ holds \in [Tasks -> [Slots -> EscrowHold]]
  BY DEF TypeOK
<1>2. holds'[t] = [holds[t] EXCEPT ![attempt[t]].status = "refunded"]
  BY <1>1 DEF Settled
<1> QED
  BY <1>1, <1>2 DEF EscrowHold

\* Every step of a request keeps the amounts in step.
LEMMA RequestSpends ==
    ASSUME MaxFaults = 0, SpentInv, NEW t \in Tasks, Submit(t) \/ RunTask(t)
    PROVE  SpentKept(t)'
<1>1. /\ TypeOK /\ TaskInv(t) /\ SettledFrame(t) /\ SpentKept(t) /\ OneEnd(t)
      /\ mem[t] \in TaskOut /\ row \in [Tasks -> TaskOut]
  BY DEF SpentInv, OneInv, EndInv, PipelineInv, TaskInv, TypeOK
<1>2. pc[t] \notin {"settled", "closing", "ended"} => mem[t].spent = 0
  BY <1>1 DEF SpentKept
\* A statement that keeps the holds.
<1>3. ASSUME NEW r, NEW f, NEW next, NEW m,
             Execute(t, r, holds, f, next, m), r \in {row, [row EXCEPT ![t] = m]},
             pc[t] \notin {"settled", "closing", "ended", "raised"}, m.spent = 0
      PROVE  SpentKept(t)'
  <2>1. Continue(t, next, m) /\ row' = r /\ holds' = holds
    BY <1>1, <1>3, WritesSurely
  <2> QED
    BY <1>1, <1>3, <2>1, NothingSpent
\* The answer to an await.
<1>4. ASSUME NEW next, NEW m, Continue(t, next, m), UNCHANGED db,
             pc[t] \notin {"settled", "closing", "ended", "raised"}, m.spent = 0
      PROVE  SpentKept(t)'
  BY <1>1, <1>4, NothingSpent DEF db
<1>5. CASE Submit(t)
  <2>1. /\ Execute(t, [row EXCEPT ![t] = QueuedTask], holds, feed, "created", QueuedTask)
        /\ pc[t] = "idle"
    BY <1>5 DEF Submit, Turn
  <2>2. QueuedTask.spent = 0
    BY DEF QueuedTask
  <2> QED
    BY <1>3, <2>1, <2>2
<1>6. CASE StartDiscovery(t)
  <2> DEFINE m == [mem[t] EXCEPT !.status = "discovering"]
  <2>1. Execute(t, [row EXCEPT ![t] = m], holds, feed, "started", m) /\ pc[t] = "start"
    BY <1>6 DEF StartDiscovery, UpdateTask, Turn
  <2>2. m.spent = mem[t].spent
    BY <1>1 DEF TaskOut
  <2> HIDE DEF m
  <2> QED
    BY <1>2, <1>3, <2>1, <2>2
<1>7. CASE StartAttempt(t)
  <2> DEFINE m == [mem[t] EXCEPT !.status = "verifying"]
  <2>1. Execute(t, [row EXCEPT ![t] = m], holds, feed, "preflight", m) /\ pc[t] = "next"
    BY <1>7 DEF StartAttempt, UpdateTask, Turn
  <2>2. m.spent = mem[t].spent
    BY <1>1 DEF TaskOut
  <2> HIDE DEF m
  <2> QED
    BY <1>2, <1>3, <2>1, <2>2
<1>8. CASE SaveEscrowed(t)
  <2> DEFINE m == mem[t]
  <2>1. Execute(t, [row EXCEPT ![t] = m], holds, feed, "invoking", m) /\ pc[t] = "escrowed"
    BY <1>8 DEF SaveEscrowed, UpdateTask, Turn
  <2>2. m.spent = mem[t].spent
    BY <1>1 DEF TaskOut
  <2> HIDE DEF m
  <2> QED
    BY <1>2, <1>3, <2>1, <2>2
<1>9. CASE SaveInvoking(t)
  <2> DEFINE m == [mem[t] EXCEPT !.status = "invoking"]
  <2>1. Execute(t, [row EXCEPT ![t] = m], holds, feed, "invoke", m) /\ pc[t] = "invoking"
    BY <1>9 DEF SaveInvoking, UpdateTask, Turn
  <2>2. m.spent = mem[t].spent
    BY <1>1 DEF TaskOut
  <2> HIDE DEF m
  <2> QED
    BY <1>2, <1>3, <2>1, <2>2
<1>10. CASE FailExhausted(t)
  <2> DEFINE m == [mem[t] EXCEPT !.status = "failed", !.done = TRUE]
  <2>1. Execute(t, [row EXCEPT ![t] = m], holds, feed, "failing", m) /\ pc[t] = "next"
    BY <1>10 DEF FailExhausted, UpdateTask, Turn
  <2>2. m.spent = mem[t].spent
    BY <1>1 DEF TaskOut
  <2> HIDE DEF m
  <2> QED
    BY <1>2, <1>3, <2>1, <2>2
<1>11. CASE AnnounceTask(t)
  <2>1. /\ \E f, next : Execute(t, row, holds, f, next, mem[t])
        /\ pc[t] \notin {"settled", "closing", "ended", "raised"}
    BY <1>11 DEF AnnounceTask, Emit, Turn
  <2> QED
    BY <1>2, <1>3, <2>1
<1>12. CASE AnnounceDiscovery(t)
  <2>1. /\ \E f, next : Execute(t, row, holds, f, next, mem[t])
        /\ pc[t] \notin {"settled", "closing", "ended", "raised"}
    BY <1>12 DEF AnnounceDiscovery, Emit, Turn
  <2> QED
    BY <1>2, <1>3, <2>1
<1>13. CASE AnnounceCheck(t)
  <2>1. /\ \E f, next : Execute(t, row, holds, f, next, mem[t])
        /\ pc[t] \notin {"settled", "closing", "ended", "raised"}
    BY <1>13 DEF AnnounceCheck, Emit, Turn
  <2> QED
    BY <1>2, <1>3, <2>1
<1>14. CASE AnnounceInvoke(t)
  <2>1. /\ \E f, next : Execute(t, row, holds, f, next, mem[t])
        /\ pc[t] \notin {"settled", "closing", "ended", "raised"}
    BY <1>14 DEF AnnounceInvoke, Emit, Turn
  <2> QED
    BY <1>2, <1>3, <2>1
<1>15. CASE AnnounceFailure(t)
  <2>1. /\ \E f, next : Execute(t, row, holds, f, next, mem[t])
        /\ pc[t] \notin {"settled", "closing", "ended", "raised"}
    BY <1>15 DEF AnnounceFailure, Emit, Turn
  <2> QED
    BY <1>2, <1>3, <2>1
<1>16. CASE AnnounceHold(t)
  <2> DEFINE m == AddHop(mem[t], "escrow", Candidate(t), TRUE)
  <2>1. /\ \E f : Execute(t, row, holds, f, "escrowed", m)
        /\ pc[t] = "held"
    BY <1>16 DEF AnnounceHold, Emit, Turn
  <2>2. m.spent = mem[t].spent
    BY <1>1 DEF AddHop, TaskOut
  <2> HIDE DEF m
  <2> QED
    BY <1>2, <1>3, <2>1, <2>2
<1>17. CASE Hold(t)
  <2> DEFINE m == [mem[t] EXCEPT !.status = "escrowed"]
             x == [status |-> "held", agent |-> Candidate(t),
                   amount |-> Price(t, Candidate(t))]
  <2>1. /\ Execute(t, row, [holds EXCEPT ![t][attempt[t]] = x], feed, "held", m)
        /\ pc[t] = "hold"
    BY <1>17 DEF Hold, Turn
  <2>2. m.spent = mem[t].spent /\ x.status = "held"
    BY <1>1 DEF TaskOut
  <2> HIDE DEF m, x
  <2>3. Continue(t, "held", m) /\ row' = row /\ holds' = [holds EXCEPT ![t][attempt[t]] = x]
    BY <1>1, <2>1, WritesSurely
  <2>4. \A j \in Slots : holds'[t][j] = holds[t][j] \/ holds'[t][j] = x
    BY <1>1, <2>3 DEF TypeOK
  <2> QED
    BY <1>1, <1>2, <2>1, <2>2, <2>3, <2>4, NothingSpent
<1>18. CASE Refund(t)
  <2>1. /\ Continue(t, "next", mem[t]) /\ row' = row /\ holds' = Settled(t, "refunded")
        /\ pc[t] = "refund"
    BY <1>1, <1>18, WritesSurely DEF Refund, Turn
  <2>2. \A j \in Slots :
           holds'[t][j].status = "released" => holds[t][j].status = "released"
    BY <1>1, <2>1, RefundsOne
  <2> QED
    BY <1>1, <1>2, <2>1, <2>2, NothingSpent
<1>19. CASE Cleanup(t)
  <2>1. /\ Continue(t, "raised", mem[t]) /\ row' = row
        /\ holds' = Settled(t, "refunded")
        /\ pc[t] = "cleanup"
    BY <1>1, <1>19 DEF Cleanup, Turn, TypeOK
  <2>2. \A j \in Slots :
           holds'[t][j].status = "released" => holds[t][j].status = "released"
    BY <1>1, <2>1, RefundsOne
  <2> QED
    BY <1>1, <1>2, <2>1, <2>2, NothingSpent
<1>20. CASE Release(t)
  <2>1. \E m : Continue(t, "settled", m)
    BY <1>1, <1>20, WritesSurely DEF Release
  <2>2. row' = row /\ pc[t] = "release"
    BY <1>1, <1>20, WritesSurely DEF Release, Turn
  <2>3. pc'[t] = "settled"
    BY <1>1, <2>1, ContinueMoves
  <2> QED
    BY <1>1, <2>2, <2>3 DEF SpentKept
<1>21. CASE AnnounceSettle(t)
  <2>1. \E m : Continue(t, "closing", m)
    BY <1>1, <1>21, WritesSurely DEF AnnounceSettle, Emit
  <2>2. row' = row /\ pc[t] = "settled"
    BY <1>1, <1>21, WritesSurely DEF AnnounceSettle, Emit, Turn
  <2>3. pc'[t] = "closing"
    BY <1>1, <2>1, ContinueMoves
  <2> QED
    BY <1>1, <2>2, <2>3 DEF SpentKept
<1>22. CASE Complete(t)
  <2> DEFINE m == [mem[t] EXCEPT !.done = TRUE]
  <2>1. Execute(t, [row EXCEPT ![t] = m], holds, feed, "ended", m) /\ pc[t] = "closing"
    BY <1>22 DEF Complete, UpdateTask, Turn
  <2>2. m.status = "completed"
    BY <1>1, <2>1 DEF OneEnd, TaskOut
  <2> HIDE DEF m
  <2>3. Continue(t, "ended", m) /\ row' = [row EXCEPT ![t] = m]
    BY <1>1, <2>1, WritesSurely
  <2>4. pc'[t] = "ended" /\ row'[t] = m
    BY <1>1, <2>3, ContinueMoves
  <2> QED
    BY <2>2, <2>4 DEF SpentKept
<1>23. CASE DiscoverReply(t)
  BY <1>2, <1>4, <1>23 DEF DiscoverReply, Turn
<1>24. CASE PreflightReply(t)
  <2>1. PICK ok \in BOOLEAN :
           Continue(t, IF ok THEN "healthy" ELSE "unhealthy",
                    AddHop(mem[t], "verify", Candidate(t), ok))
    BY <1>24 DEF PreflightReply
  <2>2. pc[t] = "preflight" /\ UNCHANGED db
    BY <1>24 DEF PreflightReply, Turn
  <2>3. AddHop(mem[t], "verify", Candidate(t), ok).spent = mem[t].spent
    BY <1>1 DEF AddHop, TaskOut
  <2> QED
    BY <1>2, <1>4, <2>1, <2>2, <2>3
<1>25. CASE InvokeReply(t)
  <2>1. PICK ok \in BOOLEAN :
           Continue(t, IF ok THEN "accepted" ELSE "rejected",
                    AddHop(mem[t], "invoke", Candidate(t), ok))
    BY <1>25 DEF InvokeReply
  <2>2. pc[t] = "invoke" /\ UNCHANGED db
    BY <1>25 DEF InvokeReply, Turn
  <2>3. AddHop(mem[t], "invoke", Candidate(t), ok).spent = mem[t].spent
    BY <1>1 DEF AddHop, TaskOut
  <2> QED
    BY <1>2, <1>4, <2>1, <2>2, <2>3
<1>26. CASE AwaitRaises(t)
  <2>1. /\ \E next : Continue(t, next, mem[t])
        /\ pc[t] \in {"discover", "preflight", "invoke"} /\ UNCHANGED db
    BY <1>26 DEF AwaitRaises, Raise, Turn
  <2> QED
    BY <1>2, <1>4, <2>1
<1> QED
  BY <1>5, <1>6, <1>7, <1>8, <1>9, <1>10, <1>11, <1>12, <1>13, <1>14,
     <1>15, <1>16, <1>17, <1>18, <1>19, <1>20, <1>21, <1>22, <1>23,
     <1>24, <1>25, <1>26
     DEF RunTask

\* So does every other step: a sweep fails no row whose task has been paid.
LEMMA NextSpends ==
    ASSUME MaxFaults = 0, MaxCrashes = 0, Overrun = FALSE, SpentInv, [Next]_vars
    PROVE  \A u \in Tasks : SpentKept(u)'
<1>1. TypeOK /\ OneInv /\ row \in [Tasks -> TaskOut]
  BY DEF SpentInv, OneInv, EndInv, PipelineInv, TypeOK
<1>2. ASSUME NEW t \in Tasks, Submit(t) \/ RunTask(t), NEW u \in Tasks
      PROVE  SpentKept(u)'
  <2>1. CASE u = t
    BY <1>2, <2>1, RequestSpends
  <2>2. CASE u # t
    <3>1. /\ pc'[u] = pc[u] /\ mem'[u] = mem[u] /\ row'[u] = row[u]
          /\ holds'[u] = holds[u]
      BY <1>1, <1>2, <2>2, RequestIsOwn, RequestRows
    <3> QED
      BY <3>1 DEF SpentInv, SpentKept
  <2> QED
    BY <2>1, <2>2
<1>3. ASSUME \/ \E t \in Tasks : AgentServes(t) \/ Age(t)
             \/ \E p \in Procs : StaleTaskSweep(p) \/ Crash(p) \/ Restart(p)
             \/ UNCHANGED vars,
             NEW u \in Tasks
      PROVE  SpentKept(u)'
  <2>1. holds' = holds
    BY <1>1, <1>3, OtherSteps
  <2>2. mem' = mem /\ pc' = pc
    <3>1. ASSUME NEW p \in Procs PROVE ~Crash(p)
      BY <1>1 DEF Crash, TypeOK
    <3> QED
      BY <1>3, <3>1 DEF AgentServes, Age, StaleTaskSweep, SweepSelect, SweepUpdate,
                  SweepEmit, Restart, frame, vars
  <2>3. SpentKept(u)
    BY DEF SpentInv
  <2>4. CASE row' = row
    BY <2>1, <2>2, <2>3, <2>4 DEF SpentKept
  <2>5. ASSUME NEW p \in Procs, SweepUpdate(p) PROVE SpentKept(u)'
    <3>1. PICK t \in sweep[p].todo :
             row' \in {row, [row EXCEPT ![t].status = "failed", ![t].done = TRUE]}
      BY <2>5 DEF SweepUpdate
    <3>2. t \in Tasks /\ pc[t] \in Gone /\ row[t].status # "completed"
      BY <1>1 DEF OneInv, EndInv, EndingKept, Over, TypeOK
    <3>3. CASE u # t \/ row' = row
      <4>1. row'[u] = row[u]
        BY <1>1, <3>1, <3>3
      <4> QED
        BY <2>1, <2>2, <2>3, <4>1 DEF SpentKept
    <3>4. CASE u = t /\ row' # row
      <4>1. row'[u].spent = 0
        BY <1>1, <2>3, <3>1, <3>2, <3>4 DEF SpentKept, TaskOut
      <4>2. \A j \in Slots : holds[u][j].status # "released"
        BY <2>3, <3>2, <3>4 DEF SpentKept, Gone
      <4> QED
        BY <2>1, <2>2, <2>3, <4>1, <4>2 DEF SpentKept
    <3> QED
      BY <3>3, <3>4
  <2>6. (\E p \in Procs : SweepUpdate(p)) \/ row' = row
    BY <1>3 DEF AgentServes, Age, StaleTaskSweep, SweepSelect,
                SweepEmit, Restart, Crash, db, vars
  <2> QED
    BY <2>4, <2>5, <2>6
<1> QED
  BY <1>2, <1>3 DEF Next, Finished

\* Without errors, crashes and overruns, the amount in the row of an ended
\* task is the sum of what the ledger released for it: nothing for a failed
\* one, the one released hold for a completed one.
THEOREM SpentStaysLedger ==
    ASSUME MaxFaults = 0, MaxCrashes = 0, Overrun = FALSE
    PROVE  Spec => []SpentIsLedger
<1>1. Init => SpentInv
  <2>1. Init => OneInv
    BY InitHolds DEF Init, OneInv, OneEnd, EndInv, EndingKept, AbsentTask,
                     QueuedTask, Asleep, Terminal
  <2>2. Init => \A t \in Tasks : SpentKept(t)
    BY DEF Init, SpentKept, AbsentTask, QueuedTask, NoHold
  <2> QED
    BY <2>1, <2>2 DEF SpentInv
<1>2. SpentInv /\ [Next]_vars => SpentInv'
  BY NextKeeps, StepKeepsEndings, StepEndsOnce, NextSpends DEF SpentInv, OneInv, EndInv
<1>3. ASSUME SpentInv, NEW t \in Tasks, row[t].status \in Terminal
      PROVE  row[t].spent =
                Amounts(holds[t], {j \in Slots : holds[t][j].status = "released"})
  <2> DEFINE paid == {j \in Slots : holds[t][j].status = "released"}
  <2>1. /\ SpentKept(t) /\ EndingKept(t) /\ TaskInv(t)
        /\ \A j \in Slots : holds[t][j].amount \in Nat
    BY <1>3 DEF SpentInv, OneInv, EndInv, PipelineInv, TypeOK, EscrowHold
  <2>2. CASE row[t].status = "completed"
    <3>1. PICK j \in Slots :
             /\ holds[t][j] = [status |-> "released", agent |-> row[t].agent,
                               amount |-> row[t].spent]
             /\ \A k \in Slots \ {j} : ~Live(holds[t][k])
      BY <2>1, <2>2 DEF TaskInv, Paid
    <3>2. paid = {j} /\ holds[t][j].amount = row[t].spent
      BY <3>1 DEF Live
    <3> HIDE DEF paid
    <3> QED
      BY <2>1, <3>2, AmountOf DEF paid
  <2>3. CASE row[t].status # "completed"
    <3>1. pc[t] \in Gone \union {"failing"}
      BY <1>3, <2>1 DEF EndingKept, Over
    <3>2. paid = {} /\ row[t].spent = 0
      BY <2>1, <2>3, <3>1 DEF SpentKept, Gone
    <3> HIDE DEF paid
    <3> QED
      BY <2>1, <3>2, AmountOf DEF paid
  <2> QED
    BY <2>2, <2>3
<1>4. SpentInv => SpentIsLedger
  <2> SUFFICES ASSUME SpentInv, NEW t \in Tasks, row[t].status \in Terminal
               PROVE  row[t].spent =
                        LET paid == {j \in Slots : holds[t][j].status = "released"}
                        IN  MapThenSumSet(LAMBDA j : holds[t][j].amount, paid)
    BY DEF SpentIsLedger
  <2> QED
    BY <1>3 DEF Amounts
<1> QED
  BY <1>1, <1>2, <1>4, PTL DEF Spec
============================================================================

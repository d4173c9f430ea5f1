--------------------------- MODULE TaskPipeline ---------------------------
(***************************************************************************)
(* The life of a mesh task: POST /v1/tasks creates it, MeshOrchestrator    *)
(* drives it through discovery, preflight, escrow, invocation and          *)
(* settlement (orchestrator.py), and the stale-task sweep of the API       *)
(* process dead-letters the ones that take too long (api.py, db.py).       *)
(*                                                                         *)
(* A step is one SQL statement of the code with what Python does before    *)
(* it, or the answer to one await.  A statement commits on its own (the    *)
(* code has no multi-statement transaction here), so a crash or an error   *)
(* between any two of them is a behaviour.  Coroutines of one process      *)
(* share an event loop: a runner keeps the loop from one network await to  *)
(* the next, and the sweep keeps it from its SELECT to its last statement. *)
(* Processes share nothing but the database.                               *)
(***************************************************************************)
EXTENDS SequencesExt

CONSTANTS
    Procs,          \* API processes on one database
    Tasks,          \* tasks that clients may submit
    Home,           \* Home[t]: the process that serves the POST of t
    Agents,         \* agents a discovery can return
    HubAgents,      \* those found on the AIMarket hub (source = "hub")
    RoutedAgents,   \* local agents registered with product and capability ids
    NoAgent,        \* NULL in selected_agent_id
    HubUrl,         \* is MESH_HUB_URL configured?
    BasePrice,      \* the price of an agent, before it is clipped to a budget
    Budget,         \* Budget[t]: budget_usd of t
    MaxMatches,     \* discovery returns at most this many (12 in the code)
    MaxAttempts,    \* MESH_MAX_AGENT_ATTEMPTS
    SweepOn,        \* task_stale_seconds > 0
    Overrun,        \* may a live run outlast task_stale_seconds?
    MaxFaults,      \* bound: statements that raise
    MaxCrashes      \* bound: process crashes

ASSUME ProcessAssumption == Home \in [Tasks -> Procs]
ASSUME AgentAssumption ==
    /\ HubAgents \subseteq Agents
    /\ RoutedAgents \subseteq Agents \ HubAgents
    /\ NoAgent \notin Agents
ASSUME MoneyAssumption ==
    /\ BasePrice \in [Agents -> Nat \ {0}]
    /\ Budget \in [Tasks -> Nat \ {0}]
ASSUME BoundAssumption ==
    /\ {MaxMatches, MaxAttempts} \subseteq Nat \ {0}
    /\ {MaxFaults, MaxCrashes} \subseteq Nat
    /\ {HubUrl, SweepOn, Overrun} \subseteq BOOLEAN

Slots == 1 .. MaxAttempts

InProgress == {"queued", "discovering", "verifying", "escrowed", "invoking"}
Terminal == {"completed", "failed"}

\* TaskOut and its row.  "absent" is a row not inserted yet; the error text
\* and the fields that never change are left out.
Hops == [phase : {"verify", "escrow", "invoke", "settle"},
         agent : Agents,
         ok    : BOOLEAN]

TaskOut == [status : {"absent"} \union InProgress \union Terminal,
            done   : BOOLEAN,                      \* completed_at is set
            agent  : Agents \union {NoAgent},      \* selected_agent_id
            spent  : Nat,                          \* total_spent_usd
            hops   : Seq(Hops)]

QueuedTask == [status |-> "queued", done |-> FALSE, agent |-> NoAgent,
               spent |-> 0, hops |-> << >>]
AbsentTask == [QueuedTask EXCEPT !.status = "absent"]

EscrowHold == [status : {"none", "held", "released", "refunded"},
               agent  : Agents \union {NoAgent},
               amount : Nat]
NoHold == [status |-> "none", agent |-> NoAgent, amount |-> 0]

VARIABLES
    row,        \* table tasks: row[t]
    holds,      \* table escrow_holds: holds[t][j] is the row of attempt j
    feed,       \* table activity: the <<kind, attempt>> emitted for t
    pc,         \* where the request of t is
    mem,        \* the TaskOut object of the request
    cands,      \* candidates of run_task
    attempt,    \* how many candidates the loop of run_task has started
    up,         \* is process p running?
    running,    \* the request that has the event loop of p, if one has
    sweep,      \* the sweep of p: rows still to update, row just updated
    stale,      \* is created_at older than task_stale_seconds?
    served,     \* <<t, j>>: the agent really executed attempt j of t
    faults,     \* statements that have raised
    crashes     \* processes that have crashed

db == <<row, holds, feed>>
frame == <<pc, mem, cands, attempt>>
world == <<stale, served, crashes>>
vars == <<row, holds, feed, pc, mem, cands, attempt, up, running, sweep,
          stale, served, faults, crashes>>

Asleep == [todo |-> {}, marked |-> {}]

---------------------------------------------------------------------------
(* Discovery: what a search may return                                     *)

\* A local price is clipped to the budget; a hub price is what the hub says.
Price(t, a) ==
    IF a \notin HubAgents /\ Budget[t] < BasePrice[a]
    THEN Budget[t]
    ELSE BasePrice[a]

\* Hub matches need a hub, and are dropped when they exceed the budget.
Offered(t) ==
    {a \in Agents : a \in HubAgents => HubUrl /\ Price(t, a) <= Budget[t]}

\* Scores are free, so any order may come back; the registry holds a local
\* agent once, and the hub may list one capability twice.
MatchLists(t) ==
    {found \in SeqOf(Offered(t), MaxMatches) :
        \A i, j \in DOMAIN found :
            found[i] = found[j] => i = j \/ found[i] \in HubAgents}

\* Variant: the slice to max_agent_attempts is forgotten.
CandidatesUncut(found) == found

Candidates(found) ==
    IF Len(found) <= MaxAttempts THEN found ELSE SubSeq(found, 1, MaxAttempts)

Candidate(t) == cands[t][attempt[t]]

\* Variant: a routed call is sent although no hub is configured.
InvokeRouteAnyHub(a) ==
    IF a \in HubAgents \union RoutedAgents THEN "hub" ELSE "direct"

\* The address each of the two calls of an attempt goes to.
PreflightRoute(a) ==
    IF a \in HubAgents \/ (a \in RoutedAgents /\ HubUrl) THEN "hub"
                                                         ELSE "direct"
InvokeRoute(a) ==
    IF a \in HubAgents \union RoutedAgents
    THEN IF HubUrl THEN "hub" ELSE "nowhere"
    ELSE "direct"

---------------------------------------------------------------------------
(* Steps of a request                                                      *)

\* The request of t is at this point and may use its event loop.
Turn(t, at) ==
    /\ pc[t] = at
    /\ up[Home[t]]
    /\ running[Home[t]] \subseteq {t}
    /\ sweep[Home[t]] = Asleep

\* Points where the request is suspended, or over: others use the loop.
Suspended(t, at) ==
    \/ at \in {"preflight", "ended", "raised"}
    \/ at = "discover" /\ HubUrl
    \/ at = "invoke" /\ InvokeRoute(Candidate(t)) # "nowhere"

Continue(t, next, m) ==
    /\ pc' = [pc EXCEPT ![t] = next]
    /\ mem' = [mem EXCEPT ![t] = m]
    /\ running' = [running EXCEPT
                      ![Home[t]] = IF Suspended(t, next) THEN {} ELSE {t}]

\* Inside the try of run_task, and not settled yet.
InTry == {"held", "escrowed", "invoking", "invoke", "accepted", "rejected",
          "release", "refund"}

\* Variants: no finally; and a settled flag that is only set at the end.
RaisePastFinally(t) == Continue(t, "raised", mem[t])
RaiseUntilClosed(t) ==
    Continue(t, IF pc[t] \in InTry \union {"settled", "closing"}
                THEN "cleanup" ELSE "raised", mem[t])

\* An exception leaves run_task, through the finally when there is a hold.
Raise(t) ==
    Continue(t, IF pc[t] \in InTry THEN "cleanup" ELSE "raised", mem[t])

\* A statement sets the tables and the request goes on; or it raises, with
\* its effect (the commit went through, what came after it did not) or not.
Execute(t, r, h, f, next, m) ==
    /\ \/ /\ row' = r /\ holds' = h /\ feed' = f
          /\ Continue(t, next, m)
          /\ UNCHANGED faults
       \/ /\ faults < MaxFaults
          /\ faults' = faults + 1
          /\ \/ row' = r /\ holds' = h /\ feed' = f
             \/ UNCHANGED db
          /\ Raise(t)
    /\ UNCHANGED <<up, sweep, world>>

\* MeshStore.update_task: an UPDATE of every field, whatever the row says.
UpdateTask(t, m, next) ==
    Execute(t, [row EXCEPT ![t] = m], holds, feed, next, m)

\* MeshStore.emit
Emit(t, kind, j, next, m) ==
    Execute(t, row, holds, [feed EXCEPT ![t] = @ \union {<<kind, j>>}],
            next, m)

\* Variant: the hold of the first attempt is settled every time.
SettledFirst(t, s) == [holds EXCEPT ![t][1].status = s]

\* MeshStore.update_escrow_status: an UPDATE with no look at the old status.
Settled(t, s) == [holds EXCEPT ![t][attempt[t]].status = s]

\* Variant: the trail only keeps its last hop.
AddHopAlone(m, p, a, ok) ==
    [m EXCEPT !.hops = << [phase |-> p, agent |-> a, ok |-> ok] >>]

AddHop(m, p, a, ok) ==
    [m EXCEPT !.hops = Append(@, [phase |-> p, agent |-> a, ok |-> ok])]

---------------------------------------------------------------------------
(* create_task                                                             *)

\* MeshStore.create_task: the row is inserted ...
Submit(t) ==
    /\ Turn(t, "idle")
    /\ Execute(t, [row EXCEPT ![t] = QueuedTask], holds, feed,
               "created", QueuedTask)
    /\ UNCHANGED <<cands, attempt>>

\* ... and announced.
AnnounceTask(t) ==
    /\ Turn(t, "created")
    /\ Emit(t, "task_created", 0, "start", mem[t])
    /\ UNCHANGED <<cands, attempt>>

---------------------------------------------------------------------------
(* run_task: discovery                                                     *)

StartDiscovery(t) ==
    /\ Turn(t, "start")
    /\ UpdateTask(t, [mem[t] EXCEPT !.status = "discovering"], "started")
    /\ UNCHANGED <<cands, attempt>>

AnnounceDiscovery(t) ==
    /\ Turn(t, "started")
    /\ Emit(t, "discovery", 0, "discover", mem[t])
    /\ UNCHANGED <<cands, attempt>>

\* An unreachable hub yields no hub matches; with no match at all the loop
\* below has nothing to do, and the task fails as it does when every
\* candidate has failed.
DiscoverReply(t) ==
    /\ Turn(t, "discover")
    /\ \E found \in MatchLists(t) :
           cands' = [cands EXCEPT ![t] = Candidates(found)]
    /\ Continue(t, "next", mem[t])
    /\ UNCHANGED <<db, attempt, up, sweep, world, faults>>

---------------------------------------------------------------------------
(* run_task: the loop over the candidates                                  *)

StartAttempt(t) ==
    /\ Turn(t, "next")
    /\ attempt[t] < Len(cands[t])
    /\ attempt' = [attempt EXCEPT ![t] = @ + 1]
    /\ UpdateTask(t, [mem[t] EXCEPT !.status = "verifying"], "preflight")
    /\ UNCHANGED cands

\* Any answer, an error or a timeout of GET /health or of the hub manifest.
PreflightReply(t) ==
    /\ Turn(t, "preflight")
    /\ \E ok \in BOOLEAN :
           Continue(t, IF ok THEN "healthy" ELSE "unhealthy",
                    AddHop(mem[t], "verify", Candidate(t), ok))
    /\ UNCHANGED <<db, cands, attempt, up, sweep, world, faults>>

AnnounceCheck(t) ==
    /\ \E at \in {"healthy", "unhealthy"} :
           /\ Turn(t, at)
           /\ Emit(t, "verification", attempt[t],
                   IF at = "healthy" THEN "hold" ELSE "next", mem[t])
    /\ UNCHANGED <<cands, attempt>>

\* EscrowLedger.hold, still outside the try.
Hold(t) ==
    /\ Turn(t, "hold")
    /\ Execute(t, row,
               [holds EXCEPT ![t][attempt[t]] =
                   [status |-> "held", agent |-> Candidate(t),
                    amount |-> Price(t, Candidate(t))]],
               feed, "held", [mem[t] EXCEPT !.status = "escrowed"])
    /\ UNCHANGED <<cands, attempt>>

AnnounceHold(t) ==
    /\ Turn(t, "held")
    /\ Emit(t, "escrow", attempt[t], "escrowed",
            AddHop(mem[t], "escrow", Candidate(t), TRUE))
    /\ UNCHANGED <<cands, attempt>>

SaveEscrowed(t) ==
    /\ Turn(t, "escrowed")
    /\ UpdateTask(t, mem[t], "invoking")
    /\ UNCHANGED <<cands, attempt>>

SaveInvoking(t) ==
    /\ Turn(t, "invoking")
    /\ UpdateTask(t, [mem[t] EXCEPT !.status = "invoking"], "invoke")
    /\ UNCHANGED <<cands, attempt>>

\* The agent executes the call.  Its answer may still be lost or refused.
AgentServes(t) ==
    /\ pc[t] = "invoke"
    /\ InvokeRoute(Candidate(t)) # "nowhere"
    /\ <<t, attempt[t]>> \notin served
    /\ served' = served \union {<<t, attempt[t]>>}
    /\ UNCHANGED <<db, frame, up, running, sweep, stale, faults, crashes>>

\* Accepted is a 200 whose body passes the checks, so the agent has served;
\* rejected is all the rest: other answers, demo output, timeouts, no route.
InvokeReply(t) ==
    /\ Turn(t, "invoke")
    /\ \E ok \in BOOLEAN :
           /\ ok => <<t, attempt[t]>> \in served
           /\ Continue(t, IF ok THEN "accepted" ELSE "rejected",
                       AddHop(mem[t], "invoke", Candidate(t), ok))
    /\ UNCHANGED <<db, cands, attempt, up, sweep, world, faults>>

AnnounceInvoke(t) ==
    /\ \E at \in {"accepted", "rejected"} :
           /\ Turn(t, at)
           /\ Emit(t, "invoke", attempt[t],
                   IF at = "accepted" THEN "release" ELSE "refund", mem[t])
    /\ UNCHANGED <<cands, attempt>>

\* EscrowLedger.release; the task object is settled before it is announced.
Release(t) ==
    /\ Turn(t, "release")
    /\ Execute(t, row, Settled(t, "released"), feed, "settled",
               [mem[t] EXCEPT !.spent = Price(t, Candidate(t)),
                              !.agent = Candidate(t),
                              !.status = "completed"])
    /\ UNCHANGED <<cands, attempt>>

AnnounceSettle(t) ==
    /\ Turn(t, "settled")
    /\ Emit(t, "settle", attempt[t], "closing",
            AddHop(mem[t], "settle", Candidate(t), TRUE))
    /\ UNCHANGED <<cands, attempt>>

Complete(t) ==
    /\ Turn(t, "closing")
    /\ UpdateTask(t, [mem[t] EXCEPT !.done = TRUE], "ended")
    /\ UNCHANGED <<cands, attempt>>

\* Variant: a rejected invocation goes on without a refund.
RefundSkipped(t) ==
    /\ Turn(t, "refund")
    /\ Continue(t, "next", mem[t])
    /\ UNCHANGED <<db, cands, attempt, up, sweep, world, faults>>

\* EscrowLedger.refund of a rejected invocation; the loop goes on.
Refund(t) ==
    /\ Turn(t, "refund")
    /\ Execute(t, row, Settled(t, "refunded"), feed, "next", mem[t])
    /\ UNCHANGED <<cands, attempt>>

FailExhausted(t) ==
    /\ Turn(t, "next")
    /\ attempt[t] = Len(cands[t])
    /\ UpdateTask(t, [mem[t] EXCEPT !.status = "failed", !.done = TRUE],
                  "failing")
    /\ UNCHANGED <<cands, attempt>>

AnnounceFailure(t) ==
    /\ Turn(t, "failing")
    /\ Emit(t, "error", 0, "ended", mem[t])
    /\ UNCHANGED <<cands, attempt>>

---------------------------------------------------------------------------
(* Exceptions                                                              *)

\* What the callee does not catch: a hub body that is not what the code
\* indexes or converts, an invalid URL, a cancelled request.
AwaitRaises(t) ==
    /\ \E at \in {"discover", "preflight", "invoke"} : Turn(t, at)
    /\ Raise(t)
    /\ UNCHANGED <<db, cands, attempt, up, sweep, world, faults>>

\* The finally of run_task: the hold is refunded, a failure to do so is
\* swallowed, and the exception goes on to the client.
Cleanup(t) ==
    /\ Turn(t, "cleanup")
    /\ \/ /\ holds' = Settled(t, "refunded")
          /\ UNCHANGED faults
       \/ /\ faults < MaxFaults
          /\ faults' = faults + 1
          /\ holds' \in {holds, Settled(t, "refunded")}
    /\ Continue(t, "raised", mem[t])
    /\ UNCHANGED <<row, feed, cands, attempt, up, sweep, world>>

---------------------------------------------------------------------------
(* The stale-task sweep                                                    *)

\* Variants of the WHERE clause: no status, no age, no queued rows.
SweepSelectAnyStatus(p) ==
    /\ SweepOn /\ up[p] /\ running[p] = {} /\ sweep[p] = Asleep
    /\ \E t \in Tasks : stale[t]
    /\ sweep' = [sweep EXCEPT ![p].todo = {t \in Tasks : stale[t]}]
    /\ UNCHANGED <<db, frame, up, running, world, faults>>
SweepSelectAnyAge(p) ==
    /\ SweepOn /\ up[p] /\ running[p] = {} /\ sweep[p] = Asleep
    /\ \E t \in Tasks : row[t].status \in InProgress
    /\ sweep' = [sweep EXCEPT
                   ![p].todo = {t \in Tasks : row[t].status \in InProgress}]
    /\ UNCHANGED <<db, frame, up, running, world, faults>>
SweepSelectStarted(p) ==
    /\ SweepOn /\ up[p] /\ running[p] = {} /\ sweep[p] = Asleep
    /\ LET found == {t \in Tasks :
                        /\ row[t].status \in InProgress \ {"queued"}
                        /\ stale[t]}
       IN /\ found # {}
          /\ sweep' = [sweep EXCEPT ![p].todo = found]
    /\ UNCHANGED <<db, frame, up, running, world, faults>>

\* fail_stale_tasks: the SELECT.  A sweep that selects nothing does nothing.
SweepSelect(p) ==
    /\ SweepOn /\ up[p] /\ running[p] = {} /\ sweep[p] = Asleep
    /\ LET found == {t \in Tasks : /\ row[t].status \in InProgress
                                   /\ ~row[t].done
                                   /\ stale[t]}
       IN /\ found # {}
          /\ sweep' = [sweep EXCEPT ![p].todo = found]
    /\ UNCHANGED <<db, frame, up, running, world, faults>>

\* The UPDATE of one selected row, by its id alone.
SweepUpdate(p) ==
    /\ sweep[p].marked = {}
    /\ \E t \in sweep[p].todo :
           LET failed == [row EXCEPT ![t].status = "failed",
                                     ![t].done = TRUE]
           IN \/ /\ row' = failed
                 /\ sweep' = [sweep EXCEPT ![p].todo = @ \ {t},
                                           ![p].marked = {t}]
                 /\ UNCHANGED faults
              \/ /\ faults < MaxFaults
                 /\ faults' = faults + 1
                 /\ row' \in {row, failed}
                 /\ sweep' = [sweep EXCEPT ![p] = Asleep]
    /\ UNCHANGED <<holds, feed, frame, up, running, world>>

\* Its activity event.  An error ends the sweep until the next period.
SweepEmit(p) ==
    /\ \E t \in sweep[p].marked :
           LET announced == [feed EXCEPT ![t] = @ \union {<<"error", 0>>}]
           IN \/ /\ feed' = announced
                 /\ sweep' = [sweep EXCEPT ![p].marked = {}]
                 /\ UNCHANGED faults
              \/ /\ faults < MaxFaults
                 /\ faults' = faults + 1
                 /\ feed' \in {feed, announced}
                 /\ sweep' = [sweep EXCEPT ![p] = Asleep]
    /\ UNCHANGED <<row, holds, frame, up, running, world>>

---------------------------------------------------------------------------
(* The world                                                               *)

Gone == {"ended", "raised", "crashed"}

\* A process dies: its requests and its sweep are gone, the tables stay.
Crash(p) ==
    /\ up[p]
    /\ crashes < MaxCrashes
    /\ crashes' = crashes + 1
    /\ up' = [up EXCEPT ![p] = FALSE]
    /\ pc' = [t \in Tasks |->
                 IF Home[t] = p /\ pc[t] \notin Gone \union {"idle"}
                 THEN "crashed" ELSE pc[t]]
    /\ running' = [running EXCEPT ![p] = {}]
    /\ sweep' = [sweep EXCEPT ![p] = Asleep]
    /\ UNCHANGED <<db, mem, cands, attempt, stale, served, faults>>

\* restart: unless-stopped.  No request is resumed.
Restart(p) ==
    /\ ~up[p]
    /\ up' = [up EXCEPT ![p] = TRUE]
    /\ UNCHANGED <<db, frame, running, sweep, world, faults>>

\* task_stale_seconds have passed since t was created.
Age(t) ==
    /\ row[t].status # "absent"
    /\ ~stale[t]
    /\ Overrun \/ pc[t] \in Gone
    /\ stale' = [stale EXCEPT ![t] = TRUE]
    /\ UNCHANGED <<db, frame, up, running, sweep, served, faults, crashes>>

\* Nothing is left to do: every request is over and every row has an end.
Finished ==
    /\ \A t \in Tasks : /\ pc[t] \in Gone
                        /\ row[t].status \in {"absent"} \union Terminal
    /\ \A p \in Procs : sweep[p] = Asleep
    /\ UNCHANGED vars

---------------------------------------------------------------------------
Init ==
    /\ row = [t \in Tasks |-> AbsentTask]
    /\ holds = [t \in Tasks |-> [j \in Slots |-> NoHold]]
    /\ feed = [t \in Tasks |-> {}]
    /\ pc = [t \in Tasks |-> "idle"]
    /\ mem = [t \in Tasks |-> AbsentTask]
    /\ cands = [t \in Tasks |-> << >>]
    /\ attempt = [t \in Tasks |-> 0]
    /\ up = [p \in Procs |-> TRUE]
    /\ running = [p \in Procs |-> {}]
    /\ sweep = [p \in Procs |-> Asleep]
    /\ stale = [t \in Tasks |-> FALSE]
    /\ served = {}
    /\ faults = 0
    /\ crashes = 0

\* What run_task does once its task exists.
RunTask(t) ==
    \/ AnnounceTask(t)
    \/ StartDiscovery(t) \/ AnnounceDiscovery(t) \/ DiscoverReply(t)
    \/ StartAttempt(t) \/ PreflightReply(t) \/ AnnounceCheck(t)
    \/ Hold(t) \/ AnnounceHold(t) \/ SaveEscrowed(t) \/ SaveInvoking(t)
    \/ InvokeReply(t) \/ AnnounceInvoke(t)
    \/ Release(t) \/ AnnounceSettle(t) \/ Complete(t)
    \/ Refund(t) \/ FailExhausted(t) \/ AnnounceFailure(t)
    \/ AwaitRaises(t) \/ Cleanup(t)

StaleTaskSweep(p) == SweepSelect(p) \/ SweepUpdate(p) \/ SweepEmit(p)

Next ==
    \/ \E t \in Tasks : Submit(t) \/ RunTask(t) \/ AgentServes(t) \/ Age(t)
    \/ \E p \in Procs : StaleTaskSweep(p) \/ Crash(p) \/ Restart(p)
    \/ Finished

Spec == Init /\ [][Next]_vars

\* A request runs while its process is up (every await has a timeout), the
\* sweep runs every 60 seconds, the container is restarted, time passes.
Fairness ==
    /\ \A t \in Tasks : WF_vars(RunTask(t)) /\ WF_vars(Age(t))
    /\ \A p \in Procs : WF_vars(StaleTaskSweep(p)) /\ WF_vars(Restart(p))

FairSpec == Spec /\ Fairness

---------------------------------------------------------------------------
(* Safety                                                                  *)

Points == InTry \union Gone \union
    {"idle", "created", "start", "started", "discover", "next", "preflight",
     "healthy", "unhealthy", "hold", "settled", "closing", "failing",
     "cleanup"}

Kinds == {"task_created", "discovery", "verification", "escrow", "invoke",
          "settle", "error"}

\* Every variable has its type, and the loop index stays within the list.
TypeOK ==
    /\ row \in [Tasks -> TaskOut]
    /\ holds \in [Tasks -> [Slots -> EscrowHold]]
    /\ feed \in [Tasks -> SUBSET (Kinds \X (0 .. MaxAttempts))]
    /\ pc \in [Tasks -> Points]
    /\ mem \in [Tasks -> TaskOut]
    /\ cands \in [Tasks -> Seq(Agents)]
    /\ attempt \in [Tasks -> Nat]
    /\ \A t \in Tasks : /\ Len(cands[t]) <= MaxAttempts
                        /\ attempt[t] <= Len(cands[t])
    /\ up \in [Procs -> BOOLEAN]
    /\ running \in [Procs -> SUBSET Tasks]
    /\ sweep \in [Procs -> [todo : SUBSET Tasks, marked : SUBSET Tasks]]
    /\ stale \in [Tasks -> BOOLEAN]
    /\ served \subseteq Tasks \X Slots
    /\ faults \in 0 .. MaxFaults
    /\ crashes \in 0 .. MaxCrashes

\* A hold that costs the consumer: reserved for an agent, or paid to it.
Live(h) == h.status \in {"held", "released"}

Exposure(t) ==
    \A j \in Slots :
        Live(holds[t][j]) =>
            /\ holds[t][j].amount <= Budget[t]
            /\ \A k \in Slots \ {j} : ~Live(holds[t][k])

\* Whatever fails, crashes or is retried, a task never has two holds that
\* are reserved or paid at once, and none exceeds its budget: the candidate
\* loop and the finally of run_task never leave a hold behind and go on.
ConsumerExposure == \A t \in Tasks : Exposure(t)

Paid(t) ==
    \E j \in Slots :
        /\ holds[t][j] = [status |-> "released",
                          agent  |-> row[t].agent,
                          amount |-> row[t].spent]
        /\ <<t, j>> \in served
        /\ \A k \in Slots \ {j} : ~Live(holds[t][k])

\* The row of a completed task names the agent and the amount of the one
\* released hold of the task, that agent executed that attempt, and nothing
\* else was kept: update_task wrote what EscrowLedger.release did.
CompletedIsPaid ==
    \A t \in Tasks : row[t].status = "completed" => Paid(t)

Guarded(t) ==
    \A j \in Slots :
        holds[t][j].status = "held" =>
            \/ pc[t] \in InTry \union {"cleanup"} /\ attempt[t] = j
            \/ pc[t] = "crashed"
            \/ pc[t] = "raised" /\ faults > 0

\* A held hold has a live request inside the try of its own attempt, or the
\* process died, or a statement raised where no finally (or only a swallowed
\* refund) covers it.  Nothing else strands a hold.
HoldsAreGuarded == \A t \in Tasks : Guarded(t)

\* What the activity feed shows of money is true: an announced settlement is
\* a released hold, and an announced escrow is a hold that was taken.
AnnouncedIsSettled ==
    \A t \in Tasks, j \in Slots :
        /\ <<"settle", j>> \in feed[t] => holds[t][j].status = "released"
        /\ <<"escrow", j>> \in feed[t] => holds[t][j].status # "none"

\* The escrow hops tell these holds of t one by one, in their order.
Tells(t, hops, taken) ==
    LET told == {i \in DOMAIN hops : hops[i].phase = "escrow"}
    IN  \E hop \in [taken -> told] :
            /\ told \subseteq {hop[j] : j \in taken}
            /\ \A j, k \in taken : j < k => hop[j] < hop[k]
            /\ \A j \in taken : hops[hop[j]].agent = holds[t][j].agent

Taken(t) == {j \in Slots : holds[t][j].status # "none"}

\* The hops of a completed row tell the holds of the task, in order: every
\* hold taken on the way, those of failed candidates included, has its
\* escrow hop, and no hop tells of a hold that was not taken.
TrailIsLedger ==
    \A t \in Tasks : row[t].status = "completed" => Tells(t, row[t].hops, Taken(t))

\* The amount reported for an ended task is what the ledger released for it.
SpentIsLedger ==
    \A t \in Tasks :
        row[t].status \in Terminal =>
            row[t].spent =
                LET paid == {j \in Slots : holds[t][j].status = "released"}
                IN  MapThenSumSet(LAMBDA j : holds[t][j].amount, paid)

\* The feed never tells both endings of one task.
OneEnding ==
    \A t \in Tasks, j \in Slots :
        ~ {<<"settle", j>>, <<"error", 0>>} \subseteq feed[t]

\* The hops of this task object have a passed preflight of this agent.
Passed(m, a) ==
    \E i \in DOMAIN m.hops :
        m.hops[i] = [phase |-> "verify", agent |-> a, ok |-> TRUE]

\* Whoever executed a call or is paid for one had passed the preflight of
\* that task, at the very address the call went to.  With no hub configured
\* _preflight and _invoke_match disagree on an agent registered by product
\* and capability: it is checked at its endpoint and a hold is taken for it,
\* but the call has no address, and the hold is refunded.
PaidIsChecked ==
    \A t \in Tasks, j \in Slots :
        <<t, j>> \in served \/ holds[t][j].status = "released" =>
            LET a == holds[t][j].agent
            IN  Passed(mem[t], a) /\ PreflightRoute(a) = InvokeRoute(a)

\* Once an answer has been accepted, the request ends with its hold released.
AcceptedIsReleased ==
    \A t \in Tasks :
        /\ pc[t] \in {"ended", "raised"}
        /\ \E i \in DOMAIN mem[t].hops :
               mem[t].hops[i].phase = "invoke" /\ mem[t].hops[i].ok
        => holds[t][attempt[t]].status = "released"

\* The sweep recovers from crashes: it ends a task whose request is gone.
DeadLetterIsRecovery ==
    \A p \in Procs : \A t \in sweep[p].marked : pc[t] \in Gone

---------------------------------------------------------------------------
(* Why the safety properties hold: what a live request knows of its task   *)

\* Where the current hold is the one of the current candidate.
HoldTaken == InTry \union {"settled", "closing"}

\* The slots of a live request: nothing beyond the current attempt, nothing
\* kept before it, and in the current one what the request is up to.
SlotsFollowFrame(t) ==
    \A j \in Slots :
        pc[t] \notin Gone =>
            /\ j > attempt[t] => holds[t][j].status = "none"
            /\ j < attempt[t] => ~Live(holds[t][j])
            /\ j = attempt[t] =>
                /\ pc[t] \in InTry => holds[t][j].status = "held"
                /\ pc[t] \in {"settled", "closing"} =>
                       holds[t][j].status = "released"
                /\ pc[t] \in {"next", "failing", "preflight", "healthy",
                              "unhealthy", "hold"} => ~Live(holds[t][j])

\* Where a request has a candidate, it has started an attempt.
AttemptStarted(t) ==
    /\ pc[t] \in HoldTaken \union {"preflight", "healthy", "unhealthy", "hold",
                                  "cleanup"} => attempt[t] > 0
    /\ pc[t] \in {"idle", "created", "start", "started", "discover"} =>
           attempt[t] = 0

\* Candidates are offers for the budget of the task, and so are its holds.
HoldIsOffer(t) ==
    /\ \A i \in 1 .. Len(cands[t]) : cands[t][i] \in Offered(t)
    /\ \A j \in Slots : holds[t][j].amount <= Budget[t]
    /\ pc[t] \in HoldTaken =>
           /\ holds[t][attempt[t]].agent = Candidate(t)
           /\ holds[t][attempt[t]].amount = Price(t, Candidate(t))

\* What the request knows when it is about to settle, and who wrote a
\* completed row.
SettledFrame(t) ==
    /\ pc[t] \in {"settled", "closing"} =>
           /\ mem[t].agent = Candidate(t)
           /\ mem[t].spent = Price(t, Candidate(t))
    /\ pc[t] \in {"accepted", "release", "settled", "closing"} =>
           <<t, attempt[t]>> \in served
    /\ pc[t] \in {"held", "escrowed"} => mem[t].status = "escrowed"
    /\ row[t].status = "completed" => pc[t] \in {"ended", "raised"}

\* A hold that the finally still has to refund was settled already only if
\* a statement raised after its effect.
CleanupHold(t) ==
    pc[t] = "cleanup" =>
        \/ holds[t][attempt[t]].status = "held"
        \/ holds[t][attempt[t]].status # "none" /\ faults > 0

TaskInv(t) ==
    /\ SlotsFollowFrame(t)
    /\ AttemptStarted(t)
    /\ HoldIsOffer(t)
    /\ SettledFrame(t)
    /\ CleanupHold(t)
    /\ Guarded(t)
    /\ Exposure(t)
    /\ row[t].status = "completed" => Paid(t)

\* The inductive invariant of the proofs: what a request knows of its task,
\* at every point, and what that leaves behind when the request is gone.
PipelineInv == TypeOK /\ \A t \in Tasks : TaskInv(t)

---------------------------------------------------------------------------
(* Action properties                                                       *)

\* A completed task is never rewritten, by its request or by a sweep.
CompletedIsFinal ==
    [][\A t \in Tasks : row[t].status = "completed" => row'[t] = row[t]]_vars

\* An ended task, dead-lettered ones included, is never moved again.
TerminalIsFinal ==
    [][\A t \in Tasks :
          row[t].status \in Terminal => row'[t].status = row[t].status]_vars

---------------------------------------------------------------------------
(* Liveness                                                                *)

\* Every inserted task ends and stays ended, whatever raises or crashes:
\* the request ends it or the sweep does.
EveryTaskEnds ==
    \A t \in Tasks :
        row[t].status # "absent" ~> [](row[t].status \in Terminal)

\* Every hold is settled.
EveryHoldSettles ==
    \A t \in Tasks, j \in Slots :
        holds[t][j].status = "held" ~> holds[t][j].status # "held"

---------------------------------------------------------------------------
(* The promise of the ledger                                               *)

Ledger == INSTANCE EscrowLedger WITH
              Tasks <- Tasks, Slots <- Slots,
              holds <- [t \in Tasks |-> [j \in Slots |-> holds[t][j].status]]

\* Without statement errors the orchestrator keeps the promise of the
\* ledger, crashes included: holds are settled once and never overlap.
LedgerSpec == Ledger!Spec
===========================================================================

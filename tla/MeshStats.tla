----------------------------- MODULE MeshStats -----------------------------
(***************************************************************************)
(* GET /v1/stats: six queries without a transaction, five of them about    *)
(* the last 24 hours.  Between two of them another process registers and   *)
(* verifies agents, runs tasks and sweeps, and time passes; the own        *)
(* process holds its event loop for the whole of stats.                    *)
(***************************************************************************)
EXTENDS Integers, FiniteSets, FiniteSetsExt

CONSTANTS
    Members, Tasks,
    Day,        \* 24 hours
    MaxHops,    \* bound on the hops of a task
    MaxTime     \* bound on the clock

ASSUME StatsAssumption ==
    /\ IsFiniteSet(Members) /\ IsFiniteSet(Tasks)
    /\ Day \in Nat /\ MaxHops \in Nat /\ MaxTime \in Nat

VARIABLES
    agents,     \* "absent", "pending" or "verified"
    tasks,      \* the rows of the tasks
    stale,      \* the tasks that the sweep of another process has selected
    now,
    next,       \* number of the next query; 0 when none is running
    cutoff,     \* of the running call
    report,     \* the figures so far
    before,     \* the figures when the call began
    undone,     \* how many completed tasks a sweep has failed since then
    late        \* what was counted in a part and came after the query of the whole

statsVars == <<agents, tasks, stale, now, next, cutoff, report, before, undone, late>>
call == <<next, cutoff, report, before>>

Queries == <<"agents_total", "agents_verified", "tasks", "ok", "volume", "hops">>
Figures == {Queries[n] : n \in 1..6}
Zero == [q \in Figures |-> 0]

Recent(c) == {t \in Tasks : tasks[t].status # "absent" /\ tasks[t].born >= c}
AgentsIn(states) == Cardinality({a \in Members : agents[a] \in states})

\* What each query answers, for this cutoff.
Value(q, c) ==
    CASE q = "agents_total"    -> AgentsIn({"pending", "verified"})
      [] q = "agents_verified" -> AgentsIn({"verified"})
      [] q = "tasks"  -> Cardinality(Recent(c))
      [] q = "ok"     -> Cardinality({t \in Recent(c) : tasks[t].status = "completed"})
      [] q = "volume" -> MapThenSumSet(LAMBDA t : tasks[t].spent, Recent(c))
      [] q = "hops"   -> MapThenSumSet(LAMBDA t : tasks[t].hops, Recent(c))

StatsInit ==
    /\ agents = [a \in Members |-> "absent"]
    /\ tasks = [t \in Tasks |-> [status |-> "absent", born |-> 0, hops |-> 0, spent |-> 0]]
    /\ stale = {} /\ now = 0 /\ next = 0 /\ cutoff = 0 /\ report = Zero /\ before = Zero
    /\ undone = 0 /\ late = [agents |-> 0, tasks |-> 0]

\* An agent is registered.  Nobody deletes one.
CreateAgent(a) ==
    /\ agents[a] = "absent" /\ agents' = [agents EXCEPT ![a] = "pending"]
    /\ late' = [late EXCEPT !.agents = IF next = 2 THEN @ + 1 ELSE @]
    /\ UNCHANGED <<tasks, stale, now, call, undone>>

\* An agent is verified.  Nobody demotes one.
VerifyAgent(a) ==
    /\ agents[a] = "pending" /\ agents' = [agents EXCEPT ![a] = "verified"]
    /\ UNCHANGED <<tasks, stale, now, call, undone, late>>

CreateTask(t) ==
    /\ tasks[t].status = "absent"
    /\ tasks' = [tasks EXCEPT ![t] = [status |-> "open", born |-> now, hops |-> 0, spent |-> 0]]
    /\ late' = [late EXCEPT !.tasks = IF next = 4 THEN @ + 1 ELSE @]
    /\ UNCHANGED <<agents, stale, now, call, undone>>

\* A request writes its task with the hops made so far; what is spent it
\* writes when it completes.  A row the sweep has failed is written again.
UpdateTask(t) ==
    /\ tasks[t].status \in {"open", "failed"} /\ tasks[t].spent = 0
    /\ \E s \in {"open", "completed", "failed"}, h \in tasks[t].hops..MaxHops :
          tasks' = [tasks EXCEPT ![t] = [status |-> s, born |-> @.born, hops |-> h,
                                         spent |-> IF s = "completed" THEN 1 ELSE 0]]
    /\ UNCHANGED <<agents, stale, now, call, undone, late>>

\* The sweep of another process selects a task that is open ...
SelectStale(t) ==
    /\ tasks[t].status = "open" /\ t \notin stale
    /\ stale' = stale \union {t}
    /\ UNCHANGED <<agents, tasks, now, call, undone, late>>

\* ... and fails it by its id alone, although it may have completed meanwhile.
FailStale(t) ==
    /\ t \in stale /\ stale' = stale \ {t}
    /\ tasks' = [tasks EXCEPT ![t].status = "failed"]
    /\ undone' = IF tasks[t].status = "completed" THEN undone + 1 ELSE undone
    /\ UNCHANGED <<agents, now, call, late>>

Tick ==
    /\ now < MaxTime
    /\ now' = now + 1
    /\ UNCHANGED <<agents, tasks, stale, call, undone, late>>

\* _utc_cutoff_24h, once for the whole call.
Begin ==
    /\ next = 0
    /\ next' = 1 /\ cutoff' = now - Day
    /\ report' = Zero
    /\ before' = [q \in Figures |-> Value(q, now - Day)]
    /\ undone' = 0 /\ late' = [agents |-> 0, tasks |-> 0]
    /\ UNCHANGED <<agents, tasks, stale, now>>

\* Variant: every query computes the time 24 hours ago anew.
CutoffAnew == now - Day

Cutoff == cutoff

Query ==
    /\ next \in 1..6
    /\ report' = [report EXCEPT ![Queries[next]] = Value(Queries[next], Cutoff)]
    /\ next' = next + 1
    /\ UNCHANGED <<agents, tasks, stale, now, cutoff, before, undone, late>>

\* The answer is sent, and the call is over.
Respond ==
    /\ next = 7
    /\ next' = 0 /\ cutoff' = 0 /\ report' = Zero /\ before' = Zero
    /\ UNCHANGED <<agents, tasks, stale, now, undone, late>>

StatsNext ==
    \/ Tick \/ Begin \/ Query \/ Respond
    \/ \E a \in Members : CreateAgent(a) \/ VerifyAgent(a)
    \/ \E t \in Tasks : CreateTask(t) \/ UpdateTask(t) \/ SelectStale(t) \/ FailStale(t)

StatsSpec == StatsInit /\ [][StatsNext]_statsVars

----------------------------------------------------------------------------
(* Properties                                                              *)

\* By how much a figure may have gone down since the call began.
Undone(q) == IF q = "ok" THEN undone ELSE 0

\* Whatever the other processes do between two queries, every figure of the
\* answer was true at some moment of the call: none is below what it was at
\* the beginning, none above what it is at the end, but for the completed
\* tasks that a sweep failed meanwhile.  And the figures that are divided by
\* each other, or shown as a part and its whole, disagree by no more than what
\* came between their two queries.
FiguresBracketed ==
    next = 7 =>
        /\ \A q \in Figures : /\ before[q] <= report[q] + Undone(q)
                             /\ report[q] <= Value(q, cutoff) + Undone(q)
        /\ report["agents_verified"] <= report["agents_total"] + late.agents
        /\ report["ok"] <= report["tasks"] + late.tasks
=============================================================================

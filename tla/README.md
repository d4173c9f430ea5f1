# A verification of AI Service Mesh

TLA+ specifications of the control plane in `src/backend/ai_service_mesh` and of the lists in
`src/frontend/src/App.tsx`, the TLC configurations that check them and the theorems TLAPS proves about
them. The source is the reference: each definition is translated from the lines that the `map` of
`PROJECT.json` names.

| module | what it is |
|--------|------------|
| `EscrowLedger` | what the internal USD ledger promises, without the code that keeps the promise |
| `TaskPipeline` | the life of a task: `create_task`, `run_task`, the escrow, the stale-task sweep, errors and crashes |
| `TaskPipelineProof`, `TaskLedgerProof` | its inductive invariant and what follows; when it implements `EscrowLedger`, what the feed and the hops tell, what is reported as spent, when endings are final |
| `SlidingWindow` | what a rate limit means: a log that forgets nothing |
| `RateLimiter` | `RateLimiter` and `client_ip` of `security.py`; it implements `SlidingWindow` |
| `ActivityStream` | the activity table and one connection to `/v1/activity/stream` |
| `Dashboard` | the activity list of `App.tsx` on top of `ActivityStream` |
| `PageProof` | what one connection sends and skips; what the page's list shows |
| `DashboardLists` | the other lists of `App.tsx`, under overlapping refreshes |
| `InvokeClient` | one outgoing call of `invoke.py` |
| `EdgesProof` | the limit of the limiter and its refinement; what a call buffers and accepts, and where it connects |
| `AgentRegistry` | registration, verification and wallet binding |
| `Discovery` | one search over the registry and the hub |
| `MeshStats` | the six queries of `/v1/stats` |
| `RegistryProof` | what rows, events and answers of the registry say; what a search returns; between what the figures lie |
| `AtomicStore` | what the other modules take the database for: a call is one atomic, durable statement |
| `StoreBackend`, `StoreBackendProof` | lock, connections and commits of both backends; they implement `AtomicStore` |
| `Placeholders` | the character walk that ends `sqlite_to_pg` |
| `SchemaSetup` | the creation and alteration of the tables at a start |
| `Migration` | `migrate_sqlite_to_postgres` |
| `TablesProof` | on which tables a process serves, what a rewritten statement keeps, what the migration keeps and finishes |
| `SumLemmas` | finite sums, for `RegistryProof` and `TaskLedgerProof` |
| `MCTaskPipeline`, `MCEdges`, `MCPage`, `MCDatabase`, `MCRegistry`, `*.cfg` | small instances for TLC |

## 1. The system

A consumer posts a task (an intent and a budget). One coroutine drives it: it searches agents,
checks one, reserves money, calls the agent, and pays or takes the money back; then it tries the next
candidate. A background sweep ends tasks that take too long. Everything else of the program feeds
this path or shows it.

| component | state | operations | works with | correct when |
|-----------|-------|------------|------------|--------------|
| orchestrator, `orchestrator.py` | a `TaskOut` object, the candidates, the current hold | `run_task`, `_preflight`, `_invoke_match` | store, ledger, discovery, client; suspended at three awaits | at most one live hold per task, within the budget; every hold settled; the row of an ended task says what the ledger did; what was checked is what is paid |
| escrow ledger, `payments.py` | table `escrow_holds` | `hold`, `release`, `refund` | the orchestrator only | a hold is settled once and never changes again |
| task store, `db.py` | tables `tasks`, `activity`, `agents`, `escrow_holds` | one committed statement per call | everything | rows, feed and ledger agree although nothing spans two statements |
| stale-task sweep, `api.py:79`, `db.py:285` | the rows it has selected | `SELECT`, then `UPDATE` and an event per row, every 60 s | writes the rows of live requests too | every abandoned task ends; a live or completed one is left alone |
| discovery, `discovery.py` | none | local search, hub search, sort, cut | store, hub | candidates are verified, affordable, ordered by score, at most twelve |
| client, `invoke.py` | none | preflight and invocation, direct or through the hub | agents, hub | a reply is bounded; only real, successful output is accepted |
| registry, `api.py:218`, `verification.py` | table `agents` | register, verify, bind a wallet | discovery reads verified agents | a verified agent passed the blocking checks |
| activity feed, `db.py:325`, `api.py:322` | table `activity`, a cursor per stream | `list_activity`, SSE generator | dashboard | a subscriber sees every event once, in order |
| rate limiter, `security.py:180` | hit times per client | `check`, prune | every route | never more than the limit within a minute, never fewer by pruning |
| database backends, `db_backend.py` | a connection, or a pool of eight | `execute`, `fetch*`, `commit` | store, migration | each connection taken is returned |
| migration, `migrate.py` | two databases | clear, copy table by table | backends | a finished run is a copy; an interrupted one can be repeated; it takes back nothing newer |
| statistics, `db.py:374` | none | six queries | dashboard | each figure was true during the call, and those divided by each other belong together |
| HTTP API, config, tokens, pinning | settings | guards and routing | all of the above | (no state of its own) |
| dashboard, `frontend/src` | lists held by React | poll, stream, merge | API | the stream is not undone by a late poll |

What makes the path hard: coroutines interleave at awaits and nowhere else; every statement commits
on its own, so an error or a crash falls between any two; the task object is read once and written
many times, whatever has happened to its row; the sweep decides by age alone; two processes may
share one PostgreSQL database.

The hazards this exposes are listed, each at its line, in `PROJECT.json`.

## 2. How the project is built

Each component has a module of its own. Where its promise can be said without its mechanism there is
an abstract module next to it (`EscrowLedger`, `SlidingWindow`, `AtomicStore`), and the detailed one is shown
to implement it by `INSTANCE` and a refinement mapping, checked by TLC and proved by TLAPS.

`StoreBackend` stands under all the others: they take a statement for an atomic and durable step, and
`AtomicSpec` says when that is true. On PostgreSQL it always is. On SQLite a statement whose *commit* raised
stays in the open transaction of the only connection and is made durable by the commit of a later call;
`AtomicStore` admits this (`Late`), and it is why an error of a statement in `TaskPipeline` and `AgentRegistry` may
come with or without its effect.

The order in which the modules were written is the order of what they protect: first the money
(`TaskPipeline`), then what requests and subscribers see (`RateLimiter`, `ActivityStream`, `Dashboard`), what goes out
(`InvokeClient`), who is trusted (`AgentRegistry`, `Discovery`), where the data is kept (`StoreBackend`, `Migration`,
`SchemaSetup`), and what is only shown (`MeshStats`, `DashboardLists`). Section 8 says what is left.

### One run for several small modules

A module of the smaller components has a few hundred to a million states. `MCEdges`, `MCPage`, `MCDatabase` and
`MCRegistry` each check several of them in one run. They are sums and not compositions: a variable `part`,
chosen in the initial state, says which component moves; the others stay in one initial state. The
components share no variable (a module of which two parts are variants, such as the two backends, is
extended once and instantiated once more, with variables of its own), so the reachable states are the union of those of the parts, and an
invariant or action property of a part holds in the run if and only if it holds of that part alone.
Fairness and liveness are restricted to `part`, because the parts that stand still would violate them
and show nothing.

## 3. TaskPipeline

### State

| variable | code |
|----------|------|
| `row[t]` | the row of `t` in `tasks` (status, whether `completed_at` is set, agent, amount, hops) |
| `holds[t][j]` | the row of `escrow_holds` inserted by attempt `j` of `t` (at most one per attempt) |
| `feed[t]` | the events of `t` in `activity`: kind and attempt |
| `pc[t]`, `mem[t]`, `cands[t]`, `attempt[t]` | the coroutine: where it is, its `TaskOut`, `candidates`, how far the loop is |
| `up[p]`, `running[p]` | process `p`, and the request that has its event loop |
| `sweep[p]` | the sweep of `p`: rows still to update, and the row updated and not announced yet |
| `stale[t]` | `created_at` is older than `task_stale_seconds` |
| `served` | attempts the agent really executed (not visible to the code) |
| `faults`, `crashes` | counters for the two bounds |

### Steps

A step is one SQL statement with the Python before it (`_execute` commits at once), or the answer to
one await. `Execute` is the shape of every statement: it has its effect and the request goes on; or
it raises, with or without its effect, and the request leaves through the `finally` when it is
inside the `try` and not settled (`InTry`), else at once. `AwaitRaises` is an exception that a
callee lets through at an await.

A request that is not suspended keeps the event loop of its process (`running`): no other coroutine
of that process moves until its next network await. The sweep contains no await between its
`SELECT` and its last `UPDATE`, so it excludes the requests of its own process, and of no other.

The names of the actions follow `run_task` from top to bottom; `RunTask(t)` lists them in that order.
The branch for "no match" and the one for "all candidates failed" do the same to every table, so both
are `FailExhausted`. Left out: texts, latencies, ids, timestamps other than the age, and which of
several failures is reported.

### Bounds

`MaxMatches` (12 in the code) and `MaxAttempts` bound the loop; with 3 and 2 a list can be longer than
the cut, an attempt can follow a failed one, and the last one can fail. `MaxFaults` bounds raising
statements and `MaxCrashes` crashes: one of each lets every pair of neighbouring statements be split,
and a crash follow an error. The proofs have no bound on any of them. Prices and budgets are small
naturals: one agent above the budget (its price is clipped), one at it, one below. `Procs` with two
members gives a second sweep, on the same rows, that no event loop excludes.

### Fairness

`FairSpec` asks for weak fairness of four things and of nothing else. `RunTask(t)`: the event loop
resumes a ready coroutine, and `httpx` limits the wait for every part of a reply. `StaleTaskSweep(p)`:
it runs every 60 seconds, and after an error again. `Restart(p)`: `restart: unless-stopped` in
`docker-compose.prod.yml`. `Age(t)`: time passes. Neither a new request, nor an agent that serves, nor
a crash or an error is ever promised.

`Overrun` says whether a live request may become stale. It may: the timeouts of `httpx` limit each
read and not the call, and twelve attempts of 8 + 45 seconds exceed the default of 600 anyway.

## 4. The other modules

### RateLimiter

`check` reads the clock once and has no await: it is one action. `hits[k]` holds the positions, in a history of
admitted requests, of the requests whose times `self._hits[k]` holds; keeping positions instead of times is
what makes "the bucket holds exactly what counts" sayable. `ClientIp` is `client_ip`: with a proxy, the last
entry of `X-Forwarded-For`, which the proxy appended; a client may send any chain before it. The assumption
`DeploymentAssumption` (the header is trusted if and only if there is a proxy) is what the configuration
asks of the operator, and the only thing that separates clients. Bounds: two clients, two requests
per window of two ticks, pruning every three checks or beyond one bucket, four ticks: a request
leaves the window, is filtered or pruned with its bucket, and the client comes back.

### ActivityStream and Dashboard

An event is its position in the table, and `table[e]` is its stamp in whole seconds. `ListActivity` is the
query of `list_activity` with its `since_id`: `created_at > (stamp of the cursor)` or the newest ones, cut by `LIMIT`.
`Poll` and `Yield` are the generator of `activity_stream`; the process that streams writes a stamp and its row in
one step (`Emit`), another process may be between the two (`Stamp`, `Insert`). The feed *does* skip events:
those that share the second of the cursor, and those inserted late with an older stamp. `OnlyTiesSkipped` says
that nothing else is skipped. `docs/api.md:40` promises resumption after an id and not completeness, so
this is described and not listed as a finding.

`Dashboard` adds the browser: `Connect` (mount, or the timer of four seconds after an error), `OnMessage` with its
test for known ids and its cut, the one poll at mount, whose late answer replaces the list, and
the unmounting. `DashboardLists` is `refreshCore`: three requests whose answers are written together, started
at mount and by the interval, also over one that is still under way.

Bounds: four events, two seconds, a second writer, two events per answer (more than one tie is cut);
on the page three events, a list of two (the cut and the replay happen). Two refreshes under way, one
change, one failure.

### InvokeClient

The four functions of `invoke.py` go through the same places: `Judge` (the name is resolved and all its
addresses judged), `Pin` (`pin_target` resolves it again, judges again and keeps one address), the reply, `Read` chunk by chunk, the `finally` that
closes the response, `Decode`. The other side is free: names may change at any moment (`Flip`), the declared
length may be absent, false or no number, the body may never end. Bounds: a cap of four bytes that is no
multiple of the chunk of three, and three addresses of which one is blocked.

### AgentRegistry

`register_agent` waits for a name server and then runs statement by statement: insert, announce, verify,
promote, read, announce. `Statement` gives each of them its outcomes: it has its effect, or raises with or without it. `asked` and `passed` are
history. Signatures and keys are facts of the request (`Facts`), their evaluation order is that of
`verify_agent_registration`. Bounds: two requests on one process or two, a binding, an error, a crash.

### Discovery and MeshStats

`Discovery` keeps the arithmetic in integers: quarters of a dollar, halves of trust, fortieths of a score, so
that rounding never decides. `MeshStats` lets another process and the clock move between the six queries,
and compares each figure with its values at the first and the last of them. That process registers and verifies
agents, creates and writes tasks, and sweeps: as in `TaskPipeline` a sweep selects a task and fails it later by its
id alone, so it may undo a completion, and a failed task may go on. `undone` counts the completions undone
during a call, `late` what is counted in a part and came after the query of its whole: by that much the number
of completed tasks may be below what it was at the beginning, and a ratio above one.

### StoreBackend, Placeholders, SchemaSetup, Migration

`StoreBackend`: a call takes the lock, executes, fetches or not, and commits; each may raise. The mesh calls its
store from the thread of the event loop only (`asyncio.to_thread` serves the checks of URLs), so its calls never
meet at the lock; the code is written for callers that do, and the model has two. The backend remembers the connection between `execute` and `commit` (`last`); on
PostgreSQL `execute` takes one from the pool, and a read whose rows cannot be fetched leaves it outside for
good (`place = "lost"`). `PoolSuffices` says that nothing else costs a connection. A crash loses whatever is not
committed.

`SchemaSetup`: processes start together on tables of any earlier version; on PostgreSQL the script is one
transaction, on SQLite it is table by table. Every column is added blindly; that it is there is told by the
error, and any other error stops the start. `Placeholders` walks over all statements of up to six
characters of four kinds. Backslashes are left out of the run: `db_backend.py:126` treats one before a quote as
an escape, which SQL does not; no statement of the mesh has one.

`Migration`: a row is its version. The mesh writes meanwhile (`quiet` turns false): to the file, or to PostgreSQL
once it has been restarted there (`Move`), where `own` remembers its rows. Any statement may fail, and a run may be
started again at any time, after that move too, with or without `--clear-target`. The upsert has no condition, so
such a run overwrites rows of `own` with older ones from the file: `NeverOlder` allows that, and nothing else. Since every `execute` of the target takes
a connection of its own, only the last `DELETE` is committed; the migration still ends with a copy, because
the upsert overwrites what was not deleted. The script's help (`--clear-target`) says more than that.
`HasExecutemany` says whether a connection of the driver has that method; psycopg 3's has not.

### Fairness of these modules

- A call of `InvokeClient` takes its next step: `httpx` limits every wait for a byte. That the body ends is not
  assumed; that the call ends follows from the cap.
- The generator serves an open connection, the browser handles its messages, the timer of the retry
  fires. That the poll is answered is not assumed.
- The interval of the other lists goes on, and a request is answered or fails.
- A start takes its next step, and the restart policy starts a process that is down.
- A run of the migration takes its next step and somebody starts it again.

None of them makes a writer write, a connection break or an error happen.

## 5. What the runs show

| run | instance | shows |
|-----|----------|-------|
| `pipeline` | 1 task, 2 processes, 3 agents, an error and a crash anywhere, overruns | one live hold at most, within the budget; a completed row tells the released hold; only a crash or an uncovered error strands a hold; feed and hops tell the ledger; the inductive invariant of the proofs |
| `recovery` | 1 task, 1 process, an error and a crash, overruns, fairness | every task ends and stays ended; a completed row is final |
| `calm` | 2 tasks on one loop, a routed agent and no hub, no crash, no statement error, no overrun, fairness | every hold is settled; the amount reported is the amount released; an accepted answer is paid; who is called or paid was checked, at the same address; one ending in the feed; ended is final; refinement of `EscrowLedger` |
| `edges` | `RateLimiter` and `InvokeClient` | filtering and pruning change no answer; memory follows the active clients; a reply costs the cap and a chunk; a call connects to judged addresses and accepts only real output; it ends |
| `page` | `ActivityStream`, `Dashboard`, `DashboardLists` | one connection sends nothing twice and skips only ties and late rows; the list shows nothing twice; what is sent is shown unless the connection breaks; the other lists catch up |
| `registry` | `AgentRegistry`, `Discovery`, `MeshStats` | a verified agent earned it; wallets, events and answers are true; a search returns the best it saw within the budget, in order; each figure was true at a moment of its call, but for completions that a sweep undid |
| `database` | `StoreBackend` on both backends, `Migration` with both drivers, `SchemaSetup` on both, `Placeholders` | a call is one atomic statement; the pool lasts; a finished migration is a copy, and takes back only what the mesh wrote in PostgreSQL itself; processes come up, and serve only on complete tables; only placeholders change |
| `stuck_hold` | 1 task, 1 local agent, 1 attempt, a crash | `EveryHoldSettles` fails |
| `accepted_refund` | the same, a statement error instead | `AcceptedIsReleased` fails |
| `dead_letter` | the same, an overrun instead | `DeadLetterIsRecovery` fails |
| `lost_spend` | 1 task, 1 local agent, 1 attempt, a crash | `SpentIsLedger` fails |
| `no_executemany` | `Migration` with psycopg 3 | `MigrationFinishes` fails |

The last five are disagreements between the code and its own comments and documents, quoted under
`findings`:

- `stuck_hold`: the comment above the `try` guarantees that a hold is always settled. The `finally`
  dies with its process; the sweep, the only recovery there is, fails the task and leaves the ledger.
- `accepted_refund`: "An accepted invocation releases its hold." The INVOKE event is written between the
  answer and the release; when that raises, the `finally` refunds.
- `dead_letter`: the sweep is documented as crash recovery and fails tasks that are alive. The request
  moves the row back with its next `update_task`, so the feed tells an error and then a settlement.
- `lost_spend`: the amount of a task is written after the release, by another statement.
- `no_executemany`: the documented migration raises for the first table with rows, on every run.

`calm` says what holds when none of the first four happens, and is the specification a fix would aim at;
`database` says what the migration does once the driver has the method.

Smaller disagreements met while modelling, which are in the models and have no run of their own: the
events a cursor's second hides (`db.py:330`); an activity poll answered late that replaces newer events until
the next connection (`App.tsx:42`); a body that may exceed the cap by one chunk before it is refused
(`invoke.py:55`); a demo marker in a field that is not searched (`invoke.py:203`); `--clear-target`, of whose
`DELETE`s only the last is committed (`migrate.py:43`); a migration repeated after the mesh was moved to PostgreSQL,
which overwrites what is newer there (`migrate.py:57`); an agent with product ids that is checked at its endpoint,
held for and refunded without a call when no hub is configured (`orchestrator.py:184`); an agent that stays pending
after a crash (`api.py:234`); a hub price that is not a number and passes both comparisons (`discovery.py:108`).

Limits of what is shown. `CompletedIsFinal` is checked, and proved, for one process: with two and an overrun, a
completed row can be failed between the `SELECT` and the `UPDATE` of the other's sweep. The clock of `RateLimiter`
does not go back, and there is one process: a second one has buckets of its own. `BestFirst` is checked for replies whose numbers are numbers, zero, or
texts that `float` refuses, and proved for replies without NaN: with it in a score, `sort` promises no order,
and with it in a price, the match passes both comparisons.

## 6. What is proved

For every value of the constants that satisfies the named assumptions of the module:

| theorem | states | assumes |
|---------|--------|---------|
| `PipelineInvariant` | `Spec => []PipelineInv` | `ProcessAssumption`, `AgentAssumption`, `MoneyAssumption`, `BoundAssumption` |
| `TypeCorrect`, `ExposureBounded`, `CompletedPaid`, `HoldsGuarded` | the invariants of `pipeline` | the same |
| `AnnouncedStaysSettled` | what the feed tells of holds and settlements is true | the same |
| `LedgerKept` | `Spec => LedgerSpec` | also `MaxFaults = 0` |
| `AcceptedStaysPaid` | an accepted answer is paid by the end of its request | also `MaxFaults = 0` |
| `PaidStaysChecked` | who executes a call or is paid for one passed its preflight, at the address of the call | the same as `PipelineInvariant` |
| `TrailStaysLedger` | the escrow hops of a completed row tell its holds, in order and with their agents | the same as `PipelineInvariant` |
| `EndedStaysEnded` | an ended task is not moved | also `Overrun = FALSE` |
| `CompletedStaysFinal` | a completed row is not rewritten | also `Overrun = FALSE`, or one process |
| `EndingIsOne`, `SpentStaysLedger` | the feed tells one ending of a task; its amount is the sum of its released holds | also `Overrun = FALSE`, `MaxFaults = 0`, `MaxCrashes = 0` |
| `LimiterInvariant`, `LimitKept`, `CrowdPruned` | never above the limit; a crowd of buckets is an active one | `LimiterAssumption`, `DeploymentAssumption` |
| `PromiseKept` | `Spec => SlidingWindowSpec` | the same |
| `StreamInvariant`, `NeverTwice`, `InStampOrder`, `SkipsOnlyTies` | one connection sends nothing twice, in the order of stamps, and skips only ties and late rows | `FeedAssumption` |
| `ListShowsOnce` | the list of the page shows nothing twice | also `ListAssumption` |
| `ClientInvariant`, `BufferKept`, `AcceptanceSound`, `PinStaysJudged` | what a call buffers and accepts, and where it connects | `ClientAssumption` |
| `BackendInvariant`, `ReturnedStays`, `CommitsAreOwn`, `PoolLasts` | a returned call is durable; a commit is for its own statement; the pool lasts | `BackendAssumption`, `NoOneAssumption`; `PoolLasts` also a finite number of calls, which `MaxCalls` is |
| `StoreIsAtomic` | `Spec => AtomicSpec`, on both backends | the same |
| `VerifiedStaysEarned`, `WalletsStayAsAsked`, `FeedStaysTrue`, `AnswersStay` | the invariants of `registry` about registrations | `RegistryAssumption` |
| `MigrationInvariant`, `MigrationTypeCorrect`, `FinishedStaysCopy`, `NeverTakesBack` | the inductive invariant and the types; a finished quiet run is a copy; without `--clear-target` nothing is taken back but what the mesh wrote in PostgreSQL itself | `MigrationAssumption` |
| `SearchReturnsBest` | a search returns the best it saw, in order, within its limit | `SearchAssumption`; no price or score of a hub is NaN |
| `FiguresStayBracketed` | each figure lies between its values at the first and at the last query, but for completions undone meanwhile; a part exceeds its whole by what came between their queries at most | `StatsAssumption` |
| `ServesOnWholeTables` | who serves has all tables and columns | `SetupAssumption` |
| `StatementsKeepLiterals` | only the question marks outside literals are replaced | `WalkAssumption`; no backslash in the statement |

The assumptions of `TaskPipeline`: a task has one home process; a hub agent is not a local one; budgets and
prices are positive; the bounds are naturals, of matches and attempts positive. Those of the other
modules say that numbers are naturals, that a limit is positive and that a name for "nobody" is nobody's.

**TaskPipeline.** The safety properties speak of tables and say nothing of what a request is about to do
with them, so none of them is inductive. `PipelineInv` adds what a request knows at each of its points:
slots beyond the current attempt are empty and those before it cost nothing (`SlotsFollowFrame`); inside
the `try` the current slot is held, for the current candidate and its price (`HoldIsOffer`); about to write
the completed row, the task object carries that agent and that price, and the agent has served
(`SettledFrame`); and a hold the `finally` finds settled means that a statement raised (`CleanupHold`). All of
it is stated per task: a step of one request leaves the tables of the others alone (`Untouched`,
`LocalStep`), and a statement's four outcomes are handled once (`StatementStep`), so that the lemma of an
action only says what its own statement does. `NextKeeps` combines one lemma per action.

`LedgerKept` maps `holds` to their statuses. `Hold` needs the slot to be unused and the task to owe
nothing, `Release`, `Refund` and `Cleanup` need the hold to be held; the first takes one more invariant
(`FreshSlot`), the others are in `PipelineInv`. The assumption is needed: an error after the effect of a release
makes the `finally` settle a settled hold, which the ledger does not promise away. Crashes need none: they
leave holds behind and never settle one twice.

`AnnouncedStaysSettled` needs no such assumption: a hold that the `finally` will refund is not announced as settled
(`CleanupUnsettled`), since only the step after the release announces it, and that step is no longer one
the `finally` covers (`StepTells`). For the endings, `EndInv` says that a task is only stale when its request is
over, that an ended row belongs to a request that writes it no more, and that a sweep has selected only
tasks whose request is over: so a sweep in another process finds the row as its `SELECT` did, or failed
already by a third. `AcceptedStaysPaid` follows the hops: before `invoke` is answered no hop is a good
invocation (`HopAnswers`), and after it, without an error, the request goes one way. `EndingIsOne` joins them: an
error is told of a failed row (`OneEnd`), a settlement of a row that is completed or about to be.

`CompletedStaysFinal` has two proofs. Where no run outlasts `task_stale_seconds`, a sweep only selects tasks that nobody
writes any more. With one process a run may take as long as it likes: the sweep has no await between its
`SELECT` and its last `UPDATE`, so no request completes a task in between (`SweptInv`). With neither, it is
false.

`TrailStaysLedger` says that there is an increasing map from the holds to the escrow hops. Its invariant is that
the hops of a live request tell all its holds but the one that is not announced yet (`Told`): the next hold
is never taken before the last one is in the trail, which needs `FreshSlot` again. It needs nothing about
errors, crashes or sweeps, since a request that an error or a crash ends writes no completed row after it, and a
sweep writes neither hops nor a completed row.

`PaidStaysChecked` follows the trail: where the preflight is passed the hops say so, and hops are only ever added
(`PassedStill`); a call is executed under a hold that names the candidate, which has an address; and only an
executed call is paid (`CheckKept`). It needs no hub: that the two routes of an agent may differ shows in a hold
that is refunded, never in a call.

`SpentStaysLedger` needs its three hypotheses. The amount is written by the statement after the release: a crash
between the two leaves a released hold and a row of zero (`lost_spend`), an error of that statement does the same,
and a sweep over a live request fails a row whose hold is then released. Without them a released hold is
about to be reported, or its row is completed (`SpentKept`), and there is one of them (`PipelineInv`).

**Sums, sorts and walks.** The library's induction theorems take an operator as a parameter, which the
provers cannot instantiate. Inductions are therefore arguments about a minimal counterexample: `SumLemmas` proves
with `WFMin` that the recursive function inside `MapThenSumSet` exists, that the order in which it takes the
elements does not matter, and that a sum of naturals grows with its set and with its terms. `SpentIsLedger` and
the figures of `MeshStats` rest on it.

**RateLimiter.** That the limit holds is not inductive: the bucket could have lost a request that still
counts. `LimiterInv` adds that a bucket holds every request of its client that counts and nobody else's, and that
the log is in the order of the clock, which is what makes it sound to prune a bucket by its newest entry.
The refinement then follows: the filtered bucket of the client *is* the abstract window (`KeptIsRecent`).

**ActivityStream.** That nothing is sent twice needs the rest of the batch: it has no event twice, is in
order, and is beyond everything sent. The next batch is beyond the stamp of the cursor, strictly, which is
why ties are skipped and never repeated. What is skipped (`SkipsOnlyTies`) was there, and older than the
cursor, when a batch was cut, or was inserted after it: the proof splits the rows into those of the batch,
those beyond it, and the ties.

**Dashboard.** The list names an event once because a message is looked for before it is appended, and the
answer of the poll does because a query returns no row twice. That the answer replaces the list wholesale, and
that a new connection replays what was seen, does not matter to this (`PageInv`). The list stays within its
bound because the poll asks for no more than it may hold (`ListAssumption`; 100 and 120 in the code).

**InvokeClient.** `ClientInv` says at each place of the call what is known: the length read so far, that a decoded
reply is within the cap, and how an outcome was come by.

**StoreBackend.** `BackendInv`: who is past the lock owns it, and a connection is out exactly while it is
remembered, with the statement of the call in it. The refinement needs three facts more: calls are numbered and
made by one caller each (`Numbered`); what SQLite has not committed is the call's own statement or that
of a call whose commit raised (`Leftover`); and only writes are pending (`WritesOnly`). `PoolLasts` counts: lost
connections are never more than reads that raised in `fetch` (`OutCounted`).

**AgentRegistry.** `RequestInv` says of one request, at every place of its handler, what its row, its events and
its answer are; a step of one request leaves the others alone, so the proof is one lemma per action.

**Migration.** Only the rows the mesh wrote in PostgreSQL itself are newer there than in the file (`VersionsInv`), and
what was read is no newer than the file: so nothing else becomes older. A copy at the end needs the tables before
the present one to be copied as long as the mesh is quiet (`CopiedInv`).

**Discovery.** Between the two reads and the sort, `matches` holds each eligible match once, the local ones first
(`Collected`). `RankedIsBest` is about any list of that kind: a sort that is descending and keeps the order of
equals, cut at the limit, leaves out nothing that is better, and on a tie nothing local for something of
the hub. The hypothesis on NaN is needed, since NaN is neither above nor below a score.

**MeshStats.** The cutoff of a call is read once, and nothing that is counted is ever taken away but a completion, by
a sweep: so no other figure falls (`FiguresGrow`), and that one by one at most per step. A figure already read lies
between its value at the beginning and its value now, but for what was undone (`CallInv`); and of the figures
that are read after their whole, `LateInv` says what came in between.

**SchemaSetup.** Tables and columns come and never go, so what a starting process has behind it (`Reached`) stays true
whatever the others do, fail at or leave half done.

**Placeholders.** The walk is compared with every reading of the statement as SQL: `in_string` is true exactly
inside its literals, but for the moment between the two quotes of a doubled one, and what is written so far is
right (`Follows`). The statement may have any length.

**Only model-checked.** Every invariant that a run checks is a theorem. What stays with TLC is liveness (`EveryTaskEnds`,
`EveryHoldSettles`, `EveryCallEnds`, `SentIsShown`, `ListsSettle`, `StartsComeUp`): it needs fairness and ENABLED, which the prover
does not treat. `LiteIsAtomic` has no theorem of its own: it is `AtomicSpec` of the backend with one connection,
and `StoreIsAtomic` holds for both values of `Pooled`.

## 7. Not modelled

- Tokens, origins, URL safety and the reading of addresses (`security.py:1`-`179`): guards of a request without
  state; string and address handling that a model would copy. Their verdicts are inputs of `InvokeClient` and
  `AgentRegistry`.
- The HTTP API, configuration and entry point: routing, headers, environment variables. The sweep of the
  lifespan is part of `TaskPipeline`.
- The regular expressions of `sqlite_to_pg`, and what `cursor`, `get_connection` and `rowcount` offer and nothing
  uses.
- The cryptography of attestations (library calls), rendering, which task the page puts in focus, scripts,
  static pages and deployment files. The restart policy is an assumption of fairness.
- A clock that goes back, and a name server that blocks the event loop (`getaddrinfo` is called without
  await): time is abstract in all models.
- The insides of the databases: a statement is atomic, and durable once committed.

## 8. What is left

- Two limiters behind one balancer, when the deployment has them.
- What `calm` refines, once the code settles holds after a crash: `LedgerKept` without `MaxFaults = 0`, and
  `EveryHoldSettles` under the assumptions of `recovery`.
- The liveness of the six properties above for all constants, once a prover treats fairness.

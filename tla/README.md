# Verification of worldquant-harness

`worldquant_harness` generates factor expressions, backtests them locally, sends them to
the WorldQuant BRAIN platform for simulation and checks, and submits the ones that pass.
This directory holds TLA+ modules translated from that code, the TLC configurations that
check them on small instances, and TLAPS proofs for every value of the constants.

Modules are checked with `tlc -config X.cfg M`, proofs with `tlapm M.tla`.
`PROJECT.json` lists the runs, the mutants that show each property can fail, the source
lines of every definition, the hazards of the code and the theorems.

Paths below are relative to `src/worldquant_harness/` unless they begin with `docs/`,
`scripts/` or `engine/src/`, which are in `src/`; `engine.py` and `repositories.py` are those of `wq_agent_core/`.

## The system

### Components, their state and their operations

| Component | Source | State | Operations | Module |
|---|---|---|---|---|
| Execution engine | `wq_agent_core/engine.py`, `domain.py`, `ports.py` | the event log of each attempt; an execution's local variables | `execute`, `_resume_terminal`, `_emit` | `WQAgentEngine`, `WQSubmitContract` |
| Platform client | `wq_brain_client.py` | one session, one token; the platform's own state | `authenticate`, `simulate`, `check_alpha_submission`, `submit_alpha`, `_poll_alpha_submission`, `check_alpha_status` | `WQBrainClient`, `WQGatewayContract` |
| Correlation gate | `engine.py` 687-781, 859-925; `wq_review.py` | none (pure) | `build_check_record`, `correlation_gate`, `_check_should_retry`, `_check_fingerprint` | `WQCorrelationGate`, `WQCheckDecision` |
| Candidate and memory projections | `wq_agent_core/repositories.py` | three SQL tables: events, candidate state, memory items | `append`, `append_many`, `rebuild_projections`, reads | `WQAgentRepository` |
| Agent workflow | `wq_agent_workflow.py`, `wq_workflow_*.py` | counters and records of a session; accumulated files | `run_submit_loop`, `run_presubmit_sequential` and their agents | `WQAgentWorkflow`, `WQReview` |
| Autopilot controller | `wq_autopilot_controller.py` | branch records of a directory (file); the child's cycle directories | plan, allocate, filter the child's candidates, record, prune, resume | `WQAutopilot` |
| Auto mining | `wq_auto_mining.py` | queue, seen hashes and counters; a checkpoint file | `WQAutoMiner.run`, its rounds, its checkpoint | `WQAutoMining` |
| Backtest tasks | `routes/backtest_tasks.py`, `task_store.py` | in-memory table of tasks, rate-limit windows, tickets, one lock | start, run, cancel, read, list, stream, clean up, persist | `BacktestTasks` |
| Batch and iteration routes | `routes/composite.py`, `iteration_routes.py`, `wq_brain.py`, `wq_brain_batch.py` | the same table | five other kinds of task | `BacktestTasks` |
| Live submission runner | `scripts/wq_live_submit_candidates.py` | files | a loop over candidates calling the engine | as fairness of `WQAgentEngine` |
| History backfill | `wq_agent_core/backfill.py` | none | old artifacts into events | its sorted batches are inputs of `WQAgentRepository` |
| Memory retrieval | `wq_agent_core/memory.py` | none (pure) | `retrieve` | - |
| Async bridge | `async_utils.py`, `db.py`, `alpha_tracker.py` | the main event loop, the SQL session | `run_coroutine_threadsafe` with a time limit | - |
| Authentication | `auth.py` | verification codes, attempts, API keys | send, verify, issue, revoke | - |
| Expression search, research mining and records | `iteration.py`, `wq_evolutionary_generator.py`, `wq_research_miner.py`, `wq_alpha_search_memory.py`, ... | files | sequential stages over text and scores | - |
| Expression parser, backtest engines | `expression_parser.py`, `backtest.py`, `engine/src/expression`, `engine/src/backtest` | none | parse, evaluate, compute | - |
| Servers, scheduling, mail, frontend | `api_server.py`, `mcp_server.py`, ... | - | wiring and I/O | - |

### How they interact

The live runner gives a candidate to `ExecutionEngine.execute`. The engine reads the
attempt's events from the repository, decides from them where the attempt stands, calls the
platform client for what has to be done next, and appends an event around each call. The
client turns each call into loops of HTTP requests. The repository keeps the events
append-only (an event whose key is there is ignored) and derives from them the state of the
candidate and the lessons that `memory.py` selects from when the next candidates are
generated. The platform is a third party with a state of its own: an accepted submission
stays in review and becomes ACTIVE, or UNSUBMITTED again, when the platform decides.

Three programs use the client without the engine. The agent workflow designs, simulates,
reviews and submits candidates in cycles. The autopilot runs a loop of the workflow as its
child, with a budget for each branch of its plan, and reads what came of the branches from
the child's files. The miner breeds candidates from those it has simulated, and saves a
checkpoint after each round.

The web server runs local backtests, and jobs on the platform, in threads that write to one
in-memory task table, read by request handlers and by event streams, and persists their
outcome through a bridge from the threads to the event loop.

### What is hard

* A submission cannot be taken back, its outcome is decided by somebody else, later, and the
  program may die, lose the answer or stop polling in between. All that a later execution
  has is the log.
* The answer of a POST may be lost, or the POST may arrive after its sender has given up;
  within one call it is sent again, by three loops in one another.
* Nothing prevents two executions of one attempt at the same time (two runners, a runner and
  a batch): each reads the log once, at its beginning, and acts on what it read.
* What the engine does next is decided by the *last* event of some kind, but an event whose
  key was seen is not appended again, so the last one may be old.
* The same refusal is classified three times, by the client, by the gate and by the resumed
  execution, with different vocabularies.
* The projections are read, modified and written back in concurrent transactions.
* A loop's budgets are checked at the head of a cycle or round, and spent in the middle of it;
  what was rejected, submitted or seen is in the memory of a process that may be killed.
* The autopilot's record is made at the end of a session from files in which earlier sessions
  have left theirs, and written by programs that do not all know of branches.
* Task status is written by a worker thread, by the cancel handler and by the clean-up.

### What makes each component correct

* Engine: submissions stay within the budget, one at a time, each settled before the next;
  ACTIVE is eventually recorded, and hardly anything is submitted once it is true; a
  simulation is not paid twice without a crash; terminal outcomes stay; the log is a lifecycle.
* Client: every call ends, costs a bounded number of requests, and answers what the engine
  relies on.
* Gate: what the documentation lets pass does pass, and nothing else but a pass without a
  value; the verdict, the record of it and its resumption agree.
* Projections: an event counts at most once, nothing is claimed that no event says, appends
  lose none of each other's evidence, ACTIVE supersedes, a rebuild loses nothing.
* Workflow: budgets and targets hold in the middle of a cycle, nothing is submitted twice,
  ready records fit together, new candidates get their turn, the reason to stop is true.
* Autopilot: caps add up to the budget and are kept, pruned branches get nothing, no outcome
  is forgotten.
* Mining: reruns together stay within the budgets, no expression is tried twice or lost, what
  is submitted unheard is within what was simulated.
* Tasks: a thread leaves an ended status, the database agrees with the table, no more threads
  than the limit, streams are counted.

## The modules

`WQCorrelationGate` is used by the engine and by the client; `WQCheckDecision` composes the
client with the gate; `WQGatewayContract` stands between the client and the engine,
`WQSubmitContract` between the engine and its user; `WQReview` is used by the workflow. The
`MC...` modules give constants their values, the `...Proofs` modules hold the theorems.
A definition with an underscore (`Create_OffByOne`) is what a plausible mistake would make of
the one after it; no specification uses it.

### `WQCorrelationGate`, `WQCheckDecision` - the check, its record and its verdict

Pure operators. `ReviewReplies` and `TransportReply` are what `check_alpha_submission` can
answer; `CheckRecord` is `build_check_record`; `GateReason` is `correlation_gate`;
`StoredFailureKind`, `RefusedStatus` and `Recheckable` are the three places where the engine
classifies a refusal; `Fingerprint` makes the event key. A correlation value is
abstracted to its side of the local cutoff (`none`, `low`, `high`): two values on one side
are one value, and the cutoff is the same in every execution. A production value is only
there or not. `ok` is read only in the absence of a failure kind.

`WQCheckDecision` states the gate's properties of every answer the modelled client gives,
and compares each with every other answer of the same attempt. `Documented` is the check that
`docs/WQ_AGENT_CORE_V2.md:60-63` lets pass: an explicit self pass whose value is at or below the
cutoff. The code also lets a self pass without a value pass (`PassWithoutValue`,
`engine.py:773`). `GateExact` says that these two are exactly what passes, so the place where the
code is wider than its documentation is named and is the only one.

### `WQBrainClient`, `WQGatewayContract` - one call of the client

| Variable | In the code |
|---|---|
| `op`, `pc` | the call, and the loop it is in |
| `tries`, `sends`, `polls` | the counters of its nested loops |
| `limited`, `payload` | `last_rate_limit`; the last payload of the check |
| `reply` | what the call returns |
| `status`, `reviewing`, `inflight` | the platform: the alpha's status, a submission it has taken, a POST still on its way |
| `posts`, `created` | history: POSTs to `/submit`, simulations created |

There is one action for each way a request can end: answered, refused, rate limited, lost
before or after the platform took it, or late. `_poll_alpha_submission` POSTs again when the
reviews have passed (`PollOn`), and its caller goes round again when polling ends with
UNSUBMITTED (`FetchUnsubmitted`). `Raise` is an exception that no handler of the call
catches. The adapters of `urllib3` are left out: as they are configured they repeat no POST
that was sent. Plain reads (user data, lists, PnL) change nothing and are left out.

`WQGatewayContract` is one submission as the engine sees it: while the call is open the
platform may take the submission, as often as it likes, and ACTIVE is answered only for an
alpha that is ACTIVE. These are the assumptions of `Post`, `ReplyActive`, `ReplyPending` and
`ReplyFailed` in `WQAgentEngine`.

### `WQAgentEngine` - one attempt

| Variable | In the code |
|---|---|
| `log` | the attempt's rows of the event table: type, what follows attempt and type in the key, and what a later execution reads of the payload (`kind`) |
| `pc`, `seen`, `enabled`, `sim` | an execution: where it is, how many events it read when it began, its `submit_enabled`, its simulation row |
| `result` | the status of its last finished execution |
| `status`, `reviewing` | the platform's alpha: UNSUBMITTED, OTHER (any other), ACTIVE; an accepted submission awaits its outcome |
| `submits`, `unsettled`, `late`, `simulations`, `crashes` | history, read by properties only (`crashes` also bounds); `late` counts the submissions asked for when the alpha was ACTIVE |

An execution goes `idle -> (reconcile ->) create -> validate -> sim_start -> simulate ->
sim_record -> sim_gate -> check_start -> check -> passed -> post -> reply -> idle`, one
action per step between two calls that leave the process. `Begin` is the reading of
the log with the whole of `_resume_terminal` up to its status call (`Resume`), the
`Reconcile...` actions are its continuation for each answer of `gateway.status`, and the
others follow `execute` in order. `Emit` is `_emit` with the repository's answer ignored, as
the code ignores it. `Crash` may happen at any step and drops all but the log; an exception
raised by the gateway or by the repository does the same.

Choices made:

* An attempt has one alpha: the alpha's id is not modelled.
* The event and its append are one step, and events are read back in the order in which they
  were appended.
* `kind` of a submission record is the class of its status code: "retriable" (no connection,
  429, and events without a code) or "settled" (200, 403). The client reports HTTP errors
  of a submission as 200, so the rule for codes of 500 and more never applies and is not a
  class of its own. The record of exhausted retries inherits its class.
* `ReuseCheck` appends nothing: a cached passing row passes the gate again and its
  event is a duplicate.
* ACTIVE is final on the platform, and the platform ignores a submission for an ACTIVE alpha.
  The engine asks for one all the same when it has read UNSUBMITTED before (`engine.py:525`):
  `late` counts these, and `LateSubmitsBounded` says that they are no more than the workers.
* `resume=False`, which no caller uses, is left out.
* Bounds: `MaxCrashes` crashes in a behaviour; `MaxChecks` check events, beyond which the
  execution is interrupted (`Abandon`, which is what a crash would do).

### `WQSubmitContract` - what the engine promises

Seen from the platform, an attempt is open, unsettled, active or closed. A submission is
made only when it is open and within `MaxPosts`; only an explicit UNSUBMITTED opens
it again; active and closed are final. `SubmitsAsPromised` in `WQAgentEngine` maps the
engine onto it: the phase is read off the log and the history variable `unsettled`.

### `WQAgentRepository` - events and their projections

| Variable | In the code |
|---|---|
| `events` | the committed rows of `wq_agent_events` |
| `candidates` | `wq_candidate_states`: status, revision, and an `id` that tells whether the row is there and whether a rebuild has replaced it |
| `memory` | `wq_memory_items` of kind `candidate_outcome`, by candidate and failure kind: support and state |
| `generation` | the id of the rows inserted since the last rebuild |
| `tx` | each process's transaction: how far it is, its events, the rows and lessons its session has loaded |

The statements of a transaction are steps, because other transactions commit between
them and each query sees what is committed when it runs (PostgreSQL's default, READ COMMITTED; SQLite
allows fewer interleavings). The order of statements is that of SQLAlchemy's session, which
flushes before a query: `append` inserts its event before it reads the candidate's row
(`AppendInserts`), and writes that row, which locks it, before it reads the lesson
(`AppendLocks`). `append_many` runs its queries first and writes everything in one flush
(`BatchReads`, `BatchLoads`, `BatchCommits`). `rebuild_projections` reads the candidates, then
the events, deletes the lessons, deletes the candidates and writes both anew. An UPDATE has
the columns that the session has changed, computed from what it had loaded (`Changed`). `Fail`
is every exception, deadlock and death of the process.

`Outcome` and `LessonState` say what events applied one after the other make of a status and of
a lesson. Events are numbered in the order of `occurred_at`; they arrive in any order, but a
batch and a rebuild apply theirs in that order (the backfill sorts).

Choices made:

* A conflict that raises disables the step; `Fail` ends the transaction. In `append` it is
  `AppendRefuses`.
* Reading the existing event ids and the rows of a batch are two steps; the candidates' query
  and the lessons' query are one, as are the deletion of the candidates and the commit.
* One scope, one memory kind. Confidence, contradiction counts, evidence ids and the copied
  payload are left out; so are the reads and the in-memory repository.
* What a caller does after its 30 seconds of waiting is not modelled: the transaction goes on.
* Bound: `MaxRebuilds` rebuilds in a behaviour.

### `WQReview`, `WQAgentWorkflow` - the loops of the workflow

`WQReview` is `classify_simulation_result`, `_api_check_status` and `classify_review_row`
over simulations and check answers whose metrics are abstracted to whether they pass the
thresholds. Near misses and hard failures, which only the metrics tell apart, are one bucket.

| Variable | In the code |
|---|---|
| `mode`, `pc` | which loop runs, and where it is |
| `cycle`, `total`, `empty`, `failures` | `cycle_index`, `total_simulations`, `consecutive_empty_cycles`, `consecutive_submit_failures` |
| `skip`, `records` | `rejected_normalized_expressions`; `submitted_records` or `virtual_records` |
| `offered`, `pool`, `rows`, `selected`, `chosen`, `accepted` | a cycle's work: what the designer had, what is left to simulate, the simulations and then the review queue, what is left to submit, what was answered ok |
| `inventory` | the ACTIVE expressions of the last synchronisation |
| `stop_reason` | as in the status file |
| `active`, `reviewing` | the platform |
| `sessions`, `posted`, `simulated`, `log` | a bound and history |

A cycle is `Design` (designer, limits and filters), `Simulate` for each candidate,
`ReviewRows`, in `run-submit` `Select` and `Submit` for each alpha, and the accounting
(`AccountSubmit`, `AccountPresubmit`) with the checks that follow it. `Stop` is the head of
the loop. `Crash` may happen anywhere; a rerun begins anew, as the code reads none of its
accumulated files again.

The designer and the filter go through a list and keep some of it: `At` is what a sequence
holds at some of its positions, in order, and the positions are said by a condition
(`Eligible`, `Crowded`). Of the filter's candidates, those that count towards the capacity of
a signature are the eligible ones before, because the kept ones of a signature are its first.

Choices made:

* The order of the designer's sources is any of `Offers`. The legality, policy and statement
  checks of a candidate, seed files, dry runs and explicit ids happen before or beside what
  is modelled and are left out; so are the text of repairs and the PnL of a record.
* A field signature stands for the capacity of a source family too: rows of the platform have
  no family, so it is the signature that compares them.
* The numeric cutoffs of the acceptance gate are a free choice (`passing`).
* A submission that is answered with a timeout counts as accepted, as in the code; a refusal
  may hide one that was taken.
* `run-submit` without `target_ready`.
* Bound: `MaxSessions` processes.

### `WQAutopilot` - branches, quotas and their record

| Variable | In the code |
|---|---|
| `pc`, `mode` | a session is running; the child's loop, the same in all sessions of a directory |
| `resumed`, `previous` | the state read at the start, if there is one and it is asked for |
| `budgets`, `accepted` | `candidate_budgets` (and `simulation_budgets`, which are equal); the tracker's counts |
| `pool`, `cycle`, `total`, `seen` | the child |
| `dirs`, `accumulator` | the child's cycle directories, `submitted_accumulator.jsonl` |
| `state` | the branch records of `autopilot_state.json` |
| `sessions`, `truth` | a bound; history: what came of the branches in the sessions the record continues |

`Quotas` and `Allocations` are the branch plan and `allocate_branch_budgets`; `Assign` is one
row of `_apply_branch_candidate_budgets`; `Record` is `build_autopilot_branch_state` for one branch,
with each copy of a failed row counted as the code counts it (`Copies`), and with the
directories that an earlier, longer session has left (`Written`). A sum is the number of
points under the function (`SumOf`), which the provers can count.

Choices made:

* Which branch is primary follows from failures in files, and may be any.
* A cycle of the child is one step: what the branches see of a cycle of `WQAgentWorkflow`.
* Equal fractions of a share may come in any order (floating point).
* "active" and "exhausted", which nothing tells apart later, are one status. Totals of
  candidates and the event log are left out.
* Submitted rows carry no branch, as in the code; `of` is kept for `truth` alone.
* Bound: `MaxSessions` sessions in a directory.

### `WQAutoMining` - the miner and its checkpoint

| Variable | In the code |
|---|---|
| `limit` | `parents_per_round`, the same in all runs of a directory |
| `pc`, `current`, `taken`, `parents` | a round: where it is, the candidate at work, the entries made, those still to be expanded |
| `miner` | the miner's attributes: queue, seen hashes, runs, submissions, consecutive failures, round |
| `disk` | the checkpoint |
| `reason` | how the last run ended |
| `simulated`, `recorded`, `runs`, `accepted`, `unheard`, `crashes` | history (`crashes` also bounds) |

`Start` and `StartRefused` are the beginning of `run`, `Stop` is `_stop_reason` with the stop
file, which may be there at any round; `Skip`, `Simulate` and what follows are
`_process_candidate`; `Expand` is one entry of `_expand_from_entries`, `RoundEnds`
`_save_progress` and the end of a run of failures. `Crash` drops all but the checkpoint and
the results. Expressions are compared by their hash; their ranking and what the generator
makes of a diagnosis are free choices.

`SubmitNotAccepted` is every answer that is not ok. The platform may have taken the request all
the same: the answer was lost, or the polls or tries were spent, and the alpha becomes
ACTIVE later. `unheard` counts these, and those of a crash during the submission; the miner
never asks again, so `target_submissions` is a target of answers, and what `CostBounded` says of
the platform's side is that heard and unheard together are within the simulations.

A round that takes nothing ends the run with `queue_empty`, whatever is queued (lines 741-743).
That happens with `parents_per_round` at zero, which the command line admits: the run then ends
in its first round, with a reason that `ReasonIsTrue` does not vouch for.

### `BacktestTasks` - the task table and its threads

| Variable | In the code |
|---|---|
| `kind`, `parent` | `task_type`; the parent of an iteration |
| `table`, `status`, `cancelled`, `result`, `old` | the dictionary `tasks` and a task's fields in it; `old` is its age against `TASK_TTL_SECONDS`. The fields outlive `table`: a thread keeps its dictionary after the clean-up has dropped it |
| `worker` | the thread of a task: the stage it is in, and the one it is about to announce when `check_cancelled` has passed and the status is not yet written |
| `cancelling` | how far `cancel_task` is for a task: the status read, the flag set, or its row read |
| `row` | the task's row in the database |
| `late` | the rows of early writes whose thread has stopped waiting and which may still commit |
| `stream`, `connections` | event streams, `active_sse_count` |

Six kinds of task share the table: local backtests, composites, iterations over a parent's
expression, submissions of an expression, batches, and submissions by id. They differ in
their stages (`Stages`), in where their thread looks at the cancelled flag (`Checked`; a
composite, an iteration and a submission never do, so a cancelled one ends as completed), in
whether their creation checks the limit and cleans the table (`Limited`, `Cleaning`; a
submission by id is counted but not limited), in whether they write reports (`Reporting`), and in
whether their row is written before the end (`Early`).

What runs on the event loop excludes the rest of the loop where it does not await
(`LoopFree`), but not the threads, so `cancel_task` is three steps and a thread's check and
write are two. `CancelReadsRow` and `CancelWritesRow` are its path for a task that is not in
the table. `Expired` is `cleanup_tasks`, which `Create` makes part of the handlers that call
it. `Fail` stands for every early return and exception of a stage. `CleanReports` may fail a
completed task: `cleanup_reports` stats files that another task's clean-up may have
removed. `Persist` is the write of the row from the event loop, which may fail. `PersistEarly` is
that of a kind in `Early`: it commits while its thread waits, or it is left to commit at any
later time (`PersistLate`), after the row of the end too, which it then overwrites. An
iteration is accepted when its parent is completed in the table or in the database
(`CompletedFor`), but its thread finds only a parent that is in the table (`ParentFound`):
`routes/iteration_routes.py:29` imports `main_loop` by value before it is set, so the query of
line 79 never runs and such an iteration fails.

Choices made: all tasks but the guest's are of one user; the work of a stage (language model,
market data, platform, the backtest in a pool) ends or raises, though no time limit of the code
enforces it; a last write that commits after the thread's 30 seconds of waiting is one in
time, because nothing changes the task any more; a write is begun, which is when it reads the
task, as soon as it is handed to the event loop. Left out: listing, tickets and the rate limit, handlers that call the platform
and answer at once (such a one may mark a result as submitted), the choice of an iteration's
candidate, the tasks of the MCP server. A restart loses the table and is not modelled.

## The runs

| Run | Instance | Shows |
|---|---|---|
| `engine_single` | 1 worker, 1 retry, submission on or off, 2 crashes, 2 checks, 4 kinds of answer | the engine implements `WQSubmitContract` (`SubmitsAsPromised`); `CausalOrder`, `RecheckBeforeRepost`, `SimulationsBounded`; `ActiveIsLearned` |
| `engine_pair` | 2 workers, 1 retry, 2 checks that pass, no crash | what still holds when executions overlap: `SubmitBudget`, and for statuses read too early `LateSubmitsBounded` |
| `client` | every call; 3 rounds of submission with 2 POSTs and 2 polls each, 2 tries of a simulation | the client implements `WQGatewayContract` (`SubmitsAsAssumed`); `CostBounded`, `CallEnds`. With the gate: `GateExact` (what passes is what the documentation lets pass and a self pass without a value), `FingerprintDecides` (outcomes with one event key have one verdict, so dropping a duplicate loses nothing), `RecheckedIfUnanswered` (a failure ends the attempt, a missing answer does not) |
| `repo` | 2 processes, 5 events of 2 candidates, 1 rebuild | `CountedOnce`, `Grounded`, `AppendKeepsSupport`, `ActiveSupersedes`, `RebuildLosesNothing` |
| `workflow` | 3 expressions, both loops, 2 sessions | `SimulationsKept`, `SubmittedOnce`, `ReadyFit`, `NotStarved`, `ReasonIsTrue`, `SessionEnds` |
| `autopilot` | 4 branches, 2 candidates, a budget of 2, 2 sessions, both loops | `CapsAreExact`, `CapsAreKept`, `PrunedGetsNothing`, `ReadyNotPruned`, `NothingUncounted` |
| `mining` | 5 expressions, 1 of them illegal, a repeated seed, 2 crashes | `CostBounded`, `SimulatedOnce`, `NoCandidateLost`, `ReasonIsTrue`, `RunEnds` |
| `tasks` | 2 tasks of one user, of every kind, and one of the guest with 2 streams, limits of 1 | `WithinLimit`, `WorkStaysInTable`, `RestIsEnded`, `RowAgrees`, `StreamsWithinLimit`, `TasksSettle` |
| `engine_pair_reconcile` | 2 workers, no retry | violation: both submit, the second without reconciling |
| `repo_refused` | as `repo` | violation: an event is refused that is in no log |
| `ready_unread` | as `workflow`, 1 session, also checks that fail or cannot be read | violation: a ready record whose check was not read |
| `autopilot_active` | as `autopilot` | violation: a submission that succeeded and is not in its branch's record |

### Bounds

`engine`: one retry gives two submissions, hence every alternation of submission,
reconciliation and new check; two check events let an execution be refused and then pass, or
pass and be refused before the second submission. Two crashes let a crash hit the recovery
from a crash. The four kinds of answer are a pass, a pending review, a failed correlation and
a failed platform check beside a pending review: one for each way the three classifications
combine. Two workers are enough for each to act on a log the other has outdated; they are
symmetric, and TLC's states leave out `result` (a `VIEW`), which no action and none of the
run's properties read.

`client`: every loop can be entered, left early, exhausted and entered again by the loop
around it, and the last try is told from the ones before it. A third round of submission
reaches a rate limit between two others.

`repo`: the events are a failed check, ready, ACTIVE and a later failed check of one
candidate, and the creation of another: a lesson is superseded, taught again, and may
arrive late; two appends may create one candidate, or touch different ones. Two processes
give every pair of overlapping transactions, and every step of one can be its last.

`workflow`: two of the expressions are near copies, two share a field signature that has
room for one, and the sources offer them in three orders, so each filter can reject what
another cycle would accept. A budget of 3 with cycles of 2 ends in the middle of what a cycle
could do; 2 empty cycles and 2 failed ones are a row that another cycle can break; 4 cycles
reach each reason to stop. The second session starts after the first was killed or ended.

`autopilot`: a budget of 2 over quotas of 3, 1 and 1, or of 1 and 1 when the primary branch is
pruned, has shares with and without remainders, and `CapsAreExact` goes through every budget up
to 20, after which the fractions repeat (the sum of the quotas is at most 5). Two sessions are
a pruning and a resumption of it, a crash and its rerun, or a shorter session over the files of
a longer one. `FailureLimit` 3 is reached only by the copies of failed rows over two cycles.
Candidates are symmetric; the accumulator is left out of the states between sessions, because
the next one empties it before it reads it.

`mining`: parents of a round, children and generations are two each, so an expression can come
back as a repeated seed, as the child of two parents and from a checkpoint. The budget of 4
ends in the middle of the second or third round; 2 crashes let the rerun of a crash die in the
same round. `ParentLimits` has zero, the round that takes nothing, and two.

`tasks`: a limit of one task is reached by the first of the two, so the second runs beside
it only after a cancel that its thread has not seen, and the clean-up of the second's creation
meets a first task in any state. The pairs of kinds (`Pairs`) have every kind, two that clean up one
directory, one that is not limited before and after one that is, and iterations over two kinds
of parent. `MCSpec` puts two instances in one, since the streams share
nothing with the tasks but a status: a guest's task that two streams follow, and the pairs
without streams.

### Deadlock

Deadlock is checked in the engine runs: an attempt can always be executed again. A call of the
client makes no step after its answer; sessions and mining runs need not be started again; the
repository has appended all events at some time; and every task may be done. The configurations
of these runs say so.

### Fairness

* `engine_single`: an execution that can take a step takes it (`WF` of the worker's steps): the
  code has no wait without a time limit. The runner is started again with submission on
  whenever it is not running (`SF` of `Begin(w, TRUE)`; strong, because it competes with
  executions that do not submit). The platform's status is not unreadable for ever (`SF` of
  `ReconcileActive`). Nothing is assumed of crashes but their number, nor of the platform: it
  may leave a submission in review for ever.
* `client`: `WF` of the call's own steps, because every request has a timeout. The platform
  need not decide, and a late POST need not arrive.
* `workflow`, `mining`: `WF` of the process's steps: every call of the platform returns. Nothing
  says that a process is started again.
* `tasks`: a thread that can take a step takes it (`WF` of `Thread(t)`): the operating system
  runs it, and what it waits for is taken to end. An early write need not be made and a late
  commit need not come. A handler of the event
  loop that has begun goes on. Nobody has to cancel.

## Proofs

Every invariant that a run checks is also a theorem of its `Spec`, for any values of the
constants that satisfy the module's assumptions, and so is the refinement of each of the two
contracts. Types are proved in the modules of six components and therefore no run repeats them.

`WQAgentEngineProofs`, for any finite set of workers, any retry budget, any set of check answers and any
number of crashes:

* `TypeCorrect`: `[]TypeOK`. Inductive with two more facts: what a worker read
  is a prefix of the log (`SeenInLog`), and the recorded simulation is a simulation row
  (`SimulationKinds`). `TypeStep` proves on the way that a step appends one new event or
  nothing (`AppendsAtMost`).
* `Lifecycle`: `[]CausalOrder`. An execution runs on what it read, not on what is there, so
  the invariant ties each worker to the log: what its step needs has been recorded by
  somebody (`Progress`). A log that only grows keeps that true whatever the others append.
* `Budget`: `[]SubmitBudget`. Overlapping executions all see the same number of submissions
  and all go on; that the log stays in budget is owed to the event keys. The
  invariant: each worker's next try is within the budget (`WorkersInBudget`), each
  `submit_started` has a key of a try within the budget (`KeysInBudget`), and no two events
  have one key (`NoDuplicates`); the events are then counted through an injection into
  `1..SubmitAttempts`.

* `Simulations`: `[]SimulationsBounded`. What was paid is covered by the crashes, by each worker
  between the call and its record, and by those that may still call (`PaidFor`): a worker that
  has read a simulation calls no more, and after the first record nobody starts who has not.
* `Rechecked`: `[]RecheckBeforeRepost`. Between two `submit_started` there is a check, since each
  of them follows one that no earlier submission has seen, also where other workers append.
* `LateSubmits`: `[]LateSubmitsBounded`. When the alpha is ACTIVE a submission is on record, so who
  begins reconciles, and reads ACTIVE: those that may still submit are past their reading, and
  each POST makes them one fewer (`LateInv`).

`RecordStep` is the lemma the others share: whatever a worker does to the log is one
`Emit` from the step where events of that type are written.

`WQAgentEngineRefinement`, for one worker (`OneWorker`; for two it is false, as
`engine_pair_reconcile` shows), any retry budget, any answers and crashes:

* `Promise`: `SubmitsAsPromised`, the refinement of `WQSubmitContract`. The phase of the contract
  is read off the log, so the proof has a lemma for each step on what `_resume_terminal` would
  make of the longer log. The invariant says that the worker is where the log lets it be: at a
  POST the attempt is open, the budget is not used up and nothing is unsettled.

`WQBrainClientProofs`, for any numbers of tries, posts and polls:

* `TypeCorrect`: `[]TypeOK`.
* `Cost`: `[]CostBounded`. `CostInv` says at each loop that what was spent is covered by the
  rounds begun (`Within`): products of constants stay out of the solver behind two lemmas.
* `CheckAnswers`: every answer of the check is one the gate is defined for (`CheckAnswersKnown`):
  what ends the polling is conclusive, and what is left when the polls are spent is pending or
  missing.
* `Implements`: `SubmitsAsAssumed`, the refinement of `WQGatewayContract`. Every retry of the
  call's own is a step of the open call, and a late POST is a review of the contract
  already; that an undecided status has its review, and an ACTIVE one has none, is `RefInv`.
* `Gate`, `Refusals`, `Fingerprints`: the gate's three properties, by cases on the reviews of an
  answer. `Gate` is an equivalence: the code lets pass no more and no less than `GateExact` says.

`WQAgentRepositoryProofs`, for any number of processes, events, candidates, failure kinds and
rebuilds:

* `TypeCorrect`: `[]TypeOK`. That a status is one of the table's needs that a set of
  events has a latest one (`LatestIn`).
* `Counted`, `Grounds`: `[]CountedOnce`, `[]Grounded`. The invariant says the same of what every
  session has loaded as of the projections: the log accounts for it (`Known`). It stays so
  because the log only grows (`StillKnown`). A commit adds as many events to the log as to the
  count, because what is inserted and not committed is nowhere else (`InsertedIsNew`), and a
  rebuild replays what is in the log (`ReplayedIsKnown`).
* `SupportKept`, `Superseded`: `AppendKeepsSupport`, `ActiveSupersedes`. Whoever has locked a
  candidate's row has loaded its lessons as they are until it commits (`LockedIsCurrent`), because no
  two have locked one row (`LocksDisjoint`) and batches and rebuilds wait.
* `Rebuilt`: `RebuildLosesNothing`, from the first invariant.

`WQAutopilotProofs`, for any branches, candidates, budgets and numbers of sessions:

* `NothingForPruned`, `PrunedStays`: `[]PrunedGetsNothing`, `PrunedForever`. `Separate` says that
  the branches of a session are open, that everything the child has written in it belongs to
  them, and that a resumed session starts from the state.
* `Cumulative`, `Productive`: `[]NothingUncounted`, `[]ReadyNotPruned`. `Counted` says that the
  record counts at least the truth and that no pruned branch has a ready outcome: files left by
  earlier sessions can only add to the record (`MineWritten`).
* `ExactCaps`: `[]CapsAreExact`. `SharesExact` is about `allocate_branch_budgets` with any budget:
  the caps add up because the shares left over are as many as are given out, and nobody gets one
  too many because the fractions of those left out add up to the same number of wholes. The
  quotas of a plan are of at most three branches, and sums are taken branch by branch
  (`SumOfThree`).
* `KeptCaps`: `[]CapsAreKept`. The tracker's count covers what was simulated of a branch and what is
  still in the pool (`WithinCaps`).

`WQAgentWorkflowProofs`, for any expressions, offers, similarity, signatures, answers, targets and
limits. First lemmas about the operators: what a filtered list holds and in which order
(`AtProperties`, `FilteredProperties`, `DesignedProperties`), for which a set of positions is shown
to have an order by a least counterexample (`Least`, `OrderExists`). Then the invariant of a
session (`Inv`), whose parts are:

* `TypeCorrect`: `[]TypeInv`, the types and what there is at each stage of a cycle (`Flow`).
* `SimulationBudget`: `[]SimulationsKept`, from `Budgeted`: what a cycle has still to simulate is
  within the budget before the counter knows of it.
* `Once`: `[]SubmittedOnce`. The candidates of a cycle are each in one place, and untried
  (`Apart`); what was posted is skipped or in the rows of this cycle (`Submissions`).
* `Ready`: `[]ReadyFit`. A record is accepted against all before it and the inventory
  (`FitsBeside`), and the inventory of a presubmit session is read once.
* `Fed`: `[]NotStarved`. The design limit exceeds the number of what is old, so one of the
  designer's candidates is new (`DesignFinds`, a pigeonhole), and the filter keeps one
  (`FilteredKeeps`).
* `Reasons`: `[]ReasonIsTrue`. The counters are what the log of cycles says (`Counted`).
* `Invariant`: `[]Inv`, all of these together as one inductive invariant.

`WQAutoMiningProofs`, for any seeds, budgets and crashes. What they all need is what a rerun
would hold (`Held`: the miner, or the checkpoint when no process runs) and how steps change it
(`HeldSteps`):

* `TypeCorrect`: `[]TypeOK`.
* `Cost`: `[]CostBounded`. The checkpoint is behind by at most the entries of the round
  (`CostInv`), and a crash loses no more than that (`Spent`). What was submitted, heard or
  unheard, and the candidate at work are within the simulations (`HeardInv`).
* `Once`: `[]SimulatedOnce`. What was simulated more often than there were crashes has been seen
  (`OnceInv`).
* `Kept`: `[]NoCandidateLost`. The seeds are among what the checkpoint knows, and that among
  what the miner knows (`KeptInv`).
* `Reasons`: `[]ReasonIsTrue`. Counters in the checkpoint are those of finished rounds, an
  empty queue is one whose seeds were all tried, and a round that has begun takes something
  unless the limit is zero (`PickInv`).

`BacktestTasksProofs`, for any finite set of tasks, any streams and limits:

* `TypeCorrect`: `[]TypeOK`.
* `Rest`, `Row`, `Kept`: `[]RestIsEnded`, `[]RowAgrees`, `[]WorkStaysInTable`. One invariant,
  `Consistent`, of each task separately: at a stage the status is the stage's unless the task
  is cancelled; from the end on it is an ended one; a row that says how the task ended, or that
  is only written then, is one of a thread that is done, with no cancel in the table under way;
  and a row that may still commit late is an early one.
  `Elsewhere` is the frame: the invariant depends on the task's own fields only.
* `Limit`: `[]WithinLimit`. A task at work is counted (`WorkIsCounted`), and only
  a creation puts one to work (`WorkShrinks`).
* `StreamLimit`: `[]StreamsWithinLimit`. The count may be too high and is never too low (`StreamsInv`).

Assumptions: `WorkersAssumption` (the workers are finitely many), `RetriesAssumption`,
`ModesAssumption`, `ChecksAssumption` and `BoundsAssumption` of `WQAgentEngine`;
`OperationsAssumption` and `TriesAssumption` of `WQBrainClient`; `EventsAssumption`,
`CandidatesAssumption`, `TypesAssumption`, `FailuresAssumption` and `RebuildsAssumption` of
`WQAgentRepository`; `InputsAssumption` and `LimitsAssumption` of `WQAgentWorkflow`;
`InputsAssumption` of `WQAutopilot`; `ConstantsAssumption` and `NoCheckpointAssumption` of
`WQAutoMining`; `TasksAssumption` and `LimitsAssumption` of `BacktestTasks`. TLC evaluates them on
every run of their module. The only theorem with a hypothesis of its own is `Promise`.

Only model-checked: liveness under fairness (`ActiveIsLearned`, `CallEnds`, `RunEnds`,
`SessionEnds`, `TasksSettle`), which is out of the prover's reach. The four runs that
expect a violation are counterexamples and prove nothing more.

## Findings

1. `engine.py:652`: `append`'s answer is not used, so a second execution that finds its
   `submit_started` already there submits all the same, without reconciling, which
   `docs/WQ_AGENT_CORE_V2.md:51` excludes (`engine_pair_reconcile`).
2. `repositories.py:184`: `append` takes the conflict of two processes that create one
   candidate's row for a known event: it returns False and the event is lost (`repo_refused`).
3. `wq_workflow_scoring.py:86`: a check that could not be read is called readable, so a
   candidate becomes a ready record on the strength of its simulation alone;
   `docs/WQ_WORKFLOW.md:199-201` requires a readable check (`ready_unread`).
4. `wq_autopilot_controller.py:555`: submitted rows do not carry their branch, so the branch
   record counts no ACTIVE outcome, which `docs/WQ_AGENT_CORE_V2.md:120` says it does
   (`autopilot_active`).

Observations without a run, made while translating:

* `engine.py:773`: the self correlation is compared with the cutoff only if there is a value
  (a PASS without one passes), while `docs/WQ_AGENT_CORE_V2.md:60-63` requires a value;
  `GateExact` says that the code and the document differ there and nowhere else.
* `engine.py:525`: the status is read before a check that polls for minutes, so a retry may be
  submitted for an alpha that is ACTIVE already, once per execution under way.
* `wq_auto_mining.py:741`: with `--parents-per-round 0` a run ends with `queue_empty` and success
  while its queue is full.
* `routes/iteration_routes.py:79`: the `main_loop` imported at line 29 is None for ever, so an
  iteration over a parent that is only in the database is accepted and fails.
* `task_store.py:208`: an early write that outlasts its 30 seconds may commit after the row of
  the end, which then says "pending" or "running" of a task that has ended.
* `engine.py:289`: a failed platform check is returned as BLOCKED but stored under the client's
  failure kind, so with a pending review beside it the attempt is not terminal. `engine.py:304`:
  a failed correlation is returned as CHECK_PENDING but stored as terminal.
* `routes/backtest_tasks.py:307`: a task is completed before its result is stored; in between a
  reader sees "completed" without a result, and a stream may end with it.
* `routes/backtest_tasks.py:206` and the other stages: the thread writes the next status over
  "cancelled", which `cancel_task` treats as ended. Rows of iterations and submissions by id
  keep their early status when the last write fails.
* The loops: `consecutive_submit_failures` is not reset by cycles that select nothing; the
  deferral for "check_submission_not_readable" is unreachable.
* The autopilot: a failed row counts once for each file that holds it; caps are charged for rows
  that are then dropped as duplicates; when all branches of a plan are pruned the session has
  nothing to allocate; a session that does not resume replaces the record.

## Plan

Done, in this order: the engine, its contract and the gate; the repository; the task table, then
the other kinds of task in it; the client and the contract between it and the engine; the
miner; the workflow; the autopilot; and the proofs listed above.

Left, in this order:

1. Proofs: the contract of what the workflow and the autopilot share, once they are composed.
2. The composition of the workflow with the autopilot, the latter's `Cycle` shown to be one of the
   former's.
3. A restart of the server, tickets and the rate limit in `BacktestTasks`.
4. `AuthCodes`: codes, attempts, expiry; `MemoryRetrieval`: the quotas against a declarative
   definition.
5. `ExpressionParser`: precedence against a grammar, in a module only TLC uses.

## Not modelled

The numerical engines (`backtest.py`, `engine/src/backtest`) and the operators compute floating-point
results without state. Expression search, the research miner, the benchmark, the alpha search
memory and the submission records are sequential programs over text, scores and report files:
their control is a pass over a list, and what can go wrong in them is in the numbers and the
wording, which a model of this kind would leave out. Together with the frontend, the servers'
wiring, scheduling and mail they are most of the lines of the repository, which is why the map
covers a small share of it. Backfill and export convert files from and to events. The live
runner is present as the fairness of the engine, the async bridge as the writes of
`BacktestTasks` and `WQAgentRepository` that go on or fail after their caller has stopped waiting.

Known hazards without a property: a BLOCKED retry is returned before the first submission is
reconciled, so an ACTIVE reached meanwhile is not looked for (`engine.py:467`); and two of the
autopilot's counts (`wq_autopilot_controller.py:556` and `:822`), which the model makes as the
code does and no statement of the repository contradicts.

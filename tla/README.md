# weebot in TLA+

weebot is a Python agent framework: a user gives a *session* a prompt, a *flow*
plans and executes it with language models and tools, and everything the flow
does is an *event* of the session, kept in a SQLite row and streamed to the
clients. This directory holds TLA+ modules that model its concurrent core, the
TLC configurations that check them, and theorems about them checked by TLAPS.
Paths below are relative to `src/weebot/` unless they start with `src/`.

1. [Inventory](#1-inventory)
2. [The modules and the code](#2-the-modules-and-the-code)
3. [The runs](#3-the-runs)
4. [The proofs](#4-the-proofs)
5. [Where code and text disagree](#5-where-code-and-text-disagree)
6. [What is not modelled, and the plan](#6-what-is-not-modelled-and-the-plan)

To check: `tlc -config TR_all.cfg MCTaskRunner.tla` (the module of each run is in
`PROJECT.json`; some components' runs use the component's module itself),
`tlapm TaskRunner_proofs.tla`. The longest run, `PF_all`, has 2.5 million states.

## 1. Inventory

The package has 838 Python files in a ports-and-adapters layout: `domain`
(models, ports), `core` (circuit breaker, orchestrator, cancel requests),
`application` (flows, services, use cases, agents), `infrastructure`
(persistence, LLM, browser, events, sandbox), `interfaces` (CLI, web, gateways),
`scheduling`, `tools`. Everything runs in one asyncio event loop per process; the
web server, the CLI and the scheduler's jobs share the database.

| Component | State | Operations | Hard because of | What makes it correct |
|---|---|---|---|---|
| **Task runner** `application/services/task_runner.py` | `_tasks`, `_retries`, `_session_locks`, the flow semaphore, the row's status | start, resume, restore, cancel, rerun, retry, done callback, orphan scan | every `await` lets another task or request in; two copies of a session overwrite each other; crashes | one flow per session; a RUNNING row is being run; the retry budget only falls; cleanup of its own entries only; every request and every queued task ends |
| **Session requests** `interfaces/web/routers/sessions.py`, `application/use_cases/` | the copy each handler loaded | run, input (start, resume, steer, chat), cancel, delete | they decide on a copy loaded before they wait for a lock | refusals hold when they are acted on; a deleted session stays deleted |
| **Event publisher** `application/flows/event_publisher.py`, `infrastructure/persistence/session_persistence_adapter.py` | `_event_seq`, `_saved_seq`, `_emit_lock`, the row, dead letters | emit, save, retry, dead-letter, replay | overlapping emits, retries that last seconds, cancellation anywhere | an older snapshot never replaces a newer one; a skipped save loses nothing; every emit ends |
| **Circuit breaker** `core/circuit_breaker.py` | per entity: state, counts, times; a state file | evaluate, record success or failure, reset, persist, restore | look, sleep, then decide; outcomes arrive late and in any order; monotonic times across restarts | an open gate stays shut for its cooldown, only a probe closes it, and somebody is let through again |
| **Plan-act flow** `application/flows/plan_act_flow.py`, `states/`, `flow_router.py` | the flow's plan and session in memory, the current state, the row, the gates' flags | planning, critique, premortem, plan review, executing, reviewing, updating, summarizing, verifying, completing; pause, answer, resume | two plans, the flow's and the row's; pauses read back by another flow; positional step ids; lost saves | gated content and steps wait for a human's yes; a pause can be answered; replanning is bounded; COMPLETED means it worked |
| **Provider fallback** `infrastructure/adapters/llm/direct_or_fallback_adapter.py` | two breaker entities | chat, stream | the order of gates, attempts and outcomes | no traffic to a dead endpoint; a working one is used |
| **SQLite connection pool** `infrastructure/persistence/connection_pool.py` | read queue, write connection, locks, `_initialized` | initialize, acquire, close | close against users and openers; cancelled writers | no writer commits another's work; an admitted reader gets a connection; close ends and leaves no reader open |
| **Session repository** `infrastructure/persistence/sqlite_state_repo.py` | rows | upsert, status update, compare-and-set, delete | compaction of a running session | no lost update |
| **Workflow orchestrator** `core/workflow_orchestrator.py`, `core/dependency_graph.py` | `_cancelled_sessions`; per call: graph, statuses, completed, failed, running tasks, semaphore | execute, cancel; add, remove, validate, sort, query | cancellation against completion, a handler that lets a cancellation through, ids shared by two calls | a task after its dependencies, at most N at once, a cancelled call starts none, every call ends; the graph algorithms are right |
| **Event buses, stream queues** `infrastructure/event_broker.py`, `infrastructure/event_bus/async_event_bus.py`, `interfaces/web/bounded_drop_oldest_queue.py` | subscriptions, queues | publish, subscribe, put, get | slow subscribers, full queues, reconnects | the reader learns what was dropped |
| **Effect ledger** `application/services/effect_ledger.py` | ledger rows | lookup, send, record | crash between call and record | no effect twice |
| **Cancel requests** `core/cancel_requests.py` | marker files | request, take | a marker that outlives its run | only the run it was meant for is cancelled |
| **Scheduler and jobs** `scheduling/` | APScheduler's job store | run a job | overlap with running flows | a job never takes back what a flow saved |
| **Session cost budget** `application/flows/collaborators/session_budget.py` | cost per session | check per iteration | it pauses or ends the flow at the top of any pass | a flow stops at its budget |
| Agents, skills, prompts, adapters, CLI, gateways, UI | mostly none of their own | calls to models, browsers, tools | external services | not a state machine this project can check |

How they interact. A web handler loads a session from the repository, decides on
that copy and calls the task runner; the runner saves RUNNING, builds a flow with
a factory and runs it as an asyncio task. The flow emits events through its
publisher, which appends them to its own copy of the session and upserts the
whole row. A gate pauses the flow for its user by saving WAITING; an answer
resumes it with a new flow and a new task. When the flow raises, the runner
retries it from inside the failing task. Every model call asks the circuit
breaker before and reports after. So three parties write the same row (request,
runner, flow), each from its own copy, and nothing but the protocol between them
keeps the writes in order. That protocol is the core, and is modelled first.
Inside the flow the same shape comes again: the states work on a plan in memory,
the command handlers (create plan, execute step, update plan) on the plan of the
row, and a pause hands the session to a router in a flow that does not exist yet.
The workflow orchestrator is a scheduler of its own, behind an agent's tool; it
shares nothing with sessions.

The hazards that follow from this, each with its line and the properties that
watch it, are the `hazards` of `PROJECT.json`.

## 2. The modules and the code

| Module | Models |
|---|---|
| `TaskRunner.tla` | task runner and session requests |
| `MCTaskRunner.tla` | its symmetry and view for TLC |
| `TaskRunner_proofs.tla` | theorems about its types, budgets and tracking, and about a session's row and who may write it |
| `BreakerGate.tla` | abstract specification: what a circuit breaker promises |
| `CircuitBreaker.tla` | the breaker with its callers; implements `BreakerGate` |
| `CircuitBreaker_proofs.tla` | theorems, the refinement among them |
| `EventPublisher.tla` | emits, retries and dead letters of one session, and the compaction of its row |
| `EventPublisher_proofs.tla` | theorems about it |
| `ConnectionPool.tla` | the SQLite pool: opening, readers, writers, closing |
| `ConnectionPool_proofs.tla` | theorems about it |
| `PlanActFlow.tla` | the loop of a plan-act flow, run after run, over the row of its session |
| `MCPlanActFlow.tla` | the plans a planner may return and a user may edit, for TLC |
| `PlanActFlow_proofs.tla` | theorems about it |
| `TaskGraph.tla` | the operations of the dependency graph, as operators and recursive functions |
| `TaskGraph_proofs.tla` | what those operators compute, for every graph |
| `DependencyGraph.tla`, `MCDependencyGraph.tla` | a graph under additions and removals, and reference definitions for its queries |
| `DependencyGraph_proofs.tla` | theorems about its construction and its queries |
| `Workflow.tla`, `MCWorkflow.tla` | concurrent `execute` calls of one orchestrator, on `TaskGraph`, and the graphs of the run |
| `Workflow_proofs.tla` | theorems about it |

In all of them but `PlanActFlow`, `TaskGraph` and `DependencyGraph` **one step is
the code between two suspension points** of a coroutine: asyncio switches nowhere
else. (A flow is one coroutine with its session to itself, which `TaskRunner` is
about; what others do to it is a cancel marker, a lost save or a crash, and its
steps are cut at those. The graph does not suspend.) A write is given to the step that
*resumes* from it. Its value was computed one step earlier, so whatever may
happen between computing a value and storing it happens in the model too.
Definitions marked `MUTANT` are wrong variants of their neighbour, used only to
show that a property can tell them apart; nothing refers to them.

### TaskRunner

| Variable | Code |
|---|---|
| `row` | the `sessions` row: status and `context.extra["retries_remaining"]` |
| `tasks`, `budget`, `lock` | `_tasks`, `_retries`, `_session_locks` |
| `pc`, `run` | where each asyncio task is suspended, and its locals: its copy of the session (`view`), whether it answers a pause (`ans`, history), whether it was overtaken or started beside the lock (`loose`, history), whether it was cancelled (`kill`), whether it still holds the session's retry state (`ref`) |
| `cpc`, `req` | where each request is suspended, and its locals; `via` is which method starts a task for it |
| `up`, `faults` | the server has finished its startup; faults so far |

A task goes slot → load → flow → (pausing) → closing → teardown → done, or, when
the flow raises, spending → sleeping → relaunching → respawning (the retry, which
creates the next task) or burying → tolling (marked FAILED, announced). `Cleanup`
is the done callback. A request goes from `Arrive` (its copy is loaded) to a
choice and then through the lock, the saves of `resume_session` and
`_start_direct`, and `StartTask`; `CancelSession` joins the cancelled task, then
marks the row, and `DeleteSession` goes on to remove it. `Crash` forgets
everything but the row; `InterruptOrphan` and `Serve` are the startup.

Abstractions:

* A session is its status and its retry count. Its events, plan and title are not
  compared by any property of this module (`EventPublisher` counts events).
* Reads are assumed not to fail; writes (`"save"`), factories (`"factory"`) and
  the process (`"crash"`) do, where `Faults` allows, up to `MaxFaults`.
* A flow is its visible behaviour: it saves any number of events, pauses, raises
  or ends. `Owns` is whether the flow persists its own session, as plan-act
  does.
* A task needs a free identity of `Run`; when there is none a launch waits. This
  is a bound, not the code. `TR_second_answer` has a third one.
* `OneWriter` is about the check of `start_session`. An answer looks at the row only, and a
  pause is in the row before its task ends; a restore lets a tracked task be when the row
  is not RUNNING; a rerun looks at neither and takes no lock. Each may replace a tracked task that still
  writes. `loose` marks the tasks so replaced, the tasks a rerun starts, and what the retries of
  loose tasks start or replace;
  `OneWriter` says that of two writers of a session one is loose, and `TR_second_answer` what a
  loose one may do.
* `rerun_failed_session` is called in product code by the CLI's `flow retry` only,
  in a process of its own; `resume_from_checkpoint` by tests only. Both are
  public methods of the runner and are modelled as requests to it.
  `enqueue_session` and `_worker` have no caller in product code;
  `wait_for_session` and the lists change nothing.

### BreakerGate and CircuitBreaker

`BreakerGate` says what a breaker is for: an OPEN gate refuses for at least
`MinWait`, becomes HALF_OPEN only then, and only a HALF_OPEN one closes. A *lapse*
(an operator's reset, a crash that loses newer state than the file's) is the only
exception. `CircuitBreaker` has `entry` (`_breakers`), the callers' locals (`on`,
`drawn`), and `file`. `evaluate` is `Evaluate`, then for a caller that staggers
`Wake`; both end in `Decide`, the critical section. `RecordSuccess`,
`RecordFailure` and `RecordNothing` are the three ways a call ends.

* No product code gives the breaker an event broker, so its critical sections do
  not suspend, and each is one step.
* The clock is how long an entry has been OPEN, up to the longest jittered
  cooldown; longer waits compare alike. The failure count stops at its threshold
  for the same reason.
* Every caller draws its own jitter; both reads of one `evaluate` use one draw,
  as the code does.
* The time the server is down does not count, as in `to_persistable`. `Shutdown`
  persists and stops with nothing in between; `Persist` followed by other steps
  and `Crash` is the shutdown in which something happens in between.
* Metrics, and the entries' eviction of nothing, have no part in it.

### EventPublisher

A copy of the session is the number of its events, since events are only
appended. `AddEvent`, `Published`, `AcquireLock` and `EndSave` are `emit`;
`WriteRow`, `RetryLater`, `Retry`, `GiveUp`, `DeadLetter` are the save with the
adapter's retries; `WriteFails` is the save without an adapter. What fails may be the
indexing that follows the row's write, so a failed try may have stored the row
(`MayStore`). `Quit` is an emit
cut short: cancelled at any of its awaits, or the bus raised. `dead`, `lost` and
`quit` say where an event that is not in the row went. `LoadForCompaction`,
`SaveCompacted` and `SkipCompaction` are the scheduler's compaction of a RUNNING
session, which takes no lock and relies on `save_if_unchanged`; `stamp` is the
`updated_at` it compares, of which only equality matters. A compacted copy counts as the
events it was made from; the flow's next save puts its own copy back. Left out: trimming of a row
beyond `MAX_EVENTS_JSON_BYTES`, and `replay_dead_letters`, which no product code
calls. A plan-act flow makes its emits one at a time; the class allows them to
overlap, has a lock for it, and is modelled so.

### ConnectionPool

| Variable | Code |
|---|---|
| `lock`, `wlock` | `_lock`, `_write_lock` |
| `wconn`, `rconns`, `queue` | `_write_conn`, `_read_conns`, `_read_pool` |
| `initialized`, `closing`, `closed` | `_initialized`, `_closing`, `_closed` |
| `drained`, `made` | the permits in `_drain`'s `acquired`; the loop variable of `initialize` |
| `open`, `work` | outside the pool's memory: the connections that are open, whether or not the pool knows them, and the uncommitted work on each |
| `pc`, `want`, `held` | where each user is suspended, what it waits for `initialize` to do, the connection it was given |
| `openings` | history: how often `initialize` has begun to open connections |

`_read_semaphore` is `Permits`, computed from its holders. A user of
`acquire_read` goes entering → permit → (getting) → reading, one of
`acquire_write` entering → wlock → writing, and whoever finds the pool
uninitialised goes through opening and filling first. `close` goes locking →
draining → shutting → dropping → emptying. `Quit` is a cancellation, timeout or
failure at any of these awaits.

* A connection is named by the opening that made it and its index in it; index 0
  is the write connection. So connections of two openings never look alike.
* Each aiosqlite connection has a thread (external) that does what it was asked in order, also
  when the coroutine that asked has been cancelled. A commit or a rollback is
  therefore one step. A `connect` that is cancelled opens nothing.
* A commit or rollback on an open connection does not fail, and closing one does
  not. The first is a hazard of its own (`connection_pool.py:201`), listed without
  a property.
* Asking for a free lock counts as an await. asyncio does not suspend there, so
  the model has more interleavings than the code; the properties hold in all of them.
* Left out: the registry (`get_or_create_pool`, `close_all_pools`), whose callers
  of `initialize` and `close` are users like any others.

### PlanActFlow

| Variable | Code |
|---|---|
| `row` | the `sessions` row as far as a flow uses it: status, `get_last_plan()`, `_user_gate_pending`, `plan_pending_approval`, `atomic_mail_inbound_pending`, the acknowledgements, `_replans_without_progress` |
| `flow` | the `PlanActFlow` object: `_state` (`at`), `_plan`, `_session` (`ses`), the pass counter, `_step_execution_counts`, the step under way and what its command returned; who runs it and whether in AUTO |
| `asked` | the last question the user was shown |
| `cancel` | the marker file of `cancel_requests` |
| `streak`, `unread`, `agreed`, `carried` | history: replans in a row, inbox content nobody approved, risky steps of the plan there is that the user said yes to, ids that AUTO passed or that were agreed to in a plan since replaced |

`Begin` is a run's beginning: the server's RUNNING save or the CLI's load, the
router's choice of a state from review flag, gate and reply (`Route`), the plan
file read back on approval (`AfterReview`), and `begin_run`'s save. Each further
action is what one state does in one pass of `_run_states`; the top of the pass is
`TakeCancel`, `PassesSpent`, `BudgetPause` or, for the termination conditions,
`CompleteRun`. A step is two actions, because its events are saved before its
outcome is dealt with: `ExecuteStep` (gates passed, command run, events saved) and
one of `AfterStep` (completion, the retries of a minor failure, a quality hint or
missing evidence, replanning and its limit, questions). `EndRun` is the caller's
last save.

* A plan is its steps' ids, statuses and retry counts. `replaced` is COMPLETED with
  the result that an update writes. `Mark` and `Reconciled` are the two ways a
  status changes: in the flow's plan, and by a StepEvent in what
  `get_last_plan()` reads from the session.
* Every answer of a model, planner, reviewer, gate or human that the code tells
  apart is possible whenever it could be given. Which steps contradict a
  constraint (`Risky`) and which may read an inbox (`Fetching`) is fixed by id.
* An emit saves the session whole (`Emitted`); a failed save is only a warning,
  except in a pause and at the end, which save once more and raise. The model
  loses the last save of a pass; earlier ones of the same pass are subsumed by it.
* The fact that an inbox was read is set after the step's events were saved. A crash
  before the next save loses it, and `unread`, which follows the flow's copy, with it.
* The CLI's `flow run` stops reading at the first question and drops the flow
  (`Breaks`); the server and AUTO read on.
* Left out: the product gate, which a flag turns on, undo and redo of plans,
  checkpoints (`TaskRunner` has them), and everything that goes into prompts.

### TaskGraph and DependencyGraph

A graph is `[deps, rdeps]`: `_nodes` with each node's dependencies, and
`_dependents`. Python's loops are recursive functions on the number of turns
taken (`Kahn`, `AllDependencies`, `ParallelGroups`, `CriticalPath`); one turn is an operator of its own, mutants are
wrong turns. Where the code iterates over a set or a dict, `Order` says which element comes
first. `DependencyGraph` applies `Added` and `Removed` in any sequence; `add_task`
of an id that is there already leaves stale dependents behind, and is left out, as
the only caller builds the graph from a dict.

### Workflow

| Variable | Code |
|---|---|
| `flags` | `_cancelled_sessions`: absent, False, True |
| `ex` | the locals of each `execute` call: where it awaits, its id, graph, `task_status`, `completed`, `failed`, and `running_tasks` (`held`) |
| `co` | the coroutine of each task: created, in its handler, publishing its outcome, being cancelled, ended, or ended by a CancelledError of its own |
| `told` | history: calls that were in their loop when their id was cancelled |

`Pass` is everything from the end of `asyncio.wait` to the next one: the ended tasks are collected,
the cancel flag is looked up, ready tasks are started up to the limit (any of them:
`set.pop`), or the loop is left through `finally` (`Unwind`). `PassThrown` is the pass in which awaiting a collected
task raises CancelledError, which `except Exception` does not catch. `Abort` is
the caller of `execute` being cancelled, at each of its awaits. `Enter`, `Handled`, `Published` and
`Stopped` are `_execute_task`: permit and circuit breaker, handler with its
timeout, the outcome's event, an arriving cancellation.

* Events are published to buses that do not raise (`EventBroker`, and the bus in
  use, catch what a subscriber does); publishing takes any time.
* A failed task does not keep its dependents from running: `get_ready_tasks` is
  given completed and failed tasks together, and so is `Ready`.
* The agent's tool makes an orchestrator per call; the class supports concurrent
  executions (its comment at 151) and is modelled so.
* A handler that swallows a cancellation and goes on is not modelled; `gather` would
  wait for it.

## 3. The runs

| Run | Asks | Bounds |
|---|---|---|
| `TR_all` | types; retry state exists exactly while a task is tracked; nothing is left RUNNING unattended; of two tasks that write the session one was overtaken by, or is, what does not look at `_tasks`; under every operation at once and a restart | 1 session, 2 tasks, 2 clients, 1 slot, 1 retry, all operations, 1 crash, `Owns = TRUE` |
| `TR_fair` | whatever fails: the tracked task is dropped by its own end only, no budget grows but by a rerun, every request ends and every waiting task gets a slot | `FairSpec`, 1 client, all operations, 2 tasks, 1 slot, 2 faults of any kind, `Owns = FALSE` |
| `CB_all` | the breaker implements `BreakerGate`, its counts agree, an OPEN entry lets nobody through, and an entity asked for is let through again | `FairSpec`, 1 entity, 3 callers, thresholds 2, cooldown 3 ± 1, 1 lapse |
| `EP_all` | every event is accounted for, the row never goes back (compactions included), every emit ends | `FairSpec`, 3 emits at once, 3 events, 1 retry, 2 compactions |
| `CP_all` | no writer commits or rolls back another's work, an admitted reader finds a connection, a finished close has shut every reader, and a close ends whatever its users do | `FairSpec`, 3 users, 2 read connections, 2 openings, cancelled anywhere |
| `PF_all` | gates, pauses, replans, review and completion, over runs, callers, answers, a lost save or a crash | 2 step ids (one reads an inbox, the other is risky), plans of 0 to 2 steps, 4 passes, 2 runs, 3 callers, AUTO or not, 1 fault |
| `WF_all` | order, limit, what a result says, cancellation; nobody waits for what cannot come, no step is in vain, every call ends | `FairSpec`, 3 tasks in four graphs, and a call with one task under the same id; limit 2, 2 cancellations |
| `DG_all` | the two maps stay inverse, and sort, closure, groups and critical path are what they are defined to be | all graphs on 4 tasks, unknown ids and cycles included |
| `TR_second_answer`, `TR_rerun`, `PF_asked`, `PF_acks` | a sentence of the code that the run refutes, see section 5 | the smallest instance that shows it |

Why the bounds are enough. Sessions share only the flow slots, so one session
shows all of the row protocol; what slots do across sessions is what one slot
does to two tasks of one session, and `SlotGranted` is checked with exactly that
(a retry that starts its task while the failing one holds the only slot). Two
tasks are an old one and its successor, which is where all the overlaps are; two
clients are two requests that interleave. Two tasks write one session
also when one of them still waits for the slot, since it will write after the other. `TR_all` tells
states apart by `StateView`, which leaves out what a task or a request does not read again. One retry distinguishes a budget that is full,
spent and absent. For the breaker, thresholds of 2 tell "first" from
"enough", a jitter of 1 on a cooldown of 3 gives callers that disagree on whether
an entry has cooled, a least wait of 2 shows a restart that skips it, and three callers are a prober, a late one, and one that
asks. Three emits are one that holds the lock, one that waits
behind it, and one whose event comes while the save is written; three events let
the second save cover the third emit's; two compactions are one of a compacted row
too. Three users of the pool are a reader, a writer and a closer, or two
readers and the closer that waits for both; two openings are a pool that is
opened again by a user that waited behind `close`, or after an opening that was
cancelled. A reader that waits for a permit while both connections are out and a
close has begun needs a fourth user; with `MaxRead = 1` in `CP_all.cfg` three are enough
(that passes too), and `PermitsSuffice` proves the case for any numbers. In `PF_all` two
steps are one that ran and one that waits, and an id that means another step
after a replan; two runs are a pause and its answer; four passes are enough for
every state to follow every other, for a step to fail, be replanned and complete
(`MaxReplans` is 1, so the limit is reached), and for the repetition limit of 2. One fault is
a save lost or a process lost at any point of it; a second one does not interact
with the first, as each costs at most what one save held. In `WF_all` calls of
different ids share nothing, so one id is enough; the fork has a dependent that
waits for two tasks at once, the wide graph one task more than the limit. In `DG_all`
every graph on four tasks is reached, so one iteration order stands for all, up to
renaming. The theorems of section 4 hold without any of these
bounds.

`CB_all` and `DG_all` check deadlock. The others do not: every session may have been
deleted, all events emitted, the pool closed, the runs used up or the calls
returned, and then the system rightly stops.

**Fairness.** The event loop resumes every coroutine that can go on, and
`asyncio.Lock` and `asyncio.Semaphore` wake waiters first come first served, so a
task or a request that can go on again and again does: `SF` on the task's
`Advance`, on a request's steps, on `EmitStep`, and on `PoolStep`. `SaveEvent` is not in
`Advance`: a flow's loop is bounded by `max_iterations`, so it does not save
events for ever. Nothing is assumed about requests arriving, faults, cancellations
or crashes, or about users of the pool giving back what they hold; a startup, once under way, goes on (`WF`). For the breaker time passes, a sleeping
caller wakes, a call ends (it has a timeout), and a stopped server is started
again: all `WF`. For the workflow it is `WF`, per call, of "some coroutine of the
call goes on": a handler ends by `wait_for`'s timeout if not before, and a publish by the buses'
timeouts. `AdmittedAgain` is about an entity that is asked for again and
again and says so itself (`Asked`, an `SF` hypothesis in the property).

`RunningIsAttended` is not checked with failing saves: when the last save of a
failed run fails too, the code logs that the row stays RUNNING
(`task_runner.py:404-409`) and relies on the next startup. With failing factories
it does not hold: see section 5.

The symmetry of `TR_*` permutes tasks and clients, which `Init` does not
tell apart. The view forgets locals that a suspension point no longer uses; no
property it is used with looks at them.

## 4. The proofs

All theorems are for any sessions, tasks, clients, entities, callers, emits, (finitely many) users, plans, step ids, graphs and calls, and any values
of the numeric constants, under the named assumptions of each module: positive
slots and thresholds, a jitter no larger than the cooldown, values such as `NoRun` and `NoPlan` being
different from what they are not, callers and plans of the kinds the code has, a dict of dependencies
for a graph, and an iteration order that lists each task once. TLC evaluates them in every run.

**TaskRunner_proofs.**
`TypeCorrect` proves `TypeOK`. It is inductive, except that the numbers need a
reason: a retry takes one from a budget only when one is left.
`BudgetSpentOnly` proves `BudgetOnlySpent` from types alone: every action keeps,
lowers, creates or drops an entry of `budget`, a rerun's too, which is what `TR_rerun` shows from the
other side. `OnlyOwnUntracked` proves `UntracksOwnOnly`.
`RetryStateKept` proves `RetryStateTracked`, under the hypothesis that factories
do not raise (`"factory" \notin Faults`): with it every retry state is created
together with its task. `RetryStateTracked` is not inductive: the
`finally` of a failing task sets the count of the state it *holds a reference to* to
zero, and if that state were already dropped the model's write would create an entry.
`TrackedInv` adds `RefHeld`: a task has a reference only while its session has retry
state. `Cleanup` clears the references it invalidates, so `TrackedInv` is kept.

Two theorems of the same module relate every suspension point of tasks and
requests to the row. `OneWriterKept` proves `OneWriter` without hypotheses: for flows that
save themselves or leave it to the runner, every operation and every fault. `WriterInv` says why the
lock and the check of `start_session` are enough for the tasks that nobody overtook: such a task, while it
may still write, is the tracked one (`WritersTracked`); from the check to the launch a start has no
such writer beside it (`StartersAlone`), because it has the session's lock, as an answer and a
restore do, so that only a rerun can make a task meanwhile (`StartersLocked`). A retry's task replaces the one
that creates it, which writes nothing after. `RunningAttended` proves
`RunningIsAttended` for every operation and either way to persist, with crashes, assuming
that saves and factories do not fail. `AttendInv` adds that a task being cancelled
has a request waiting to mark its session (`KilledIsJoined`), that a last save never
writes RUNNING (`LastIsFinal`) and that a tracked task is the session's own (`TrackedIsOwn`).

**CircuitBreaker_proofs.** `BreakerInv` is `TypeOK`, `DownIdle` (no caller is
anywhere while the process is down) and every entry, in memory and in the file,
being in `GoodEntry`: its failure count is below the threshold exactly when it is
CLOSED, and only an OPEN one has an age. The file must be in the invariant
because a restart turns it into entries. It gives `BreakerTypes`, `CountsAgree`
and `OpenIsRefused`. `GateImplemented` proves `Spec => ImplementsGate`: each action
maps to `Trip`, `Probe`, `Relapse`, `Recover`, `Elapse`, `Lapse` or a stutter of
`BreakerGate`, under a mapping that reads the file while the process is down and
cuts ages at `MinWait`. `DownIdle` is what makes late outcomes stutter there.

**EventPublisher_proofs.** `PubInv` adds to the types and to `Accounted`:
`LockHeld` (whoever saves holds the lock), `SnapFresh` (what is being saved is no older than the row
or the last covered save, and holds its own event), `Stamped` (the row still has the
`updated_at` the job loaded only if it holds what the job saw), `Bounded` (nothing is
numbered beyond `seq`), and `SavedKept` (what `_saved_seq` covers is in the row or
in a dead letter or is lost). `Accounted` needs the last: an emit that skips its save
relies on `_saved_seq` alone. `EventsAccounted` and `OlderNeverOverwrites` follow.

**ConnectionPool_proofs.** `PoolInv` is the types, who holds which lock at which suspension
point (`LockHeld`, `WriterHolds`, `ReaderHolds`), that nothing is open that no
opening made (`Opening`, `OpenKnown`), that work is on open connections
(`WorkOpen`), and `OwnWork` itself. `OwnWork` could break where `_write_conn` comes to
mean another connection: a fresh one has no work on it because it was not
open before, which is what `OpenKnown` and `WorkOpen` are for. `CloseReachesReaders`
(`ReadersClosed`) rests on `ReadersKnown`: every open reader connection is in
`_read_conns`. `PermitsSuffice` (`ConnectionAtHand`) is by counting: in an
initialised pool that is not closed there are at least `max_read` connections in
the queue or with readers, no two readers have the same one, and a reader that
takes a permit is among at most `max_read`.

**PlanActFlow_proofs.** The invariant `FlowInv` speaks of both copies of the session, the
flow's and the row's, because each becomes the other: a save makes the flow's the
row's, a new run the row's the flow's. Of each it says (`Sound`) that unread
inbox content is still announced by the fact or being asked about, that acknowledged
ids are answered for (`Answered`) or being asked about, that a review asks about nothing
else, and that its count of replans is in range. On top of that: a flow that works is not at a gate
(`Unpaused`); a question on the screen has a row to answer (`PausedIsSaved`); the
row is at most one replan behind `streak`, and not at all once a step's events were
saved (`Behind`, which is why each fault costs one count and no more); before its
plan is approved the flow's copy holds it (`ReviewShows`); and only a COMPLETED row
makes a copy COMPLETED (`CompletedTold`). From it follow six theorems: `PauseIsSaved` and `ReplansAreBounded`
directly, `MailIsReviewed`, `RiskyIsAnswered`, `ReviewedPlanIsSaved` and
`CompletedWorked` as properties of a step in a state that satisfies it. `RunsByExecuteStep` is the lemma
that no other action begins a step. The seventh, `FlowKeepsType`, proves `TypeOK` with `TypeInv`: beside the types, a
flow that steps, reviews or updates has a plan and its step is one of it (`Planned`), since only then may `Mark` and
`Merge` index it. `Merge` keeps some steps of one plan and places new ones after them. That what it
keeps is a plan (`OnlyType`) is an induction over the plan's length.

**Workflow_proofs.** `WInv` says of each call which tasks may be in which place at each
point of `execute` (`Local`): while the loop runs, what is alive is held and the
held ones keep the limit (`Holds`), and what is settled is settled once with its handler over
(`Settles`); in the gather everything was told to stop (`Stops`); a call whose graph is
being validated or was refused has no task (`Untouched`). `After` and `Limit` are the
properties themselves. `Flagged` says that a call alone with its id has its flag, set
once it was told. `WorkflowTypes` proves `TypeOK` with `GraphsGiven`: a call's graph is one
it was given, from `Begin` on. `StartsAfterDependencies`, `KeepsTheLimit` and `CancelledStartsNone` prove the
properties of their names.

`ReturnsSettled` proves `ReturnIsQuiet`, and is where the graph matters. `AllSound` adds that the
loop is entered only with a closed, acyclic graph (`Accepted`, from `ValidMeans` of `TaskGraph_proofs`),
that what is marked running is held and unsettled (`Runs`), and that a call whose flag is
up was told (`Asked`). When a pass of the loop finds nothing to start and nothing
running, nothing is ready, and an acyclic graph with an unsettled task has a ready one
(`SomeReady`). So everything is settled, and the loop's count of it is right (`CountedIsSettled`).

Termination is a liveness property, and TLC's (`ExecuteEnds`); `AlwaysGetsOn` proves the rest of what it rests on,
`GetsOn`, for every graph. A call that has not ended, and a coroutine a
cancelled caller left behind, always has something that can go on (`NeverStuck`);
`AllGoing` says for this that the loop waits for something, and for started tasks only (`Awaits`), which
takes the limit to be positive: a pass that starts nothing because the limit is
reached waits for as many tasks. And every step lowers a measure, 5 for a call and 6 for each of its
tasks, and raises no part of it (`Shrinks`), so
a call has no more steps than that. This uses that a task in the loop is marked running from its start until it is
settled (`Begun`), so `Startable` finds only tasks that were never started. What is
left to TLC is fairness: that what can go on does.

**TaskGraph_proofs.** What validate(), the sort, the closure, the parallel groups and the
critical path return, for every graph whose two maps are inverse, unknown
dependencies and cycles included. `BuiltIsWellFormed` says the constructor makes such
graphs. The loops are recursive functions on the number of turns. The library's induction theorems
cannot be used (they take an operator as a parameter), so the module has its own, about sets:
a set of numbers has a least one (`LeastNumber`, from the well-foundedness of
strict inclusion on finite sets), what holds at the start and is kept by each turn holds after any number of
turns (`ByTurns`), and a loop whose turns keep a set has a run (`RunExists`), which is then what
the recursive function is. For each loop one lemma says what a turn keeps and one that the turns are enough:
Kahn's order only has tasks whose dependencies precede them, and if it stops short, each task left
waits for another one left (`ValidMeans`); each visit of the closure takes one task off a list on which each task seen has put
at most `Turns`; distances rank a task above all it depends on. `PlanActFlow_proofs`
repeats the three induction lemmas, as it shares no module with this one.

**DependencyGraph_proofs.** `GInv` is that the graph is over `Task` and its maps are inverse; additions and
removals keep it, which is `DependentsStayInverse`. `SortStaysTopological`,
`AllDependenciesStayClosure` and `CriticalPathStaysLongest` combine it with the lemmas of `TaskGraph_proofs`.

Only model-checked: what is about liveness (`RequestEnds`, `SlotGranted`,
`AdmittedAgain`, `EmitEnds`, `CloseEnds`, `ExecuteEnds`), since TLAPS reaches neither fairness nor ENABLED. Every
invariant and action property of a passing run is stated by a theorem; some
theorems (`RetryStateKept`, `RunningAttended`) have the hypotheses given above, which the runs have too.

## 5. Where code and text disagree

Details and lines are in `findings` of `PROJECT.json`.

* `TR_second_answer`: a comment says a second answer is refused because the row is
  RUNNING by then. The paused task has not ended when the row says WAITING; its
  own last save, from its older copy, can put WAITING back over the first answer's
  RUNNING, and then a second flow starts on the session.
* `TR_rerun`: `rerun_failed_session` promises "a full retry budget". It sets the count in the
  copy it starts from, which `_start_direct` uses only when the session has no retry state. A
  flow that saves itself is FAILED in the row before its task ends, and a rerun that arrives in between
  starts with what the old task had left. `flow retry` runs in a process of its own, so this needs a caller
  in the process that ran the session. `BudgetOnlySpent` therefore leaves reruns out.
* `PF_acks`: the router clears the acknowledgements of the constraint gate when a gate is refused,
  because they "must not survive into its replacement": ids are positional. A critical failure
  and a change to the plan under review replace the plan as well and clear nothing, so the step of
  the same id runs without a question. `RiskyAnswered` is what does hold: an acknowledgement
  counts under an approval, or AUTO's pass, of its id since the last refusal. AUTO's pass also covers
  later runs of the session that are not in AUTO. The approval is the one the router sees, a token while the gate's flag
  is set: if the save of the pause failed, the question was not shown.
* `PF_asked`: `user_pause.py` says WAITING, the flags and the question must be in
  the database before the caller yields. A question asked by a step itself is yielded
  first, and WAITING is set after it, in memory. `flow run` stops reading at
  the question, so the pause is never saved and `flow resume` refuses the session.

Known to the models, and listed among the hazards instead of being checked: a
factory that raises leaves the row RUNNING (`task_runner.py:199`); a losing input
saves an older copy over the row, its retry count included
(`dispatch_session_input.py:125`); a run started between the cancellation and the
removal saves a deleted session back (`delete_session.py:31`); a `close()`
cancelled at its checkpoint, or an interrupted `initialize()`, loses the write
connection (`connection_pool.py:341`); the failed save of an intent question is
swallowed and the run ends WAITING with nothing asked (`planning.py:166`); a step that a failed quality check or a minor failure sends back "once" is pending in memory
only, and the handler, which reads the row, refuses it as done (`_step_outcome.py:259`; `ReviewingState`
emits its plan for just this reason); AUTO
completes a step whose approval only a human may give (`executing.py:259`); a save
that changes only the context (`_run_prologue.py:108`) keeps `updated_at`, so a
compaction loaded before it may undo it until the flow saves again
(`default_jobs.py:95`); a
cancelled caller of `execute` leaves its tasks running (`workflow_orchestrator.py:261`).

## 6. What is not modelled, and the plan

Each component of section 1 is in `PROJECT.json` with its status and the reason.
Agents, prompts, adapters and the user interface are not state machines: what they
compute depends on models and services outside. Of the rest, in this order:

1. **Provider fallback** (`ProviderFallback.tla`), two `CircuitBreaker` instances
   composed with the routes of `chat`. With the primary's circuit open the fallback is
   called without its own gate (`direct_or_fallback_adapter.py:163`).
2. **Composition**: `PlanActFlow` as the flow of `TaskRunner`, in place of its visible
   behaviour (`Owns`). Every pass of the flow would interleave with every request,
   so it needs an abstract flow between the two.
3. **Buses and queues** (delivery under timeouts, drop-oldest queues and the count of
   what was dropped), **effect ledger** (a crash between call and record repeats the
   call, as its documentation says), and the **full-text index**: its watermark
   counts positions in a list that compaction makes longer by a message of its own
   (`memory_compactor.py:197`), after which the flow's next event counts as
   indexed (`sqlite_state_repo.py:445`).
4. **The pool's rest**: the registry with two pools, and commits that fail.
5. **Proofs**: what `GetsOn` says of a workflow, that somebody can go on and no step is in vain, for the other
   liveness properties: a request and its lock, an emit and its retries, `close` and the readers it waits for.

The scheduler is APScheduler's; its jobs other than the compaction are calls into the components above. The
session cost is a sum compared at the top of a pass: only that it may stop any pass is modelled.

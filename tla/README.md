# Saz in TLA+

Saz runs AI-assisted workflows: a flow is compiled from YAML, a run of it is executed step by
step in a pool of threads, suspends at human approvals, webhook waits and escalations, and is
resumed, rejected, timed out or retried through an HTTP API. This directory holds TLA+
models of the parts of Saz that are hard to get right: the run engine, where threads, handlers, jobs and
restarts meet; the inside of a step, where models, tools, budgets and human approvals do; the
audit-event stream; users and sessions; and what lets a document become a flow and a flow become steps.
TLC checks the models on small instances, TLAPS proves their central invariants for every value
of the constants.

    tlc -workers 2 -config MCRaces.cfg MCRunEngine.tla     # a run
    tlc -workers 2 -config MCStep.cfg MCStepExecution.tla  # a run
    tlapm StepExecutionProofs.tla                          # proofs

Paths below are relative to `src/backend/saz/`.

## The system

One server process (FastAPI on one event loop) owns everything that is in memory; PostgreSQL
owns the tables `runs`, `steps`, `events`, `flows`, `credentials`, `users`, `auth_sessions`, `auth_providers`, `external_identities`. `PROJECT.json` lists every component with its sources.

| Component | State | Operations | Meets | What makes it correct |
|---|---|---|---|---|
| Run scheduler, `engine/scheduler.py` | `_running_runs`, the pool's queue and threads | `schedule`, `_execute_run_sync`, `_reschedule_if_requeued`, `shutdown` | handlers call `schedule` while threads tear down | a run is executed by one thread at a time; a requeued run is never forgotten |
| Plan loop, `engine/executor.py` 336-877, 957-1181, 1920-2127 | the segment's remaining plan, restored outputs and approvals | mark running, guard, begin, complete, fail, suspend, complete the run | writes the same rows as handlers and sweeper | plan order, no gate passed without an answer, no finished step repeated |
| Inside a step, `executor.py` 957-1797 | attempt, replan count, the grounded call | grounding, policy checks, verifier, replan, tool call, critic, backoff | budget, policies, agents, tools | attempts and replans end; no escalated call without a human |
| Run and step tables, `repositories/`, `db/` | `runs`, `steps` | guarded updates, appends, "first suspended", "first failed" | everybody | status and step rows agree |
| Run API, `api/routes/runs.py`, `webhooks.py`, `services/run_service.py` | none of its own | create, resume, reject, callback, retry | claims a suspended run against the sweeper and other handlers | exactly one wins |
| Suspension sweeper, `engine/suspension_sweeper.py` | the list it read | discover, fail each | same | late suspensions end, others are left alone |
| Process lifecycle, `api/__init__.py` | singletons | start, shutdown, crash | loses memory, keeps tables | nothing in the tables is corrupted |
| Audit events and stream, `audit/`, `db/unit_of_work.py`, `api/routes/stream.py` | event buffers, `events`, subscriptions | emit, number, commit, publish, replay, follow | every thread and handler writes events | one client misses nothing it should see; events are ordered |
| Budgets and rate limits, `policies/budget_tracker.py`, `rate_limiter.py` | counters of a segment | check, record, replay from the rows | executor | no call far beyond the cap, in any segment |
| PII tokens, `policies/pii_token_vault.py`, `policy_engine.py` | a segment's vault | tokenize, detokenize, redact | every tool call | nothing personal leaves but on allow-listed paths |
| Sessions, `services/auth_service.py`, `api/dependencies.py` | `auth_sessions` | login, refresh with rotation, logout, password change | requests authenticated on threads, handled later | an ended session stays ended |
| Administration, `services/admin_service.py`, `auth_provider_service.py`, `oidc_service.py` | `users`, `auth_providers`, `external_identities` | create, disable, change role, reset, link, sign on | concurrent administrators | an active administrator remains; a subject is one user |
| Flows and credentials, `services/flow_service.py`, `credential_service.py` | `flows`, `credentials` | register, update, set, delete | running segments read both anew | what is stored has passed compiler and linter |
| Compiler and linter, `compiler/`, `linter/` | none | compile, lint, suppress | stand in front of `flows` only | what they accept does not fail a run |
| Conditions and templates, `engine/expressions.py`, `templating.py` | none | evaluate, resolve | guards, conditions, grounding | the evaluator reads what the grammar says |
| Planners and agents, `agents/`; tools, `tools/` | none | one call each | inside a step | whatever they answer, the engine copes |
| Telemetry, frontend | none the server relies on | | | see *Not modelled* |

Hard to test, and therefore what the properties are for (`PROJECT.json` has them all, each at its
line): `schedule` decides from `_running_runs` and not from the status; the teardown window between
a suspension's commit and the discard of the run id; resume, rejection, callback and timeout
racing for one suspended run; the sweeper's list going stale; what a resumed segment skips being
derived from the rows of all segments before it; `shutdown` failing runs whose threads go on; a
crash between any two transactions; event numbers read without a lock; a subscriber that falls
behind; budgets checked before and known after a call; a policy engine, budget clock and token vault that start
anew with every segment while the rows go on; an approval found again among the rows of earlier segments; a
request carried out with the row of its user as it was when it was authenticated; a flow replaced under its
runs.

## Modules

| Module | Models | Reads |
|---|---|---|
| `RunStore` | rows of `runs` and `steps`, the queries over them | `repositories/`, `domain/literals.py` |
| `RunEngine` (extends `RunStore`) | scheduler, plan loop, API handlers, sweeper, shutdown and restart, composed over the shared tables | `engine/`, `api/routes`, `services/run_service.py` |
| `RunLifecycle` | the abstract specification: what somebody who watches a run from outside may rely on | — |
| `MCRunEngine` | plans for TLC | — |
| `EventStream` | transactions of a run's events, the bus, one WebSocket | `audit/`, `db/unit_of_work.py`, `api/routes/stream.py` |
| `PiiTokens` | content of arguments, the vault, what each class of tool is sent | `policies/` |
| `StepExecution` (extends `PiiTokens`; refines `RunLifecycle`) | a run through all its segments, seen from inside its steps | `engine/executor.py`, `policies/`, `agents/` |
| `RunSpend` (extends `StepExecution`) | a run's real spend beside what its rows tell the next segment | `engine/executor.py`, `policies/budget_tracker.py` |
| `MCRunSpend` | the instance of `RunSpend` | — |
| `MCStepExecution` | plans and revisions for TLC | — |
| `Access` | users, sessions, requests, providers, links | `services/`, `api/dependencies.py`, `api/routes/auth.py`, `admin.py`, `oidc.py` |
| `MCAccess` | provider settings for TLC | — |
| `Conditions` | the evaluator of conditions, and its grammar | `engine/expressions.py` |
| `Flows` (extends `Conditions`) | compiler, linter, flows and credentials tables, a run of the stored document | `compiler/`, `linter/`, `services/`, `engine/`, `agents/executor.py` |
| `MCFlows` | documents for TLC | — |
| `RunEngineProofs`, `RunLifecycleProofs` (extends it) | theorems about `RunStore` and `RunEngine`: types, pool and the order of steps; the life cycle | — |
| `StepExecutionProofs`, `StepLifecycleProofs` (extends it) | theorems about `StepExecution`: budget, approval, data, rates, types; the life cycle and the step cap | — |
| `ConditionsProofs`, `FlowsProofs` (extends it) | theorems about the evaluator; about the gates and what a run makes of a stored document | — |
| `EventStreamProofs`, `AccessProofs` | theorems about `EventStream`, `Access` | — |

### RunEngine

An action is one database transaction or one critical section; between two actions anybody else
may move. `status`, `error`, `rows`, `issued`, `late` are the tables; `held` and `queue` are
`_running_runs` and the pool's queue; `pc`, `job`, `left`, `nth`, `approved` are a thread's place in
`_execute_run_sync` and the locals of `execute_run`; `api` is the handler in progress, `sweep` the
sweeper's list, `phase` and `dying` the shutdown.

- *Threads.* `Take`, `Load` (rows are read before the run is marked running), `Start`, then for the
  next step of the plan `FailBeforeStep`, `SkipStep` or `BeginStep`, its outcome (`CompleteStep`,
  `Suspend`, `RefuseStep`, `FailStep`), after a failure `FailRun`, `EscalateFailure` or
  `ContinueOnFailure`, at the end `CompleteRun`; `Discard`, `Recheck`, `Reschedule` are the teardown.
  What happens inside a step (attempts, replans, policy checks, critique) is one of its `Outcome`s.
- *Handlers.* `ReadForResume`, `ReadForCallback`, `ReadForRetry` read and decide; `Approve`, `Reject`,
  `LoseClaim`, `RequeueFailed` write with what was read; `ApiSchedule` calls `schedule`. Handlers are
  coroutines with no await that yields between the first read and `schedule`
  (`commit_and_broadcast` never suspends), so there is one at a time, concurrent with threads and sweeper.
- *Sweeper.* `DeadlinePasses` is time; `Discover` and `TimeOut` are `sweep_once`.
- *Process.* `Shutdown` and `ShutdownMark` (threads go on meanwhile), `Restart` at any moment.

`Eager` says whether clients may act on a run whose last segment is still being torn down, and
`Graceful` whether the server may be shut down rather than only killed. They name the environments
in which a property holds; nothing in the code depends on them.

### EventStream

A writer's transaction is opened by `Emit` (the buffer of events), a claim then takes the lock of the
run's row (`LockRun`) or finds that it matched nothing (`Abandon`), `Number` assigns `max(seq)+1, ...`,
`Commit` makes the rows visible, and `Put`, `PutFull`, `MarkDropped` publish one event after the other.
The kind of a transaction says what it does: executor events (`step`) and an `answer` (callback or
rejection) are broadcast, a `resume`, `retry` and `timeout` are not, because `RunService` and the
sweeper ignore what `commit()` returns; `answer`, `resume` and `timeout` begin with a guarded UPDATE
and hold the row's lock while they number. A handler's other status changes are written by the flush inside
`commit()`, after the numbering, because its session is created with `autoflush=False`
(`db/session.py:23`). Sessions of threads flush what is pending when the numbering queries
(`scheduler.py:46`); the model leaves out the lock they may hold by then and so allows more interleavings. The WebSocket handler is `Subscribe`, `ReadSnapshot`, `SendSnapshot`, then
`Receive` and `Deliver` until `Close`.

### StepExecution and PiiTokens

An action is the code between two awaits (of a model, a tool, a backoff). `rows`, `status`, `escalated`
and `persisted` (the sum of the rows' tokens) are what a segment leaves to the next;
`began`, `used`, `slots` are the `BudgetTracker`, `minute` and `hour` the `RateLimiter`, `vault` the
`PIITokenVault`, all new in `Start`; `cur`, `attempt`, `replans`, `call`, `fault` are the locals of the attempt and
grounding loops.

- *Plan loop.* `PlanRun`, `BeginStep`, `FailBeforeStep`, `CompleteRun`, as in `RunEngine` but with the budget
  that decides between them.
- *An attempt.* `Unproposed` or `Propose` (grounding, declared tools, rate limit, budget, personal data), `Verify`
  with each of its verdicts, `Replan`, then `RefuseTokens` or `Dispatch`, `ToolReturns`, `Critique`. `Raise` is the
  `except` of the retry loop, `Refuse` a policy violation, `Escalate` a suspension before (`pre`) or after
  (`post`) the tool ran; `Handle` is `error_handling`, after the last attempt.
- *Between segments.* `Answer` and `Retry` do to the rows what `RunService` does; `Tick` is time, which may pass at
  every await.

`RunSpend` adds a ledger: `spent` is what all calls of a run took, whether or not a row tells the next segment of it.

A value in an argument is nothing personal, a personal value or a token. A token remembers the value it was
minted for, which no code looks at: that is how `TokensKeepMeaning` can speak of it. `by`, `as` and
`ran` are observations too.

`RunEngine` and `StepExecution` meet in `RunLifecycle`, which both are shown to implement: the first composes
segments with threads, handlers, sweeper and restarts and takes a step's `Outcome` as given, the second shows
how outcomes come about.

### Access

Handlers have no await and are one action each. Authentication runs before them on a thread and reads
the user's row into the identity map of the request's database session; `requests[r].row` is that snapshot,
and `Found` is what the handler sees when it asks for a user: the snapshot for its own, the table for others. What
is assigned is written column by column. `Login`, `Refresh`, `Logout` and `Callback` authenticate nobody and
have no snapshot. `ended` and `era` are history. A secret of a session is its generation; the provider's settings are
what its admin may give it, the claims of a sign-on any address, verified or not.

### Conditions and Flows

A condition is a sequence of tokens; `Evaluate` is the recursive descent of `_Parser` as a recursive function over
rule, position and value so far (`Method` is one method's body, given what the calls it makes leave), and `Meanings` the
grammar in the module's docstring as a relation over spans, which `EvaluatorIsGrammar` compares. A document is the
steps, fields, policies and lint overrides that compiler and linter look at; `Compiles`, `ToolsKnown`, `Findings`, `Kept`, `Suppressed`, `Blocking` are their
passes in order, and `Register` and `Update` store what `Accepted` lets through, together with what the language
model's critic said of it. One run goes through the stored document: every `Begin` reads the definition again, as
`execute_run` does.

## What TLC checks

| Run | Instance | Shows |
|---|---|---|
| `engine_settled` | 1 run, 2 threads, a plan of 4 steps with every outcome and every error policy, 2 client operations, 1 crash; `Eager`, `Graceful` false | `TypeOK`; a suspended row belongs to the suspension its run is in (`SuspensionsMatch`); neither a result nor an answered gate is asked for again (`AnswerNotRepeated`); the engine implements `RunLifecycle` (`ImplementsLifecycle`) |
| `engine_races` | 1 run, 2 threads, collect - approve - apply, 2 operations, 1 stop; clients during teardown, graceful shutdown | `OneExecutionPerRun`, `PassedInOrder`, `ResultNotRepeated`, `CompletedIsDone`, `QueuedIsOwned`: what holds in any interleaving; under fairness `QueuedIsPickedUp`, `LateSuspensionEnds` while the process lives |
| `two_suspended` | as `engine_races`, killed rather than shut down | violated: `AtMostOneSuspendedStep` |
| `early_timeout` | the plan of `engine_races`, clients after teardown, no stop | violated: `TimedOutWhenLate` |
| `skipped_rerun` | as `engine_settled`, no stop | violated: `SkippedNotRepeated` |
| `stream` | a thread, a handler, the sweeper; 3 events, batches of 2, a queue of 1, a replay of 2 | `TypeOK`, `NothingMissed`, `DropIsMarked`, `ClaimSeqMonotonic`, `MarkedDropIsTold` |
| `seq_twice` | the same writers, 2 events | violated: `SeqUnique` |
| `step` | a model step with a retry and an outbound step, replans to four other calls, 2 tokens, 1 or 3 steps, 2 ticks, both planner modes, 2 segments | `TypeOK`; `TokensBounded` and `StepCapHolds` over all segments; `CallRateBounded`; `EscalationAnswered`; `NothingLeaves`; `ImplementsLifecycle`; `SegmentEnds` under fairness |
| `run_spend` | as `step`, 3 tokens | violated: `SpendBounded` |
| `token_meaning` | two model steps and an outbound one, two personal values, 2 segments | violated: `TokensKeepMeaning` |
| `access` | 2 users, 2 requests under way, 1 subject, 2 sessions, 2 secrets each | `TypeOK` with the foreign keys, `LastAdmin`, `SessionsEnd`, `SubjectKeepsUser`, `OwnTierKept` |
| `documents` | about 2400 first documents, three that replace, rename or reorder them, 4 payloads | `TypeOK`, `EvaluatorIsGrammar`, `FaultWasOverridden`, `MalformedWasOverridden`, `RefsInScope`, `ProseEnforced`, `PoliciesAgree`, `NoBrokenOverride`, `CriticHeard` |

Every property of a passing run has a mutant: a plausible bug of the code, written beside the
definition it changes, under which TLC finds the property violated.

**Bounds.** Two threads are enough for every race of the pool on one run: a third can only stand
where one of them stands. One run is enough where properties are per run and runs share only the
pool. Several runs that compete for a thread are not in an instance (the theorems are for any runs and threads): the pool's
queue is first in, first out, a segment ends, and what can keep a queued run from a thread is what is in the run
already: a submission refused while a segment is torn down, and up to three segments of it on two threads. Two client operations per run
give every ordered pair of resume, rejection, callback, retry, with a timeout possible wherever the run
is suspended. One stop covers a crash at every point. Plans are short and have each
outcome and policy where it matters: before, at and behind a gate. A queue of one and a replay of two
rows reach "full" and "cut off" with three events. `MaxOps`, `MaxStops`, `MaxBatch`, `MaxEvents` are
the only counters capped there. In `step` two segments
give every pair of an ending and what a resume makes of it; a retry and a replan nest once, which is where their
counters could be confused; the caps are so low that each is reached, before and after a call, and the hour's
limit (3) is reached within a segment. The two ticks are enough to cross the rate window and the time budget.
`MaxSegments`, `MaxClock`, `MaxCallCost`, `MaxToolCost` cap the counters. In `access` two requests are what it takes
for two admins to act on each other; a third user or session adds no new pair. `MaxSessions`, `MaxGen`, `MaxEnds`, `MaxClock` are the
caps; once `ended` is at its cap nobody can be signed out, which loses only second times. In `documents` conditions are all sequences of
up to three tokens over seven, and three operands under every pair of connectives; references are every way two steps can refer to
each other, to themselves, to a step that is not there, to the form and to a secret. Symmetry is over the requests
and over the ids of flows. Deadlock is not checked because a system with no request left is at rest.

**Fairness.** `engine_races`, `stream` and `step` run under it. `WF` of each thread's step (threads run on, tool calls end), of an admitted handler's
step, and of the sweep job (APScheduler runs it on an interval). Clients, time and the process's end
are not fair. In `EventStream`: each writer's transaction ends, and the handler's loop turns, at
the latest when its 30 s keepalive times out. In `StepExecution`: `WF` of the segment's next action, because model calls
and tools have timeouts and a backoff is a sleep; which verdict or result comes is not fair. `Access` and `Flows` state no fairness.

**Findings.**

1. `two_suspended`: `schedule` and `execute_run` never look at the status, so a submission that has
   become obsolete executes a suspended run, which then has two suspended rows although
   `step_repository.py:108-110` says there is at most one.
2. `early_timeout`: the sweeper's guard is the status alone; a run that was answered and suspended anew
   since it was read is failed though its new deadline is ahead.
3. `skipped_rerun`: a skipped step is evaluated again by the next segment although
   `executor.py:606-607` says it is marked so that it is not.
4. `seq_twice`: two transactions read the same `max(seq)`; `README.md:35` of the repository promises a
   monotonic per-run `seq`. The trace is a thread that commits `run.failed` after the failed status
   while a handler already retries the run.
5. `run_spend`: a segment starts from the sum of the rows' tokens, in which the calls of planner, verifier and critic are
   not, nor what an attempt took before the next one overwrote the column; `executor.py:424-427` and
   `budget_tracker.py:64-66` say budgets are per run and every attempt spent real tokens. In the trace a plan and an
   escalating verification are forgotten, and the resumed segment spends the cap again.
6. `token_meaning`: a segment's vault is new and numbers tokens from 1, restored results hold the tokens of the
   segment before; `pii_token_vault.py:43-44` says one vault per run and one token per value in a run. In the trace the
   second model step's argument takes the first one's token, and the outbound step sends the wrong value. Where no
   token is carried over it cannot happen (`TokensKeptInSegment`).

Met on the way, and stated by no property because no doc promises otherwise or the model has it as it is: the
`PolicyViolation` that `policy_engine.py:38` raises is not the class of that name that `executor.py:91` catches, so a
refused detokenization is retried like any error (`RefuseTokens`). A failed AI
operation's tokens, or its JSON repair's, are recorded nowhere. A replanning model may answer with another step's id, and
the call is then charged to that step's row. A request of an admin who is disabled meanwhile is still carried out;
`ChangePassword` verifies against the row as authenticated. A response of `refresh` that is lost, or a second tab with the
same cookie, looks like a replay and ends the session. Linking by address does not ask whether the account is
active. A reference written `$step( 'x' )` passes the linter and the condition grammar and is left as it is by
the templates; a blank `if` passes and fails the run. So do an `if` that is a literal of YAML (`if: true`: it evaluates, and
`render_condition` then wants a string, `executor.py:1823`), the params of `artifact.store` and `artifact.retrieve`, which
no rule reads (`tool_params.py:40`), and a list or an object where a tool's schema has an enum (`tool_params.py:113-114`):
`FaultWasOverridden` and `MalformedWasOverridden` name them as their exceptions. A payload is never compared with the form. A finding of the
language model that restates a rule's finding is dropped even if that one is then suppressed.

## What is proved

For any plan, set of runs and threads, bounds and environment (`PlanAssumption`, `BoundAssumption`):

- `TypeCorrect`: `Spec => []TypeOK`. `TypeOK` is inductive by itself; besides types it says that a thread
  at a step finds the step's row.
- `OneExecution`: `Spec => []OneExecutionPerRun`, inductive together with `TypeOK`. A run enters the queue
  only through `Schedule`, which refuses what is held; a thread lets go of `held` only when it has left
  execution. The three conjuncts need one another: the second is kept by `Take` only because no queued
  run is in a thread.
- `NoLostWakeUp`: `Spec => []QueuedIsOwned`, inductive together with `TypeOK`: a run queued while its thread
  is at teardown is seen by that thread's `Recheck`, which comes after the `Discard`.
- `StepsInOrder`, `ResultsNotRepeated`, `CompletedRunsAreDone`: `PassedInOrder`, `ResultNotRepeated`, `CompletedIsDone`, with
  `Eager` and `Graceful` either way. A table changes in four ways only: it stays; a thread appends a
  row for the first step it has left; a thread sets the row it is at, which is running; a handler or the sweeper
  sets rows that are suspended or timed out. None of them unsettles a settled row, so what a thread
  knows of its run's table (`OrderKept`: the steps it takes for done are settled, the row it is at is the last)
  stays true although handlers and the sweeper write to that table under it. Without that clause the thread's next
  append could skip a step.

Where clients wait for a teardown and the process is killed rather than shut down (`~Eager`, `~Graceful`; kills, restarts,
retries, rejections, timeouts and duplicate callbacks remain):

- `SuspensionsKept`: `Spec => []SuspensionsMatch`, from `Calm`: the queue holds queued runs only, each thread
  stands where its run's status says, and what a handler read is still true unless the sweeper came first. The run
  `two_suspended` shows that the first condition is needed; the second is, because `shutdown` marks a run failed
  whose thread goes on and may suspend it (TLC finds this with `engine_settled` under `Graceful`).
- `AnswersNotRepeated`: `Spec => []AnswerNotRepeated`.
- `LifecycleImplemented`: `Spec => ImplementsLifecycle`. Every action is shown to be a step of `RunLifecycle` or a stutter; what
  needs the invariants is that an action that looks like one of an earlier or later stage cannot occur.

For any writers, queue capacity, replay limit and bounds (`StreamAssumption`):

- `StreamTypeCorrect`: `Spec => []TypeOK`.
- `DropsAreMarked` and `NoEventMissed`: `Spec => []DropIsMarked`, `Spec => []NothingMissed`, from `FlowInv`,
  which adds `WriterInv`: what a writer still has to publish is in the table (so a gap message covers it), an
  event whose mark is not set yet is lost or covered, and the handler holds nothing between two
  events. Without the first, the gap message sent between `PutFull` and `MarkDropped` would not be known to
  cover the dropped event.
- `ClaimSeqGrows`: `Spec => ClaimSeqMonotonic`, from `LockInv`: a claim owns the row from its UPDATE to its
  commit, and once numbered its events are above those of every earlier claim.

For any plan, budget, limits, tools, values and number of segments (`PlanAssumption`, `BoundsAssumption`,
`PiiAssumption`), from the inductive `IInv` of `StepExecutionProofs`:

- `BudgetKept`: `Spec => []TokensBounded`, over all segments. The strengthening says that the tracker counts at least what the
  rows hold (`Counted`), where the budget was found to have something left and what may have been spent since
  (`Budgeted`): less than the cap at the verifier and the critic, one call more when the tool runs. Without it a step could
  start anywhere above the cap. The property is about what is counted; `run_spend` shows what is not.
- `HumanDecides`: `Spec => []EscalationAnswered`, from `Approved` (what approves a step in this segment is an approval row
  of an earlier one) and the fact that approval rows never change.
- `DataStays`: `Spec => []NothingLeaves`, from `RowsInv` (every row alone keeps it) and `Checked`: a form field that reaches the
  tool passed the policy check under the same call. A step's output needs no check, being no raw value.
- `RateBounded`: `Spec => []CallRateBounded`. The limiter counts proposals, the property counts runs. `RateInv` pairs
  the runs of a tool with the record's calls, both counted from the latest: a run is no later than the recorded call that
  came after it (than its own, while the latest call is in flight), or a window old if the record no longer goes back that
  far. A proposal that is abandoned only makes the record longer; a proposal that waits for
  its verifier runs late, which is where the one extra run comes from.
- `TypesHold`: `Spec => []TypeOK`. The clause that is no type is `persisted \in Nat`: usage is added to a row by
  subtracting what it held. `PersistedIsSum` names the function of running sums over the rows, which each action changes at one
  position, so no induction over the rows is needed.
- `StepsImplementLifecycle`: `Spec => ImplementsLifecycle`, step by step. What a segment's action does to rows, status and
  loop takes one of seven forms (`SegmentForm`): it moves within an attempt, fails it, ends the run, completes the step, passes a
  failure, leaves the run, begins a step. `LifeInv` is shown form by form: at most one row awaits an answer, and that in a suspended
  run; data and answers are in completed rows; the row in progress fits where the segment is; what `done` says is settled in the
  table, so a segment that begins with what it restores goes on where the last one ended.
- `CapKept`: `Spec => []StepCapHolds`, from `CapInv`: the completed rows do not outnumber the tracker's steps while a segment
  is under way, and a suspended run has a step to spare, because the check came before the row was begun.
- `TokensKeptInSegment`: `Spec => [](NothingCarried => TokensKeepMeaning)`, the scope of `token_meaning`: as long as no result of an
  earlier segment holds a token, every token is replaced by the value it was minted for, after retries and replans too. By
  `TokenInv`: a token in a row of this segment is one that this segment's vault maps to its value, and the vault only grows. Within the
  bounds of `step` no segment mints tokens for two values before a call goes out, so this one is a theorem only.

For any documents, payloads and results (`DraftsAssumption`), from `FlowsInv` and `RunInv` of `FlowsProofs`:

- `OverridesAreReal`, `PoliciesKept`, `ProseHolds`, `CriticIsHeard`: each of `NoBrokenOverride`, `PoliciesAgree`, `ProseEnforced`,
  `CriticHeard`. They rest on one lemma (`FoundIsIgnored`): what the rules find at a step of a stored document is in that step's own
  `lint_ignore`. It needs that no two steps have one id, which the compiler checks by counting.
- `RefsStayInScope`, `FaultsAreOverridden`: `RefsInScope`, `FaultWasOverridden` (what grounding finds is overridden, or where no rule reads), through
  replacements of the flow while a run goes on:
  the invariant is that a segment's steps are those of some document that passed the gates, which the flows
  table guarantees at `Begin` and nothing changes until the next.
- `DocumentsTyped`: `TypeOK`, with the names unique.
- `MalformedAreOverridden`, `ConditionsMeanWhatTheySay`: `MalformedWasOverridden`, `EvaluatorIsGrammar`. What is overridden is the
  code the condition is reported with, `CONDITION_ARITHMETIC` or `CONDITION_PARSE_ERROR`. The linter parses with every
  reference null, the run with what they are by then; what bridges the two is `ParsedStaysParsed`. That every reference has a value
  is `RunInv` (results and payloads are values; a secret that is gone raises).

For every condition, of any length, over any references and with any values for them (`ConditionsProofs`):

- `EvaluatorIsRight`: what `_Parser` evaluates is the one value the grammar gives, and an error where the grammar gives none. Soundness: a
  method that returns has read a phrase of its kind, the loops having read a prefix that the value so far stands for. Completeness: a method
  called at the start of a phrase reads to its end, unless what follows goes on; parentheses close inside a phrase, so a phrase
  is split at the right operator. The grammar being unambiguous follows, since there is one evaluation.
- `ParsedStaysParsed`: two evaluations of the same tokens keep the same positions and errors, until one meets a reference that raises:
  no method looks at a value to decide what to read next. This is the case because both operands of `&&` and `||` are always read.

Both functions are recursive, so both results need induction. The library's induction theorems take an operator and cannot be used
here; `SmallestOf` gets the smallest number of a set from the well-founded inclusion of finite sets, and `AllNumbers`,
`CallInduction` and `RangeInduction` follow, stated with sets in the place of predicates: over the calls by position (later first) and then by
rule, over spans by width and then by kind. That the functions exist and satisfy their equations (`ReaderExists`, `GrammarExists`) is
proved the same way.

For any users, subjects, requests, provider settings and bounds (`AccessAssumption`, `RequestAssumption`), from the
inductive `IInv` of `AccessProofs`:

- `TypeCorrect`, `AdminLeft`, `EndedForGood`, `OneUserPerSubject`: each of `TypeOK`, `LastAdmin`, `SessionsEnd`,
  `SubjectKeepsUser`. `AdminLeft` needs that a request was authenticated as an active user and that the target of a
  stale guard is another row than its own: with the count read afresh, somebody active remains either way.
  `OneUserPerSubject` needs that a session's subject is linked, to the session's user, and links are never removed.
- `TierOfOthersOnly`: `Spec => OwnTierKept`, the action property.

The assumptions on constants are evaluated by TLC on every run. Every invariant and action property of the passing runs is proved. Only
model-checked is what is promised under fairness (`QueuedIsPickedUp`, `LateSuspensionEnds`, `MarkedDropIsTold`, `SegmentEnds`): liveness and
ENABLED are outside what TLAPS 1.4 proves. The refinements are proved for the safety part, which is all that `RunLifecycle` promises.

## Abstractions

- Payloads, prompts, names and durations are left out; in `RunEngine` a step's output is what later code can
  tell apart: truthy, falsy, an answer, an approval.
- The cost cap is a second token cap (`check_budget` compares both alike) and is left out of `StepExecution`.
- The planner is deterministic: a segment's plan is the workflow's steps that were not restored. An
  agentic planner is taken to propose the same plan again.
- A gate's own step only suspends (`executor.py:1170-1175` dispatches it before tools and policies).
- A planner or flow that cannot be loaded fails the run like the outcome `blocked`.
- Isolation is READ COMMITTED; a guarded UPDATE is atomic with its transaction. A sweep is one
  transaction per run in the model and one for all in the code; the first is the finer.
- Requests that are refused change nothing and are no actions. Who may call (owner, approvers, roles,
  tickets) is not modelled.
- A lost database, and an exception that escapes `execute_run`, are not modelled.
- One WebSocket connection; a reconnect is a new one. A commit that waits for the row's lock at its
  flush is a delay and no state.
- `NothingMissed` is about replays below the limit: a run with more than 500 events loses those between the
  500th and the subscription without a gap message. A drop marked after the queue was emptied is
  announced with the next event only, which is how `MarkedDropIsTold` is stated.
- `StepExecution` follows a run alone: threads, handlers, crashes and the sweeper are in `RunEngine`; gates, guards and
  webhook waits are there and in `Flows`. A tool's result carries tokens its argument did, or nothing personal.
- In `Access` one identity provider and, per request, one snapshot; rows of other users are read when the handler runs.
  A unique column that would be violated makes the transaction fail and is a refusal.
- In `Flows` a `condition`'s tokens are given: the tokenizer is not modelled, and an unknown character is the token `BAD`, or `ARITH` if it is arithmetic. Values
  are 0, 1, booleans, null and ten words in Python's order. `PoliciesAgree` takes a default for one value on both sides, so
  it does not show that compiler and engine name the same number; `ProseEnforced` speaks of the lists whose sizes the linter
  reads out of the prose.

## Not modelled, and the plan

`RunEngine`, `EventStream`, then `StepExecution` with budgets, rates and tokens, `Access`, and `Conditions` with
`Flows` are done, in this order of importance, and every invariant is a theorem. What is
left, in the order in which it matters:

1. `RunEngine` under `Graceful`. The order, the results and the types survive a shutdown whose threads go on, they are proved for
   either value. `SuspensionsMatch` does not: a thread suspends its run after the shutdown began and before it is marked failed, so
   the failed run owns a suspended row. Nor does `AnswerNotRepeated` with two stops and three operations: that run is retried
   after the restart and suspends again, and the answer resolves the older row. What is left of the life cycle is open.
2. WebSocket tickets; an agentic plan that is not the workflow's.

Not modelled: the detector's patterns, the event sanitizer and secret scrubbing (text processing, whose
correctness is that of regular expressions); YAML parsing, the document's schema beyond what the passes above look
at, the graph; prompts and the parsing of models' answers; what a single tool does outside; OIDC's protocol, hashing
and encryption (libraries); read endpoints; telemetry and error enrichment (no state); the frontend (a client whose state
nothing on the server relies on).

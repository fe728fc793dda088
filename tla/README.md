# Verification of OperationsAgent

OperationsAgent collects content from social platforms. A **central server**
(FastAPI, SQLAlchemy, SQLite or PostgreSQL) keeps a queue of jobs; **local
agents**, one asyncio program per employee machine, claim jobs, drive a browser
with one of the employee's accounts, and report what they found. This directory
holds TLA+ models of its core, the TLC configurations that check them on small
instances, and proofs of the most important invariants for every instance.

Paths below are relative to `src/`; `ie/` stands for
`central_server/intelligence_engine/` and `la/` for
`local_agent/local_agent_runtime/`.

## 1. The system

### Components

| Component | State | Operations | Correct if |
|---|---|---|---|
| Job queue (`ie/storage/repositories/job_repository.py`, `ie/jobs/state_machine.py`) | rows of `jobs`: status, pinned agent, owner, claim deadline, start date, retries, checkpoint | create, claim, start, progress, complete, fail, pause, resume, cancel, retry, requeue, recover | an active job has one owner and only that owner's callbacks count; nothing active escapes recovery; retries stay in budget; an account's work stays with those who may do it |
| Maintenance (`ie/jobs/maintenance.py`) | none | expire claims, recover stale jobs, expire logins, refresh runs | what dead agents leave behind ends |
| Task runs (`ie/services/task_materialization.py`) | rows of `task_runs`: status, counts, finish date | run a template, refresh, retry a run | the aggregates follow the jobs |
| Account logins (`ie/services/account_login_service.py`, `la/account_login_executor.py`) | rows of `account_login_sessions`, `auth_status` and debugging port of accounts | start, reset, reroute, claim, report, bridge sync, expire | every login ends and takes its account along; ports are shared, and logins leave their agent, in known ways only |
| Outbox of an agent (`la/storage/gateway.py`) | rows of `ingestion_outbox` | queue a failed report, replay | nothing is lost; what is queued is replayed or replaced |
| Agents, accounts, employees (`ie/storage/repositories/account_repository.py`, `ie/api/account_access.py`) | heartbeats, status, assignment, ready sessions | register, heartbeat, put offline, assign | claims respect them |
| Job loop of an agent (`la/runtime.py`), account protection (`la/engine/account_risk.py`) | batch in hand; per account: budget used, backoff | poll, wait, execute, report | pauses are kept, budgets hold, work is not done twice |
| Ingestion, assignment and reference library (`ie/storage/repositories/content_repository.py`, `workflow_repository.py`, `reference_library_repository.py`, `ie/services/benchmark_selection.py`) | contents, their latest snapshot, user, decisions, detail jobs, library items | ingest feeds, details and comments; assign; select by hand or by rules; archive; promote local contents | reports, repeated and overlapping, undo nothing that people have decided, and ask for a detail once |
| Local tasks (`la/local_tasks.py`, `la/storage/workspace_repository.py`) | rows of `collect_task`, two tables in memory, coroutines | submit, run, resume, pause, cancel, schedule | a task that is due is executed; what is shown as running is worked on |
| Schedules (`task_materialization.py:187`) | next run of each schedule | materialise what is due | one run per due date (not modelled) |

The remaining parts (definition of rules, tags, organisation, front ends,
connectors, media, tools, the vendored crawler) keep records or do input and
output; `PROJECT.json` lists them with the reason they are not modelled.

### How they interact

The agents call the server over HTTP; the server never calls them. Every request
is one database transaction, run in a thread of its own with its own session and
without row locks or version columns. An agent is one event loop: it sends a
heartbeat if due, replays its outbox, takes at most one login, claims a batch of
jobs and works on them one by one. The maintenance pass is a script that
somebody schedules. Operators act through the web front end at any moment.

### What is hard

* **Interleaving.** Handlers of the server overlap; a status is checked on the
  copy a handler has read.
* **Stale callers.** Agents pause, die and return; their callbacks arrive after
  the job was expired, retried or given to another agent.
* **Partial refreshes.** Run aggregates are recomputed by some operations only.
* **Lost answers and deaths.** A report can be ingested without the agent
  learning of it; a process can die between two of its steps, and the call that
  reports a failure can fail itself.
* **Two threads of control in one process.** The local page is served by threads
  that share tables with the event loop.
* **People and machines on one row.** Reports assign contents and select library
  items that operators assign and select at the same moment.
* **Limits.** Retry budgets, batch sizes, 200 debugging ports, 20 replayed rows.

`PROJECT.json` lists each hazard at its line, with the properties that watch it.

## 2. The modules

| Module | Models | Checked by |
|---|---|---|
| `JobStateMachine` | the statuses of a job and the permitted moves | all of the below |
| `JobLifecycle` | abstract: the life of jobs, whoever works on them | refined by `JobQueue`, used by `TaskRuns` |
| `JobQueue` | `JobRepository` and what it depends on; one atomic action per operation | `job_*` runs, `JobQueueProofs` |
| `JobTransactions` | the same handlers as two steps, read and commit | `tx_*` runs, `JobTransactionsProofs` |
| `TaskRuns` | runs and their refreshes, over the jobs of `JobLifecycle` | `task_runs`, `TaskRunsProofs` |
| `LoginSessions` | logins of accounts, with the executor of the agents and the bridge | `logins`, `login_end`, `LoginSessionsProofs` |
| `Outbox` | the outbox of one agent, its process and the server's outages | `outbox`, `outbox_poison`, `OutboxProofs` |
| `AgentLoop` | the job loops of several agents with account protection and local runs, composed with `JobQueue` | `agent_loop`, `AgentLoopProofs` |
| `LocalTasks` | the tasks of an agent's own page: request threads, scheduler, executions | `local_tasks`, `LocalTasksProofs` |
| `Contents` | ingestion, assignment, detail jobs and the reference library | `contents`, `ContentsProofs` |

The `MC...` modules only add the instances for TLC.

### JobQueue

Each column of `jobs` that a decision looks at is a variable: `status`,
`localAgent` (the pin), `claimedBy` (the owner), `claimExpiry`, `startedAt`,
`retryCount`, `checkpoint`. Dates are only ever compared with the clock, so
they are "none", ahead or past, and `ClaimLapses` and `RunGoesStale` are the
clock. `manages` and `ready` stand for what `_agent_can_run_job` reads of
employees and account sessions. It also asks whether the agent is "retired", but
no agent ever is: `update_local_agent` overwrites that status in the same request
(see "Disagreements found"), so the model has no such state. Any agent may call any
callback for any job it was ever handed (`held`): this is what late and repeated
callbacks, and those of restarted agents, amount to. `Claim` is the whole of
`claim_jobs_for_agent`: it requeues expired claims, returns nothing to a busy
agent, takes the candidates in order of rank within the window of
`WindowFactor * MaxJobs` rows, filters them, and hands out the first `MaxJobs`.
`Complete` has the two results that an agent sends, success and partial success;
the request's schema would let a caller name any other status that is permitted
from "running", which no part of this repository does, and which the moves of
`Pause` and `Fail` and their consequences cover in part only.

### JobTransactions

A handler reads rows into copies, decides, and writes at commit only the columns
it has changed, as the ORM does at READ COMMITTED. `work[s]` is what session `s`
is about to write; `Commit` writes it over whatever is there by then, `Abort`
covers refusals and errors. The filter of a claim is left open here.

### TaskRuns

`status` is the abstract queue; the operations of this module are the calls
that do, or do not, call `refresh_task_run`. `Refreshed` is that function.

### LoginSessions

The rows of the session table in order of creation, `auth_status` and port of
the accounts, and per login the `stage` of the executor working on it. Most
requests run `expire_stale_sessions` first; `SeenLogins` and `SeenAccounts` are
the tables as it leaves them.

A request that decides by what it has read is two steps of a session in `open`:
starting a login, offering one again (`ReuseLogin`, `RerouteLogins`), claiming
one, and finding a port for the bridge. The first step reads and decides, the
second writes the columns that the handler has changed, whatever others have
committed in between: a claim writes the agent only if it saw another, a start
writes the port it found although another account may have it by now. The rows a
start ends are locked by its own flush, so that ending them belongs to the commit;
so do expiry, reset, the bridge's status and the agent's reports, which are single
steps. When two claims of one login overlap the later commit wins, and the earlier
claimant's reports are answered "not found"; `stage` is that of the standing
claim. A bridge names any port, and the server takes it (`SyncNamed`).
`StartRequest.holders` and `PortRequest.holders` are history: who had the port
when the request looked. Agents put offline by an administrator are `Silent`.

### Outbox

The rows in order of creation, the report `hand` being sent, the `batch` being
replayed, and whether the server is `up`. A report is its number: the n-th of
its job. A failed request may or may not have been ingested. The six operations
the replay knows behave alike and are one; the two it does not know are one.

### AgentLoop

`Queue == INSTANCE JobQueue` is the server; an agent's call is `Fails(call)`:
it raises, and the server may or may not have acted on it. `phase` is the point
of `_handle_job` an agent has reached: waiting for the account, refused by its
budget, admitted, executing, reporting, in the exception handler, telling the
server. `runningIds` is what heartbeats name, `openRuns` and `cooling` are the
tables of the local database, which survive `Crash`. Whether the budget refuses
a job, and whether a failure leads to a cooldown, is left open (the daily count,
the minimal interval and the lengths of cooldowns are arithmetic over them);
that a cooldown is stored, waited for, and ended by the clock only, is not.

### LocalTasks

A request of the local page is a thread of the bridge with its next statement
(`requests`): `submit` and `run_task` look an id up, create a coroutine and
record its future in three steps; `pause_task` and `cancel_task` mark the row and
cancel the future in two. The loop is left only where a coroutine awaits, so its
steps are coarser. A round of the scheduler takes up `DueLimit` tasks (20 in the
code). `Fail` is a write of an execution that the local database refuses: the
marking of the row, the insertion of its run after that, or the writes of its end.
A refused read of the scheduler ends `run_forever`, which catches nothing, and
with it the agent's loops; it is not modelled. `ids` and `futures` are `_running_task_ids` and
`_running_futures`; a future's callback runs when it is cancelled or ends.

### Contents

`rows[c]` is what the handlers read back about a content: its user, whether it
has a snapshot and a decision, its active detail jobs and its active library
items with the lock of a selection by hand. A handler that reads and writes is
two steps of a session (`Read`, then one commit), so that two of them overlap;
`stale` remembers that another commit came in between. The selection by the rules
is a second transaction (`Second`, `ReadAgain`), after a feed on every candidate
and after a creator monitor on those with a snapshot. Who saw no active item is
answered with one created meanwhile, unchanged, or refused by the index, if the
other commits between `create_item`'s own look and its insertion. What a rule takes, what a
policy asks for and what a decision says is left open.

## 3. The runs

| Run | Instance | Shows |
|---|---|---|
| `job_safety` | 2 agents, 2 jobs, 1 retry | typing, ownership, deadlines, batch bound, fencing of callbacks, refinement of `JobLifecycle` |
| `job_accounts` | 2 agents, 1 job of an account, 2 retries, 1 resume | retry budget; authorisation while agents are moved between employees; dead agents' claims and runs end |
| `task_runs` | 2 runs, of 2 jobs and of 1 | verdicts are not early; runs close and reopen |
| `tx_safety` | 2 sessions, 2 agents, 1 job | typing and recoverability under column-wise races |
| `tx_double` | as above | **violation**, see below |
| `logins` | 2 accounts of one seed, no agents, 3 ports, 2 logins, 2 requests at a time | two accounts get one port only from a bridge or by overlapping searches |
| `login_end` | 1 account, 2 agents, 1 login, 2 requests at a time, deaths | a login stays with the agent that came for it unless a commit was overtaken; its end takes the account along; it ends |
| `outbox` | 3 jobs, 2 reports each, 1 death, flushes of 3, 2 unreplayable rows | nothing lost, nothing marked early, no report stays pending |
| `outbox_poison` | 3 jobs, flushes of 2, 2 unreplayable rows | **violation** |
| `agent_loop` | 2 agents and 1 job that operators pause and resume; 1 agent and a batch of 2 | no double execution unless the row was taken; cooldowns survive deaths; local runs, running ids and claims end |
| `local_tasks` | 1 scheduled task, 2 threads, 2 executions, crashes, refused writes | no id stays behind; a row shown as running is worked on or was cut short; a due task is executed |
| `contents` | 1 content, 2 sessions, 2 users, 2 items, 2 detail jobs | one active item; locks, assignments and detail jobs survive reports |

### Bounds and why they suffice

* `MaxRetries`, `MaxResumes`, `MaxCount`: the budget comparisons are `<`; one
  below, at and one beyond the budget occur. The theorems lift these bounds.
* Two agents: the interesting cases are an owner and another; a third agent
  could only repeat the second's part. One job suffices where jobs do not
  compete for an agent; `job_safety` has two for the batch bound, with
  `MaxJobs = 1`.
* Two sessions: every race in the handlers is between a reader and one writer;
  the proof is for any number.
* `MaxLogins`: two logins in `logins` leave a forced login's port behind. With
  three ports for two accounts each search finds another one free, and a bridge
  can use the range up, which in the code has 200. One login in `login_end`: reports,
  reroutes and claims are about one login each, and a successor shares with it only
  the account, on which `NoOrphanPending` asks for the last one; the proofs are for
  any number.
* `Requests` of `LoginSessions`: two give each reader a writer; the proofs are for
  any number. `BridgeReports`: the status that a bridge reports is irrelevant to
  ports (`logins` has one); `login_end` has one of each way to treat a login.
* `Limit` stands for the 20 rows of a flush: with one unreplayable row fewer
  (of unknown content, or refused by the server) the flush still reaches one
  other, with as many it does not.
* `MaxReports = 2`: a second failure meets the row of the first. `MaxCrashes`
  bounds the deaths; at liveness this is the assumption that they cease.

* `Workloads` of `agent_loop`: which agents run, which jobs are submitted and
  which operators attend to. Two agents for one attended job give the races
  between an old and a new owner; one agent with two jobs gives the dropped batch.
* `local_tasks`: a second execution of a task arises from two threads, or from a
  thread and the scheduler; a third meets the same tables. One task suffices: the
  tables are per task, and a round of the scheduler only holds the loop. The
  limit of a round (`DueLimit`) matters to several due tasks only, the least
  recently run of which come first; the proofs have any number and any limit.
* `contents`: handlers of different contents share no row. A second item only
  exists after the first was archived. Two sessions give every reader a writer;
  the proofs are for any number.

### Fairness

* `JobQueue`: the clock (`ClaimLapses`, `RunGoesStale`), the maintenance script
  and the polling of *some* agent. Nothing is assumed of an agent that holds a
  job, nor of operators; `DeadAgentsClaimsEnd` covers exactly the agents that
  do not poll any more.
* `TaskRuns`: the maintenance script.
* `LoginSessions`: the clock, expiry (maintenance and every look-up perform
  it), and the end of an executor's work: it observes for at most 600 seconds,
  which is the strong fairness of `GiveUp \/ CompleteLogin`, and then makes one
  last report that may get lost. A request that has read commits or fails. User
  and operators owe nothing.
* `Outbox`: requests end (client timeout of 60 s), polls continue, and a poll
  gets to its flush while the server answers heartbeats. `QueueDrains` assumes
  in its statement that the server stays up in the end.
* `AgentLoop`: handling goes on (requests have timeouts, executions end),
  cooldowns end by the clock, claims lapse by the clock, agents keep polling,
  deaths cease, and of an agent's non-empty answers to claims not all are lost
  (the one strong fairness).
* `LocalTasks`: threads and scheduler go on; an execution that can move again and
  again between the rounds of the scheduler moves (strong: the loop serves first
  come, first served); deaths and refused writes cease, and no round of the
  scheduler fails, since `run_forever` would not survive it.

### Disagreements found

Two runs show that the code does what its documents exclude:

* `tx_double`: two overlapping claims hand the same job to two agents, and both
  execute it (`p2-acceptance-runbook.md:121`: no job is executed by several
  agents). `agent_loop` shows the other side: while claims are served one after
  the other, double execution takes a row that was paused or timed out at work.
* `outbox_poison`: rows queued for unknown content can never be replayed, and
  20 of them block the outbox for good (`la`'s README promises the retry).

Behaviour met while modelling that a reader should know of; the models contain
it, and the properties are stated around it:

* Logins: a late progress or success report revives a cancelled or expired login
  (`account_login_service.py:299`); each forced login uses up a port for good (`:67`).
  Two requests that look for a port at the same time give one port to two accounts,
  and a bridge may name a port that is another's (`:49`, `:349`); `PortsPrivate`
  shows that nothing else does. A reroute (or a second start) that overlaps a claim
  leaves a login with one agent in `agent_id` and another in `claimed_by_agent_id`
  (`:217`, `:290`), and the session it makes ready is booked on the former;
  `ClaimedByItsAgent` shows that nothing else does.
* Agents: retiring one is never stored. `update_local_agent` sets "retired" and then
  calls `sync_agent_presence`, which puts the row "offline" before the commit
  (`product_account_routes.py:65`, `agent_presence.py:34`); the checks for "retired"
  in the claim paths never fire, and the agent's next heartbeat puts it online.
* Agents: the answer to `complete_job` may be lost, then the server has a success
  and the agent a failure and a cooldown (`runtime.py:972`). A cooldown is a
  matter of one agent; another agent with the same account does not see it. A
  cooldown longer than the 300 s of a claim means a refused start, and the job
  goes round. The backoff overflows a float after 1025 failures in a row
  (`account_risk.py:189`).
* Local tasks: two requests, or a request and the scheduler, may execute a task
  twice; a pause that comes before an execution has begun leaves the row
  "running", and one that comes as it ends is overwritten; the scheduler executes
  a task that was paused after it had listed it; rows that a crash, or a refused
  insertion of the run (`local_tasks.py:145`), left "running" are never due again.
* Contents: an operator's selection or assignment that falls between a report's
  reads and its commit is lost, which is why `ManualChoiceHolds`,
  `AssignmentHolds` and `OneDetailJob` name `StaleCommit`. Editing an item may
  drop its lock. A content that is known but was never fetched gets no detail job
  from feeds any more.

## 4. The proofs

TLAPS checks the theorems for all values of the constants, under the named
assumptions only: the agents, jobs and other sets are arbitrary (finite where
something is counted), `NoAgent` is no agent, and limits are natural numbers.

**JobQueueProofs.** `ActiveJobsOwned` is not inductive alone: a start needs to
know that the caller it lets through is the owner, hence that a claimed job has
one and that it is pinned to it, and a return to the queue has to release both.
The invariant `TypeOK /\ ActiveJobsOwned /\ QueuedJobsUnowned /\
ActiveJobsRecoverable` is (`OwnershipHolds`), with one step per
operation. From it follow the action properties: `CallbacksAreFenced`,
`LiveClaimsAreKept` and `AccountWorkIsAuthorised`. `RetryBudgetIsKept` relates
the retry count to the number of resumes in every state, `AgentBatchIsBounded`
counts an agent's active jobs with the theorems on finite sets: a claim is given
only to an agent without any, and no other operation gives it one.
`LifecycleIsKept` is the refinement: every step of `JobQueue` is a step of
`JobLifecycle` or leaves `status` alone. `ResultsAreFinal` follows from it:
success and cancellation are for good, while a partial success may be resumed and
a job may be cancelled, or fail while it is only claimed, without having been
started. `QueuedJobsUnowned` is needed for the induction only: the next claim
overwrites the owner column anyway. A claim is a relation on two sets, a window of
candidates and the jobs picked from it; `ClaimsHaveOneAnswer` shows it total and
deterministic, so that `JobQueue` leaves nothing open there that the code decides,
`ClaimsKeepTheOrder` that no job is overtaken by one of lower priority, and
`ClaimsFindWork` why a claim may be empty. These rest on the first jobs by rank
being determined (`LeadingPartExists`, by the largest leading part that fits, and
`LeadingPartUnique`). `RecoveryLeavesNothing` is what recovery does at one stroke.

**TaskRunsProofs.** `ClosedRunsDated` is inductive with the types: a refresh
either leaves verdict and date alone (a paused job decides nothing) or sets both.
`NoVerdictIsEarly` follows from the cases of `Verdict`.
`RefreshIsIdempotent` shows that refreshing twice on the same jobs is refreshing
once. `PassesSettleRuns` covers what `ViewRun` does not see: after a maintenance
pass or a listing every run is closed if its jobs have ended and open if one has
not. `RunTalliesAddUp` needs no more than that the statuses counted exclude each
other and that a count of a part is at most the count of the whole (finite sets);
`RunsFollowLifecycle` is the refinement of the second module that has job
statuses of its own, and `LifecycleKeepsEnds` a fact about `JobLifecycle` alone.

**JobTransactionsProofs.** For `ActiveRowsRecoverable` the invariant has to say
what *open sessions* hold: `RecoveryInv` adds `WritesSound` (a handler that is
about to write an active status writes the matching date in the same commit,
because a date it has just computed differs from any it has read, and no
handler erases a date without also writing a status that does without it) and
`GrantsToAgents`. Then a commit over any row keeps the property, whatever was
committed in between.

`NoDoubleExecution` is false of `Spec`. `SerialHandlersExecuteOnce` says what
makes it true: that no two sessions are open together (`OneAtATime`, as a
write lock on the database, taken before the rows are read, would have it). Its
invariant says of the change that the one open session carries that it still is
a move of the life cycle from the rows as they are (`Fits`), for between its
reads and its commit only new rows and the clock come in.
`SerialHandlersFollowLifecycle` is the refinement of `JobLifecycle` under the
same hypothesis. Together with the run `tx_double` they place the
fault: overlap is needed, and overlap is enough.

**LoginSessionsProofs.** Both action properties name an overlap as the one way to
break them, so the proofs have to show that every other commit is harmless. For
`ClaimStays`: an offer or a claim that was not overtaken finds its login as it has
seen it, hence unclaimed, and a claim writes the agent unless it saw its own there;
all other steps leave both columns alone. For `PortsStayPrivate` the invariant says
what open requests hold: a port that a start or a search for the bridge is about to
give had, when it looked, exactly the holders recorded, and was either free of other
accounts then or the account's own (`GoodPort`). A commit whose port has the same
holders still gives it to nobody else's company.

`NoLoginIsOrphaned` goes through the actions by what they do to the logins of one
account and to its status (`Settles`): a request that finds stale logins ends them
and the account's wait together, and every other step that ends a login writes the
account. `SettledForever` is the safety half of `LoginsEnd`: once a login has ended,
its agent's executor can make no report about it and no open claim holds it, it
stays as it is. `FreePortComplete` is about the search for a port alone: it fails
only when every port is in use. Induction over data is out of reach, but the least
element of a set of numbers is not (`LeastNumber`, from the well-foundedness of the
order), and gives the first free port.

**OutboxProofs.** `NothingLost` and `SentIsReceived` are inductive together with
the types and `HandIsLatest`: the report being sent is the latest of its job, so
that the row a failed report takes over never falls behind.

`PoisonIsForGood` is the finding of `outbox_poison` for every limit: a row that
waits behind `Limit` rows which are never replayed is never taken up again.
`OldestIsTakenUp` is the other half: as long as the jobs that can leave such rows
are fewer than `Limit`, every flush takes up the oldest row that can be sent.
It needs that a job has one row of each kind (`RowsAreUnique`) and that only jobs
unknown to the local database leave unmatched rows, to bound the rows in the way
by the number of jobs.

**ContentsProofs.** `Single` (one active item, numbered as made) and `Fresh` (the
view of a session that nobody has overtaken is the row as it stands) are
inductive for any number of sessions. The three action properties follow: a
session that is not stale decides on the row it writes to.
`SerialHandlersKeepChoices` turns that round: were no session ever to commit on
rows that changed since it read them, the escape `StaleCommit` of the three
properties could go. `NothingHangsInTheAir` needs a second invariant
(`Grounded`): whatever a session does that is not about a discovery, it is about
a content that is known, and nothing known is forgotten (`KnowledgeLasts`),
although a session may carry a view that is older than the row.

**LocalTasksProofs.** `RunningIdsReleased` is not inductive: an execution may have
called back already (its future was cancelled) and still be unwinding. `IdsAwaited`
asks for an execution that will call back, or a request about to record one, and
needs that a future and what a request holds on to are of the right task, and that
nobody knows an execution before it is recorded (`UnrecordedIsUnknown`).
`RunningIsWorkedOn` rests on `RunningCollects` (the execution is before the end of
its collection) and on `CancelledDisturbed`: an execution that is cancelled, and so
leaves the row as it is, belongs to a task whose work was interrupted (`Fail` only
adds to those).
`DueTasksAreTaken` reads `IdsAwaited` from the scheduler's side: the only ids that
make it pass a due task over are those that will be taken out.
`StopsHitTheirTask` says that the future a request took from the table before it
marked the row is still an execution of its own task when it cancels it, if it is
alive at all.

**AgentLoopProofs.** `DrivesTheQueue` shows the composition right: whatever the
loops do, what the server sees is a behaviour of `JobQueue` (with nobody
administering agents, jobs without accounts, and no resume of failed jobs), because
a call that fails is the queue's step or none. Hence `ExecutesOwned`, which makes
`ExecutedOnce` inductive: the row of a job under execution runs in the name of its
agent unless it was taken from it (`interrupted`). Claims spare running rows, the
owner check refuses other agents' calls, and the rest either keeps the owner or
ends the run. `RunsHeld` and `AdmittedIsCool` say in which phases a local run may
be open and in which the account cannot be cooling; `LocalRunsEnd` and
`CooldownKept` follow.

`QueueFacts == INSTANCE JobQueueProofs` brings the theorems of the queue to the
composition: `AgentLoopAssumption` implies the queue's assumptions under the
substitution (`QueueAssumption`), and `DrivesTheQueue` its specification
(`QueueDriven`). So `RowsStaySound` and `CallsStayFenced` need no new invariant,
and with `ExecutesOwned` they give `WorkIsRecoverable`: should the process die at
work, recovery finds the row. `HandsAreHonest` counts what an agent has in hand:
only a claim fills the hand, and only when it is empty.

### Model-checked only

Every invariant and every action property of the runs that pass is proved. Left
to TLC are:

* The liveness properties, since TLAPS has no proof rules for fairness here. What
  a single step contributes to them is proved:

  | property | proved half |
  | --- | --- |
  | `DeadAgentsClaimsEnd`, `RunsEnd` (`JobQueue`), `AbandonedClaimsEnd` (`AgentLoop`) | `RecoveryLeavesNothing` |
  | `RunsClose`, `RunsReopen` (`TaskRuns`) | `PassesSettleRuns` |
  | `LoginsEnd` (`LoginSessions`) | `SettledForever` |
  | `QueueDrains` (`Outbox`) | `OldestIsTakenUp`, and `PoisonIsForGood` for its failure |
  | `ActiveTasksRun` (`LocalTasks`) | `DueTasksAreTaken` |

* The two violations, which TLC exhibits: `NoDoubleExecution` (a behaviour, so
  there is nothing to prove of `Spec`; that it needs an overlap is proved) and
  `QueueDrains` with poisoned rows.

Proving has corrected one definition: two guards of the `CASE` in
`JobTransactions!Commit` overlapped, which TLC evaluates in order and the logic
does not; it now says what TLC had checked.

## 5. What is not modelled

* Payloads, events, metrics and messages; ordering among jobs of equal rank.
* SQLite's writer lock: `JobTransactions` and `Contents` are READ COMMITTED, the
  weaker case.
* The browser and the platforms: an execution ends, or it does not. The connectors
  and the parsers of pages are the bulk of the agent's code, hold no state of
  their own between jobs, and what they return is an input to the models.
* What a repeated or reordered report *says*: `Contents` leaves open what a report
  carries, so that an older report replayed after a newer one is any report.
* What a caller other than the agent may send: a result other than success or
  partial success in `complete`.
* Schedules: due dates and daily windows are calendar arithmetic in one loop that
  calls `run_template`, which `TaskRuns` has. Two weaknesses are listed as
  hazards without a property.
* Lengths of cooldowns, daily budgets, jitter of polling: arithmetic without a
  second actor.
* Fetch leases: used by development runners only.
* Organisation, authentication, rules, tags, media, diagnostics, front ends: one
  request, one row; uniqueness is the database's.
* The vendored crawler under `local_agent/references/` is not part of the program.

Of the source's lines, the models cover the parts with several actors or with
steps that may fail in between; most of the rest is presentation, extraction and
record keeping.

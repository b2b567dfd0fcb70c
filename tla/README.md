# Verification of the Odoo add-ons

TLA+ modules, TLC configurations and TLAPS proofs for the add-ons under
`src/local`: `queue_job`, on which the connectors rest; the imports of
`connector_jira`, which run as its jobs; and the lines of recurring contracts. The plan
below says what follows.

## 1. The system

The repository is a collection of Odoo add-ons. Those with behaviour over time:

| component | state | operations | interacts with |
|---|---|---|---|
| **queue_job, channels** (`jobrunner/channels.py`) | tree of channels; in each a priority queue, a queue by eta, running and failed sets, a pause; `_jobs_by_uuid` | `notify`, `remove_job`, `remove_db`, `get_jobs_to_run`, `get_wakeup_time` | called by the runner's thread only |
| **queue_job, table and requests** (`job.py`, `controllers/main.py`, `models/queue_job.py`) | table `queue_job`; in each HTTP request a `Job` object and two or three transactions | `enqueue`, `runjob`, `perform`, `postpone`, `store`; `requeue`, `button_done`, `requeue_stuck_jobs`, `autovacuum`, deletion | rows shared by requests, users, crons and the runner; a trigger notifies the runner |
| **queue_job, runner** (`jobrunner/runner.py`) | position in the loop, connection with unread notifications, threads that wait for answers | `initialize_databases`, `process_notifications`, `run_jobs`, `wait_notification`, `close_databases` | reads and updates the table, calls `/queue_job/runjob`, owns the channels |
| **Contract** (`contract_line.py`, `contract.py`, `contract_line_constraints.py`, wizards) | contract lines with dates, chain of predecessors and successors; date of termination | edit in the form, stop, plan successor, suspend, cancel, uncancel, renew, delete; terminate; invoice | form, wizards, two crons; the invoices of `account` |
| **connector**, **connector_jira** and other connectors | bindings, advisory locks, backend timestamps | import and export of a record, import since a date, deletion | run as jobs of queue_job; read Jira; called by webhooks and crons |
| **base_exception**, **sale_exception** | exceptions recorded on records, an ignore flag | detect, ignore, confirm | sale orders |
| **sale_automatic_workflow** | orders, pickings, invoices | a cron that validates each in a savepoint | sale, stock, account |
| **sale_commission** | settlements and their lines | settle, invoice, cancel | invoices |
| **component**, **component_event** | registry of classes, built at load | build, look up, notify | connectors |

`PROJECT.json` lists the others too, with the reason why they are left aside
(reports, views, default values, tests).

What is hard in `queue_job`:

- *Stale reads.* The runner acts on rows it read long ago, and its UPDATE to
  `enqueued` (runner.py:324) has no condition on the state. A request stores the
  copy of the job that it loaded when it began (controllers/main.py:54, 113).
- *Duplicates and timeouts.* The thread that sends the GET gives up after one
  second and puts the job back to pending while the request is still on its way;
  the route takes requests from anybody, at any time.
- *Transactions.* A job that is postponed is stored as pending by a transaction of its own,
  while the one in which its method has written is still open; it is not rolled back, and the
  end of the request commits it (controllers/main.py:84-93, 104-107, 122).
- *Crashes.* Between the transaction that starts a job and the one that commits its
  work; between the UPDATE to `enqueued` and the GET; in the middle of a pass of the
  scheduler.
- *Order.* Notifications come late and are merged; users and crons write rows
  between any two steps.
- *Time.* Etas, throttle pauses, and a wakeup time that must be neither late nor past.
- *Limits.* Channel capacities, `max_retries`.

What is hard in the contract lines: a button writes several lines in sequence, and Odoo
runs after each write the constraints declared on the fields *written*, and only those; whether a button is
allowed is a table of criteria without default; the dates are inclusive, trimmed
and shifted in several places; the period of an invoice line and the last date
invoiced are computed by two pieces of code, from dates users force and edit.

What is hard in the imports: a transaction sees the database as it was at its
beginning, while locks, Jira and a look from a new transaction show the present; a job locks
its issue and then each dependency, so that locks of two jobs need not overlap; Jira's search
leaves out the latest changes; webhooks get lost; a job may be postponed anywhere, which commits what
it had imported so far, or fail or die anywhere, and then waits for a user.

What makes each part correct:

- channels: a job has one place in each channel and consistent places along its
  path; a pass leaves no ready job behind; the wakeup time is sound; throttles and
  sequential channels are respected;
- table and requests: no two executions of a job at a time; its whole work committed
  at most once between two requeues by a user (executions that were postponed may have
  committed a part of it);
- runner: what it believes agrees with the rows; capacities hold in the table
  itself; it does nothing that the table does not allow; no job is forgotten;
- contract lines: a line and its successor name each other and do not overlap; the
  periods invoiced follow one another; a suspension moves days and takes none; nothing
  goes on after a (first) termination; the state searched is the state shown;
- imports: an issue is bound once, after its parent and epic; no change is lost.

## 2. The modules

```
LeastFirst ── PriorityQueue ── PriorityQueueProofs, MCPriorityQueue
              (refines LeastFirst; the queues of ChannelManager)

ChannelTree ──┐
JobStates ────┴─ ChannelManager ───────────┐      (and MCChannelManager)
    │                                      ├── JobRunner ── MCJobRunner
    └─────── JobTable ── JobStore ─────────┘ (refines JobStore)
                            │  └── MCJobStore
                            └── JobLifecycle      (JobStore refines it)

Contract ── MCContract          JiraImport ── MCJiraImport

ChannelTreeProofs ── ChannelManagerProofs ──┐
JobStoreProofs ─────────────────────────────┴── JobRunnerProofs
PriorityQueueProofs             JiraImportProofs             ContractProofs
```

### ChannelManager

The scheduler alone, one thread. `jobs` is `_jobs_by_uuid`; `chan[c]` has the
`queue`, `eta_queue`, `running` and `failed` sets and `pause_until` of a `Channel`.
A queue is the set of the jobs it
still holds, with the smallest taken first, which PriorityQueue shows of the heaps of the
code: `First` for jobs without eta, `FirstByEta` for the others. The order of the jobs by `(date_created, id)` is the
constant `Created`.

`notify`, `remove_job` and `remove_db` are one action each. `get_jobs_to_run` is a
recursive generator: each channel drains its children into its queue and then
yields. A cursor walks the channels children first (`PostOrder`); each iteration of
a channel's loop is one action: `SkipPaused`, `SkipFull`, `SkipEmpty` or `Pop`.
The pass is not atomic since the runner acts between two yields, and may fail there.
`date_created` and `seq` never change, so that `PropertiesChanged` looks at priority, eta and
channel. The pop of a job whose eta is past forgets the eta (`Ripen`), as the code
does; a later `notify` with the eta of the row then counts as a change.
The pause of a throttled channel is set when the generator is resumed;
in the model with the yield, which differs only when the generator is abandoned
(`RunnerError` in JobRunner restores the root's pause then).

The constants stand for a parsed configuration. The tree and the order in which a pass
reaches the channels have a module of their own, ChannelTree, which JobRunner shares:
`TreeAssumption` says that each channel but the root has a parent, and that `Up` is the path to
the root; `PostOrderAssumption` that children come before their parent. `ConfigAssumption` gives
the other constants their types, and says that a sequential channel has capacity 1, which
`configure` enforces, and that no two jobs have the same `(date_created, id)`.

### PriorityQueue, and the abstract specification LeastFirst

The class `PriorityQueue`: objects are removed lazily, by a mark, and leave the heap when
they come to its top. `heap` counts the copies of each object in `_heap`, so that a
double push would show; `known` and `removed` are the two sets. `add` and `remove` are one
action; `pop` and `__getitem__` are loops, with `Discard` for an iteration that throws an
object away and `PopReturn`, `PeekReturn`, `ReturnNone` for the last one. `last` records
the call that returned, and what, so that the refinement compares answers.
`heapq` is external: an object of least rank is on top, whichever of several.
That matters since a `ChannelJob` that replaces another has the same key, while the old one may
still be in the heap. A rank never changes while the object is in a heap: the
only assignment, `eta_job.eta = None`, comes after its pop.

LeastFirst is a set of members, from which a least one is taken or looked at.
PriorityQueue implements it with `members <- known \ removed`.

### JobTable

The table, the requests and everyone who writes rows. One action is one committed
transaction, or one step of a request between two transactions:

| action | code |
|---|---|
| `Create` | `Job.enqueue` |
| `SetJobEnqueued` | `set_job_enqueued`, an UPDATE without condition |
| `HttpGet`, `RequestLost` | the GET; it may be sent by others, it may be lost |
| `ClientGivesUp` | timeout or error of the GET, then `set_job_pending` |
| `ClientsDie` | the runner's process dies with its daemon threads |
| `RunjobReject`, `RunjobStart` | `SELECT ... FOR UPDATE` to the commit of `started` |
| `TakeSnapshot` | first query after that commit |
| `Finish`, `NothingToDoConflict` | `set_done`, `store`, commit |
| `OperationalError`, `RetryableJobError`, `OtherError` | errors of `perform`; the first and the last also (`finished`) of the `store` or commit after `set_done` |
| `Postpone`, `PostponeFails`, `SetFailed` | the handlers, each with a new transaction |
| `EndPostponed` | the request of a postponed job returns normally, and Odoo commits its transaction |
| `Crash` | the worker dies |
| `Requeue`, `ButtonDone`, `RequeueStuck`, `Autovacuum`, `Unlink` | users and crons |

`req[r].mem` is the `Job` object in memory: `retry`, `eta` and `date_done` as they
were loaded. A handler stores it over whatever the row has become, and creates the
row again when it was deleted. `req[r].snap` says whether the snapshot of the
request's (repeatable read) transaction is older than the last write of the row:
then its own write fails with a concurrency error. `effects[j]` is a history variable:
the executions of `j` that were committed in whole since the last requeue by a user.

`Postpone` leaves the request in the state `closing`: the row is pending, the job may be
enqueued and executed again, and the transaction of the method is still open. `EndPostponed`
commits it, with what the method had written before the error, or with nothing when it had not
written or when Postgres has aborted the transaction. The latter is so after a
concurrency error of the store or commit (`finished`), and after one of the method unless the method has
caught it at a savepoint. `parts` is a history of the jobs of which a part was so committed.
A request that has set its job failed raises on, and Odoo rolls its transaction back: no part is left.

Of a row, `state`, `retry`, `eta` and whether `date_done` is set are kept; results,
messages and the other dates have no influence on what is modelled. The counter
of retries is bounded by `RetryCap`.

*Assumption on users.* `Requeue` asks for a job that nobody executes (`~Live`). The
code cannot know, and a started job whose worker died looks the same as one that is
still executed. Without the assumption `OneExecution` does not hold: a requeued job is started
a second time beside the first. The button leaves that judgement to the user.

### JobStore, and the abstract specification JobLifecycle

JobStore adds to JobTable the most general runner: a set `offered` of the jobs it
once read as pending. It may read rows (`Refresh`) and forget them at any time, and
enqueue what it holds as late as it likes, without reading again (`Enqueue`). Everything
shown of JobStore holds for any runner of that kind.

JobLifecycle is what the queue promises of a job: idle, running, committed in whole; only
from committed back to idle by a user's requeue. An execution that is given up (`Abort`) may
leave a part of the work, then or later (`Leave`), even while the job is executed again or after
it is committed: the promise is of the whole, and no more is true. JobStore implements it with
the refinement mapping `Phase` and `open <- Open`, the jobs with a request that is closing.

### JobRunner

The loop of `QueueJobRunner.run` on one database, composed of JobTable and of an
instance of ChannelManager. `pc` is the place in the loop, `hand` the job that the
generator has just yielded, `notifs` the notifications not yet dealt with (a
set: a notification only makes the runner read the row again). `Trigger`
is the trigger of `hooks/post_init_hook.py`, with its exception for the deletion of
rows that are done. The trigger also fires for an UPDATE that changes no column of the model:
`Touch`.

A job is popped, its row is updated (`EnqueueInHand`), and the GET is sent
(`AsyncHttpGet`) in three steps, between which requests, users and crashes
come. `RunnerError` is the recovery in `run` (forget all jobs, connect again);
`RunnerCrash` is the death of the process, or its stop, and its restart. JobRunner
implements JobStore: `offered` is what sits in the queues of the channels or
in hand before the UPDATE (`Held`).

`DelayJob` creates the job in its channel; the channel and priority of a job are
constants here, since ChannelManager deals with their change.

### Contract

One contract, its lines as a table `line` from ids to rows, `today`, the date of
termination, and two histories: `bills`, the periods invoiced, and `stopped_on`, the date of the
first termination. One action is one committed
transaction. An operator on a table returns the set of tables the call may leave, and the
empty set when it raises, so that calls compose as in the code: `PlanSuccessor` writes
the line, creates the copy, writes the line again, and each `Write` runs the
constraints that name a field it wrote (`Constraints`). A call in which any of them
raises is not a transaction.

| action | code |
|---|---|
| `EnterLine`, `EditDateStart`, `EditDateEnd`, `EditNextDate`, `EditInvoicingType`, `SetAutoRenew`, `ResetAutoRenew` | the form with its onchange methods |
| `StopLine`, `PlanLine`, `SuspendLine`, `UncancelLine` | `contract.line.wizard` |
| `CancelLine`, `RenewLine`, `UnlinkLine` | buttons and deletion |
| `TerminateContract`, `CancelTermination` | termination, which stops the lines that may be stopped; the button `Update Termination Details` calls it again on a terminated contract |
| `CronRenew`, `CronInvoice`, `InvoiceNow` | the crons and the button |

`StopAllowed`, `CancelAllowed`, ... are the columns of `CRITERIA_ALLOWED_DICT` as
conditions, and `InMatrix` says for which lines the dictionary has a row.
`ComputeState` and `StateDomain` are the two definitions of the state.
Days are numbers, 0 is no date, and periods are days (`daily`): what differs for months
is `get_relative_delta` alone. Each renewal takes either mode of the company, as the mode
may be changed at any time. Free choices: the dates a user enters, and the lines of
the first form. A user edits one field of the form at a time; the form computes others from it (the
end of a line that renews, the date of next invoice), and all are written together. An edit of the date of next
invoice is free: only the constraints look at it.

### JiraImport

Jobs that import or delete an issue (`work`), each with its transaction: the
`snap`shot of the bindings, its own `write`s, the advisory `locks` it holds, and the set
`stale` of bindings others have committed since its snapshot. `stack` holds a frame for each
`JiraImporter.run` under way: an importer that imports a dependency calls another
in the same transaction.

| action | code |
|---|---|
| `StartImport`, `StartDeletion` | the jobs `import_record`, `delete_record`; `JiraDeleter.run` |
| `Lock` | `advisory_lock_or_retry` |
| `Read`, `ReadEpic` | `_get_external_data`: the issue, then its epic, two requests to Jira |
| `Check` | the binding, the look from a new transaction, the check of the date, then the first dependency or the write |
| `Resume` | what follows a dependency |
| `Commit` | the end of the job's transaction; the database refuses it on a conflict (`Undo`: pending again) |
| `Postpone`, in `Lock` and `Check` | `RetryableJobError`: the job is pending again, its request still open |
| `Close` | the end of that request, which commits the dependencies imported before the error, or fails |
| `Abort`, `Requeue` | another error, or the death of the process: rolled back, and failed (or started for ever) until a user requeues the job |
| `LockTimestamp`, `Search`, `AbortSearch` | `TimestampBatchImporter.run` |
| `Change`, `Delete`, `Tick` | Jira, the webhooks, time |

Steps that concern the transaction alone are merged with the step before, since nobody
can see between them. A binding is the date of the last change it has seen
(`jira_updated_at`). A conflict is found by the database when the row is written, in
the model at the commit, which differs only in the time of the rollback.
`Search` asks Jira and commits in one step, as what happens in between is neither in the
answer nor hindered by the lock of the timestamp. A second search that finds the timestamp locked, or moved since
its transaction began, is retried and changes nothing: it is not a step. Requests to Jira
have minute precision; that, and the delay of Jira's index, is `Lag`.
`LevelAssumption` is Jira's hierarchy: sub-tasks have a parent, issues an epic, epics neither.
The jobs waiting for an issue are one: two of them differ from one by a repetition.
Issues and projects that are not synchronized are left out, and so are links that change.

`failed` are the jobs that wait for a user: those set failed, and those whose process died, whose row
stays started (the garbage collector looks for enqueued rows only). Each remembers, as history, the change that its
job had read or was about to read (`Holds`), for that change is with it. `RetryableJobError`s of
the importer's lock and of its check do not count as retries (`ignore_retry`), concurrency errors have no limit, and the
error that does count, that of a unique violation (`_retry_unique_violation`), never comes up (`CreatedOnce`): so
no job fails by having used up its retries in any other way than `Abort`. The advisory locks of a postponed job
are held until its request ends, as they belong to its transaction.

## 3. The runs

| run | instance | what it shows |
|---|---|---|
| `channels` | 4 channels (sequential; throttled without limit; its child; root of capacity 2), 3 jobs, clock to 4 | `SinglePlace`, `PathConsistent`, `WorkConserving`, `WakeupSound`, `ThrottleSpaced` |
| `channels_order` | 3 jobs of the sequential channel | **violated** `SequentialInOrder` (finding 1) |
| `priorityqueue` | 4 objects, two of the same rank | `HeldOnce`, `LengthExact`, `ImplementsLeastFirst` |
| `jobstore` | 1 job, 3 requests, 2 retries | `OneExecution`, `CommittedOnce`, `NotQueuedWhileLive`, `ImplementsLifecycle` |
| `jobstore_vacuum` | 1 job, 2 requests | **violated** `AutovacuumOnlyDone` (finding 2) |
| `jobstore_done` | the same | **violated** `DoneIsFinal` (finding 3) |
| `jobrunner` | 2 jobs, channel and subchannel of capacity 1, 2 requests, clock, 1 disturbance | `CapacityRespected`, `MirrorFaithful`, `ImplementsStore` |
| `jobrunner_live` | 1 request, clock, 1 disturbance, fairness | `EventuallySettled` |
| `contract` | 3 lines, daily period of 2 days, renewal by 4, 3 operations of users, days 2 to 5, dates to 11 | `ChainsLinked`, `CriteriaKnown`, `BilledInOrder`, `TerminationHolds`, `SearchedAsShown`, `SuspensionMovesDays` |
| `contract_renew` | as `contract`, without operations of users | **violated** `InvoicingGoesOn` (finding 4) |
| `jira` | an issue and its epic or parent, 2 jobs, none fails, changes at 2 times, clock to 3 | `CreatedOnce`, `NothingLost`, `DependenciesBound` |
| `jira_failed` | the same with 1 job at a time and up to 2 that failed or died | `NothingLost` |

Each passing property has a mutant in `PROJECT.json`: a plausible mistake in the code
that makes TLC find it violated.

**Bounds.** Three jobs are enough for a sequential channel with one job that runs,
fails or waits before another and a third that competes in the root channel; the tree has the
path of length three that distinguishes `RemoveAbove` from a removal in
the parent alone. In `jobstore` jobs meet through requests only, so that one job is enough; two requests are what
it takes for two executions, and the third may still be closing a postponed one; retries go up to the limit and past it
(`ignore_retry`, concurrency errors); one eta is enough, as JobStore stores etas and
never looks at one. `MaxRetries = 2` gives a first
try, a retry and a last one. In JobRunner a *disturbance* (an error in the
loop, a crash, a lost request, a timeout, a conflict, a dying worker, an intervention of a
user, a spurious notification) takes a unit of `budget`; anything else is not
limited. The number of request slots bounds the number of requests that are
under way together; a runner that finds none waits. Two disturbances that
meet are left to the proofs, which are for any budget. The channels of
JobRunner have no throttle: pauses are checked in `channels`, where no generator is abandoned.

In `contract`, three lines are what a chain needs for a middle; three operations let a line be
suspended or planned, cancelled and uncancelled, edited and terminated twice, with crons between any
two; the period (2) does not divide the spans between the dates users enter (3, 5, 7) and divides
the renewal (4), so that periods are trimmed and not; lines start after, on and before the
current day and end before, in and after a suspension. Operations and days are
bounded, so that the run ends and deadlock is not checked. In `jira`, two jobs are
what a race needs; an issue changes after it was read, and again after a search that missed it;
`Delta = Lag = 1` is the least that the code must bridge, and the clock goes on until searches
have left the first change behind. A change meets a failed job alone, so `jira_failed` has one
job at a time; two failed ones are an import and a deletion, or two imports of the same issue with different changes. Once time and changes are over and all jobs done
nothing is left but searches.

**Fairness** (`jobrunner_live` only). Weak fairness of the loop's steps, of the steps
of a request and of the garbage collector's cron: threads and workers are
scheduled, and the cron runs every five minutes. Strong fairness of the reading of
a notification: `conn.poll()` reads all that has arrived, and a notification arrives some
day. Strong fairness of the clock: time passes although the model lets it move only
between two passes. `SelectTimeout` is not fair: nothing needs the 60-second
timeout. The budget makes disturbances finite; without it, a job whose requests
always time out is retried for ever and rightly never settles.
`EventuallySettled` excuses behaviours in which a row is started and nobody executes
it (`Stale`): the defaults of the garbage collector look at enqueued jobs only
(models/queue_job.py:225), so such a row holds its place until a user acts.

## 4. Findings

1. `ChannelQueue.pop` lets a sequential channel overtake: it compares with the job of
   the nearest eta, not with each job that waits (channels.py:337-345).
2. `autovacuum` deletes jobs that are not done (models/queue_job.py:218-220): a requeue
   keeps `date_done` (job.py:641-648), and so does the handler of an error in the store
   after `set_done` (controllers/main.py:32-34, 57-62, 109-120).
3. A job that is done does not stay done when the runner holds it for
   pending (runner.py:324-332 against job.py:168-169).
4. A line that renews by extension is never invoiced again when it was invoiced to its end
   before the renewal: `_renew_extend_line` (contract_line.py:1223-1226) writes the end only,
   and the date of next invoice, unset at the end of the line, stays so, against
   the constraint of contract_line.py:621-635.

Seen while modelling, and not among the violated runs:

- A job that is postponed is not rolled back: the handler of `RetryableJobError` (controllers/main.py:104-107) returns
  normally, and the end of the request commits what the method had written. A comment of connector_jira
  (importer.py:369-371) expects otherwise: `we raise a Retryable error so T2 is rollbacked and retried later'. The imports live
  with it (`DependenciesBound` and `NothingLost` hold); a method that is not prepared for it does a part of its work twice.
- `Update Termination Details` at an earlier date moves the date shown (`This contract was terminated ... on',
  views/contract.xml:12), and no line: after the first termination no line may be stopped (contract.py:560), and the lines
  go on to the first date. `TerminationHolds` is therefore about that one.
- A search of the contract lines *in progress* (contract_line.py:195-211) misses those
  without notice date, with a notice due today, or to be renewed by hand; they are found in no state.
- A post-paid line may be uncancelled with a date of next invoice equal to its start: the
  period to invoice is empty, the constraint raises, and the cron invoices no
  contract as long as the line stays.
- When a line in the middle of a chain is cancelled, its predecessor may be planned another
  successor, that overlaps the rest of the old chain: each pair is consistent (`ChainsLinked`), the whole is not.
- A post-paid line whose date of next invoice is edited to the day after the last date invoiced passes the
  constraints and bills an empty period, which ends before it starts (`BilledInOrder` allows it after the first period);
  the next period is then computed as usual.
- A generator of `get_jobs_to_run` that is abandoned, when the UPDATE to `enqueued` fails, has not set the
  pause of the root channel (channels.py:569-572): with a throttle on the root its next job may come early.
- A termination that is back-dated leaves alone the lines that were over on the day of the
  termination (`TerminationHolds` excepts them).
- A job that deletes an issue takes no advisory lock. When an import of the issue has read
  it but not committed, the deletion finds no binding, and the import then creates one that
  stays. A task whose epic cannot be read is treated as missing itself, and its binding deleted.

## 5. The proofs

`JobStoreProofs` proves, for any sets of jobs, requests and etas and any limit of retries, from
`TableAssumption` and `RowAssumption` alone:

| theorem | statement |
|---|---|
| `Invariance` | `Spec => []Inv` |
| `Typing` | `Spec => []TypeOK` |
| `MutualExclusion` | `Spec => []OneExecution` |
| `AtMostOneCommit` | `Spec => []CommittedOnce` |
| `ExecutionKeepsRow` | `Spec => []NotQueuedWhileLive` |
| `Implementation` | `Spec => ImplementsLifecycle` |

`OneExecution` is not inductive: a second execution needs a row that is enqueued while
the first goes on, and the row becomes so because the runner held the job. The
invariant closes the circle:

- `ExecutionAlone`: while a request executes a job, its row is neither pending nor
  enqueued, the runner does not hold the job, and nothing of it is committed;
- `OfferedWaits`: what the runner holds is neither enqueued nor started, and nothing of it is
  committed; so the blind UPDATE hurts nobody;
- `QueuedUncommitted`: nothing is committed of a job that is up for execution;
- `RequestsKnown`: a request that is not idle is about a created job.

Steps are sorted by what they do to the requests. A *tame* step makes no request
appear and starts no execution; `TameStep` and `TameWrite` settle those
together, and `HttpGet` and `RunjobStart`, which are not tame, have cases of their own. A request that is closing executes
nothing any more, so that its job may start again beside it: the invariant says nothing of it, and `AtMostOneCommit` is of
whole executions. For the refinement, where such a request may still leave a part, `PhaseStep`
reduces a step to the one job it may move; each group of actions then says which.

`PriorityQueueProofs` proves, for any objects and ranks, from `ObjectAssumption`:

| theorem | statement |
|---|---|
| `Invariance` | `Spec => []Inv` |
| `Typing`, `NoDuplicates`, `LengthIsExact` | `Spec => []TypeOK`, `[]HeldOnce`, `[]LengthExact` |
| `Refinement` | `Spec => ImplementsLeastFirst` |

The invariant adds to the types and `HeldOnce` that finitely many objects are known, for the
sizes. The heart of the refinement is `TopIsLeast`: members are in the heap, so what is on
top and not removed is least among them.

`ChannelManagerProofs` proves, for trees of any shape and depth, any jobs and anything that
may be notified of them, from `TreeAssumption`, `PostOrderAssumption` and `ConfigAssumption`:

| theorem | statement | invariant |
|---|---|---|
| `Typing`, `PlacedOnce`, `PathsFit` | `[]TypeOK`, `[]SinglePlace`, `[]PathConsistent` | `PlaceInv` |
| `ThrottleKept` | `ThrottleSpaced`, an action property | `ThrottleInv` |
| `Conserving`, `WakeupTimely` | `[]WorkConserving`, `[]WakeupSound` | `ThrottleInv` and `PassInv` |

`PlaceInv` is the types with `SinglePlace` and `PathConsistent`, job by job. Neither is inductive without the
other: a transition looks for the job in the one place where it may be. It is stated of a table of channels as an
argument, since `notify` changes the table twice (removal, then transition).
`ThrottleInv` adds that the pause of a channel that has yielded reaches to the end of its delay, or that the delay is over.
`PassInv` says that a channel the cursor has passed has nothing left to yield; the channels before the cursor
stay so when others pop, since a pop moves a job up only, to a channel that comes later
(`ChannelTreeProofs`: the path of a channel is linear, parents come later).
`WakeupTimely` is about the job that would move first after the pass: each thing that holds it back
has an end, and the channel that it waits in is asked for it.

`JiraImportProofs` proves, for any issues, links, jobs at a time, and any `Lag <= Delta`, from
`JiraAssumption` and `LevelAssumption`:

| theorem | statement |
|---|---|
| `Typing` | `Spec => []TypeOK` |
| `CreatedByOne` | `Spec => []CreatedOnce` |
| `DependenciesFirst` | `Spec => []DependenciesBound` |
| `NoChangeLost` | `Spec => []NothingLost` |

The invariant `Inv` has what is known of the world (`World`: nothing is bound that Jira has not
shown, what others depend on comes first and stays), that locks are exclusive, and for each
job what its transaction has seen and written (`Writes`) and what each frame of its stack of importers
has read, checked and ensured (`Stacks`); the levels of the issues go up along the stack, so that no issue is
imported twice in it. A binding is created under the lock of its issue by a transaction that saw none, and after a
look from a new transaction: `Writes` says that then there is none still.
`NothingLost` is inductive relative to `Inv`: a change that a step takes from where it was (`Due`) has to be found elsewhere, in
the queue when the job is postponed or undone (`RetryDue`) or requeued (`RequeueDue`), with the failed job when it is
aborted (`AbortDue`), in the binding when it is saved: `SaveDue` holds of the commit of a job that is done and of
one that was postponed (`CloseDue`) alike. Two things came out of the proofs: the database's
test for conflicts at the commit is needed for `NothingLost` only, since the locks settle the rest; and the answer that an
epic is missing never comes to a job that reads it, as what others depend on is not deleted.

`JobRunnerProofs` proves, for any jobs, requests, tree of channels and number of
disturbances, from the assumptions of JobTable and ChannelTree and from `RunnerAssumption`:

| theorem | statement |
|---|---|
| `Typing` | `Spec => []TypeOK` |
| `CapacityHolds` | `Spec => []CapacityRespected` |
| `Mirroring` | `Spec => []MirrorFaithful` |
| `Implementation` | `Spec => ImplementsStore`: what is proved of JobStore holds of the runner |

Its two parts are instances of modules that have their own proofs, and the invariant is composed:
`Inv` is that of JobStoreProofs with `offered <- Held`, `PlaceInv` of ChannelManagerProofs, and
`LoopInv`, which relates the two. Each step of the runner is shown to be one of JobStore (`StoreStep`),
which gives the first part and the refinement at once. `LoopInv` strengthens the properties by

- `BusyRuns`: a job enqueued or started in the table runs in all channels of its path, *whether or not its
  notifications have arrived*. Only the runner's UPDATE puts a job there, after the root has yielded it. So a
  notification never adds to what runs, and capacities are only at stake in a pop;
- `Counted`: the running sets respect the capacities, and the table does while the runner is down; so they do
  when the next start reads the table;
- `HandRuns`: the job in hand runs in all its channels; it was pending, or a notification of it is on its way;
- `KnownAtHome`, `DownEmpty`: the manager knows jobs in their own channel, and none when it is down;
- `AllMirrored`, which is `MirrorFaithful`. That a job queued was read pending follows from it (`QueuedPending`).

`ContractProofs` proves, for any lines, forms, dates, intervals and number of operations, from
`ContractAssumption` and `NoRowAssumption`:

| theorem | statement |
|---|---|
| `Invariance` | `Spec => []IInv` |
| `Typing` | `Spec => []TypeOK` |
| `LinkedChains` | `Spec => []ChainsLinked` |
| `KnownCriteria` | `Spec => []CriteriaKnown` |
| `OrderedBills` | `Spec => []BilledInOrder` |
| `HeldTermination` | `Spec => []TerminationHolds` |
| `SearchAgrees` | `Spec => []SearchedAsShown` |
| `MovedDays` | `Spec => []SuspensionMovesDays` |

The constraints of the code run on the fields of one write, so what they guarantee together, later and of other rows
is what had to be found. `Correct`, of a table, says it: each row is `Sound` (its dates in order; a line without end
has a date of next invoice; what is auto-renewed has an end and no successor; what is canceled is neither auto-renewed
nor invoiced), each successor fits its line (`Link`), each predecessor is another line. `Correct` holds *within*
transactions too, after each write but the first of `Uncancel`, which links a line that is still canceled.
`Evolves` says that no line is lost and none is moved or invoiced behind the invoices. Each call is shown to keep both
(`CancelKeeps`, `PlanKeeps`, `SuspendKeeps`, `RenewKeeps`, ...), and `OperationKeeps` does the rest for every transaction.
What came out of the proofs:

- `CheckLastDateInvoiced` asks for a date of next invoice after the last date invoiced, and the period to invoice of a
  post-paid line ends on the *eve* of that date. A user may enter the very next day, in the form: the period then starts after
  the last one and ends with it, empty. So the most that holds of any period is what `PeriodOrder` says: it starts the day
  after the last one, and does not end before it. The first period is not empty, as the constraint on the last
  date invoiced refuses one that is before the start.
- `TerminationHolds` needs that no line of a terminated contract is auto-renewed, or the button that renews would prolong it;
  of the lines that may not be stopped, that each is canceled or over; and of a second termination that it stops
  none, which is why the property is about the first date (`stopped_on`).

The crons and the termination fold over a set of lines. `FoldSet` is a recursive function by `CHOOSE`, which first has to be shown
to exist: `FoldExists` builds it on the subsets of each size, by an induction on the naturals stated of a set
(`NatSetInduction`, from the well-foundedness of `<`), as the induction theorem on predicates is out of reach. `FoldKeeps` and
`FoldRuns` are then the induction on the lines, and `RenewAllKeeps`, `InvoiceAll` and `StopAll` apply it: the last says that each
line was updated from the row it had before the loop, which is what the invoice lines were prepared from.

Not provable here and left to TLC: liveness under fairness (`EventuallySettled`).
`SequentialInOrder`, `AutovacuumOnlyDone`, `DoneIsFinal` and
`InvoicingGoesOn` are what the code violates (findings).

## 6. Not modelled

- Several databases, or several runners, on one job table.
- Identity keys: two jobs with the same key may be created by concurrent
  transactions.
- The parsing of the channel configuration; its result is the constants.
- Registration of job functions, related actions, chatter messages.
- Contract: prices, quantities and the invoices themselves; sections and notes; rules
  other than daily; templates; several fields of a form edited at once; several
  contracts in one run of a cron.
- connector_jira: worklogs (which have their own windows in milliseconds), users, projects, issue
  types, exports, the mapping of fields; connector: the locker of records and the listeners.
- The other add-ons, see the plan. Most of their code is fields, views, reports and mappings without
  behaviour over time.

## 7. Plan

1. *Liveness of JiraImport*: a change is imported some day though its webhook is lost, under fair
   crons and jobs; the export of records with the locker.
2. *Identity keys* of jobs under concurrent creation.
3. *base_exception*, *sale_automatic_workflow*, *sale_commission*: one module each.

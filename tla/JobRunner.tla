----------------------------- MODULE JobRunner ------------------------------
(***************************************************************************)
(* The job runner (jobrunner/runner.py) on one database: its main loop     *)
(* around the channel manager, the notifications of the trigger on         *)
(* queue_job, and the recovery from errors and from its own death.         *)
(*                                                                         *)
(* The table and the requests are those of JobTable, the channels those of *)
(* ChannelManager.  Every step that harms or interferes (an error, a lost  *)
(* request, a timeout, an intervention of a user) takes one unit of        *)
(* `budget', so that a behaviour has finitely many of them.                *)
(***************************************************************************)
EXTENDS JobTable, ChannelTree

CONSTANTS
  Name, Capacity, Sequential, Throttle, Created, MaxTime,  \* see ChannelManager
  JobChannel,         \* the channel name of a job
  Priority,           \* the priority of a job
  Budget              \* bound of the number of disturbances

VARIABLES
  jobs, chan, cursor, now, last_pop,    \* see ChannelManager
  pc,           \* where the main loop is
  hand,         \* the job that get_jobs_to_run has just yielded
  notifs,       \* the jobs notified and not yet dealt with
  budget        \* disturbances left

CM == INSTANCE ChannelManager WITH Notice <- [j \in Job |-> {}]

managerVars == <<jobs, chan, cursor, now, last_pop>>
loopVars == <<pc, hand>>
vars == <<row, req, effects, parts, jobs, chan, cursor, now, last_pop, pc, hand,
          notifs, budget>>

LoopPc == {"down", "notify", "pass", "enqueue", "http", "wait"}

ASSUME RunnerAssumption ==
  /\ CM!Config
  /\ JobChannel \in [Job -> Name]
  /\ Priority \in [Job -> Nat]
  /\ Budget \in Nat
  /\ Eta \subseteq 0..MaxTime
  /\ {MaxTime} \cup (2..MaxTime) \subseteq Eta    \* where RetryEta may be

\* What the runner selects of a row.
Selected(j) == [channel |-> JobChannel[j], priority |-> Priority[j],
                eta |-> row[j].eta, state |-> row[j].state]
Home(j) == CM!ChannelOf([channel |-> JobChannel[j]])

Disturb == budget > 0 /\ budget' = budget - 1

\* Mutant: the trigger says nothing of deletions.
Notified_NotDeleted == {j \in Job : row'[j] # row[j] /\ row'[j] # Gone}

\* The trigger: rows that are written, and rows deleted before they were done,
\* are notified to a runner that listens.
Notified ==
  {j \in Job : row'[j] # row[j] /\ ~(row'[j] = Gone /\ State(j) = DONE)}
Trigger == notifs' = IF pc = "down" THEN {} ELSE notifs \cup Notified

-----------------------------------------------------------------------------
(* The main loop.                                                          *)

\* Every row in one of the states known goes through notify: it is queued, runs
\* or has failed.
Load(queued, running, failed) ==
  LET known == {j \in Job : State(j) \in queued \cup running \cup failed}
      at(c, states) == {j \in known : Home(j) = c /\ State(j) \in states}
  IN  /\ pc = "down"
      /\ pc' = "notify"
      /\ jobs' = [j \in Job |->
                   IF j \in known THEN [channel |-> Home(j),
                                        priority |-> Priority[j],
                                        eta |-> row[j].eta]
                                  ELSE NoJob]
      /\ chan' = [c \in Channel |->
           [chan[c] EXCEPT
             !.queue = {j \in at(c, queued) : row[j].eta = 0},
             !.eta_queue = {j \in at(c, queued) : row[j].eta # 0},
             !.running = UNION {at(x, running) :
                                  x \in {y \in Channel : c \in Up[y]}},
             !.failed = at(c, failed)]]
      /\ UNCHANGED <<tableVars, cursor, now, last_pop, hand, notifs, budget>>

\* Mutant: only the jobs that wait are read.
InitializeDatabases_PendingOnly == Load({PENDING}, {}, {})

\* Mutant: jobs that were enqueued when the runner stopped are queued again.
InitializeDatabases_Requeue == Load({PENDING, ENQUEUED}, {STARTED}, {FAILED})

\* LISTEN, then every row that is not done goes through notify.
InitializeDatabases == Load({PENDING}, {ENQUEUED, STARTED}, {FAILED})

\* The row is read again: what is told is what it has become.
ProcessNotification(j) ==
  /\ pc = "notify"
  /\ j \in notifs
  /\ notifs' = notifs \ {j}
  /\ IF Exists(j) THEN CM!Notify(j, Selected(j)) ELSE CM!RemoveJob(j)
  /\ UNCHANGED <<tableVars, loopVars, budget>>

\* Notifications that have not been received yet do not hold the loop.
RunJobs ==
  /\ pc = "notify"
  /\ pc' = "pass"
  /\ CM!StartPass
  /\ UNCHANGED <<tableVars, hand, notifs, budget>>

GetJobsToRun(c) ==
  /\ pc = "pass"
  /\ \/ /\ CM!SkipPaused(c) \/ CM!SkipFull(c) \/ CM!SkipEmpty(c)
        /\ UNCHANGED loopVars
     \/ \E j \in Job :
          /\ CM!Pop(c, j)
          /\ IF c = Root THEN pc' = "enqueue" /\ hand' = j
                         ELSE UNCHANGED loopVars
  /\ UNCHANGED <<tableVars, notifs, budget>>

EnqueueInHand ==
  /\ pc = "enqueue"
  /\ pc' = "http"
  /\ SetJobEnqueued(hand)
  /\ Trigger
  /\ UNCHANGED <<managerVars, hand, budget>>

AsyncHttpGet(r) ==
  /\ pc = "http"
  /\ pc' = "pass"
  /\ hand' = NoJob
  /\ HttpGet(r, hand, TRUE)
  /\ UNCHANGED <<managerVars, notifs, budget>>

EndOfPass ==
  /\ pc = "pass"
  /\ pc' = "wait"
  /\ CM!EndPass
  /\ UNCHANGED <<tableVars, hand, notifs, budget>>

\* Mutant: only the wakeup time of the channels ends the wait.
WakeUp_OnTime ==
  /\ pc = "wait"
  /\ CM!WakeupTime # 0 /\ CM!WakeupTime <= now
  /\ pc' = "notify"
  /\ UNCHANGED <<tableVars, managerVars, hand, notifs, budget>>

\* wait_notification: a notification, the wakeup time of the channels, or
\* SELECT_TIMEOUT.
WakeUp ==
  /\ pc = "wait"
  /\ notifs # {} \/ (CM!WakeupTime # 0 /\ CM!WakeupTime <= now)
  /\ pc' = "notify"
  /\ UNCHANGED <<tableVars, managerVars, hand, notifs, budget>>

SelectTimeout ==
  /\ pc = "wait"
  /\ pc' = "notify"
  /\ UNCHANGED <<tableVars, managerVars, hand, notifs, budget>>

-----------------------------------------------------------------------------
(* Errors.                                                                 *)

\* An exception in the loop: close_databases forgets the jobs and the
\* connection.  The root channel pauses only when it is asked for the next job.
RunnerError ==
  /\ pc # "down"
  /\ Disturb
  /\ pc' = "down"
  /\ hand' = NoJob
  /\ notifs' = {}
  /\ cursor' = 0
  /\ jobs' = [j \in Job |-> NoJob]
  /\ chan' = [c \in Channel |->
       [CM!EmptyChannel EXCEPT !.pause_until =
          IF c = Root /\ hand # NoJob /\ Throttle[c] > 0
            THEN 0 ELSE chan[c].pause_until]]
  /\ UNCHANGED <<tableVars, now, last_pop>>

\* The process dies, with the threads that wait for answers.
RunnerCrash ==
  /\ pc # "down"
  /\ Disturb
  /\ pc' = "down"
  /\ hand' = NoJob
  /\ notifs' = {}
  /\ cursor' = 0
  /\ jobs' = [j \in Job |-> NoJob]
  /\ chan' = [c \in Channel |-> CM!EmptyChannel]
  /\ ClientsDie
  /\ UNCHANGED <<now, last_pop>>

-----------------------------------------------------------------------------
(* The requests and the table.                                             *)

RetryEta == IF now < MaxTime THEN now + 1 ELSE MaxTime

\* What a request does when nothing disturbs it.  A date_done that the job in
\* memory keeps after an error only matters to autovacuum, and rows may be deleted
\* anyhow; a part of the work that a postponed execution commits matters to no row:
\* both are left out here.
Work(r) ==
  /\ \/ RunjobReject(r)
     \/ RunjobStart(r)
     \/ TakeSnapshot(r)
     \/ Finish(r)
     \/ NothingToDoConflict(r)
     \/ RetryableJobError(r, FALSE)
     \/ OtherError(r, FALSE)
     \/ Postpone(r, RetryEta)
     \/ EndPostponed(r, FALSE)
     \/ PostponeFails(r)
     \/ SetFailed(r)
     \/ req[r].pc = "error" /\ ClientGivesUp(r)
  /\ Trigger
  /\ UNCHANGED <<managerVars, loopVars, budget>>

Trouble(r) ==
  /\ \/ RequestLost(r)
     \/ req[r].pc # "error" /\ ClientGivesUp(r)
     \/ OperationalError(r, FALSE)
     \/ RetryableJobError(r, TRUE)
     \/ Crash(r)
  /\ Disturb
  /\ Trigger
  /\ UNCHANGED <<managerVars, loopVars>>

\* Nobody is about to run the job: the cron that looks for stuck jobs, every
\* five minutes and for jobs enqueued for five minutes, will find it.
Stuck(j) ==
  /\ State(j) = ENQUEUED
  /\ hand # j
  /\ \A r \in Request : req[r].job # j

Cron(j) ==
  /\ Stuck(j)
  /\ RequeueStuck(j)
  /\ Trigger
  /\ UNCHANGED <<managerVars, loopVars, budget>>

DelayJob(j) ==
  /\ \E eta \in Eta : Create(j, eta)
  /\ Trigger
  /\ UNCHANGED <<managerVars, loopVars, budget>>

Intervene(j) ==
  /\ \/ Requeue(j)
     \/ ButtonDone(j)
     \/ RequeueStuck(j)
     \/ Autovacuum(j)
     \/ Unlink(j)
  /\ Disturb
  /\ Trigger
  /\ UNCHANGED <<managerVars, loopVars>>

\* An UPDATE that changes no column of the model is notified too.
Touch(j) ==
  /\ Exists(j)
  /\ pc # "down"
  /\ Disturb
  /\ notifs' = notifs \cup {j}
  /\ UNCHANGED <<tableVars, managerVars, loopVars>>

Tick ==
  /\ CM!Tick
  /\ UNCHANGED <<tableVars, loopVars, notifs, budget>>

-----------------------------------------------------------------------------
Init ==
  /\ TableInit
  /\ CM!Init
  /\ pc = "down"
  /\ hand = NoJob
  /\ notifs = {}
  /\ budget = Budget

Loop ==
  \/ InitializeDatabases
  \/ RunJobs
  \/ \E c \in Channel : GetJobsToRun(c)
  \/ EnqueueInHand
  \/ \E r \in Request : AsyncHttpGet(r)
  \/ EndOfPass
  \/ WakeUp

Next ==
  \/ Loop
  \/ SelectTimeout
  \/ RunnerError
  \/ RunnerCrash
  \/ \E r \in Request : Work(r) \/ Trouble(r)
  \/ \E j \in Job : \/ ProcessNotification(j)
                    \/ Cron(j)
                    \/ DelayJob(j)
                    \/ Intervene(j)
                    \/ Touch(j)
  \/ Tick

Spec == Init /\ [][Next]_vars

\* The loop goes on, though nothing but a notification or the wakeup time is
\* needed to wake it up; every notification is received some day; workers and
\* threads go on with their requests; the cron runs; time passes, also while
\* the loop never rests.
Fairness ==
  /\ WF_vars(Loop)
  /\ \A j \in Job : SF_vars(ProcessNotification(j)) /\ WF_vars(Cron(j))
  /\ \A r \in Request : WF_vars(Work(r))
  /\ SF_vars(Tick)

FairSpec == Spec /\ Fairness

-----------------------------------------------------------------------------
(* Properties.                                                             *)

TypeOK ==
  /\ TableTypeOK
  /\ CM!TypeOK
  /\ pc \in LoopPc
  /\ hand \in Job \cup {NoJob}
  /\ notifs \subseteq Job
  /\ budget \in 0..Budget

\* The channels limit what is really under way in the table, not only what the
\* runner believes: however the runner fails and restarts, and whatever others do
\* to the rows, no channel has more jobs enqueued or started than its capacity.
CapacityRespected ==
  \A c \in Channel : Capacity[c] # 0 =>
    Cardinality({j \in Job : c \in Up[Home(j)] /\ State(j) \in {ENQUEUED, STARTED}})
      <= Capacity[c]

\* Once its notifications are dealt with, what the runner knows of a job agrees
\* with its row.
MirrorFaithful ==
  pc # "down" =>
    \A j \in Job \ (notifs \cup {hand}) :
      LET in(c, f) == j \in chan[c][f]
          anywhere == \E c \in Channel : j \in CM!Places(c)
      IN  /\ State(j) = PENDING =>
               /\ \E c \in Up[Home(j)] : j \in CM!Queued(chan, c)
               /\ ~in(Root, "running")
          /\ State(j) \in {ENQUEUED, STARTED} =>
               \A c \in Up[Home(j)] : in(c, "running")
          /\ State(j) = FAILED => in(Home(j), "failed")
          /\ State(j) \in {DONE, "absent"} => ~anywhere

\* The jobs that the runner may still enqueue.
Held ==
  {j \in Job : \E c \in Channel : j \in CM!Queued(chan, c)}
    \cup (IF pc = "enqueue" THEN {hand} ELSE {})

Store == INSTANCE JobStore WITH offered <- Held

\* The runner is one of those that JobStore allows, so that what is proved of
\* JobStore holds here.
ImplementsStore == Store!Spec

\* A job whose execution was cut short keeps its row started, and its place in
\* the channels, until a user requeues it.
Stale == \E j \in Job : State(j) = STARTED /\ ~Live(j)

\* Every job that is in the queue, or has been started, ends some day done, failed
\* or deleted, despite finitely many errors and interventions, unless a job
\* that was cut short fills the channels.
EventuallySettled ==
  \A j \in Job :
    State(j) \in {PENDING, ENQUEUED, STARTED} ~>
      State(j) \in {DONE, FAILED, "absent"} \/ Stale
=============================================================================

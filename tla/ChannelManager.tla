--------------------------- MODULE ChannelManager ---------------------------
(***************************************************************************)
(* The in-memory scheduler of the job runner (jobrunner/channels.py): a    *)
(* tree of channels, each with a priority queue, a queue of jobs set aside *)
(* until their eta, a set of running jobs, a set of failed jobs and a      *)
(* pause.  One thread owns this state; it is told about jobs by `notify',  *)
(* and asked for jobs to run by `get_jobs_to_run'.                         *)
(*                                                                         *)
(* get_jobs_to_run is a recursive generator: a channel drains its children *)
(* into its own queue, then yields jobs while it has capacity.  Here a     *)
(* cursor walks the channels children first, and every iteration of the    *)
(* loop of a channel is one step.                                          *)
(***************************************************************************)
EXTENDS Integers, FiniteSets, Sequences, JobStates, ChannelTree

CONSTANTS
  Job,          \* the jobs (their uuids)
  Name,         \* the channel names a job may carry
  Capacity,     \* 0 stands for None: no limit
  Sequential,   \* the channels configured as sequential
  Throttle,     \* delay between two jobs of the channel, 0 for none
  Created,      \* rank of a job by (date_created, id)
  Notice,       \* what notify may say of a job: [Job -> SUBSET NoticeType]
  MaxTime,      \* bound of the clock
  NoJob         \* not in jobs_by_uuid

VARIABLES
  jobs,         \* jobs_by_uuid: the ChannelJob objects
  chan,         \* the Channel objects
  cursor,       \* 0: no pass; i: visiting PostOrder[i]; Len + 1: pass over
  now,          \* the clock
  last_pop      \* history: when a throttled channel last yielded, 0 for never

vars == <<jobs, chan, cursor, now, last_pop>>

Time == 1..MaxTime
Visits == Len(PostOrder)
NoticeType == [channel : Name, priority : Nat, eta : Nat, state : STATES]
ChannelJob == [channel : Channel, priority : Nat, eta : Nat]
ChannelType == [queue : SUBSET Job, eta_queue : SUBSET Job,
                running : SUBSET Job, failed : SUBSET Job, pause_until : Nat]

\* Channel.configure refuses a sequential channel of another capacity than 1.
Config ==
  /\ Channel \subseteq Name
  /\ Capacity \in [Channel -> Nat]
  /\ Throttle \in [Channel -> Nat]
  /\ Sequential \subseteq {c \in Channel : Capacity[c] = 1}
  /\ Created \in [Job -> Nat]
  /\ \A j, k \in Job : j # k => Created[j] # Created[k]
  /\ Notice \in [Job -> SUBSET NoticeType]
  /\ MaxTime \in Nat
  /\ NoJob \notin ChannelJob

ASSUME ConfigAssumption == Config

-----------------------------------------------------------------------------
(* ChannelJob and ChannelQueue.  Its two queues are the sets of the jobs   *)
(* they hold: module PriorityQueue shows that of the lazy heaps.           *)

\* sorting_key_ignoring_eta, compared.
KeyLess(j, k) ==
  \/ jobs[j].priority < jobs[k].priority
  \/ jobs[j].priority = jobs[k].priority /\ Created[j] < Created[k]

\* Head of a heap of jobs without eta, and of a heap of jobs with one.
First(S) == CHOOSE j \in S : \A k \in S \ {j} : KeyLess(j, k)
FirstByEta(S) ==
  CHOOSE j \in S : \A k \in S \ {j} :
    \/ jobs[j].eta < jobs[k].eta
    \/ jobs[j].eta = jobs[k].eta /\ KeyLess(j, k)

Queued(ch, c) == ch[c].queue \cup ch[c].eta_queue

QueueAdd(box, j, eta) ==
  IF eta # 0 THEN [box EXCEPT !.eta_queue = @ \cup {j}]
             ELSE [box EXCEPT !.queue = @ \cup {j}]

\* What ChannelQueue.pop first does: jobs whose eta is past compete normally.
Ripe(c) == {j \in chan[c].eta_queue : jobs[j].eta <= now}
Ready(c) == chan[c].queue \cup Ripe(c)
Waiting(c) == chan[c].eta_queue \ Ripe(c)

\* A sequential queue waits for a job with an eta that comes before the others.
HeldBack(c) ==
  /\ c \in Sequential
  /\ Waiting(c) # {}
  /\ Ready(c) # {}
  /\ KeyLess(FirstByEta(Waiting(c)), First(Ready(c)))

-----------------------------------------------------------------------------
(* Channel: the transitions of a job along the path to the root.           *)

Without(box, j) ==
  [box EXCEPT !.queue = @ \ {j}, !.eta_queue = @ \ {j},
              !.running = @ \ {j}, !.failed = @ \ {j}]

Remove(ch, c, j) ==
  [x \in Channel |-> IF x \in Up[c] THEN Without(ch[x], j) ELSE ch[x]]

RemoveAbove(ch, c, j) ==
  [x \in Channel |-> IF x \in Up[c] \ {c} THEN Without(ch[x], j) ELSE ch[x]]

\* Mutant: the job stays in the queues of the channels above.
SetPending_KeepAbove(ch, c, j, eta) ==
  IF j \in Queued(ch, c)
    THEN ch
    ELSE [ch EXCEPT ![c] = QueueAdd(Without(@, j), j, eta)]

SetPending(ch, c, j, eta) ==
  IF j \in Queued(ch, c)
    THEN ch
    ELSE [RemoveAbove(ch, c, j) EXCEPT
            ![c] = QueueAdd(Without(@, j), j, eta)]

\* Climbs to the root, and stops at a channel where the job already runs.
SetRunning(ch, c, j) ==
  LET climbed == {x \in Up[c] : \A y \in Up[c] :
                                  x \in Up[y] => j \notin ch[y].running}
  IN  [x \in Channel |->
         IF x \in climbed
           THEN [Without(ch[x], j) EXCEPT !.running = @ \cup {j}]
           ELSE ch[x]]

\* Mutant: the job keeps its running slot.
SetFailed_KeepRunning(ch, c, j) ==
  IF j \in ch[c].failed
    THEN ch
    ELSE [RemoveAbove(ch, c, j) EXCEPT ![c].failed = @ \cup {j},
                                       ![c].queue = @ \ {j},
                                       ![c].eta_queue = @ \ {j}]

SetFailed(ch, c, j) ==
  IF j \in ch[c].failed
    THEN ch
    ELSE LET home == [Without(ch[c], j) EXCEPT !.failed = @ \cup {j}]
         IN  [RemoveAbove(ch, c, j) EXCEPT ![c] = home]

HasCapacity(c) ==
  /\ ~(c \in Sequential /\ chan[c].failed # {})
  /\ Capacity[c] = 0 \/ Cardinality(chan[c].running) < Capacity[c]

\* Mutant: the pause ends one second early.
Paused_Early(c) ==
  Throttle[c] > 0 /\ chan[c].pause_until > 0 /\ now + 1 < chan[c].pause_until

Paused(c) ==
  Throttle[c] > 0 /\ chan[c].pause_until > 0 /\ now < chan[c].pause_until

(* Channel.get_wakeup_time: a channel is asked when each of its ancestors  *)
(* has capacity and is not paused; a pause hides the etas behind it.       *)
Asked(c) == \A a \in Up[c] \ {c} : HasCapacity(a) /\ chan[a].pause_until = 0

\* Mutant: a full channel asks to be woken up too.
Wakeups_WhenFull(c) ==
  IF chan[c].pause_until # 0 THEN {chan[c].pause_until}
  ELSE {jobs[j].eta : j \in chan[c].eta_queue}

Wakeups(c) ==
  IF ~HasCapacity(c) THEN {}
  ELSE IF chan[c].pause_until # 0 THEN {chan[c].pause_until}
  ELSE {jobs[j].eta : j \in chan[c].eta_queue}

WakeupTime ==
  LET times == UNION {Wakeups(c) : c \in {x \in Channel : Asked(x)}}
  IN  IF times = {} THEN 0 ELSE CHOOSE t \in times : \A u \in times : t <= u

\* A channel whose pause is over forgets it; one that yields a job starts another.
Unpaused(c) == IF Throttle[c] > 0 THEN 0 ELSE chan[c].pause_until
Repaused(c) == IF Throttle[c] > 0 THEN now + Throttle[c] ELSE chan[c].pause_until

-----------------------------------------------------------------------------
(* ChannelManager.notify, remove_job and remove_db.  A job that is done    *)
(* leaves its channels.  Its entry here stays; in jobs_by_uuid, which      *)
(* holds its jobs weakly, it goes some day: a job that is in no channel    *)
(* has nothing to be removed from, so that nothing depends on it.          *)

\* An unknown channel name stands for the root channel.
ChannelOf(d) == IF d.channel \in Channel THEN d.channel ELSE Root

PropertiesChanged(j, d) ==
  /\ jobs[j] # NoJob
  /\ \/ jobs[j].priority # d.priority
     \/ jobs[j].eta # d.eta
     \/ jobs[j].channel # ChannelOf(d)

Transition(ch, c, j, d) ==
  CASE d.state = DONE                 -> Remove(ch, c, j)
    [] d.state = PENDING              -> SetPending(ch, c, j, d.eta)
    [] d.state \in {ENQUEUED, STARTED} -> SetRunning(ch, c, j)
    [] d.state = FAILED               -> SetFailed(ch, c, j)

\* Mutant: the job keeps the name that its row gives, though there is no such
\* channel.
Notify_ChannelAsNamed(j, d) ==
  LET known == IF PropertiesChanged(j, d) THEN Remove(chan, jobs[j].channel, j)
                                          ELSE chan
  IN  /\ chan' = Transition(known, ChannelOf(d), j, d)
      /\ jobs' = [jobs EXCEPT ![j] = [channel |-> d.channel,
                                      priority |-> d.priority, eta |-> d.eta]]
      /\ UNCHANGED <<cursor, now, last_pop>>

Notify(j, d) ==
  LET known == IF PropertiesChanged(j, d) THEN Remove(chan, jobs[j].channel, j)
                                          ELSE chan
      c == ChannelOf(d)
  IN  /\ chan' = Transition(known, c, j, d)
      /\ jobs' = [jobs EXCEPT ![j] = [channel |-> c, priority |-> d.priority,
                                      eta |-> d.eta]]
      /\ UNCHANGED <<cursor, now, last_pop>>

RemoveJob(j) ==
  /\ chan' = IF jobs[j] = NoJob THEN chan ELSE Remove(chan, jobs[j].channel, j)
  /\ jobs' = [jobs EXCEPT ![j] = NoJob]
  /\ UNCHANGED <<cursor, now, last_pop>>

\* Every known job leaves; the pauses stay.
RemoveDb ==
  /\ chan' = [c \in Channel |->
                [chan[c] EXCEPT !.queue = {}, !.eta_queue = {},
                                !.running = {}, !.failed = {}]]
  /\ jobs' = [j \in Job |-> NoJob]

-----------------------------------------------------------------------------
(* get_jobs_to_run.                                                        *)

StartPass ==
  /\ cursor = 0
  /\ cursor' = 1
  /\ UNCHANGED <<jobs, chan, now, last_pop>>

Visiting(c) == cursor \in 1..Visits /\ PostOrder[cursor] = c

SkipPaused(c) ==
  /\ Visiting(c)
  /\ Paused(c)
  /\ cursor' = cursor + 1
  /\ UNCHANGED <<jobs, chan, now, last_pop>>

SkipFull(c) ==
  /\ Visiting(c)
  /\ ~Paused(c)
  /\ ~HasCapacity(c)
  /\ chan' = [chan EXCEPT ![c].pause_until = Unpaused(c)]
  /\ cursor' = cursor + 1
  /\ UNCHANGED <<jobs, now, last_pop>>

\* The eta of a job that is past due is forgotten for good.
Ripen(c) == [j \in Job |-> IF j \in Ripe(c) THEN [jobs[j] EXCEPT !.eta = 0]
                                            ELSE jobs[j]]

\* Mutant: the queue is looked at before the jobs past their eta join it.
SkipEmpty_BeforeEta(c) ==
  /\ Visiting(c)
  /\ ~Paused(c)
  /\ HasCapacity(c)
  /\ chan[c].queue = {} \/ HeldBack(c)
  /\ jobs' = Ripen(c)
  /\ chan' = [chan EXCEPT ![c].queue = Ready(c), ![c].eta_queue = Waiting(c),
                          ![c].pause_until = Unpaused(c)]
  /\ cursor' = cursor + 1
  /\ UNCHANGED <<now, last_pop>>

SkipEmpty(c) ==
  /\ Visiting(c)
  /\ ~Paused(c)
  /\ HasCapacity(c)
  /\ Ready(c) = {} \/ HeldBack(c)
  /\ jobs' = Ripen(c)
  /\ chan' = [chan EXCEPT ![c].queue = Ready(c), ![c].eta_queue = Waiting(c),
                          ![c].pause_until = Unpaused(c)]
  /\ cursor' = cursor + 1
  /\ UNCHANGED <<now, last_pop>>

\* The job runs in c, and waits for its turn in the parent of c; a job that
\* the root channel yields is for the runner to dispatch.
Pop(c, j) ==
  /\ Visiting(c)
  /\ ~Paused(c)
  /\ HasCapacity(c)
  /\ Ready(c) # {}
  /\ ~HeldBack(c)
  /\ j = First(Ready(c))
  /\ jobs' = Ripen(c)
  /\ LET box == [chan[c] EXCEPT !.queue = Ready(c) \ {j},
                                 !.eta_queue = Waiting(c),
                                 !.running = @ \cup {j},
                                 !.pause_until = Repaused(c)]
         popped == [chan EXCEPT ![c] = box]
     IN  chan' = IF c = Root THEN popped
                 ELSE [popped EXCEPT ![Parent[c]].queue = @ \cup {j}]
  /\ last_pop' = [last_pop EXCEPT ![c] = IF Throttle[c] > 0 THEN now ELSE @]
  /\ UNCHANGED <<cursor, now>>

EndPass ==
  /\ cursor = Visits + 1
  /\ cursor' = 0
  /\ UNCHANGED <<jobs, chan, now, last_pop>>

\* The clock is read once per pass, so it is enough that it moves between two.
Tick ==
  /\ cursor = 0
  /\ now < MaxTime
  /\ now' = now + 1
  /\ UNCHANGED <<jobs, chan, cursor, last_pop>>

-----------------------------------------------------------------------------
EmptyChannel == [queue |-> {}, eta_queue |-> {}, running |-> {},
                 failed |-> {}, pause_until |-> 0]

Init ==
  /\ jobs = [j \in Job |-> NoJob]
  /\ chan = [c \in Channel |-> EmptyChannel]
  /\ cursor = 0
  /\ now = 1
  /\ last_pop = [c \in Channel |-> 0]

Scheduling ==
  \/ StartPass
  \/ EndPass
  \/ \E c \in Channel : \/ SkipPaused(c)
                        \/ SkipFull(c)
                        \/ SkipEmpty(c)
                        \/ \E j \in Job : Pop(c, j)

Notification ==
  /\ cursor = 0
  /\ \/ \E j \in Job : \/ \E d \in Notice[j] : Notify(j, d)
                       \/ RemoveJob(j)
     \/ RemoveDb /\ UNCHANGED <<cursor, now, last_pop>>

Next == Scheduling \/ Notification \/ Tick

Spec == Init /\ [][Next]_vars
-----------------------------------------------------------------------------
(* Properties.                                                             *)

TypeOK ==
  /\ jobs \in [Job -> ChannelJob \cup {NoJob}]
  /\ chan \in [Channel -> ChannelType]
  /\ cursor \in 0..(Visits + 1)
  /\ now \in Nat
  /\ last_pop \in [Channel -> Nat]

\* In a channel, a job waits, waits for its eta, runs or has failed: never two
\* of these, whatever the order in which notify, remove and the passes of
\* get_jobs_to_run move it about.
SinglePlace ==
  \A c \in Channel : \A j \in Job :
    Cardinality({f \in {"queue", "eta_queue", "running", "failed"} :
                   j \in chan[c][f]}) <= 1

Places(c) == chan[c].queue \cup chan[c].eta_queue \cup chan[c].running
             \cup chan[c].failed

\* The places of a job along the tree fit together.  A job unknown to the
\* manager is nowhere; away from its path to the root a job is nowhere; it has
\* reached a channel above its own exactly when it runs in the channel below; it
\* only fails, or awaits its eta, at home.
PathConsistent ==
  \A j \in Job :
    IF jobs[j] = NoJob
      THEN \A c \in Channel : j \notin Places(c)
      ELSE LET home == jobs[j].channel
           IN  /\ \A c \in Channel \ Up[home] : j \notin Places(c)
               /\ \A c \in Up[home] \ {home} :
                    j \notin chan[c].failed \cup chan[c].eta_queue
               /\ \A c \in Up[home] \ {Root} :
                    j \in chan[c].running <=> j \in Places(Parent[c])

\* A pass leaves nothing behind that could have been started: at its end, a
\* channel that is neither paused nor full holds no ready job, unless it is a
\* sequential one that waits for the eta of an earlier job.
WorkConserving ==
  cursor = Visits + 1 =>
    \A c \in Channel :
      Paused(c) \/ ~HasCapacity(c) \/ Ready(c) = {} \/ HeldBack(c)

\* Whether a job could move down to the root at time t, nothing else happening.
MovesAt(t) ==
  \E c \in Channel :
    /\ \A a \in Up[c] : HasCapacity(a) /\ chan[a].pause_until <= t
    /\ LET ready == chan[c].queue
                      \cup {j \in chan[c].eta_queue : jobs[j].eta <= t}
            later == chan[c].eta_queue \ ready
       IN  /\ ready # {}
           /\ c \in Sequential /\ later # {}
                => ~KeyLess(FirstByEta(later), First(ready))

\* The runner sleeps until get_wakeup_time, so after a pass that time must not
\* be past (`avoid perpetual wakeup'), and no job may become startable before
\* it: neither at the end of a pause nor at an eta is the runner overslept.
WakeupSound ==
  cursor = Visits + 1 =>
    /\ WakeupTime = 0 \/ WakeupTime > now
    /\ \A t \in (now + 1)..MaxTime :
         MovesAt(t) => WakeupTime # 0 /\ WakeupTime <= t

\* A throttled channel yields no job until `throttle' seconds have elapsed since
\* it yielded the previous one, although jobs are removed, requeued and reported
\* running by others in the meantime.
ThrottleSpaced ==
  [][\A c \in Channel :
       Throttle[c] > 0 /\ last_pop[c] # 0 /\ Visiting(c)
       /\ chan[c].running # chan'[c].running
         => now >= last_pop[c] + Throttle[c]]_vars

\* A sequential channel runs its jobs in the order of their keys: it never starts
\* a job while a job with a smaller key waits for its eta in that channel.
SequentialInOrder ==
  [][\A c \in Sequential : \A j, k \in Job :
       Pop(c, j) /\ k \in Waiting(c) => KeyLess(j, k)]_vars
=============================================================================

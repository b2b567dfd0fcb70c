-------------------------- MODULE JobRunnerProofs ---------------------------
(***************************************************************************)
(* Proofs about JobRunner, for any jobs, requests and tree of channels.    *)
(* What is proved of the channels alone comes from ChannelManagerProofs,   *)
(* and what is proved of the table from JobStoreProofs, of which the       *)
(* runner's two parts are instances.                                       *)
(***************************************************************************)
EXTENDS JobRunner, ChannelTreeProofs, FiniteSetTheorems

P == INSTANCE ChannelManagerProofs WITH Notice <- [j \in Job |-> {}]
S == INSTANCE JobStoreProofs WITH offered <- Held

USE DEF PENDING, ENQUEUED, STARTED, DONE, FAILED, STATES

-----------------------------------------------------------------------------
(* The instances.                                                          *)

\* The configuration is one of ChannelManager, the rows are those of JobStore.
LEMMA Configured ==
  /\ P!Tree /\ P!ChildrenFirst /\ P!Config
  /\ Fresh \notin S!Stored /\ Gone \notin S!Stored
<1>1. P!Tree
  BY TreeAssumption DEF Tree, P!Tree
<1>2. P!ChildrenFirst
  BY PostOrderAssumption DEF ChildrenFirst, P!ChildrenFirst
<1>3. CM!NoticeType = P!NoticeType /\ CM!ChannelJob = P!ChannelJob
  BY DEF P!NoticeType, CM!NoticeType, P!ChannelJob, CM!ChannelJob, P!STATES, CM!STATES,
         CM!PENDING, P!PENDING, CM!STARTED, P!STARTED, CM!ENQUEUED, P!ENQUEUED,
         CM!DONE, P!DONE, CM!FAILED, P!FAILED
<1>4. P!Config
  BY <1>3, RunnerAssumption DEF P!Config, CM!Config
<1> QED
  BY <1>1, <1>2, <1>4, RowAssumption
     DEF Stored, S!Stored, S!STATES, S!PENDING, S!STARTED, S!ENQUEUED, S!DONE, S!FAILED

\* The actions of the manager are the same in both instances.
LEMMA SameNotify ==
  ASSUME NEW j \in Job, NEW d, CM!Notify(j, d)
  PROVE  P!Notify(j, d)
  BY DEF CM!Notify, P!Notify, CM!PropertiesChanged, P!PropertiesChanged,
         CM!ChannelOf, P!ChannelOf, CM!Transition, P!Transition, CM!Remove, P!Remove,
         CM!Without, P!Without, CM!SetPending, P!SetPending,
         CM!SetRunning, P!SetRunning, CM!SetFailed, P!SetFailed,
         CM!RemoveAbove, P!RemoveAbove, CM!QueueAdd, P!QueueAdd,
         CM!Queued, P!Queued, CM!PENDING, P!PENDING, CM!STARTED, P!STARTED,
         CM!ENQUEUED, P!ENQUEUED, CM!DONE, P!DONE, CM!FAILED, P!FAILED

\* So is the removal of a job.
LEMMA SameRemoveJob ==
  ASSUME NEW j \in Job, CM!RemoveJob(j)
  PROVE  P!RemoveJob(j)
  BY DEF CM!RemoveJob, P!RemoveJob, CM!Remove, P!Remove, CM!Without, P!Without

\* So are the start and the end of a pass, and the clock.
LEMMA SameClock ==
  /\ CM!StartPass <=> P!StartPass
  /\ CM!EndPass <=> P!EndPass
  /\ CM!Tick <=> P!Tick
  BY DEF CM!StartPass, P!StartPass, CM!EndPass, P!EndPass, CM!Tick, P!Tick,
         CM!Visits, P!Visits

\* So are the iterations of a pass.
LEMMA SamePass ==
  ASSUME NEW c \in Channel
  PROVE  /\ CM!SkipPaused(c) <=> P!SkipPaused(c)
         /\ CM!SkipFull(c) <=> P!SkipFull(c)
         /\ CM!SkipEmpty(c) <=> P!SkipEmpty(c)
         /\ \A j \in Job : CM!Pop(c, j) <=> P!Pop(c, j)
<1>1. /\ CM!Paused(c) <=> P!Paused(c)
      /\ CM!HasCapacity(c) <=> P!HasCapacity(c)
      /\ CM!Visiting(c) <=> P!Visiting(c)
      /\ CM!Unpaused(c) = P!Unpaused(c) /\ CM!Repaused(c) = P!Repaused(c)
      /\ CM!Ready(c) = P!Ready(c) /\ CM!Waiting(c) = P!Waiting(c)
      /\ CM!Ripen(c) = P!Ripen(c)
  <2>1. CM!Paused(c) <=> P!Paused(c)
    BY DEF CM!Paused, P!Paused
  <2>2. CM!HasCapacity(c) <=> P!HasCapacity(c)
    BY DEF CM!HasCapacity, P!HasCapacity, CM!Cardinality, P!Cardinality
  <2>3. CM!Visiting(c) <=> P!Visiting(c)
    BY DEF CM!Visiting, P!Visiting, CM!Visits, P!Visits
  <2>4. CM!Unpaused(c) = P!Unpaused(c) /\ CM!Repaused(c) = P!Repaused(c)
    BY DEF CM!Unpaused, P!Unpaused, CM!Repaused, P!Repaused
  <2>5. CM!Ripe(c) = P!Ripe(c)
    BY DEF CM!Ripe, P!Ripe
  <2>6. CM!Ripen(c) = P!Ripen(c)
    BY <2>5 DEF CM!Ripen, P!Ripen
  <2> QED
    BY <2>1, <2>2, <2>3, <2>4, <2>5, <2>6 DEF CM!Ready, P!Ready, CM!Waiting, P!Waiting
<1>6. CM!First(CM!Ready(c)) = P!First(P!Ready(c))
  BY DEF CM!Ready, P!Ready, CM!Ripe, P!Ripe, CM!First, P!First, CM!KeyLess, P!KeyLess
<1>7. CM!HeldBack(c) <=> P!HeldBack(c)
  BY DEF CM!HeldBack, P!HeldBack, CM!Ready, P!Ready, CM!Waiting, P!Waiting,
         CM!Ripe, P!Ripe, CM!First, P!First, CM!FirstByEta, P!FirstByEta,
         CM!KeyLess, P!KeyLess
<1>2. CM!SkipPaused(c) <=> P!SkipPaused(c)
  BY <1>1 DEF CM!SkipPaused, P!SkipPaused
<1>3. CM!SkipFull(c) <=> P!SkipFull(c)
  BY <1>1 DEF CM!SkipFull, P!SkipFull
<1>4. CM!SkipEmpty(c) <=> P!SkipEmpty(c)
  BY <1>1, <1>7 DEF CM!SkipEmpty, P!SkipEmpty
<1>5. ASSUME NEW j \in Job
      PROVE  CM!Pop(c, j) <=> P!Pop(c, j)
  BY <1>1, <1>6, <1>7 DEF CM!Pop, P!Pop
<1> QED
  BY <1>2, <1>3, <1>4, <1>5

\* They count in the same way.
LEMMA SameCardinality == \A X : P!Cardinality(X) = Cardinality(X)
  BY DEF P!Cardinality, Cardinality

\* A step of JobStore, with what the runner holds for the jobs offered.
StoreStep ==
  \/ /\ Held' \subseteq Held \cup {j \in Job : State(j) = PENDING}
     /\ UNCHANGED tableVars
  \/ \E j \in Job : j \in Held /\ SetJobEnqueued(j) /\ Held' = Held \ {j}
  \/ ClientsDie /\ Held' = {}
  \/ /\ \/ \E r \in Request : RequestStep(r) \/ RequestWrite(r)
        \/ \E r \in Request, j \in Job, waits \in BOOLEAN : HttpGet(r, j, waits)
        \/ \E j \in Job : Administration(j)
     /\ Held' = Held

\* Every step of the runner is a step of JobStore, in the instance of the proofs.
LEMMA StepOfS == StoreStep => S!Next
<1>1. /\ \A j \in Job : State(j) = S!State(j) /\ (Live(j) <=> S!Live(j))
      /\ \A r \in Request : Ended(r) = S!Ended(r) /\ Broken(r) = S!Broken(r)
      /\ IdleRequest = S!IdleRequest
  BY DEF State, S!State, Exists, S!Exists, Executing, S!Executing, Live, S!Live,
         Ended, S!Ended, Broken, S!Broken, IdleRequest, S!IdleRequest, NoMemory,
         S!NoMemory
<1>2. ASSUME NEW j \in Job, SetJobEnqueued(j)
      PROVE  S!SetJobEnqueued(j)
  BY <1>2 DEF SetJobEnqueued, S!SetJobEnqueued, Write, S!Write, Exists, S!Exists, S!ENQUEUED
<1>3. ASSUME ClientsDie
      PROVE  S!ClientsDie
  BY <1>3 DEF ClientsDie, S!ClientsDie, IdleRequest, S!IdleRequest, NoMemory, S!NoMemory
<1>4. ASSUME NEW r \in Request, NEW j \in Job, NEW waits \in BOOLEAN, HttpGet(r, j, waits)
      PROVE  S!HttpGet(r, j, waits)
  BY <1>4 DEF HttpGet, S!HttpGet, IdleRequest, S!IdleRequest, NoMemory, S!NoMemory
<1>5. ASSUME NEW r \in Request, RequestStep(r)
      PROVE  S!RequestStep(r)
  BY <1>5 DEF RequestStep, S!RequestStep, RequestLost, S!RequestLost, RunjobReject,
         S!RunjobReject, TakeSnapshot, S!TakeSnapshot, NothingToDoConflict,
         S!NothingToDoConflict, OperationalError, S!OperationalError,
         RetryableJobError, S!RetryableJobError, OtherError, S!OtherError,
         PostponeFails, S!PostponeFails, EndPostponed, S!EndPostponed, Closing,
         S!Closing, Crash, S!Crash, Retried, S!Retried, Broken,
         S!Broken, Ended, S!Ended, IdleRequest, S!IdleRequest, NoMemory, S!NoMemory,
         State, S!State, Exists, S!Exists, Executing, S!Executing, S!ENQUEUED
<1>6. ASSUME NEW r \in Request, RequestWrite(r)
      PROVE  S!RequestWrite(r)
  BY <1>6 DEF RequestWrite, S!RequestWrite, ClientGivesUp, S!ClientGivesUp, RunjobStart,
         S!RunjobStart, Finish, S!Finish, Postpone, S!Postpone, Postponed,
         S!Postponed, SetFailed, S!SetFailed, Write, S!Write, Retried, S!Retried, Broken, S!Broken, Ended,
         S!Ended, IdleRequest, S!IdleRequest, NoMemory, S!NoMemory, State, S!State,
         Exists, S!Exists, S!PENDING, S!ENQUEUED, S!STARTED, S!DONE, S!FAILED
<1>7. ASSUME NEW j \in Job, Administration(j)
      PROVE  S!Administration(j)
  BY <1>7 DEF Administration, S!Administration, Create, S!Create, Requeue, S!Requeue,
         ButtonDone, S!ButtonDone, RequeueStuck, S!RequeueStuck, Autovacuum,
         S!Autovacuum, Unlink, S!Unlink, ToVacuum, S!ToVacuum, Write, S!Write,
         State, S!State, Exists, S!Exists, Live, S!Live, Executing, S!Executing,
         S!PENDING, S!ENQUEUED, S!STARTED, S!DONE, S!FAILED
<1>8. CASE /\ Held' \subseteq Held \cup {j \in Job : State(j) = PENDING}
           /\ UNCHANGED tableVars
  <2>1. Held' \subseteq Held \cup S!Pending
    BY <1>1, <1>8 DEF S!Pending, S!PENDING
  <2> QED
    BY <1>8, <2>1 DEF S!Next, S!Refresh, tableVars, S!tableVars
<1> QED
  BY <1>2, <1>3, <1>4, <1>5, <1>6, <1>7, <1>8
     DEF StoreStep, S!Next, S!Enqueue, S!RunnerDies

\* JobRunner's instance of JobStore is the same.
LEMMA SameStore == (S!Next <=> Store!Next) /\ S!vars = Store!vars
  BY Zenon DEF Store!Next, S!Next, Store!vars, S!vars, Store!tableVars, S!tableVars,
         Store!Refresh, S!Refresh, Store!Pending, S!Pending, Store!Enqueue,
         S!Enqueue, Store!RunnerDies, S!RunnerDies, Store!RequestStep,
         S!RequestStep, Store!RequestWrite, S!RequestWrite, Store!Administration,
         S!Administration, Store!RequestLost, S!RequestLost, Store!RunjobReject,
         S!RunjobReject, Store!TakeSnapshot, S!TakeSnapshot,
         Store!NothingToDoConflict, S!NothingToDoConflict, Store!OperationalError,
         S!OperationalError, Store!RetryableJobError, S!RetryableJobError,
         Store!OtherError, S!OtherError, Store!PostponeFails, S!PostponeFails,
         Store!EndPostponed, S!EndPostponed, Store!Closing, S!Closing,
         Store!Postponed, S!Postponed, Store!Crash, S!Crash, Store!Retried, S!Retried, Store!Broken, S!Broken,
         Store!Ended, S!Ended, Store!IdleRequest, S!IdleRequest, Store!NoMemory,
         S!NoMemory, Store!State, S!State, Store!Exists, S!Exists, Store!Executing,
         S!Executing, Store!Live, S!Live, Store!ClientGivesUp, S!ClientGivesUp,
         Store!RunjobStart, S!RunjobStart, Store!Finish, S!Finish, Store!Postpone,
         S!Postpone, Store!SetFailed, S!SetFailed, Store!Write, S!Write,
         Store!Create, S!Create, Store!Requeue, S!Requeue, Store!ButtonDone,
         S!ButtonDone, Store!RequeueStuck, S!RequeueStuck, Store!Autovacuum,
         S!Autovacuum, Store!Unlink, S!Unlink, Store!ToVacuum, S!ToVacuum,
         Store!ClientsDie, S!ClientsDie, Store!HttpGet, S!HttpGet,
         Store!SetJobEnqueued, S!SetJobEnqueued, Store!PENDING, S!PENDING,
         Store!ENQUEUED, S!ENQUEUED, Store!STARTED, S!STARTED, Store!DONE, S!DONE,
         Store!FAILED, S!FAILED

-----------------------------------------------------------------------------
(* The inductive invariant.                                                *)

\* A job runs in its channel and in all those above.
Runs(j) == \A c \in Up[Home(j)] : j \in chan[c].running

\* The jobs of a channel, or of those below, that are under way in the table.
Busy(c) == {j \in Job : c \in Up[Home(j)] /\ State(j) \in {ENQUEUED, STARTED}}

Within(X, c) == IsFiniteSet(X) /\ (Capacity[c] # 0 => Cardinality(X) <= Capacity[c])

\* The job in hand runs in the channels; its row says so in the end.
HandRuns ==
  /\ hand \in Job <=> pc \in {"enqueue", "http"}
  /\ pc = "enqueue" => hand \in notifs \/ State(hand) = PENDING
  /\ pc = "http" => hand \in notifs
  /\ hand \in Job => Runs(hand)

\* A runner that is down knows nothing.
DownEmpty == pc = "down" => notifs = {} /\ \A j \in Job : jobs[j] = NoJob

\* The manager knows a job in its own channel.
KnownAtHome == \A j \in Job : jobs[j] # NoJob => jobs[j].channel = Home(j)

\* What is under way in the table runs in the channels, told or not.
BusyRuns ==
  pc # "down" => \A j \in Job : State(j) \in {ENQUEUED, STARTED} => Runs(j)

\* The channels, and without a runner the table, respect the capacities.
Counted ==
  \A c \in Channel : Within(IF pc = "down" THEN Busy(c) ELSE chan[c].running, c)

\* MirrorFaithful, of one job.
Mirrors(j) ==
  /\ State(j) = PENDING =>
       /\ \E c \in Up[Home(j)] : j \in chan[c].queue \cup chan[c].eta_queue
       /\ j \notin chan[Root].running
  /\ State(j) \in {ENQUEUED, STARTED} => Runs(j)
  /\ State(j) = FAILED => j \in chan[Home(j)].failed
  /\ State(j) \in {DONE, "absent"} => \A c \in Channel : j \notin P!Everywhere(chan[c])

AllMirrored == pc # "down" => \A j \in Job \ (notifs \cup {hand}) : Mirrors(j)

LoopTypes ==
  /\ pc \in LoopPc
  /\ hand \in Job \cup {NoJob}
  /\ notifs \subseteq Job
  /\ budget \in 0..Budget
  /\ now \in Nat \ {0}

\* What concerns the loop, beside the table and the places in the channels.
LoopInv ==
  /\ LoopTypes
  /\ HandRuns
  /\ DownEmpty
  /\ KnownAtHome
  /\ BusyRuns
  /\ Counted
  /\ AllMirrored

Inv == S!Inv /\ P!PlaceInv /\ LoopInv

\* MirrorFaithful says the same in the words of ChannelManager.
LEMMA MirrorsSame == MirrorFaithful <=> AllMirrored
<1>1. \A c \in Channel : CM!Places(c) = P!Everywhere(chan[c])
  BY DEF CM!Places, P!Everywhere
<1>2. \A c \in Channel : CM!Queued(chan, c) = chan[c].queue \cup chan[c].eta_queue
  BY DEF CM!Queued
<1>3. \A j \in Job : Home(j) \in Channel /\ Up[Home(j)] \subseteq Channel
  BY TreeAssumption DEF Home, CM!ChannelOf, Tree
<1> QED
  BY <1>1, <1>2, <1>3 DEF MirrorFaithful, AllMirrored, Mirrors, Runs

-----------------------------------------------------------------------------
(* Facts about the table and the homes.                                    *)

\* The channel of a job is a channel, below the root.
LEMMA HomeType ==
  ASSUME NEW j \in Job
  PROVE  /\ Home(j) \in Channel /\ Home(j) \in Up[Home(j)] /\ Root \in Up[Home(j)]
         /\ Up[Home(j)] \subseteq Channel
<1>1. Home(j) \in Channel
  BY TreeAssumption DEF Home, CM!ChannelOf, Tree
<1> QED
  BY <1>1, PositionType, TreeAssumption DEF Tree

\* What JobStore says of the table, in the words of JobTable.
LEMMA TableFacts ==
  ASSUME S!Inv
  PROVE  /\ TableTypeOK
         /\ \A j \in Held : State(j) \notin {ENQUEUED, STARTED}
<1>1. S!TableTypeOK /\ \A j \in Held : S!State(j) \notin {ENQUEUED, STARTED}
  BY DEF S!Inv, S!TypeOK, S!OfferedWaits, S!ENQUEUED, S!STARTED
<1> QED
  BY <1>1 DEF S!TableTypeOK, TableTypeOK, S!Stored, Stored, S!RequestType, RequestType,
     S!Pc, Pc, S!Memory, Memory, S!STATES, S!PENDING, S!ENQUEUED, S!STARTED, S!DONE,
     S!FAILED, S!State, State, S!Exists, Exists

-----------------------------------------------------------------------------
(* Steps of the table.                                                     *)

\* A step of a request, a user or a cron.
TableWork ==
  \/ \E r \in Request : RequestStep(r) \/ RequestWrite(r)
  \/ \E j \in Job : Administration(j)

\* A write changes one row.
LEMMA WriteRow ==
  ASSUME TableTypeOK, NEW j, NEW stored, NEW requests, Write(j, stored, requests)
  PROVE  \A k \in Job : row'[k] = IF k = j THEN stored ELSE row[k]
  BY DEF Write, TableTypeOK

\* A write of a job that is then neither enqueued nor started puts no job under way.
LEMMA WriteIdle ==
  ASSUME TableTypeOK, NEW j, NEW stored, NEW requests, Write(j, stored, requests),
         stored = Gone \/ stored.state \notin {ENQUEUED, STARTED}
  PROVE  \A k \in Job : State(k)' \in {ENQUEUED, STARTED} => State(k) \in {ENQUEUED, STARTED}
  BY WriteRow DEF State, Exists

\* Only the runner puts jobs under way.
LEMMA BusyStays ==
  ASSUME TableTypeOK, TableWork
  PROVE  \A k \in Job : State(k)' \in {ENQUEUED, STARTED} => State(k) \in {ENQUEUED, STARTED}
<1>1. ASSUME row' = row
      PROVE  \A k \in Job : State(k)' = State(k)
  BY <1>1 DEF State, Exists
<1>2. ASSUME NEW r \in Request, RequestStep(r)
      PROVE  row' = row
  BY <1>2 DEF RequestStep, RequestLost, RunjobReject, TakeSnapshot, NothingToDoConflict,
     OperationalError, RetryableJobError, OtherError, PostponeFails, EndPostponed,
     Crash
<1>3. ASSUME NEW r \in Request, RequestWrite(r)
      PROVE  \A k \in Job :
               State(k)' \in {ENQUEUED, STARTED} => State(k) \in {ENQUEUED, STARTED}
  <2>1. CASE ClientGivesUp(r)
    <3>1. CASE State(req[r].job) # ENQUEUED
      BY <1>1, <2>1, <3>1 DEF ClientGivesUp
    <3>2. CASE State(req[r].job) = ENQUEUED
      <4> DEFINE stored == [row[req[r].job] EXCEPT !.state = PENDING]
      <4>1. \E requests : Write(req[r].job, stored, requests)
        BY <2>1, <3>2 DEF ClientGivesUp
      <4>2. ASSUME req[r].job \in Job
            PROVE  stored.state = PENDING
        BY <3>2, <4>2 DEF TableTypeOK, State, Exists, Stored
      <4>3. CASE req[r].job \in Job
        BY <4>1, <4>2, <4>3, WriteIdle
      <4>4. CASE req[r].job \notin Job
        BY <1>1, <4>1, <4>4 DEF Write, TableTypeOK
      <4> QED
        BY <4>3, <4>4
    <3> QED
      BY <3>1, <3>2
  <2>2. CASE RunjobStart(r)
    <3>1. State(req[r].job) = ENQUEUED
      BY <2>2 DEF RunjobStart
    <3>2. \E stored, requests : Write(req[r].job, stored, requests)
      BY <2>2 DEF RunjobStart
    <3> QED
      BY <3>1, <3>2, WriteRow DEF State, Exists
  <2>3. CASE Finish(r)
    <3>1. \E requests : Write(req[r].job, [state |-> DONE, retry |-> Retried(r),
                              eta |-> req[r].mem.eta, date_done |-> TRUE], requests)
      BY <2>3 DEF Finish
    <3> QED
      BY <3>1, WriteIdle
  <2>4. ASSUME NEW eta \in Eta, Postpone(r, eta)
        PROVE  \A k \in Job :
                 State(k)' \in {ENQUEUED, STARTED} => State(k) \in {ENQUEUED, STARTED}
    <3>1. \E requests : Write(req[r].job, [state |-> PENDING, retry |-> req[r].mem.retry,
                        eta |-> eta, date_done |-> req[r].mem.date_done], requests)
      BY <2>4 DEF Postpone
    <3> QED
      BY <3>1, WriteIdle
  <2>5. CASE SetFailed(r)
    <3>1. \E requests : Write(req[r].job, [state |-> FAILED, retry |-> req[r].mem.retry,
                        eta |-> req[r].mem.eta,
                        date_done |-> req[r].mem.date_done], requests)
      BY <2>5 DEF SetFailed
    <3> QED
      BY <3>1, WriteIdle
  <2> QED
    BY <1>3, <2>1, <2>2, <2>3, <2>4, <2>5 DEF RequestWrite
<1>4. ASSUME NEW j \in Job, Administration(j)
      PROVE  \A k \in Job :
               State(k)' \in {ENQUEUED, STARTED} => State(k) \in {ENQUEUED, STARTED}
  <2>1. \E stored, requests :
          /\ Write(j, stored, requests)
          /\ stored = Gone \/ stored.state \in {PENDING, DONE}
    <3>1. CASE \E eta \in Eta : Create(j, eta)
      BY <3>1 DEF Create
    <3>2. CASE Autovacuum(j) \/ Unlink(j)
      BY <3>2 DEF Autovacuum, Unlink
    <3>3. CASE Requeue(j) \/ ButtonDone(j) \/ RequeueStuck(j)
      <4>1. Exists(j) /\ row[j] \in Stored
        BY <3>3 DEF Requeue, ButtonDone, RequeueStuck, State, Exists, TableTypeOK
      <4>2. /\ [row[j] EXCEPT !.state = PENDING, !.retry = 0].state = PENDING
            /\ [row[j] EXCEPT !.state = DONE, !.date_done = TRUE].state = DONE
        BY <4>1 DEF Stored
      <4> QED
        BY <3>3, <4>2 DEF Requeue, ButtonDone, RequeueStuck
    <3> QED
      BY <1>4, <3>1, <3>2, <3>3 DEF Administration
  <2> QED
    BY <2>1, WriteIdle
<1> QED
  BY <1>1, <1>2, <1>3, <1>4 DEF TableWork

\* A job under way in the table is counted in its channels.
LEMMA BusyStep ==
  ASSUME Counted, pc = "down", pc' = "down",
         \A k \in Job : State(k)' \in {ENQUEUED, STARTED} => State(k) \in {ENQUEUED, STARTED}
  PROVE  Counted'
<1> SUFFICES ASSUME NEW c \in Channel
             PROVE  Within(Busy(c)', c)
  BY DEF Counted
<1>1. Within(Busy(c), c)
  BY DEF Counted
<1>2. Busy(c)' \subseteq Busy(c)
  BY DEF Busy, Home, CM!ChannelOf
<1>3. IsFiniteSet(Busy(c)') /\ Cardinality(Busy(c)') <= Cardinality(Busy(c))
  BY <1>1, <1>2, FS_Subset DEF Within
<1>4. Cardinality(Busy(c)') \in Nat /\ Cardinality(Busy(c)) \in Nat /\ Capacity[c] \in Nat
  BY <1>1, <1>3, FS_CardinalityType, RunnerAssumption DEF Within, CM!Config
<1> QED
  BY <1>1, <1>3, <1>4 DEF Within

\* What the rows become is notified, or nobody listens: a step of the table keeps
\* the invariant of the loop.
LEMMA TableLoop ==
  ASSUME Inv, TableWork, Trigger, UNCHANGED <<managerVars, loopVars>>,
         budget' \in 0..Budget
  PROVE  LoopInv'
<1>1. TableTypeOK
  BY TableFacts DEF Inv
<1>2. \A k \in Job : State(k)' \in {ENQUEUED, STARTED} => State(k) \in {ENQUEUED, STARTED}
  BY <1>1, BusyStays
<1>3. UNCHANGED <<jobs, chan, now, pc, hand>>
  BY DEF managerVars, loopVars
<1>4. \A j \in Job : Runs(j)' <=> Runs(j)
  BY <1>3 DEF Runs, Home, CM!ChannelOf
<1>5. /\ pc = "down" => notifs' = {}
      /\ pc # "down" => notifs \subseteq notifs'
      /\ notifs' \subseteq Job
      /\ pc # "down" => \A j \in Job \ notifs' :
           row'[j] # row[j] => row'[j] = Gone /\ State(j) = DONE
  BY DEF Trigger, Notified, Inv, LoopInv, LoopTypes
<1>6. ASSUME NEW j \in Job \ notifs', pc # "down"
      PROVE  State(j)' = State(j) \/ (State(j)' = "absent" /\ State(j) = DONE)
  BY <1>5, <1>6 DEF State, Exists
<1>7. LoopTypes'
  BY <1>3, <1>5 DEF Inv, LoopInv, LoopTypes
<1>8. HandRuns'
  <2>1. pc' = "enqueue" => hand' \in notifs' \/ State(hand)' = PENDING
    BY <1>3, <1>5, <1>6 DEF Inv, LoopInv, HandRuns, LoopTypes
  <2> QED
    BY <1>3, <1>4, <1>5, <2>1 DEF Inv, LoopInv, HandRuns
<1>9. DownEmpty' /\ KnownAtHome'
  BY <1>3, <1>5 DEF Inv, LoopInv, DownEmpty, KnownAtHome, Home, CM!ChannelOf
<1>10. BusyRuns'
  BY <1>2, <1>3, <1>4 DEF Inv, LoopInv, BusyRuns
<1>11. Counted'
  <2>1. CASE pc = "down"
    BY <1>2, <1>3, <2>1, BusyStep DEF Inv, LoopInv
  <2>2. CASE pc # "down"
    BY <1>3, <2>2 DEF Inv, LoopInv, Counted
  <2> QED
    BY <2>1, <2>2
<1>12. AllMirrored'
  <2> SUFFICES ASSUME pc # "down", NEW j \in Job \ (notifs' \cup {hand})
               PROVE  Mirrors(j)'
    BY <1>3 DEF AllMirrored
  <2>1. Mirrors(j)
    BY <1>5 DEF Inv, LoopInv, AllMirrored
  <2>2. State(j)' = State(j) \/ (State(j)' = "absent" /\ State(j) = DONE)
    BY <1>6
  <2>3. chan' = chan /\ Home(j)' = Home(j)
    BY <1>3 DEF Home, CM!ChannelOf
  <2> QED
    BY <1>4, <2>1, <2>2, <2>3 DEF Mirrors
<1> QED
  BY <1>7, <1>8, <1>9, <1>10, <1>11, <1>12 DEF LoopInv

\* The eta that a job gets when it is postponed is one of those enumerated.
LEMMA RetryEtaType == LoopTypes => RetryEta \in Eta
<1>1. MaxTime \in Nat /\ {MaxTime} \cup (2..MaxTime) \subseteq Eta
  BY RunnerAssumption DEF CM!Config
<1>2. CASE now < MaxTime
  BY <1>1, <1>2 DEF LoopTypes, RetryEta
<1>3. CASE ~(now < MaxTime)
  BY <1>1, <1>3 DEF RetryEta
<1> QED
  BY <1>2, <1>3

\* The steps of requests, users and crons are steps of the table, which tell the
\* runner.
LEMMA TableActions ==
  ASSUME LoopTypes,
         \/ \E r \in Request : Work(r) \/ Trouble(r)
         \/ \E j \in Job : Cron(j) \/ DelayJob(j) \/ Intervene(j)
  PROVE  /\ TableWork /\ Trigger /\ UNCHANGED <<managerVars, loopVars>>
         /\ budget' \in 0..Budget
<1> DEFINE Goal == /\ TableWork /\ Trigger /\ UNCHANGED <<managerVars, loopVars>>
                   /\ budget' \in 0..Budget
<1>1. Disturb => budget' \in 0..Budget
  BY RunnerAssumption DEF Disturb, LoopTypes
<1>2. ASSUME NEW r \in Request, Work(r)
      PROVE  Goal
  <2>1. RequestStep(r) \/ RequestWrite(r)
    BY <1>2, RetryEtaType DEF Work, RequestStep, RequestWrite
  <2> QED
    BY <1>2, <2>1 DEF Work, TableWork, LoopTypes
<1>3. ASSUME NEW r \in Request, Trouble(r)
      PROVE  Goal
  <2>1. RequestStep(r) \/ RequestWrite(r)
    BY <1>3 DEF Trouble, RequestStep, RequestWrite
  <2> QED
    BY <1>1, <1>3, <2>1 DEF Trouble, TableWork
<1>4. ASSUME NEW j \in Job, Cron(j) \/ DelayJob(j)
      PROVE  Goal
  <2>1. Administration(j)
    BY <1>4 DEF Cron, DelayJob, Administration
  <2> QED
    BY <1>4, <2>1 DEF Cron, DelayJob, TableWork, LoopTypes
<1>5. ASSUME NEW j \in Job, Intervene(j)
      PROVE  Goal
  <2>1. Administration(j)
    BY <1>5 DEF Intervene, Administration
  <2> QED
    BY <1>1, <1>5, <2>1 DEF Intervene, TableWork
<1> QED
  BY <1>2, <1>3, <1>4, <1>5

\* What the runner holds depends on the channels and on the place in the loop.
LEMMA HeldSame ==
  ASSUME chan' = chan, pc' = pc, hand' = hand
  PROVE  Held' = Held
  BY DEF Held, CM!Queued

-----------------------------------------------------------------------------
(* The UPDATE and the GET.                                                 *)

\* A job that runs up to the root is not queued anywhere, nor failed.
LEMMA RunningOnly ==
  ASSUME P!PlaceInv, KnownAtHome, NEW j \in Job, Runs(j)
  PROVE  \A c \in Channel :
           j \notin chan[c].queue \cup chan[c].eta_queue \cup chan[c].failed
<1>1. /\ Home(j) \in Channel /\ Home(j) \in Up[Home(j)] /\ Up[Home(j)] \subseteq Channel
      /\ j \in chan[Home(j)].running
  BY HomeType DEF Runs
<1>2. P!Placed(chan, j, jobs[j])
  BY DEF P!PlaceInv, P!Fits
<1>3. jobs[j] # NoJob
  BY <1>1, <1>2 DEF P!Placed, P!Nowhere, P!Everywhere
<1>4. P!Once(chan, j) /\ P!OnPath(chan, j, Home(j))
  BY <1>2, <1>3 DEF P!Placed, KnownAtHome
<1> QED
  BY <1>4 DEF P!Once, P!OnPath, P!Everywhere, Runs

\* The jobs held are jobs.
LEMMA HeldJobs ==
  ASSUME LoopTypes, HandRuns
  PROVE  Held \subseteq Job
  BY DEF Held, LoopTypes, HandRuns

\* The UPDATE is that of a job held, which is then held no more.
LEMMA EnqueueStore ==
  ASSUME Inv, EnqueueInHand
  PROVE  StoreStep
<1>1. hand \in Job /\ pc = "enqueue" /\ pc' = "http" /\ chan' = chan /\ Runs(hand)
  BY DEF EnqueueInHand, managerVars, Inv, LoopInv, HandRuns
<1>2. \A c \in Channel : hand \notin CM!Queued(chan, c)
  BY <1>1, RunningOnly DEF Inv, LoopInv, CM!Queued
<1>3. Held = {j \in Job : \E c \in Channel : j \in CM!Queued(chan, c)} \cup {hand}
  BY <1>1 DEF Held
<1>4. Held' = {j \in Job : \E c \in Channel : j \in CM!Queued(chan, c)}
  BY <1>1 DEF Held, CM!Queued
<1>5. Held' = Held \ {hand} /\ hand \in Held
  BY <1>2, <1>3, <1>4
<1> QED
  BY <1>1, <1>5 DEF StoreStep, EnqueueInHand

\* After the UPDATE the row of the job in hand says what the channels say, unless a
\* notification that is on its way tells another story.
LEMMA EnqueueLoop ==
  ASSUME Inv, EnqueueInHand
  PROVE  LoopInv'
<1>1. /\ hand \in Job /\ pc = "enqueue" /\ pc' = "http" /\ Runs(hand)
      /\ UNCHANGED <<jobs, chan, now, hand, budget>>
      /\ SetJobEnqueued(hand) /\ Trigger
      /\ hand \in notifs \/ State(hand) = PENDING
  BY DEF EnqueueInHand, managerVars, Inv, LoopInv, HandRuns
<1>2. TableTypeOK
  BY TableFacts DEF Inv
<1>3. /\ \A k \in Job \ {hand} : row'[k] = row[k] /\ State(k)' = State(k)
      /\ Exists(hand) => row'[hand] = [row[hand] EXCEPT !.state = ENQUEUED]
  <2>1. CASE Exists(hand)
    <3>1. \E requests : Write(hand, [row[hand] EXCEPT !.state = ENQUEUED], requests)
      BY <1>1, <2>1 DEF SetJobEnqueued
    <3> QED
      BY <1>1, <1>2, <3>1, WriteRow DEF State, Exists
  <2>2. CASE ~Exists(hand)
    BY <1>1, <2>2 DEF SetJobEnqueued, State, Exists
  <2> QED
    BY <2>1, <2>2
<1>4. \A j \in Job : Runs(j)' <=> Runs(j)
  BY <1>1 DEF Runs, Home, CM!ChannelOf
<1>5. notifs \subseteq notifs' /\ notifs' \subseteq Job /\ hand \in notifs'
  <2>1. State(hand) = PENDING => row'[hand] # row[hand]
    <3> SUFFICES ASSUME State(hand) = PENDING
                 PROVE  row'[hand] # row[hand]
      OBVIOUS
    <3>1. Exists(hand) /\ row[hand] \in Stored /\ row[hand].state = PENDING
      BY <1>1, <1>2 DEF State, Exists, TableTypeOK
    <3>2. row'[hand].state = ENQUEUED
      BY <1>3, <3>1 DEF Stored
    <3> QED
      BY <3>1, <3>2
  <2> QED
    BY <1>1, <2>1 DEF Trigger, Notified, Inv, LoopInv, LoopTypes
<1>6. LoopTypes' /\ HandRuns' /\ DownEmpty' /\ KnownAtHome'
  BY <1>1, <1>4, <1>5 DEF Inv, LoopInv, LoopTypes, LoopPc, HandRuns, DownEmpty, KnownAtHome,
     Home, CM!ChannelOf
<1>7. BusyRuns' /\ Counted'
  BY <1>1, <1>3, <1>4 DEF Inv, LoopInv, BusyRuns, Counted
<1>8. AllMirrored'
  <2> SUFFICES ASSUME NEW j \in Job \ (notifs' \cup {hand})
               PROVE  Mirrors(j)'
    BY <1>1 DEF AllMirrored
  <2>1. Mirrors(j) /\ State(j)' = State(j)
    BY <1>1, <1>3, <1>5 DEF Inv, LoopInv, AllMirrored
  <2>2. chan' = chan /\ Home(j)' = Home(j)
    BY <1>1 DEF Home, CM!ChannelOf
  <2> QED
    BY <1>4, <2>1, <2>2 DEF Mirrors
<1> QED
  BY <1>6, <1>7, <1>8 DEF LoopInv

\* The GET is sent for a job that has been notified: nothing is expected of what the
\* channels say of it before that.
LEMMA HttpGetStep ==
  ASSUME Inv, NEW r \in Request, AsyncHttpGet(r)
  PROVE  StoreStep /\ LoopInv'
<1>1. /\ hand \in Job /\ pc = "http" /\ pc' = "pass" /\ hand' = NoJob /\ hand \in notifs
      /\ UNCHANGED <<jobs, chan, now, row, notifs, budget>>
      /\ HttpGet(r, hand, TRUE)
  BY DEF AsyncHttpGet, managerVars, HttpGet, Inv, LoopInv, HandRuns
<1>2. StoreStep
  <2>1. Held' = Held
    BY <1>1 DEF Held, CM!Queued
  <2> QED
    BY <1>1, <2>1 DEF StoreStep
<1>3. \A j \in Job : /\ Runs(j)' <=> Runs(j)
                     /\ State(j)' = State(j) /\ Home(j)' = Home(j)
  BY <1>1 DEF Runs, Home, CM!ChannelOf, State, Exists
<1>4. NoJob \notin Job
  BY TableAssumption
<1>5. LoopTypes' /\ HandRuns' /\ DownEmpty' /\ KnownAtHome'
  BY <1>1, <1>3, <1>4 DEF Inv, LoopInv, LoopTypes, LoopPc, HandRuns, DownEmpty, KnownAtHome
<1>6. BusyRuns' /\ Counted'
  BY <1>1, <1>3 DEF Inv, LoopInv, BusyRuns, Counted
<1>7. AllMirrored'
  <2> SUFFICES ASSUME NEW j \in Job \ (notifs' \cup {hand'})
               PROVE  Mirrors(j)'
    BY DEF AllMirrored
  <2>1. Mirrors(j)
    BY <1>1 DEF Inv, LoopInv, AllMirrored
  <2> QED
    BY <1>1, <1>3, <2>1 DEF Mirrors
<1> QED
  BY <1>2, <1>5, <1>6, <1>7 DEF LoopInv

-----------------------------------------------------------------------------
(* Steps in which no job leaves the places it has in the channels.         *)

\* Jobs may only go from the queue by eta to the other queue of the same channel.
Settled ==
  \A c \in Channel :
    /\ chan'[c].running = chan[c].running /\ chan'[c].failed = chan[c].failed
    /\ chan'[c].queue \cup chan'[c].eta_queue = chan[c].queue \cup chan[c].eta_queue

\* The place in the loop changes between two notifications, passes or rests.
Awake(p) == p \in {"notify", "pass", "wait"}

\* The jobs known are the same, in the same channels.
SameJobs ==
  \A j \in Job : /\ jobs'[j] = NoJob <=> jobs[j] = NoJob
                 /\ jobs[j] # NoJob => jobs'[j].channel = jobs[j].channel

\* Such a step keeps the invariant of the loop, when nothing is notified by mistake
\* and nothing forgotten.
LEMMA SettledLoop ==
  ASSUME Inv, Settled, SameJobs, row' = row, hand' = hand, LoopTypes',
         pc' = pc \/ (Awake(pc) /\ Awake(pc')),
         notifs \subseteq notifs', pc = "down" => notifs' = {}
  PROVE  LoopInv'
<1>1. \A j \in Job : /\ Runs(j)' <=> Runs(j)
                     /\ State(j)' = State(j) /\ Home(j)' = Home(j)
  BY HomeType DEF Runs, Home, CM!ChannelOf, State, Exists, Settled
<1>2. HandRuns'
  BY <1>1 DEF Inv, LoopInv, HandRuns, Awake
<1>3. DownEmpty' /\ KnownAtHome' /\ BusyRuns'
  BY <1>1 DEF Inv, LoopInv, DownEmpty, KnownAtHome, BusyRuns, SameJobs, Awake
<1>4. Counted'
  <2> SUFFICES ASSUME NEW c \in Channel
               PROVE  Within((IF pc = "down" THEN Busy(c) ELSE chan[c].running)', c)
    BY DEF Counted
  <2>1. Within(IF pc = "down" THEN Busy(c) ELSE chan[c].running, c)
    BY DEF Inv, LoopInv, Counted
  <2>2. Busy(c)' = Busy(c) /\ chan'[c].running = chan[c].running
    BY <1>1 DEF Busy, Settled
  <2>3. pc' = "down" <=> pc = "down"
    BY DEF Awake
  <2> QED
    BY <2>1, <2>2, <2>3
<1>5. AllMirrored'
  <2> SUFFICES ASSUME pc' # "down", NEW j \in Job \ (notifs' \cup {hand'})
               PROVE  Mirrors(j)'
    BY DEF AllMirrored
  <2>1. Mirrors(j)
    BY DEF Inv, LoopInv, AllMirrored, Awake
  <2>2. \A c \in Channel : P!Everywhere(chan'[c]) = P!Everywhere(chan[c])
    BY DEF P!Everywhere, Settled
  <2>3. Home(j) \in Channel /\ Up[Home(j)] \subseteq Channel /\ Root \in Channel
    BY HomeType, TreeAssumption DEF Tree
  <2> QED
    BY <1>1, <2>1, <2>2, <2>3 DEF Mirrors, Settled
<1> QED
  BY <1>2, <1>3, <1>4, <1>5 DEF LoopInv

\* What is held does not change either, unless a job is in hand.
LEMMA SettledHeld ==
  ASSUME Settled, hand' = hand, pc' = pc \/ (Awake(pc) /\ Awake(pc'))
  PROVE  Held' = Held
<1>1. \A c \in Channel : CM!Queued(chan', c) = CM!Queued(chan, c)
  BY DEF CM!Queued, Settled
<1> QED
  BY <1>1 DEF Held, CM!Queued, Awake

\* The steps of the loop that only go from one of its places to the next, the
\* notifications that say nothing new, and the clock.
LEMMA QuietStep ==
  ASSUME Inv, \/ RunJobs \/ EndOfPass \/ WakeUp \/ SelectTimeout \/ Tick
              \/ \E j \in Job : Touch(j)
  PROVE  StoreStep /\ P!PlaceInv' /\ LoopInv'
<1> DEFINE Quiet == /\ UNCHANGED <<jobs, chan, row, req, effects, parts, hand>>
                    /\ pc' = pc \/ (Awake(pc) /\ Awake(pc'))
                    /\ notifs \subseteq notifs' /\ notifs' \subseteq Job
                    /\ pc = "down" => notifs' = {}
                    /\ budget' \in 0..Budget
                    /\ now' \in Nat \ {0}
<1>1. Quiet
  <2>1. LoopTypes /\ DownEmpty
    BY DEF Inv, LoopInv
  <2>2. CASE RunJobs \/ EndOfPass \/ WakeUp \/ SelectTimeout
    <3>1. /\ UNCHANGED <<jobs, chan, now, notifs, budget, tableVars, hand>>
          /\ Awake(pc) /\ Awake(pc')
      BY <2>2 DEF RunJobs, EndOfPass, WakeUp, SelectTimeout, CM!StartPass, CM!EndPass,
         managerVars, Awake
    <3> QED
      BY <2>1, <3>1 DEF LoopTypes, DownEmpty, tableVars
  <2>3. CASE Tick
    BY <2>1, <2>3 DEF Tick, CM!Tick, tableVars, loopVars, LoopTypes, DownEmpty
  <2>4. ASSUME NEW j \in Job, Touch(j)
        PROVE  Quiet
    <3>1. budget' \in 0..Budget
      BY <2>1, <2>4, RunnerAssumption DEF Touch, Disturb, LoopTypes
    <3> QED
      BY <2>1, <2>4, <3>1 DEF Touch, tableVars, loopVars, managerVars, LoopTypes
  <2> QED
    BY <2>2, <2>3, <2>4
<1>2. Settled /\ SameJobs
  BY <1>1 DEF Settled, SameJobs
<1>3. pc' \in LoopPc
  BY <1>1 DEF Awake, LoopPc, Inv, LoopInv, LoopTypes
<1>4. LoopTypes'
  BY <1>1, <1>3 DEF Inv, LoopInv, LoopTypes
<1>5. LoopInv'
  BY <1>1, <1>2, <1>4, SettledLoop
<1>6. StoreStep
  BY <1>1, <1>2, SettledHeld DEF StoreStep, tableVars
<1>7. P!PlaceInv'
  <2>1. CASE RunJobs \/ EndOfPass \/ Tick
    BY <2>1, Configured, SameClock, P!ClockPlaces DEF RunJobs, EndOfPass, Tick, Inv
  <2>2. CASE WakeUp \/ SelectTimeout \/ \E j \in Job : Touch(j)
    <3>1. UNCHANGED <<jobs, chan, cursor, now, last_pop>>
      BY <2>2 DEF WakeUp, SelectTimeout, Touch, managerVars
    <3> QED
      BY <3>1 DEF Inv, P!PlaceInv, P!TypeOK, P!Fits
  <2> QED
    BY <2>1, <2>2
<1> QED
  BY <1>5, <1>6, <1>7

-----------------------------------------------------------------------------
(* A pass.                                                                 *)

\* Below a channel where it is, a job runs in every channel of its path.
LEMMA RunsBelow ==
  ASSUME NEW ch, NEW j, NEW home \in Channel, P!OnPath(ch, j, home),
         NEW c \in Up[home], j \in P!Everywhere(ch[c])
  PROVE  \A x \in Up[home] : c \in Up[x] /\ x # c => j \in ch[x].running
<1> DEFINE Bad == {x \in Up[home] : c \in Up[x] /\ x # c /\ j \notin ch[x].running}
<1>1. SUFFICES ASSUME Bad # {}
               PROVE  FALSE
  OBVIOUS
<1>2. Bad \subseteq Channel
  BY TreeAssumption DEF Tree
<1>3. PICK x \in Bad : \A y \in Bad : Position(y) <= Position(x)
  BY <1>1, <1>2, LatestPosition
<1>4. x \in Channel \ {Root}
  BY <1>2, TreeAssumption DEF Tree
<1>5. /\ Parent[x] \in Up[home] /\ Parent[x] \in Channel /\ Up[x] = {x} \cup Up[Parent[x]]
      /\ Position(x) < Position(Parent[x])
      /\ Position(x) \in Nat /\ Position(Parent[x]) \in Nat
  BY <1>4, ParentAbove, ParentTransitive, PositionType
<1>6. c \in Up[Parent[x]] /\ Parent[x] \notin Bad
  BY <1>3, <1>5
<1>7. j \in P!Everywhere(ch[Parent[x]])
  BY <1>5, <1>6 DEF P!Everywhere
<1> QED
  BY <1>4, <1>7 DEF P!OnPath

\* The path of a job that the manager has somewhere.
LEMMA KnownPath ==
  ASSUME P!PlaceInv, KnownAtHome, NEW j \in Job, NEW c \in Channel,
         j \in P!Everywhere(chan[c])
  PROVE  /\ jobs[j] # NoJob
         /\ P!Once(chan, j) /\ P!OnPath(chan, j, Home(j)) /\ c \in Up[Home(j)]
<1>1. P!Placed(chan, j, jobs[j])
  BY DEF P!PlaceInv, P!Fits
<1>2. jobs[j] # NoJob
  BY <1>1 DEF P!Placed, P!Nowhere
<1> QED
  BY <1>1, <1>2 DEF P!Placed, KnownAtHome, P!OnPath

\* A job that is queued somewhere is pending, unless a notification is on its way.
LEMMA QueuedPending ==
  ASSUME P!PlaceInv, KnownAtHome, TableTypeOK, NEW j \in Job, Mirrors(j),
         NEW c \in Channel, j \in chan[c].queue \cup chan[c].eta_queue
  PROVE  State(j) = PENDING
<1>1. j \in P!Everywhere(chan[c])
  BY DEF P!Everywhere
<1>2. P!Once(chan, j) /\ P!OnPath(chan, j, Home(j)) /\ c \in Up[Home(j)]
  BY <1>1, KnownPath
<1>3. State(j) \in STATES \cup {"absent"}
  BY DEF State, Exists, TableTypeOK, Stored
<1>4. State(j) \notin {ENQUEUED, STARTED}
  BY RunningOnly DEF Mirrors
<1>5. State(j) \notin {DONE, "absent"}
  BY <1>1 DEF Mirrors
<1>6. State(j) # FAILED
  <2> SUFFICES ASSUME j \in chan[Home(j)].failed
               PROVE  FALSE
    BY DEF Mirrors
  <2>1. Home(j) \in Channel /\ Home(j) \in Up[Home(j)]
    BY HomeType
  <2>2. CASE c = Home(j)
    BY <1>2, <2>2 DEF P!Once
  <2>3. CASE c # Home(j)
    <3>1. j \in chan[Home(j)].running
      BY <1>1, <1>2, <2>1, <2>3, RunsBelow
    <3> QED
      BY <1>2, <2>1, <3>1 DEF P!Once
  <2> QED
    BY <2>2, <2>3
<1> QED
  BY <1>3, <1>4, <1>5, <1>6

\* A job that runs in the root channel runs in all channels of its path.
LEMMA RootRuns ==
  ASSUME NEW ch, NEW j \in Job, P!OnPath(ch, j, Home(j)), j \in ch[Root].running
  PROVE  \A x \in Up[Home(j)] : j \in ch[x].running
<1>1. Root \in Channel /\ j \in P!Everywhere(ch[Root])
  BY TreeAssumption DEF Tree, P!Everywhere
<1>2. \A x \in Up[Home(j)] : Root \in Up[x]
  BY HomeType, TreeAssumption DEF Tree
<1> QED
  BY <1>1, <1>2, HomeType, RunsBelow

\* The iterations of a pass that yield no job.
LEMMA SkipStep ==
  ASSUME Inv, NEW c \in Channel, GetJobsToRun(c), UNCHANGED loopVars,
         CM!SkipPaused(c) \/ CM!SkipFull(c) \/ CM!SkipEmpty(c)
  PROVE  StoreStep /\ P!PlaceInv' /\ LoopInv'
<1>1. P!SkipPaused(c) \/ P!SkipFull(c) \/ P!SkipEmpty(c)
  BY SamePass
<1>2. P!PlaceInv'
  BY <1>1, Configured, P!SkipPlaces DEF Inv
<1>3. /\ UNCHANGED <<row, req, effects, parts, notifs, budget, now, pc, hand>>
      /\ pc = "pass"
  BY <1>1 DEF GetJobsToRun, tableVars, loopVars, P!SkipPaused, P!SkipFull, P!SkipEmpty
<1>4. chan \in [Channel -> P!ChannelType]
  BY DEF Inv, P!PlaceInv, P!TypeOK
<1>5. Settled /\ SameJobs
  <2>1. CASE P!SkipPaused(c)
    BY <2>1 DEF P!SkipPaused, Settled, SameJobs
  <2>2. CASE P!SkipFull(c)
    BY <1>4, <2>2 DEF P!SkipFull, Settled, SameJobs, P!ChannelType
  <2>3. CASE P!SkipEmpty(c)
    <3>1. jobs' = P!Ripen(c)
      BY <2>3 DEF P!SkipEmpty
    <3>2. SameJobs
      BY <3>1, Configured, P!RipenJobs DEF Inv, SameJobs
    <3>3. Settled
      BY <1>4, <2>3 DEF P!SkipEmpty, Settled, P!ChannelType, P!Ready, P!Waiting, P!Ripe
    <3> QED
      BY <3>2, <3>3
  <2> QED
    BY <1>1, <2>1, <2>2, <2>3
<1>6. LoopTypes' /\ (pc = "down" => notifs' = {})
  BY <1>3 DEF Inv, LoopInv, LoopTypes
<1>7. LoopInv'
  BY <1>3, <1>5, <1>6, SettledLoop
<1>8. StoreStep
  BY <1>3, <1>5, SettledHeld DEF StoreStep, tableVars
<1> QED
  BY <1>2, <1>7, <1>8

\* What a pop does to the places, in the words of the loop: one job, which was queued
\* in the channel, goes up.
LEMMA PopMoves ==
  ASSUME Inv, NEW c \in Channel, NEW j \in Job, CM!Pop(c, j)
  PROVE  /\ P!PlaceInv' /\ SameJobs /\ UNCHANGED <<cursor, now>>
         /\ j \in chan[c].queue \cup chan[c].eta_queue
         /\ P!HasCapacity(c)
         /\ \A x \in Channel :
              /\ \A k \in Job \ {j} :
                   /\ k \in chan'[x].queue \cup chan'[x].eta_queue
                        <=> k \in chan[x].queue \cup chan[x].eta_queue
                   /\ k \in P!Everywhere(chan'[x]) <=> k \in P!Everywhere(chan[x])
              /\ chan'[x].running = IF x = c THEN chan[x].running \cup {j}
                                    ELSE chan[x].running
              /\ chan'[x].failed = chan[x].failed
         /\ c # Root => Parent[c] \in Channel /\ j \in chan'[Parent[c]].queue
<1>1. P!Pop(c, j)
  BY SamePass
<1>2. P!PlaceInv'
  BY <1>1, Configured, P!PopPlaces DEF Inv
<1>3. jobs' = P!Ripen(c) /\ UNCHANGED <<cursor, now>> /\ P!HasCapacity(c)
  BY <1>1 DEF P!Pop
<1>4. SameJobs
  BY <1>3, Configured, P!RipenJobs DEF Inv, SameJobs
<1>5. /\ j \in P!Ready(c)
      /\ \A x \in Channel \ {c} :
           /\ c # Root /\ x = Parent[c] => chan'[x].queue = chan[x].queue \cup {j}
           /\ ~(c # Root /\ x = Parent[c]) => chan'[x] = chan[x]
           /\ chan'[x].eta_queue = chan[x].eta_queue
           /\ chan'[x].running = chan[x].running
           /\ chan'[x].failed = chan[x].failed
      /\ chan'[c].queue = P!Ready(c) \ {j}
      /\ chan'[c].eta_queue = P!Waiting(c)
      /\ chan'[c].running = chan[c].running \cup {j}
      /\ chan'[c].failed = chan[c].failed
  BY <1>1, Configured, P!PopEffect DEF Inv
<1>6. c # Root => Parent[c] \in Channel \ {c}
  BY ParentAbove, PositionType
<1>7. /\ P!Ready(c) \subseteq chan[c].queue \cup chan[c].eta_queue
      /\ P!Ready(c) \cup P!Waiting(c) = chan[c].queue \cup chan[c].eta_queue
  BY DEF P!Ready, P!Waiting, P!Ripe
<1>8. \A x \in Channel : \A k \in Job \ {j} :
        k \in chan'[x].queue \cup chan'[x].eta_queue
          <=> k \in chan[x].queue \cup chan[x].eta_queue
  BY <1>5, <1>7
<1>9. \A x \in Channel : \A k \in Job \ {j} :
        k \in P!Everywhere(chan'[x]) <=> k \in P!Everywhere(chan[x])
  BY <1>5, <1>8 DEF P!Everywhere
<1> QED
  BY <1>2, <1>3, <1>4, <1>5, <1>6, <1>7, <1>8, <1>9

\* Only a channel that has capacity gets another running job.
LEMMA CapacityKept ==
  ASSUME NEW c \in Channel, NEW X, NEW j, Within(X, c),
         Capacity[c] = 0 \/ Cardinality(X) < Capacity[c]
  PROVE  Within(X \cup {j}, c)
<1>1. IsFiniteSet(X) /\ Cardinality(X) \in Nat /\ Capacity[c] \in Nat
  BY FS_CardinalityType, RunnerAssumption DEF Within, CM!Config
<1>2. /\ IsFiniteSet(X \cup {j})
      /\ Cardinality(X \cup {j}) = IF j \in X THEN Cardinality(X) ELSE Cardinality(X) + 1
  BY <1>1, FS_AddElement
<1> QED
  BY <1>1, <1>2 DEF Within

\* A pop: the job goes up, or is in hand when it has come to the root.
LEMMA PopStep ==
  ASSUME Inv, NEW c \in Channel, NEW j \in Job, CM!Pop(c, j), pc = "pass",
         IF c = Root THEN pc' = "enqueue" /\ hand' = j ELSE UNCHANGED loopVars,
         UNCHANGED <<tableVars, notifs, budget>>
  PROVE  StoreStep /\ P!PlaceInv' /\ LoopInv'
<1>1. /\ LoopTypes /\ HandRuns /\ DownEmpty /\ KnownAtHome /\ BusyRuns /\ Counted
      /\ AllMirrored /\ P!PlaceInv /\ TableTypeOK
  BY TableFacts DEF Inv, LoopInv
<1>2. hand = NoJob /\ NoJob \notin Job
  BY <1>1, TableAssumption DEF LoopTypes, HandRuns
<1>3. P!PlaceInv' /\ SameJobs /\ UNCHANGED <<cursor, now>>
  BY PopMoves
<1>4. \A k \in Job : State(k)' = State(k) /\ Home(k)' = Home(k)
  BY DEF State, Exists, Home, CM!ChannelOf, tableVars
<1>5. \A k \in Job : Runs(k) => Runs(k)'
  BY <1>4, PopMoves, HomeType DEF Runs
<1>6. KnownAtHome'
  BY <1>1, <1>3, <1>4 DEF KnownAtHome, SameJobs
<1>7. j \in notifs \/ State(j) = PENDING
  <2> SUFFICES ASSUME j \notin notifs
               PROVE  State(j) = PENDING
    OBVIOUS
  <2>1. Mirrors(j)
    BY <1>1, <1>2 DEF AllMirrored
  <2> QED
    BY <1>1, <2>1, PopMoves, QueuedPending
<1>8. LoopTypes'
  BY <1>1, <1>3 DEF LoopTypes, LoopPc, loopVars
<1>9. HandRuns'
  <2>1. CASE c = Root
    <3>1. j \in chan'[Root].running
      <4>1. chan'[c].running = chan[c].running \cup {j}
        BY PopMoves
      <4> QED
        BY <2>1, <4>1
    <3>2. P!OnPath(chan', j, Home(j))
      <4>1. Root \in Channel /\ j \in P!Everywhere(chan'[Root])
        BY <3>1, TreeAssumption DEF Tree, P!Everywhere
      <4>2. P!Placed(chan', j, jobs'[j])
        BY <1>3 DEF P!PlaceInv, P!Fits
      <4>3. jobs'[j] # NoJob
        BY <4>1, <4>2 DEF P!Placed, P!Nowhere
      <4> QED
        BY <1>4, <1>6, <4>2, <4>3 DEF P!Placed, KnownAtHome
    <3>3. Runs(j)'
      BY <1>4, <3>1, <3>2, RootRuns DEF Runs
    <3>4. State(hand)' = State(hand')
      BY DEF State, Exists, tableVars
    <3> QED
      BY <1>7, <2>1, <3>3, <3>4 DEF HandRuns, Runs, Home
  <2>2. CASE c # Root
    BY <1>2, <2>2 DEF HandRuns, loopVars
  <2> QED
    BY <2>1, <2>2
<1>10. DownEmpty' /\ BusyRuns' /\ pc' # "down"
  BY <1>1, <1>4, <1>5 DEF DownEmpty, BusyRuns, loopVars
<1>11. Counted'
  <2> SUFFICES ASSUME NEW x \in Channel
               PROVE  Within(chan'[x].running, x)
    BY <1>10 DEF Counted
  <2>1. Within(chan[x].running, x)
    BY <1>1 DEF Counted
  <2>2. CASE x # c
    BY <2>1, <2>2, PopMoves
  <2>3. CASE x = c
    <3>1. Capacity[c] = 0 \/ Cardinality(chan[c].running) < Capacity[c]
      BY PopMoves, SameCardinality DEF P!HasCapacity
    <3>2. chan'[c].running = chan[c].running \cup {j}
      BY PopMoves
    <3> QED
      BY <2>1, <2>3, <3>1, <3>2, CapacityKept
  <2> QED
    BY <2>2, <2>3
<1>12. AllMirrored'
  <2> SUFFICES ASSUME NEW k \in Job \ (notifs' \cup {hand'})
               PROVE  Mirrors(k)'
    BY DEF AllMirrored
  <2>1. Mirrors(k)
    BY <1>1, <1>2 DEF AllMirrored
  <2>2. Home(k) \in Channel /\ Up[Home(k)] \subseteq Channel /\ Root \in Channel
    BY HomeType, TreeAssumption DEF Tree
  <2>3. CASE k # j
    <3>1. \A x \in Channel :
            /\ k \in chan'[x].queue \cup chan'[x].eta_queue
                 <=> k \in chan[x].queue \cup chan[x].eta_queue
            /\ k \in chan'[x].running <=> k \in chan[x].running
            /\ chan'[x].failed = chan[x].failed
            /\ k \in P!Everywhere(chan'[x]) <=> k \in P!Everywhere(chan[x])
      <4> TAKE x \in Channel
      <4>1. chan'[x].running = IF x = c THEN chan[x].running \cup {j} ELSE chan[x].running
        BY PopMoves
      <4>2. k \in chan'[x].running <=> k \in chan[x].running
        BY <2>3, <4>1
      <4>3. k \in chan'[x].queue \cup chan'[x].eta_queue
              <=> k \in chan[x].queue \cup chan[x].eta_queue
        BY <2>3, PopMoves
      <4>4. chan'[x].failed = chan[x].failed
        BY PopMoves
      <4>5. k \in P!Everywhere(chan'[x]) <=> k \in P!Everywhere(chan[x])
        BY <2>3, PopMoves
      <4> QED
        BY <4>2, <4>3, <4>4, <4>5
    <3>2. State(k)' = State(k) /\ Home(k)' = Home(k) /\ (Runs(k) => Runs(k)')
      BY <1>4, <1>5
    <3> QED
      BY <2>1, <2>2, <3>1, <3>2 DEF Mirrors
  <2>4. CASE k = j
    <3>1. c # Root /\ State(k) = PENDING
      BY <1>7, <2>4
    <3>2. c \in Up[Home(j)]
      <4>1. j \in P!Everywhere(chan[c])
        BY PopMoves DEF P!Everywhere
      <4> QED
        BY <1>1, <4>1, KnownPath
    <3>3. Parent[c] \in Up[Home(j)] /\ j \in chan'[Parent[c]].queue
      BY <2>2, <2>4, <3>1, <3>2, ParentTransitive, PopMoves
    <3>4. j \notin chan'[Root].running
      BY <2>1, <2>2, <2>4, <3>1, PopMoves DEF Mirrors
    <3> QED
      BY <1>4, <2>4, <3>1, <3>3, <3>4 DEF Mirrors
  <2> QED
    BY <2>3, <2>4
<1>13. StoreStep
  <2>1. \E x \in Channel : j \in CM!Queued(chan, x)
    BY PopMoves DEF CM!Queued
  <2>2. ASSUME NEW k \in Job, NEW x \in Channel, k \in CM!Queued(chan', x)
        PROVE  \E y \in Channel : k \in CM!Queued(chan, y)
    <3>1. CASE k = j
      BY <2>1, <3>1
    <3>2. CASE k # j
      <4>1. k \in chan[x].queue \cup chan[x].eta_queue
        BY <2>2, <3>2, PopMoves DEF CM!Queued
      <4> QED
        BY <4>1 DEF CM!Queued
    <3> QED
      BY <3>1, <3>2
  <2>3. Held' \subseteq Held
    <3> SUFFICES ASSUME NEW k \in Held' PROVE k \in Held
      OBVIOUS
    <3>1. CASE k \in Job /\ \E x \in Channel : k \in CM!Queued(chan', x)
      BY <2>2, <3>1 DEF Held
    <3>2. CASE pc' = "enqueue" /\ k = hand'
      <4>1. k = j
        BY <3>2 DEF loopVars
      <4> QED
        BY <2>1, <4>1 DEF Held
    <3> QED
      BY <3>1, <3>2 DEF Held, CM!Queued
  <2> QED
    BY <2>3 DEF StoreStep
<1> QED
  BY <1>3, <1>6, <1>8, <1>9, <1>10, <1>11, <1>12, <1>13 DEF LoopInv

\* An iteration of a pass.
LEMMA PassStep ==
  ASSUME Inv, NEW c \in Channel, GetJobsToRun(c)
  PROVE  StoreStep /\ P!PlaceInv' /\ LoopInv'
<1>1. CASE UNCHANGED loopVars /\ (CM!SkipPaused(c) \/ CM!SkipFull(c) \/ CM!SkipEmpty(c))
  BY <1>1, SkipStep
<1>2. ASSUME NEW j \in Job, CM!Pop(c, j),
             IF c = Root THEN pc' = "enqueue" /\ hand' = j ELSE UNCHANGED loopVars
      PROVE  StoreStep /\ P!PlaceInv' /\ LoopInv'
  BY <1>2, PopStep DEF GetJobsToRun
<1> QED
  BY <1>1, <1>2 DEF GetJobsToRun

-----------------------------------------------------------------------------
(* Notifications.                                                          *)

\* A job that is at rest in its own channel runs nowhere; one that has failed there,
\* or runs in all its channels, is queued nowhere.
LEMMA OnePlace ==
  ASSUME NEW ch, NEW j, NEW home \in Channel, P!Once(ch, j), P!OnPath(ch, j, home)
  PROVE  /\ j \in ch[home].queue \cup ch[home].eta_queue \cup ch[home].failed =>
              \A x \in Channel : j \notin ch[x].running
         /\ j \in ch[home].failed \/ (\A x \in Up[home] : j \in ch[x].running) =>
              \A x \in Channel : j \notin ch[x].queue \cup ch[x].eta_queue
<1>1. home \in Up[home] /\ Up[home] \subseteq Channel
  BY PositionType, TreeAssumption DEF Tree
<1>2. ASSUME NEW x \in Channel \ {home}, j \in P!Everywhere(ch[x])
      PROVE  x \in Up[home] /\ j \in ch[home].running
  <2>1. x \in Up[home]
    BY <1>2 DEF P!OnPath
  <2> QED
    BY <1>1, <1>2, <2>1, RunsBelow
<1>3. ASSUME j \in ch[home].queue \cup ch[home].eta_queue \cup ch[home].failed,
             NEW x \in Channel
      PROVE  j \notin ch[x].running
  <2>1. j \notin ch[home].running
    BY <1>3 DEF P!Once
  <2> QED
    BY <1>2, <2>1 DEF P!Everywhere
<1>4. ASSUME j \in ch[home].failed \/ (\A x \in Up[home] : j \in ch[x].running),
             NEW x \in Channel
      PROVE  j \notin ch[x].queue \cup ch[x].eta_queue
  <2>1. CASE j \in ch[home].failed
    <3>1. j \notin ch[home].running \cup ch[home].queue \cup ch[home].eta_queue
      BY <2>1 DEF P!Once
    <3> QED
      BY <1>2, <3>1 DEF P!Everywhere
  <2>2. CASE \A y \in Up[home] : j \in ch[y].running
    <3>1. CASE x \in Up[home]
      BY <2>2, <3>1 DEF P!Once
    <3>2. CASE x \notin Up[home]
      BY <3>2 DEF P!OnPath, P!Everywhere
    <3> QED
      BY <3>1, <3>2
  <2> QED
    BY <1>4, <2>1, <2>2
<1> QED
  BY <1>3, <1>4

\* Where a transition leaves the job.
LEMMA TransitionPlaces ==
  ASSUME NEW ch \in [Channel -> P!ChannelType], NEW c \in Channel, NEW j \in Job,
         NEW d \in P!NoticeType
  PROVE  LET new == P!Transition(ch, c, j, d)
         IN  /\ d.state = PENDING => j \in new[c].queue \cup new[c].eta_queue
             /\ d.state = FAILED => j \in new[c].failed
             /\ d.state = DONE /\ (P!OnPath(ch, j, c) \/ P!Nowhere(ch, j)) =>
                  P!Nowhere(new, j)
             /\ d.state \in {ENQUEUED, STARTED} /\ P!Nowhere(ch, j) =>
                  \A x \in Up[c] : j \in new[x].running
             /\ /\ d.state \in {ENQUEUED, STARTED}
                /\ \A x \in Up[c] : j \in ch[x].running
                => new = ch
<1> DEFINE new == P!Transition(ch, c, j, d)
<1> USE DEF P!PENDING, P!ENQUEUED, P!STARTED, P!DONE, P!FAILED
<1>1. ASSUME d.state = PENDING
      PROVE  j \in new[c].queue \cup new[c].eta_queue
  <2>1. new = P!SetPending(ch, c, j, d.eta)
    BY <1>1 DEF P!Transition
  <2>2. CASE j \in P!Queued(ch, c)
    BY <2>1, <2>2 DEF P!SetPending, P!Queued
  <2>3. CASE j \notin P!Queued(ch, c)
    <3>1. new[c] = P!QueueAdd(P!Without(ch[c], j), j, d.eta)
      BY <2>1, <2>3, Configured, P!RemoveAboveEffect DEF P!SetPending
    <3>2. ch[c] \in P!ChannelType
      OBVIOUS
    <3>3. P!Without(ch[c], j) \in P!ChannelType
      BY <3>2, Configured, P!WithoutFields
    <3> HIDE DEF new
    <3> QED
      BY <3>1, <3>3, Configured, P!QueueAddFields
  <2> QED
    BY <2>2, <2>3
<1>2. ASSUME d.state = FAILED
      PROVE  j \in new[c].failed
  <2>1. new = P!SetFailed(ch, c, j)
    BY <1>2 DEF P!Transition
  <2>2. CASE j \in ch[c].failed
    BY <2>1, <2>2 DEF P!SetFailed
  <2>3. CASE j \notin ch[c].failed
    <3>1. new[c] = [P!Without(ch[c], j) EXCEPT !.failed = @ \cup {j}]
      BY <2>1, <2>3, Configured, P!RemoveAboveEffect DEF P!SetFailed
    <3>2. P!Without(ch[c], j) \in P!ChannelType
      BY Configured, P!WithoutFields
    <3> HIDE DEF new
    <3> QED
      BY <3>1, <3>2 DEF P!ChannelType
  <2> QED
    BY <2>2, <2>3
<1>3. ASSUME d.state = DONE, P!OnPath(ch, j, c) \/ P!Nowhere(ch, j)
      PROVE  P!Nowhere(new, j)
  <2>1. new = P!Remove(ch, c, j)
    BY <1>3 DEF P!Transition
  <2> QED
    BY <1>3, <2>1, Configured, P!RemoveEffect
<1> DEFINE climbed == {x \in Up[c] : \A y \in Up[c] :
                                       x \in Up[y] => j \notin ch[y].running}
<1>4. ASSUME d.state \in {ENQUEUED, STARTED}
      PROVE  new = [x \in Channel |->
                      IF x \in climbed
                        THEN [P!Without(ch[x], j) EXCEPT !.running = @ \cup {j}]
                        ELSE ch[x]]
  BY <1>4 DEF P!Transition, P!SetRunning
<1>5. Up[c] \subseteq Channel /\ \A x \in Up[c] : x \in Up[x]
  BY PositionType, TreeAssumption DEF Tree
<1>6. ASSUME d.state \in {ENQUEUED, STARTED}, P!Nowhere(ch, j), NEW x \in Up[c]
      PROVE  j \in new[x].running
  <2>1. x \in climbed
    BY <1>5, <1>6 DEF P!Nowhere, P!Everywhere
  <2>2. new[x] = [P!Without(ch[x], j) EXCEPT !.running = @ \cup {j}]
    BY <1>4, <1>5, <1>6, <2>1
  <2>3. P!Without(ch[x], j) \in P!ChannelType
    BY <1>5, Configured, P!WithoutFields
  <2> HIDE DEF new
  <2> QED
    BY <2>2, <2>3 DEF P!ChannelType
<1>7. ASSUME d.state \in {ENQUEUED, STARTED}, \A x \in Up[c] : j \in ch[x].running
      PROVE  new = ch
  <2>1. climbed = {}
    BY <1>5, <1>7
  <2> HIDE DEF new, climbed
  <2> QED
    BY <1>4, <1>7, <2>1
<1> QED
  BY <1>1, <1>2, <1>3, <1>6, <1>7

\* What the manager has made of a job it was told of.
Told(j) ==
  /\ P!PlaceInv' /\ KnownAtHome' /\ P!Moved(chan, chan', j) /\ now' = now
  /\ Mirrors(j)'
  /\ \A x \in Channel : /\ chan'[x].running \subseteq chan[x].running
                        /\ j \in chan'[x].queue \cup chan'[x].eta_queue =>
                             State(j) = PENDING

\* Moving one job, and taking it nowhere where it did not run, adds nothing to what
\* runs.
LEMMA MovedRunning ==
  ASSUME NEW ch \in [Channel -> P!ChannelType], NEW new, NEW j, P!Moved(ch, new, j),
         NEW x \in Channel, j \in new[x].running => j \in ch[x].running
  PROVE  new[x].running \subseteq ch[x].running
<1>1. new[x].running \subseteq Job
  BY DEF P!Moved, P!ChannelType
<1>2. \A k \in Job \ {j} : k \in new[x].running <=> k \in ch[x].running
  BY DEF P!Moved, P!Unmoved
<1> QED
  BY <1>1, <1>2

\* What the runner selects of a row can be notified.
LEMMA SelectedType ==
  ASSUME TableTypeOK, NEW j \in Job, Exists(j)
  PROVE  /\ Selected(j) \in P!NoticeType
         /\ P!ChannelOf(Selected(j)) = Home(j)
         /\ Selected(j).state = State(j)
<1>1. row[j] \in Stored
  BY DEF TableTypeOK, Exists
<1>2. row[j].eta \in Nat /\ row[j].state \in STATES
  <2>1. row[j].eta \in Eta /\ row[j].state \in STATES
    BY <1>1 DEF Stored
  <2>2. \A eta \in Eta : eta \in Nat
    <3>1. Eta \subseteq 0..MaxTime /\ MaxTime \in Nat
      BY RunnerAssumption DEF CM!Config
    <3> QED
      BY <3>1
  <2> QED
    BY <2>1, <2>2
<1>3. JobChannel[j] \in Name /\ Priority[j] \in Nat
  BY RunnerAssumption
<1> QED
  BY <1>2, <1>3 DEF Selected, P!NoticeType, P!STATES, P!PENDING, P!ENQUEUED, P!STARTED,
     P!DONE, P!FAILED, P!ChannelOf, Home, CM!ChannelOf, State

\* A row that exists is told as it is.
LEMMA RowTold ==
  ASSUME Inv, NEW j \in Job, Exists(j), pc # "down", CM!Notify(j, Selected(j)), row' = row
  PROVE  Told(j)
<1> DEFINE d == Selected(j)
           c == Home(j)
           known == IF P!PropertiesChanged(j, d)
                      THEN P!Remove(chan, jobs[j].channel, j) ELSE chan
<1>1. /\ d \in P!NoticeType /\ P!ChannelOf(d) = c /\ d.state = State(j)
      /\ c \in Channel /\ c \in Up[c] /\ Up[c] \subseteq Channel /\ Root \in Channel
  BY TableFacts, SelectedType, HomeType, TreeAssumption DEF Inv, Tree
<1>2. /\ P!PlaceInv /\ KnownAtHome /\ BusyRuns /\ P!Fits
      /\ chan \in [Channel -> P!ChannelType]
      /\ jobs \in [Job -> P!ChannelJob \cup {NoJob}]
  BY DEF Inv, LoopInv, P!PlaceInv, P!TypeOK
<1>3. P!Notify(j, d)
  BY SameNotify
<1> HIDE DEF d, c
<1>4. /\ P!Moved(chan, chan', j) /\ P!Once(chan', j) /\ P!OnPath(chan', j, c)
      /\ P!PlaceInv'
  BY <1>1, <1>2, <1>3, Configured, P!NotifyEffect, P!NotifyPlaces
<1>5. /\ chan' = P!Transition(known, c, j, d)
      /\ jobs' = [jobs EXCEPT ![j] = [channel |-> c, priority |-> d.priority,
                                      eta |-> d.eta]]
      /\ now' = now
  BY <1>1, <1>3 DEF P!Notify
<1>6. KnownAtHome'
  <2>1. \A k \in Job : Home(k)' = Home(k)
    BY DEF Home, CM!ChannelOf
  <2>2. jobs'[j].channel = c /\ \A k \in Job \ {j} : jobs'[k] = jobs[k]
    BY <1>2, <1>5
  <2> QED
    BY <1>2, <2>1, <2>2 DEF KnownAtHome, c
<1>7. P!Placed(chan, j, jobs[j]) /\ (jobs[j] # NoJob => jobs[j].channel = c)
  BY <1>2 DEF P!Fits, KnownAtHome, c
<1>8. /\ P!OnPath(chan, j, c) \/ P!Nowhere(chan, j)
      /\ known = chan \/ P!Nowhere(known, j)
      /\ known \in [Channel -> P!ChannelType]
      /\ P!OnPath(known, j, c) \/ P!Nowhere(known, j)
  <2>1. CASE ~P!PropertiesChanged(j, d)
    BY <1>2, <1>7, <2>1 DEF P!Placed
  <2>2. CASE P!PropertiesChanged(j, d)
    <3>1. jobs[j] # NoJob /\ jobs[j].channel = c
      BY <1>7, <2>2 DEF P!PropertiesChanged
    <3>2. P!OnPath(chan, j, c)
      BY <1>7, <3>1 DEF P!Placed
    <3>3. known = P!Remove(chan, c, j)
      BY <2>2, <3>1
    <3> QED
      BY <1>1, <1>2, <3>2, <3>3, Configured, P!RemoveEffect DEF P!Moved
  <2> QED
    BY <2>1, <2>2
<1> HIDE DEF known
<1>9. /\ d.state = PENDING => j \in chan'[c].queue \cup chan'[c].eta_queue
      /\ d.state = FAILED => j \in chan'[c].failed
      /\ d.state = DONE => P!Nowhere(chan', j)
      /\ d.state \in {ENQUEUED, STARTED} /\ P!Nowhere(known, j) =>
           \A x \in Up[c] : j \in chan'[x].running
      /\ /\ d.state \in {ENQUEUED, STARTED}
         /\ \A x \in Up[c] : j \in known[x].running
         => chan' = known
  BY <1>1, <1>5, <1>8, TransitionPlaces
<1>10. d.state \in {ENQUEUED, STARTED} =>
         /\ \A x \in Up[c] : j \in chan'[x].running
         /\ \A x \in Up[c] : j \in chan[x].running
  BY <1>1, <1>2, <1>8, <1>9 DEF BusyRuns, Runs, c
<1>11. d.state \in STATES
  BY <1>1, TableFacts DEF Inv, TableTypeOK, State, Exists, Stored
<1>12. ASSUME NEW x \in Channel
       PROVE  j \in chan'[x].running => j \in chan[x].running
  <2>1. CASE d.state \in {PENDING, FAILED, DONE}
    BY <1>1, <1>4, <1>9, <1>12, <2>1, OnePlace DEF P!Nowhere, P!Everywhere
  <2>2. CASE d.state \in {ENQUEUED, STARTED}
    BY <1>4, <1>10, <1>12, <2>2 DEF P!OnPath, P!Everywhere
  <2> QED
    BY <1>11, <2>1, <2>2
<1>13. ASSUME NEW x \in Channel, j \in chan'[x].queue \cup chan'[x].eta_queue
       PROVE  State(j) = PENDING
  BY <1>1, <1>4, <1>9, <1>10, <1>11, <1>13, OnePlace DEF P!Nowhere, P!Everywhere
<1>14. Mirrors(j)'
  <2>1. State(j)' = State(j) /\ Home(j)' = c
    BY DEF State, Exists, Home, CM!ChannelOf, c
  <2>2. State(j) = PENDING => /\ j \in chan'[c].queue \cup chan'[c].eta_queue
                              /\ j \notin chan'[Root].running
    BY <1>1, <1>4, <1>9, OnePlace
  <2>3. State(j) # "absent"
    BY <1>1, <1>11
  <2> QED
    BY <1>1, <1>9, <1>10, <2>1, <2>2, <2>3 DEF Mirrors, Runs, P!Nowhere
<1> QED
  BY <1>2, <1>4, <1>5, <1>6, <1>12, <1>13, <1>14, MovedRunning DEF Told

\* The removal of a row is told too.
LEMMA RemovalTold ==
  ASSUME Inv, NEW j \in Job, ~Exists(j), CM!RemoveJob(j), row' = row
  PROVE  Told(j)
<1>1. P!RemoveJob(j)
  BY SameRemoveJob
<1>2. /\ P!PlaceInv /\ KnownAtHome
      /\ chan \in [Channel -> P!ChannelType]
      /\ jobs \in [Job -> P!ChannelJob \cup {NoJob}]
  BY DEF Inv, LoopInv, P!PlaceInv, P!TypeOK
<1>3. P!PlaceInv' /\ P!Moved(chan, chan', j)
  BY <1>1, <1>2, Configured, P!RemoveJobPlaces
<1>4. jobs' = [jobs EXCEPT ![j] = NoJob] /\ now' = now
  BY <1>1 DEF P!RemoveJob
<1>5. P!Nowhere(chan', j)
  <2>1. P!Placed(chan', j, jobs'[j])
    BY <1>3 DEF P!PlaceInv, P!Fits
  <2>2. jobs'[j] = NoJob
    BY <1>2, <1>4
  <2> QED
    BY <2>1, <2>2 DEF P!Placed
<1>6. KnownAtHome'
  <2>1. \A k \in Job : Home(k)' = Home(k)
    BY DEF Home, CM!ChannelOf
  <2> QED
    BY <1>2, <1>4, <2>1 DEF KnownAtHome
<1>7. Mirrors(j)'
  <2>1. State(j)' = "absent"
    BY DEF State, Exists
  <2> QED
    BY <1>5, <2>1 DEF Mirrors, P!Nowhere
<1>8. \A x \in Channel :
        j \notin chan'[x].running \cup chan'[x].queue \cup chan'[x].eta_queue
  BY <1>5 DEF P!Nowhere, P!Everywhere
<1> QED
  BY <1>2, <1>3, <1>4, <1>6, <1>7, <1>8, MovedRunning DEF Told

\* Fewer jobs respect a capacity as well.
LEMMA WithinLess ==
  ASSUME NEW c \in Channel, NEW X, NEW Y, Y \subseteq X, Within(X, c)
  PROVE  Within(Y, c)
<1>1. IsFiniteSet(Y) /\ Cardinality(Y) <= Cardinality(X)
  BY FS_Subset DEF Within
<1>2. Cardinality(Y) \in Nat /\ Cardinality(X) \in Nat /\ Capacity[c] \in Nat
  BY <1>1, FS_CardinalityType, RunnerAssumption DEF Within, CM!Config
<1> QED
  BY <1>1, <1>2 DEF Within

\* A notification received: the job it is about mirrors its row.
LEMMA NotificationStep ==
  ASSUME Inv, NEW j \in Job, ProcessNotification(j)
  PROVE  StoreStep /\ P!PlaceInv' /\ LoopInv'
<1>1. /\ pc = "notify" /\ pc' = pc /\ hand' = hand /\ notifs' = notifs \ {j}
      /\ UNCHANGED <<row, req, effects, parts, budget>>
  BY DEF ProcessNotification, tableVars, loopVars
<1>2. Told(j)
  BY <1>1, RowTold, RemovalTold DEF ProcessNotification
<1>3. /\ LoopTypes /\ HandRuns /\ DownEmpty /\ KnownAtHome /\ BusyRuns /\ Counted
      /\ AllMirrored
  BY DEF Inv, LoopInv
<1>4. \A k \in Job : /\ State(k)' = State(k) /\ Home(k)' = Home(k)
                     /\ Home(k) \in Channel /\ Up[Home(k)] \subseteq Channel
  BY <1>1, HomeType DEF State, Exists, Home, CM!ChannelOf
<1>5. \A k \in Job \ {j} : \A x \in Channel :
        /\ k \in chan'[x].queue <=> k \in chan[x].queue
        /\ k \in chan'[x].eta_queue <=> k \in chan[x].eta_queue
        /\ k \in chan'[x].running <=> k \in chan[x].running
        /\ k \in chan'[x].failed <=> k \in chan[x].failed
  BY <1>2 DEF Told, P!Moved, P!Unmoved
<1>6. \A k \in Job \ {j} : Runs(k)' <=> Runs(k)
  BY <1>4, <1>5 DEF Runs
<1>7. LoopTypes'
  BY <1>1, <1>2, <1>3 DEF LoopTypes, Told
<1>8. HandRuns' /\ DownEmpty' /\ KnownAtHome'
  BY <1>1, <1>2, <1>3 DEF HandRuns, DownEmpty, Told
<1>9. BusyRuns'
  <2> SUFFICES ASSUME NEW k \in Job, State(k) \in {ENQUEUED, STARTED}
               PROVE  Runs(k)'
    BY <1>4 DEF BusyRuns
  <2>1. CASE k = j
    BY <1>2, <1>4, <2>1 DEF Told, Mirrors
  <2>2. CASE k # j
    BY <1>1, <1>3, <1>6, <2>2 DEF BusyRuns
  <2> QED
    BY <2>1, <2>2
<1>10. Counted'
  <2> SUFFICES ASSUME NEW x \in Channel
               PROVE  Within(chan'[x].running, x)
    BY <1>1 DEF Counted
  <2>1. Within(chan[x].running, x)
    BY <1>1, <1>3 DEF Counted
  <2>2. chan'[x].running \subseteq chan[x].running
    BY <1>2 DEF Told
  <2> QED
    BY <2>1, <2>2, WithinLess
<1>11. AllMirrored'
  <2> SUFFICES ASSUME NEW k \in Job \ (notifs' \cup {hand'})
               PROVE  Mirrors(k)'
    BY DEF AllMirrored
  <2>1. CASE k = j
    BY <1>2, <2>1 DEF Told
  <2>2. CASE k # j
    <3>1. Mirrors(k)
      BY <1>1, <1>3, <2>2 DEF AllMirrored
    <3>2. \A x \in Channel :
            /\ k \in chan'[x].queue \cup chan'[x].eta_queue
                 <=> k \in chan[x].queue \cup chan[x].eta_queue
            /\ k \in chan'[x].running <=> k \in chan[x].running
            /\ k \in chan'[x].failed <=> k \in chan[x].failed
            /\ k \in P!Everywhere(chan'[x]) <=> k \in P!Everywhere(chan[x])
      BY <1>5, <2>2 DEF P!Everywhere
    <3>3. Root \in Channel
      BY TreeAssumption DEF Tree
    <3> QED
      BY <1>4, <1>6, <2>2, <3>1, <3>2, <3>3 DEF Mirrors
  <2> QED
    BY <2>1, <2>2
<1>12. StoreStep
  <2>1. ASSUME NEW k \in Job, NEW x \in Channel, k \in CM!Queued(chan', x)
        PROVE  k \in Held \cup {i \in Job : State(i) = PENDING}
    <3>1. CASE k = j
      BY <1>2, <2>1, <3>1 DEF Told, CM!Queued
    <3>2. CASE k # j
      <4>1. k \in CM!Queued(chan, x)
        BY <1>5, <2>1, <3>2 DEF CM!Queued
      <4> QED
        BY <4>1 DEF Held
    <3> QED
      BY <3>1, <3>2
  <2>2. Held' = {k \in Job : \E x \in Channel : k \in CM!Queued(chan', x)}
    BY <1>1 DEF Held, CM!Queued
  <2>3. Held' \subseteq Held \cup {i \in Job : State(i) = PENDING}
    BY <2>1, <2>2
  <2> QED
    BY <1>1, <2>3 DEF StoreStep, tableVars
<1> QED
  BY <1>2, <1>7, <1>8, <1>9, <1>10, <1>11, <1>12 DEF LoopInv, Told

-----------------------------------------------------------------------------
(* Start, errors and death of the runner.                                  *)

\* Nothing is held by a runner that is down.
LEMMA DownHeld ==
  ASSUME P!PlaceInv, DownEmpty, pc = "down"
  PROVE  Held = {} /\ \A j \in Job : P!Nowhere(chan, j)
<1>1. \A j \in Job : P!Nowhere(chan, j)
  BY DEF P!PlaceInv, P!Fits, P!Placed, DownEmpty
<1> QED
  BY <1>1 DEF Held, CM!Queued, P!Nowhere, P!Everywhere

\* Reading the table puts every job in its place.
LEMMA LoadPlaces ==
  ASSUME Inv, InitializeDatabases
  PROVE  /\ P!TypeOK'
         /\ \A j \in Job :
              /\ jobs'[j] = IF State(j) \in {PENDING, ENQUEUED, STARTED, FAILED}
                              THEN [channel |-> Home(j), priority |-> Priority[j],
                                    eta |-> row[j].eta]
                              ELSE NoJob
              /\ jobs'[j] = NoJob <=> State(j) \notin {PENDING, ENQUEUED, STARTED, FAILED}
              /\ \A c \in Channel :
                   /\ j \in chan'[c].queue <=>
                        State(j) = PENDING /\ Home(j) = c /\ row[j].eta = 0
                   /\ j \in chan'[c].eta_queue <=>
                        State(j) = PENDING /\ Home(j) = c /\ row[j].eta # 0
                   /\ j \in chan'[c].running <=>
                        State(j) \in {ENQUEUED, STARTED} /\ c \in Up[Home(j)]
                   /\ j \in chan'[c].failed <=> State(j) = FAILED /\ Home(j) = c
<1> DEFINE known == {j \in Job : State(j) \in {PENDING} \cup {ENQUEUED, STARTED}
                                                \cup {FAILED}}
           at(c, states) == {j \in known : Home(j) = c /\ State(j) \in states}
           box(c) == [chan[c] EXCEPT
             !.queue = {j \in at(c, {PENDING}) : row[j].eta = 0},
             !.eta_queue = {j \in at(c, {PENDING}) : row[j].eta # 0},
             !.running = UNION {at(x, {ENQUEUED, STARTED}) :
                                  x \in {y \in Channel : c \in Up[y]}},
             !.failed = at(c, {FAILED})]
<1>1. /\ jobs' = [j \in Job |-> IF j \in known
                                  THEN [channel |-> Home(j), priority |-> Priority[j],
                                        eta |-> row[j].eta]
                                  ELSE NoJob]
      /\ chan' = [c \in Channel |-> box(c)]
      /\ UNCHANGED <<cursor, now, last_pop>>
  BY DEF InitializeDatabases, Load
<1>2. P!TypeOK /\ chan \in [Channel -> P!ChannelType]
  BY DEF Inv, P!PlaceInv, P!TypeOK
<1>3. ASSUME NEW c \in Channel
      PROVE  /\ box(c).queue = {j \in at(c, {PENDING}) : row[j].eta = 0}
             /\ box(c).eta_queue = {j \in at(c, {PENDING}) : row[j].eta # 0}
             /\ box(c).running = UNION {at(x, {ENQUEUED, STARTED}) :
                                          x \in {y \in Channel : c \in Up[y]}}
             /\ box(c).failed = at(c, {FAILED})
             /\ box(c) \in P!ChannelType
  <2>1. chan[c] \in P!ChannelType
    BY <1>2
  <2>2. /\ {j \in at(c, {PENDING}) : row[j].eta = 0} \in SUBSET Job
        /\ {j \in at(c, {PENDING}) : row[j].eta # 0} \in SUBSET Job
        /\ UNION {at(x, {ENQUEUED, STARTED}) :
                    x \in {y \in Channel : c \in Up[y]}} \in SUBSET Job
        /\ at(c, {FAILED}) \in SUBSET Job
    OBVIOUS
  <2> HIDE DEF at
  <2> QED
    BY <2>1, <2>2 DEF P!ChannelType
<1>4. ASSUME NEW j \in Job
      PROVE  j \in known => [channel |-> Home(j), priority |-> Priority[j],
                             eta |-> row[j].eta] \in P!ChannelJob
  <2>1. j \in known => Exists(j)
    BY DEF State
  <2>2. Exists(j) => Selected(j) \in P!NoticeType
    BY SelectedType, TableFacts DEF Inv
  <2>3. Home(j) \in Channel
    BY HomeType
  <2> QED
    BY <2>1, <2>2, <2>3 DEF Selected, P!NoticeType, P!ChannelJob
<1>5. jobs' \in [Job -> P!ChannelJob \cup {NoJob}]
  <2> HIDE DEF known
  <2> QED
    BY <1>1, <1>4
<1>6. \A j \in Job : j \in known <=> State(j) \in {PENDING, ENQUEUED, STARTED, FAILED}
  OBVIOUS
<1>7. \A j \in Job :
        jobs'[j] = IF State(j) \in {PENDING, ENQUEUED, STARTED, FAILED}
                     THEN [channel |-> Home(j), priority |-> Priority[j],
                           eta |-> row[j].eta]
                     ELSE NoJob
  <2> HIDE DEF known
  <2> QED
    BY <1>1, <1>6
<1>8. ASSUME NEW j \in Job, NEW c \in Channel
      PROVE  /\ j \in box(c).queue <=>
                  State(j) = PENDING /\ Home(j) = c /\ row[j].eta = 0
             /\ j \in box(c).eta_queue <=>
                  State(j) = PENDING /\ Home(j) = c /\ row[j].eta # 0
             /\ j \in box(c).running <=>
                  State(j) \in {ENQUEUED, STARTED} /\ c \in Up[Home(j)]
             /\ j \in box(c).failed <=> State(j) = FAILED /\ Home(j) = c
  <2>1. \A x \in Channel : \A states : j \in at(x, states) <=>
          j \in known /\ Home(j) = x /\ State(j) \in states
    OBVIOUS
  <2>2. Home(j) \in Channel
    BY HomeType
  <2>3. j \in box(c).running <=> State(j) \in {ENQUEUED, STARTED} /\ c \in Up[Home(j)]
    <3> HIDE DEF box, at, known
    <3>1. j \in box(c).running <=>
            \E x \in Channel : c \in Up[x] /\ j \in at(x, {ENQUEUED, STARTED})
      BY <1>3
    <3> QED
      BY <1>6, <2>1, <2>2, <3>1
  <2> HIDE DEF box, at, known
  <2> QED
    BY <1>3, <1>6, <2>1, <2>3
<1>9. P!TypeOK'
  <2> HIDE DEF box
  <2>1. chan' \in [Channel -> P!ChannelType]
    BY <1>1, <1>3
  <2> QED
    BY <1>1, <1>2, <1>5, <2>1 DEF P!TypeOK
<1>10. \A j \in Job :
         jobs'[j] = NoJob <=> State(j) \notin {PENDING, ENQUEUED, STARTED, FAILED}
  <2> HIDE DEF known
  <2>1. NoJob \notin P!ChannelJob
    BY Configured DEF P!Config
  <2> QED
    BY <1>4, <1>6, <1>7, <2>1
<1> HIDE DEF box
<1> QED
  BY <1>1, <1>7, <1>8, <1>9, <1>10

\* After the start the manager knows every row that is not done, as it is.
LEMMA LoadStep ==
  ASSUME Inv, InitializeDatabases
  PROVE  StoreStep /\ P!PlaceInv' /\ LoopInv'
<1>1. /\ pc = "down" /\ pc' = "notify"
      /\ UNCHANGED <<row, req, effects, parts, now, hand, notifs, budget>>
  BY DEF InitializeDatabases, Load, tableVars
<1>2. /\ LoopTypes /\ HandRuns /\ DownEmpty /\ Counted /\ P!PlaceInv /\ TableTypeOK
      /\ hand = NoJob /\ NoJob \notin Job
  BY <1>1, TableFacts, TableAssumption DEF Inv, LoopInv, LoopTypes, HandRuns
<1>3. ASSUME NEW j \in Job
      PROVE  /\ State(j)' = State(j) /\ Home(j)' = Home(j)
             /\ Home(j) \in Channel /\ Home(j) \in Up[Home(j)]
             /\ Up[Home(j)] \subseteq Channel /\ Root \in Up[Home(j)]
             /\ State(j) \in STATES \cup {"absent"}
  BY <1>1, <1>2, <1>3, HomeType
     DEF State, Exists, Home, CM!ChannelOf, TableTypeOK, Stored
<1>4. ASSUME NEW j \in Job
      PROVE  Runs(j)' <=> State(j) \in {ENQUEUED, STARTED}
  BY <1>3, <1>4, LoadPlaces DEF Runs
<1>5. ASSUME NEW j \in Job
      PROVE  P!Placed(chan', j, jobs'[j]) /\ (jobs'[j] # NoJob => jobs'[j].channel = Home(j))
  <2>1. P!Once(chan', j)
    BY <1>5, LoadPlaces DEF P!Once
  <2>2. CASE State(j) \notin {PENDING, ENQUEUED, STARTED, FAILED}
    <3>1. jobs'[j] = NoJob /\ P!Nowhere(chan', j)
      BY <1>5, <2>2, LoadPlaces DEF P!Nowhere, P!Everywhere
    <3> QED
      BY <2>1, <3>1 DEF P!Placed
  <2>3. CASE State(j) \in {PENDING, ENQUEUED, STARTED, FAILED}
    <3>1. jobs'[j] = [channel |-> Home(j), priority |-> Priority[j], eta |-> row[j].eta]
      BY <1>5, <2>3, LoadPlaces
    <3>2. jobs'[j] # NoJob
      BY <1>5, <2>3, LoadPlaces
    <3>3. ASSUME NEW c \in Channel
          PROVE  /\ j \in P!Everywhere(chan'[c]) <=>
                      IF State(j) \in {ENQUEUED, STARTED} THEN c \in Up[Home(j)]
                                                          ELSE c = Home(j)
                 /\ j \in chan'[c].running <=>
                      State(j) \in {ENQUEUED, STARTED} /\ c \in Up[Home(j)]
                 /\ j \in chan'[c].failed \cup chan'[c].eta_queue => c = Home(j)
      BY <1>5, <2>3, <3>3, LoadPlaces DEF P!Everywhere
    <3>4. ASSUME NEW c \in Up[Home(j)] \ {Root}
          PROVE  Parent[c] \in Channel /\ Parent[c] \in Up[Home(j)] /\ Parent[c] # Home(j)
      <4>1. c \in Channel \ {Root} /\ Parent[c] \in Channel /\ Parent[c] \in Up[Home(j)]
        BY <1>3, <1>5, <3>4, ParentAbove, ParentTransitive
      <4>2. CASE c = Home(j)
        BY <4>1, <4>2, ParentAbove, PositionType
      <4>3. CASE c # Home(j)
        BY <1>3, <1>5, <3>4, <4>1, <4>3, AboveIsLater, ParentAbove, PositionType
      <4> QED
        BY <4>2, <4>3
    <3>5. P!OnPath(chan', j, Home(j))
      BY <1>3, <1>5, <3>3, <3>4 DEF P!OnPath
    <3> QED
      BY <2>1, <3>1, <3>2, <3>5 DEF P!Placed
  <2> QED
    BY <2>2, <2>3
<1>6. P!PlaceInv'
  BY <1>5, LoadPlaces DEF P!PlaceInv, P!Fits
<1>7. LoopTypes' /\ HandRuns' /\ DownEmpty' /\ KnownAtHome'
  BY <1>1, <1>2, <1>3, <1>5
     DEF LoopTypes, LoopPc, HandRuns, DownEmpty, KnownAtHome
<1>8. BusyRuns'
  BY <1>3, <1>4 DEF BusyRuns
<1>9. Counted'
  <2> SUFFICES ASSUME NEW c \in Channel
               PROVE  Within(chan'[c].running, c)
    BY <1>1 DEF Counted
  <2>1. Within(Busy(c), c)
    BY <1>1, <1>2 DEF Counted
  <2>2. chan'[c].running \subseteq Busy(c)
    <3>1. chan'[c].running \subseteq Job
      BY LoadPlaces DEF P!TypeOK, P!ChannelType
    <3> QED
      BY <3>1, LoadPlaces DEF Busy
  <2> QED
    BY <2>1, <2>2, WithinLess
<1>10. AllMirrored'
  <2> SUFFICES ASSUME NEW j \in Job
               PROVE  Mirrors(j)'
    BY DEF AllMirrored
  <2>1. \A c \in Channel :
          /\ j \in chan'[c].queue \cup chan'[c].eta_queue <=>
               State(j) = PENDING /\ Home(j) = c
          /\ j \in chan'[c].running <=>
               State(j) \in {ENQUEUED, STARTED} /\ c \in Up[Home(j)]
          /\ j \in chan'[c].failed <=> State(j) = FAILED /\ Home(j) = c
    BY LoadPlaces
  <2>2. State(j) \in {DONE, "absent"} =>
          \A c \in Channel : j \notin P!Everywhere(chan'[c])
    BY <2>1 DEF P!Everywhere
  <2>3. Root \in Channel
    BY TreeAssumption DEF Tree
  <2> QED
    BY <1>3, <1>4, <2>1, <2>2, <2>3 DEF Mirrors
<1>11. StoreStep
  <2>1. ASSUME NEW j \in Held'
        PROVE  j \in {i \in Job : State(i) = PENDING}
    <3>1. PICK c \in Channel : j \in Job /\ j \in CM!Queued(chan', c)
      BY <1>1, <2>1 DEF Held, CM!Queued
    <3>2. State(j) = PENDING
      BY <3>1, LoadPlaces DEF CM!Queued
    <3> QED
      BY <3>1, <3>2
  <2> QED
    BY <1>1, <2>1 DEF StoreStep, tableVars
<1> QED
  BY <1>6, <1>7, <1>8, <1>9, <1>10, <1>11 DEF LoopInv

\* After an error, or its death, the runner knows nothing, and what is under way in
\* the table has run in the channels until then.
LEMMA DownStep ==
  ASSUME Inv, RunnerError \/ RunnerCrash
  PROVE  StoreStep /\ P!PlaceInv' /\ LoopInv'
<1>1. /\ pc # "down" /\ pc' = "down" /\ hand' = NoJob /\ notifs' = {}
      /\ UNCHANGED <<row, now, last_pop>> /\ budget' = budget - 1 /\ budget > 0
      /\ cursor' = 0 /\ jobs' = [j \in Job |-> NoJob]
  BY DEF RunnerError, RunnerCrash, Disturb, tableVars, ClientsDie
<1>2. /\ LoopTypes /\ BusyRuns /\ Counted /\ P!PlaceInv /\ P!TypeOK /\ NoJob \notin Job
      /\ chan \in [Channel -> P!ChannelType]
  BY TableAssumption DEF Inv, LoopInv, P!PlaceInv, P!TypeOK
<1>3. ASSUME NEW c \in Channel
      PROVE  chan'[c] \in P!ChannelType /\ P!Everywhere(chan'[c]) = {}
  <2>1. CM!EmptyChannel = [queue |-> {}, eta_queue |-> {}, running |-> {},
                           failed |-> {}, pause_until |-> 0]
    BY DEF CM!EmptyChannel
  <2>2. CASE RunnerCrash
    BY <1>3, <2>1, <2>2 DEF RunnerCrash, P!ChannelType, P!Everywhere
  <2>3. CASE RunnerError
    <3>1. PICK pause \in Nat : chan'[c] = [CM!EmptyChannel EXCEPT !.pause_until = pause]
      <4>1. chan[c].pause_until \in Nat
        BY <1>2, <1>3 DEF P!ChannelType
      <4> QED
        BY <1>3, <2>3, <4>1 DEF RunnerError
    <3> QED
      BY <2>1, <3>1 DEF P!ChannelType, P!Everywhere
  <2> QED
    BY <2>2, <2>3
<1>4. P!PlaceInv'
  <2>1. chan' \in [Channel -> P!ChannelType]
    <3>1. chan' = [c \in Channel |-> chan'[c]]
      BY DEF RunnerError, RunnerCrash
    <3> QED
      BY <1>3, <3>1
  <2>2. P!TypeOK'
    <3>1. Len(PostOrder) \in Nat
      BY PostOrderAssumption, LenProperties DEF ChildrenFirst
    <3> QED
      BY <1>1, <1>2, <2>1, <3>1 DEF P!TypeOK, P!Visits
  <2>3. ASSUME NEW j \in Job
        PROVE  P!Placed(chan', j, jobs'[j])
    BY <1>1, <1>3, <2>3 DEF P!Placed, P!Nowhere, P!Once, P!Everywhere
  <2> QED
    BY <2>2, <2>3 DEF P!PlaceInv, P!Fits
<1>5. /\ Held' = {}
      /\ \A j \in Job : State(j)' = State(j) /\ Home(j)' = Home(j)
  BY <1>1, <1>3 DEF Held, CM!Queued, P!Everywhere, State, Exists, Home, CM!ChannelOf
<1>6. StoreStep
  BY <1>5 DEF StoreStep, RunnerError, RunnerCrash
<1>7. LoopTypes' /\ HandRuns' /\ DownEmpty' /\ KnownAtHome' /\ BusyRuns' /\ AllMirrored'
  BY <1>1, <1>2, RunnerAssumption
     DEF LoopTypes, LoopPc, HandRuns, DownEmpty, KnownAtHome, BusyRuns, AllMirrored
<1>8. Counted'
  <2> SUFFICES ASSUME NEW c \in Channel
               PROVE  Within(Busy(c)', c)
    BY <1>1 DEF Counted
  <2>1. Within(chan[c].running, c)
    BY <1>1, <1>2 DEF Counted
  <2>2. Busy(c)' = Busy(c)
    BY <1>5 DEF Busy
  <2>3. Busy(c) \subseteq chan[c].running
    BY <1>1, <1>2 DEF Busy, BusyRuns, Runs
  <2> QED
    BY <2>1, <2>2, <2>3, WithinLess
<1> QED
  BY <1>4, <1>6, <1>7, <1>8 DEF LoopInv

-----------------------------------------------------------------------------
(* The invariant.                                                          *)

\* The places do not change when the manager does not.
LEMMA ManagerSame ==
  ASSUME P!PlaceInv, UNCHANGED managerVars
  PROVE  P!PlaceInv'
  BY DEF managerVars, P!PlaceInv, P!TypeOK, P!Fits

\* Every step keeps the two parts of the invariant that are not the table's, and is a
\* step of JobStore.
LEMMA StepAll ==
  ASSUME Inv, Next
  PROVE  StoreStep /\ P!PlaceInv' /\ LoopInv'
<1>1. P!PlaceInv /\ LoopTypes
  BY DEF Inv, LoopInv
<1>2. CASE InitializeDatabases
  BY <1>2, LoadStep
<1>3. CASE \/ RunJobs \/ EndOfPass \/ WakeUp \/ SelectTimeout \/ Tick
           \/ \E j \in Job : Touch(j)
  BY <1>3, QuietStep
<1>4. ASSUME NEW c \in Channel, GetJobsToRun(c)
      PROVE  StoreStep /\ P!PlaceInv' /\ LoopInv'
  BY <1>4, PassStep
<1>5. CASE EnqueueInHand
  <2>1. P!PlaceInv'
    BY <1>1, <1>5, ManagerSame DEF EnqueueInHand
  <2> QED
    BY <1>5, <2>1, EnqueueStore, EnqueueLoop
<1>6. ASSUME NEW r \in Request, AsyncHttpGet(r)
      PROVE  StoreStep /\ P!PlaceInv' /\ LoopInv'
  <2>1. P!PlaceInv'
    BY <1>1, <1>6, ManagerSame DEF AsyncHttpGet
  <2> QED
    BY <1>6, <2>1, HttpGetStep
<1>7. CASE RunnerError \/ RunnerCrash
  BY <1>7, DownStep
<1>8. CASE \/ \E r \in Request : Work(r) \/ Trouble(r)
           \/ \E j \in Job : Cron(j) \/ DelayJob(j) \/ Intervene(j)
  <2>1. /\ TableWork /\ Trigger /\ UNCHANGED <<managerVars, loopVars>>
        /\ budget' \in 0..Budget
    BY <1>1, <1>8, TableActions
  <2>2. LoopInv'
    BY <2>1, TableLoop
  <2>3. P!PlaceInv'
    BY <1>1, <2>1, ManagerSame
  <2>4. Held' = Held
    BY <2>1, HeldSame DEF managerVars, loopVars
  <2> QED
    BY <2>1, <2>2, <2>3, <2>4 DEF StoreStep, TableWork
<1>9. ASSUME NEW j \in Job, ProcessNotification(j)
      PROVE  StoreStep /\ P!PlaceInv' /\ LoopInv'
  BY <1>9, NotificationStep
<1> QED
  BY <1>2, <1>3, <1>4, <1>5, <1>6, <1>7, <1>8, <1>9 DEF Next, Loop

\* A step that changes nothing keeps the invariant of the loop.
LEMMA StutterLoop ==
  ASSUME Inv, UNCHANGED vars
  PROVE  LoopInv'
<1>1. Settled /\ SameJobs /\ row' = row /\ hand' = hand /\ pc' = pc /\ notifs' = notifs
  BY DEF vars, Settled, SameJobs
<1>2. LoopTypes' /\ (pc = "down" => notifs' = {})
  BY DEF vars, Inv, LoopInv, LoopTypes, DownEmpty
<1> QED
  BY <1>1, <1>2, SettledLoop

\* Every step keeps the invariant, and is a step of JobStore or changes nothing there.
LEMMA NextInv == Inv /\ [Next]_vars => Inv' /\ [S!Next]_(S!vars)
<1> SUFFICES ASSUME Inv, [Next]_vars
             PROVE  Inv' /\ [S!Next]_(S!vars)
  OBVIOUS
<1>1. [S!Next]_(S!vars) /\ P!PlaceInv' /\ LoopInv'
  <2>1. CASE Next
    BY <2>1, StepAll, StepOfS
  <2>2. CASE UNCHANGED vars
    <3>1. UNCHANGED <<row, req, effects, parts>> /\ Held' = Held
      BY <2>2, HeldSame DEF vars
    <3>2. P!PlaceInv'
      BY <2>2, ManagerSame DEF Inv, vars, managerVars
    <3> QED
      BY <2>2, <3>1, <3>2, StutterLoop DEF S!vars
  <2> QED
    BY <2>1, <2>2
<1>2. S!Inv'
  BY <1>1, Configured, TableAssumption, RowAssumption, S!NextInv DEF Inv
<1> QED
  BY <1>1, <1>2 DEF Inv

\* At first nobody is enqueued and the runner is down.
LEMMA InitInv == Init => Inv
<1> SUFFICES ASSUME Init
             PROVE  Inv
  OBVIOUS
<1>1. P!PlaceInv
  <2>1. P!Init
    BY DEF Init, CM!Init, P!Init, CM!EmptyChannel, P!EmptyChannel
  <2> QED
    BY <2>1, Configured, P!InitPlaces
<1>2. pc = "down" /\ hand = NoJob /\ notifs = {} /\ budget = Budget
  BY DEF Init
<1>3. DownEmpty /\ KnownAtHome /\ now = 1
  BY DEF Init, CM!Init, DownEmpty, KnownAtHome
<1>4. S!Inv
  <2>1. Held = {}
    BY <1>1, <1>2, <1>3, DownHeld
  <2>2. S!Init
    BY <2>1 DEF Init, TableInit, S!Init, S!TableInit, IdleRequest, S!IdleRequest,
       NoMemory, S!NoMemory
  <2> QED
    BY <2>2, Configured, TableAssumption, RowAssumption, S!InitInv
<1>5. \A j \in Job : State(j) = "absent"
  BY DEF Init, TableInit, State, Exists
<1>6. Counted
  <2> SUFFICES ASSUME NEW c \in Channel
               PROVE  Within(Busy(c), c)
    BY <1>2 DEF Counted
  <2>1. Busy(c) = {}
    BY <1>5 DEF Busy
  <2> QED
    BY <2>1, FS_EmptySet, RunnerAssumption DEF Within, CM!Config
<1>7. LoopTypes /\ HandRuns /\ BusyRuns /\ AllMirrored
  BY <1>2, <1>3, RunnerAssumption, TableAssumption
     DEF LoopTypes, LoopPc, HandRuns, BusyRuns, AllMirrored
<1> QED
  BY <1>1, <1>3, <1>4, <1>6, <1>7 DEF Inv, LoopInv

\* The invariant holds at any time.
LEMMA Invariance == Spec => []Inv
  BY InitInv, NextInv, PTL DEF Spec

-----------------------------------------------------------------------------
(* Theorems.                                                               *)

\* The rows, the channels and the loop keep their types.
THEOREM Typing == Spec => []TypeOK
<1>1. Inv => TypeOK
  <2> SUFFICES ASSUME Inv
               PROVE  TypeOK
    OBVIOUS
  <2>1. TableTypeOK
    BY TableFacts DEF Inv
  <2>2. CM!TypeOK
    BY DEF Inv, P!PlaceInv, P!TypeOK, CM!TypeOK, P!ChannelType, CM!ChannelType,
       P!ChannelJob, CM!ChannelJob, P!Visits, CM!Visits
  <2> QED
    BY <2>1, <2>2 DEF Inv, LoopInv, LoopTypes, TypeOK
<1> QED
  BY <1>1, Invariance, PTL

\* No channel ever has more jobs enqueued or started, in the table, than its capacity:
\* not after an error of the runner, its death and restart, or a write by others.
THEOREM CapacityHolds == Spec => []CapacityRespected
<1>1. Inv => CapacityRespected
  <2> SUFFICES ASSUME Inv, NEW c \in Channel, Capacity[c] # 0
               PROVE  Cardinality(Busy(c)) <= Capacity[c]
    BY DEF CapacityRespected, Busy
  <2>1. Within(Busy(c), c)
    <3>1. Within(IF pc = "down" THEN Busy(c) ELSE chan[c].running, c)
      BY DEF Inv, LoopInv, Counted
    <3>2. pc # "down" => Busy(c) \subseteq chan[c].running
      BY DEF Inv, LoopInv, BusyRuns, Busy, Runs
    <3> QED
      BY <3>1, <3>2, WithinLess
  <2> QED
    BY <2>1 DEF Within
<1> QED
  BY <1>1, Invariance, PTL

\* What the manager knows of a job agrees with its row, unless a notification of it is
\* on its way or it is in the hands of the runner.
THEOREM Mirroring == Spec => []MirrorFaithful
<1>1. Inv => MirrorFaithful
  BY MirrorsSame DEF Inv, LoopInv
<1> QED
  BY <1>1, Invariance, PTL

\* The runner is one that JobStore allows: it only enqueues a job that it has read as
\* pending, and once for each time that it has read it.
THEOREM Implementation == Spec => ImplementsStore
<1>1. Init => Store!Init
  <2> SUFFICES ASSUME Init
               PROVE  Store!Init
    OBVIOUS
  <2>1. Held = {}
    BY InitInv, DownHeld DEF Init, Inv, LoopInv
  <2> QED
    BY <2>1 DEF Init, TableInit, Store!Init, Store!TableInit, IdleRequest,
       Store!IdleRequest, NoMemory, Store!NoMemory
<1>2. Inv /\ [Next]_vars => [Store!Next]_(Store!vars)
  <2>1. [S!Next]_(S!vars) => [Store!Next]_(Store!vars)
    BY SameStore DEF S!vars, Store!vars
  <2> QED
    BY <2>1, NextInv
<1> QED
  BY <1>1, <1>2, Invariance, PTL DEF Spec, ImplementsStore, Store!Spec
=============================================================================

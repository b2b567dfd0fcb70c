------------------------------ MODULE JobTable ------------------------------
(***************************************************************************)
(* The table queue_job and the transactions that write it: the creation of *)
(* a job, the runner's two UPDATEs, the HTTP requests that execute jobs    *)
(* (controllers/main.py with job.py), and what users and crons do to jobs  *)
(* (models/queue_job.py).                                                  *)
(*                                                                         *)
(* One action is one committed transaction, or one step of a request       *)
(* between two of its transactions.  A request loads the row in memory     *)
(* once and stores its copy later, maybe from another transaction, while   *)
(* the row has moved on.                                                   *)
(***************************************************************************)
EXTENDS Integers, FiniteSets, JobStates

CONSTANTS
  Job,          \* the jobs (their uuids)
  Request,      \* the slots for HTTP requests to /queue_job/runjob
  Eta,          \* the etas a job may be given, 0 for none
  MaxRetries,   \* max_retries, the same for all jobs; 0: infinite retries
  RetryCap,     \* bound of the counter of retries
  Fresh,        \* the row of a job not created yet
  Gone,         \* the row of a job that was deleted
  NoJob         \* the job of an idle request

VARIABLES
  row,          \* the table
  req,          \* the requests, with the Job object each has in memory
  effects,      \* history: executions of a job committed in whole since its
                \* last requeue by a user
  parts         \* history: the jobs of which an execution that was postponed
                \* has committed a part

tableVars == <<row, req, effects, parts>>

ASSUME TableAssumption ==
  /\ Eta \subseteq Nat /\ 0 \in Eta
  /\ MaxRetries \in Nat
  /\ RetryCap \in Nat /\ MaxRetries <= RetryCap
  /\ NoJob \notin Job

Memory == [retry : 0..RetryCap, eta : Eta, date_done : BOOLEAN]
Stored == [state : STATES, retry : 0..RetryCap, eta : Eta, date_done : BOOLEAN]

ASSUME RowAssumption == Fresh \notin Stored /\ Gone \notin Stored /\ Fresh # Gone

(* pc: a request is sent, performs the job, meets a concurrency error or a *)
(* RetryableJobError and is about to postpone the job, or meets another    *)
(* error and is about to set it failed; `closing' has postponed the job and *)
(* is about to end, with the transaction of the method still open; `error' *)
(* is an answer, or a broken connection, that the client has yet to see.   *)
(* client: the thread of the runner that sent the request still waits.     *)
(* snap: the snapshot of the transaction that performs the job (repeatable *)
(* read); it is stale once another transaction has written the row.  None: *)
(* the transaction has done nothing yet, or Postgres has aborted it.       *)
Pc == {"idle", "sent", "performing", "conflict", "postponing", "failing",
       "closing", "error"}
RequestType ==
  [pc : Pc, job : Job \cup {NoJob}, client : BOOLEAN,
   mem : Memory, snap : {"none", "clean", "stale"}]

Exists(j) == row[j] \notin {Fresh, Gone}
State(j) == IF Exists(j) THEN row[j].state ELSE "absent"

Executing(r) == req[r].pc \in {"performing", "conflict", "postponing", "failing"}
Live(j) == \E r \in Request : Executing(r) /\ req[r].job = j
Closing(r) == req[r].pc = "closing"

\* A write of a row makes the snapshots taken before stale.
Write(j, stored, requests) ==
  /\ row' = [row EXCEPT ![j] = stored]
  /\ req' = [r \in Request |->
               IF requests[r].job = j /\ requests[r].snap = "clean"
                 THEN [requests[r] EXCEPT !.snap = "stale"]
                 ELSE requests[r]]

\* A request whose client is gone ends for good, otherwise with an answer.
NoMemory == [retry |-> 0, eta |-> 0, date_done |-> FALSE]
IdleRequest == [pc |-> "idle", job |-> NoJob, client |-> FALSE,
                mem |-> NoMemory, snap |-> "none"]
Ended(r) == [req EXCEPT ![r] = IdleRequest]
Postponed(r) == [req EXCEPT ![r].pc = "closing", ![r].mem = NoMemory]
Broken(r) ==
  IF req[r].client
    THEN [req EXCEPT ![r] = [IdleRequest EXCEPT !.pc = "error", !.client = TRUE,
                                                !.job = req[r].job]]
    ELSE Ended(r)

-----------------------------------------------------------------------------
(* Job.enqueue.                                                            *)

Create(j, eta) ==
  /\ row[j] = Fresh
  /\ Write(j, [state |-> PENDING, retry |-> 0, eta |-> eta,
               date_done |-> FALSE], req)
  /\ UNCHANGED <<effects, parts>>

-----------------------------------------------------------------------------
(* The runner: set_job_enqueued, the GET and its thread.                   *)

SetJobEnqueued(j) ==
  /\ IF Exists(j) THEN Write(j, [row[j] EXCEPT !.state = ENQUEUED], req)
                  ELSE UNCHANGED <<row, req>>
  /\ UNCHANGED <<effects, parts>>

\* The session is anonymous: anyone may send it, the runner waits for it.
HttpGet(r, j, waits) ==
  /\ req[r] = IdleRequest
  /\ row[j] # Fresh
  /\ req' = [req EXCEPT ![r] = [IdleRequest EXCEPT !.pc = "sent", !.job = j,
                                                   !.client = waits]]
  /\ UNCHANGED <<row, effects, parts>>

RequestLost(r) ==
  /\ req[r].pc = "sent"
  /\ req' = Broken(r)
  /\ UNCHANGED <<row, effects, parts>>

\* Mutant: set_job_pending does not look at the state.
ClientGivesUp_AnyState(r) ==
  /\ req[r].client
  /\ LET j == req[r].job
         left == [req EXCEPT ![r].client = FALSE]
     IN  IF Exists(j) /\ req[r].pc # "error"
           THEN Write(j, [row[j] EXCEPT !.state = PENDING], left)
           ELSE req' = Ended(r) /\ UNCHANGED row
  /\ UNCHANGED <<effects, parts>>

\* A timeout of the client, or an error it is answered: set_job_pending.
ClientGivesUp(r) ==
  /\ req[r].client
  /\ LET j == req[r].job
         left == IF req[r].pc = "error"
                   THEN Ended(r)
                   ELSE [req EXCEPT ![r].client = FALSE]
     IN  IF State(j) = ENQUEUED
           THEN Write(j, [row[j] EXCEPT !.state = PENDING], left)
           ELSE req' = left /\ UNCHANGED row
  /\ UNCHANGED <<effects, parts>>

\* The runner is killed, and its threads with it.
ClientsDie ==
  /\ req' = [r \in Request |-> IF req[r].pc = "error"
                                THEN IdleRequest
                                ELSE [req[r] EXCEPT !.client = FALSE]]
  /\ UNCHANGED <<row, effects, parts>>

-----------------------------------------------------------------------------
(* runjob.  SELECT FOR UPDATE to commit is one transaction: the job is     *)
(* loaded in memory, and stored as started.                                *)

RunjobReject(r) ==
  /\ req[r].pc = "sent"
  /\ State(req[r].job) # ENQUEUED
  /\ req' = Ended(r)
  /\ UNCHANGED <<row, effects, parts>>

\* Mutant: the controller does not look at the state.
RunjobStart_AnyState(r) ==
  /\ req[r].pc = "sent"
  /\ Exists(req[r].job)
  /\ LET j == req[r].job
     IN  Write(j, [row[j] EXCEPT !.state = STARTED],
               [req EXCEPT ![r].pc = "performing",
                           ![r].mem = [retry |-> row[j].retry,
                                       eta |-> row[j].eta,
                                       date_done |-> row[j].date_done]])
  /\ UNCHANGED <<effects, parts>>

RunjobStart(r) ==
  /\ req[r].pc = "sent"
  /\ State(req[r].job) = ENQUEUED
  /\ LET j == req[r].job
     IN  Write(j, [row[j] EXCEPT !.state = STARTED],
               [req EXCEPT ![r].pc = "performing",
                           ![r].mem = [retry |-> row[j].retry,
                                       eta |-> row[j].eta,
                                       date_done |-> row[j].date_done]])
  /\ UNCHANGED <<effects, parts>>

\* The first query of the job's method.
TakeSnapshot(r) ==
  /\ req[r].pc = "performing"
  /\ req[r].snap = "none"
  /\ req' = [req EXCEPT ![r].snap = "clean"]
  /\ UNCHANGED <<row, effects, parts>>

Retried(r) == IF req[r].mem.retry < RetryCap THEN req[r].mem.retry + 1
                                             ELSE RetryCap

\* Mutant: an error after the commit still postpones the job.
Finish_ThenPostpone(r) ==
  /\ req[r].pc = "performing"
  /\ req[r].snap # "stale"
  /\ LET j == req[r].job
     IN  /\ Write(j, [state |-> DONE, retry |-> Retried(r),
                      eta |-> req[r].mem.eta, date_done |-> TRUE],
                  [req EXCEPT ![r].pc = "postponing"])
         /\ effects' = [effects EXCEPT ![j] = @ + 1]
  /\ UNCHANGED parts

\* perform, set_done, store, commit; or the method raises NothingToDoJob.
\* store creates the row again when it is gone.
Finish(r) ==
  /\ req[r].pc = "performing"
  /\ req[r].snap # "stale"
  /\ LET j == req[r].job
     IN  /\ Write(j, [state |-> DONE, retry |-> Retried(r),
                      eta |-> req[r].mem.eta, date_done |-> TRUE], Ended(r))
         /\ effects' = [effects EXCEPT ![j] = @ + 1]
  /\ UNCHANGED parts

\* The store of a job that had nothing to do is not retried.
NothingToDoConflict(r) ==
  /\ req[r].pc = "performing"
  /\ req[r].snap = "stale"
  /\ req' = Broken(r)
  /\ UNCHANGED <<row, effects, parts>>

\* A concurrency error, in the method or in the store that follows set_done: no
\* limit of retries.  In the store, the job in memory keeps its date_done, and
\* Postgres has aborted the transaction; in the method, the transaction survives
\* an error that was caught at a savepoint.
OperationalError(r, finished) ==
  /\ req[r].pc = "performing"
  /\ req' = [req EXCEPT ![r].pc = "conflict", ![r].mem.retry = Retried(r),
                        ![r].mem.date_done = @ \/ finished,
                        ![r].snap = IF finished THEN "none" ELSE @]
  /\ UNCHANGED <<row, effects, parts>>

\* Mutant: an ignored retry is taken back before it was counted.
RetryableJobError_TakenBack(r, ignore_retry) ==
  /\ req[r].pc = "performing"
  /\ req' = [req EXCEPT
               ![r].pc = "postponing",
               ![r].mem.retry = IF ignore_retry THEN @ - 1 ELSE Retried(r)]
  /\ UNCHANGED <<row, effects, parts>>

\* RetryableJobError: without ignore_retry, the last retry fails the job.
RetryableJobError(r, ignore_retry) ==
  /\ req[r].pc = "performing"
  /\ LET exhausted == /\ ~ignore_retry
                      /\ MaxRetries # 0
                      /\ req[r].mem.retry + 1 >= MaxRetries
     IN  req' = [req EXCEPT
                  ![r].pc = IF exhausted THEN "failing" ELSE "postponing",
                  ![r].mem.retry = IF ignore_retry THEN @ ELSE Retried(r)]
  /\ UNCHANGED <<row, effects, parts>>

OtherError(r, finished) ==
  /\ req[r].pc = "performing"
  /\ req' = [req EXCEPT ![r].pc = "failing", ![r].mem.retry = Retried(r),
                        ![r].mem.date_done = @ \/ finished]
  /\ UNCHANGED <<row, effects, parts>>

\* retry_postpone stores the job in memory from a new transaction, whatever
\* the row has become.  The transaction of the method stays open; the job in memory
\* is not used again.
Postpone(r, eta) ==
  /\ req[r].pc \in {"conflict", "postponing"}
  /\ Write(req[r].job, [state |-> PENDING, retry |-> req[r].mem.retry,
                        eta |-> eta, date_done |-> req[r].mem.date_done],
           Postponed(r))
  /\ UNCHANGED <<effects, parts>>

\* The request returns without an error, and its transaction is committed: what
\* the method wrote before the error stays, unless it wrote nothing or Postgres
\* has aborted the transaction.  The job may be executed again already.
EndPostponed(r, part) ==
  /\ Closing(r)
  /\ part => req[r].snap # "none"
  /\ req' = Ended(r)
  /\ parts' = IF part THEN parts \cup {req[r].job} ELSE parts
  /\ UNCHANGED <<row, effects>>

\* The outer handler catches what retry_postpone raises in the inner one.
PostponeFails(r) ==
  /\ req[r].pc = "conflict"
  /\ req' = [req EXCEPT ![r].pc = "failing"]
  /\ UNCHANGED <<row, effects, parts>>

\* The same for a failure; the exception goes on to the client.
SetFailed(r) ==
  /\ req[r].pc = "failing"
  /\ Write(req[r].job, [state |-> FAILED, retry |-> req[r].mem.retry,
                        eta |-> req[r].mem.eta,
                        date_done |-> req[r].mem.date_done], Broken(r))
  /\ UNCHANGED <<effects, parts>>

\* The worker dies, or the handler itself fails: the transaction is lost.
Crash(r) ==
  /\ Executing(r) \/ Closing(r)
  /\ req' = Broken(r)
  /\ UNCHANGED <<row, effects, parts>>

-----------------------------------------------------------------------------
(* Users and crons: the buttons and wizards, requeue_stuck_jobs (its       *)
(* defaults look at enqueued jobs only), autovacuum, deletion.             *)

\* The documentation leaves it to the user to requeue only what does not run.
Requeue(j) ==
  /\ Exists(j)
  /\ ~Live(j)
  /\ Write(j, [row[j] EXCEPT !.state = PENDING, !.retry = 0], req)
  /\ effects' = [effects EXCEPT ![j] = 0]
  /\ UNCHANGED parts

ButtonDone(j) ==
  /\ Exists(j)
  /\ Write(j, [row[j] EXCEPT !.state = DONE, !.date_done = TRUE], req)
  /\ UNCHANGED <<effects, parts>>

\* Mutant: started jobs are taken for stuck too.
RequeueStuck_Started(j) ==
  /\ State(j) \in {ENQUEUED, STARTED}
  /\ Write(j, [row[j] EXCEPT !.state = PENDING, !.retry = 0], req)
  /\ UNCHANGED <<effects, parts>>

RequeueStuck(j) ==
  /\ State(j) = ENQUEUED
  /\ Write(j, [row[j] EXCEPT !.state = PENDING, !.retry = 0], req)
  /\ UNCHANGED <<effects, parts>>

\* The domain of the search is on date_done and the channel only; the removal
\* interval of the channel may have passed.
ToVacuum(j) == Exists(j) /\ row[j].date_done

Autovacuum(j) ==
  /\ ToVacuum(j)
  /\ Write(j, Gone, req)
  /\ UNCHANGED <<effects, parts>>

Unlink(j) ==
  /\ Exists(j)
  /\ Write(j, Gone, req)
  /\ UNCHANGED <<effects, parts>>

-----------------------------------------------------------------------------
TableInit ==
  /\ row = [j \in Job |-> Fresh]
  /\ req = [r \in Request |-> IdleRequest]
  /\ effects = [j \in Job |-> 0]
  /\ parts = {}

TableTypeOK ==
  /\ row \in [Job -> Stored \cup {Fresh, Gone}]
  /\ req \in [Request -> RequestType]
  /\ effects \in [Job -> Nat]
  /\ parts \subseteq Job

\* The steps of a request that leave the table alone.
RequestStep(r) ==
  \/ RequestLost(r)
  \/ RunjobReject(r)
  \/ TakeSnapshot(r)
  \/ NothingToDoConflict(r)
  \/ \E finished \in BOOLEAN : OperationalError(r, finished)
  \/ \E ignore_retry \in BOOLEAN : RetryableJobError(r, ignore_retry)
  \/ \E finished \in BOOLEAN : OtherError(r, finished)
  \/ PostponeFails(r)
  \/ \E part \in BOOLEAN : EndPostponed(r, part)
  \/ Crash(r)

\* The steps of a request that write the row of its job.
RequestWrite(r) ==
  \/ ClientGivesUp(r)
  \/ RunjobStart(r)
  \/ Finish(r)
  \/ \E eta \in Eta : Postpone(r, eta)
  \/ SetFailed(r)

\* What is done to a job from outside the runner and the requests.
Administration(j) ==
  \/ \E eta \in Eta : Create(j, eta)
  \/ Requeue(j)
  \/ ButtonDone(j)
  \/ RequeueStuck(j)
  \/ Autovacuum(j)
  \/ Unlink(j)
=============================================================================

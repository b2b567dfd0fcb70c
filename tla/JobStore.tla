------------------------------ MODULE JobStore ------------------------------
(***************************************************************************)
(* The table queue_job under any runner.  All that is known of the runner  *)
(* here is `offered': the jobs it holds for pending, because it has read   *)
(* their rows in that state at some time.  It may enqueue one of them much *)
(* later, without reading the row again.                                   *)
(***************************************************************************)
EXTENDS JobTable

VARIABLE offered

vars == <<row, req, effects, parts, offered>>

Pending == {j \in Job : State(j) = PENDING}

\* The runner reads rows, or forgets what it has read.
Refresh ==
  /\ \E S \in SUBSET (offered \cup Pending) : offered' = S
  /\ UNCHANGED tableVars

Enqueue(j) ==
  /\ j \in offered
  /\ SetJobEnqueued(j)
  /\ offered' = offered \ {j}

RunnerDies == ClientsDie /\ offered' = {}

Init == TableInit /\ offered = {}

Next ==
  \/ Refresh
  \/ \E j \in Job : Enqueue(j)
  \/ RunnerDies
  \/ /\ \/ \E r \in Request : RequestStep(r) \/ RequestWrite(r)
        \/ \E r \in Request, j \in Job, waits \in BOOLEAN : HttpGet(r, j, waits)
        \/ \E j \in Job : Administration(j)
     /\ UNCHANGED offered

Spec == Init /\ [][Next]_vars

-----------------------------------------------------------------------------
(* Properties.                                                             *)

TypeOK == TableTypeOK /\ offered \subseteq Job

\* Two requests never execute the same job at the same time: not when a request
\* arrives after its client has given up and the job was enqueued again, nor
\* when the runner acts on a row it read long ago.
OneExecution ==
  \A r, s \in Request :
    Executing(r) /\ Executing(s) /\ req[r].job = req[s].job => r = s

\* The whole work of a job, with its row set done, is committed at most once between
\* two requeues by a user, whatever crashes, timeouts, retries and blind stores
\* happen in between.  Executions that were postponed may have committed a part
\* of it besides.
CommittedOnce == \A j \in Job : effects[j] <= 1

\* An execution never loses its row to the queue: while a request executes a
\* job, the row is not pending nor enqueued, and the runner does not hold it.
NotQueuedWhileLive ==
  \A j \in Job : Live(j) => State(j) \notin {PENDING, ENQUEUED} /\ j \notin offered

\* How far a job is, seen from outside.
Phase ==
  [j \in Job |-> IF Live(j) THEN "running"
                 ELSE IF effects[j] > 0 THEN "committed" ELSE "idle"]

\* The jobs of which a postponed execution may still commit a part.
Open == {j \in Job : \E r \in Request : Closing(r) /\ req[r].job = j}

Lifecycle == INSTANCE JobLifecycle WITH phase <- Phase, open <- Open

\* The table, the requests and any runner implement JobLifecycle.
ImplementsLifecycle == Lifecycle!Spec

\* `The final state is done': only a user's requeue, or the deletion of the row,
\* takes a job out of it.
DoneIsFinal ==
  [][\A j \in Job :
       State(j) = DONE => State(j)' \in {DONE, "absent"} \/ Requeue(j)]_vars

\* `Delete all jobs done based on the removal interval': autovacuum finds no job
\* that is not done.
AutovacuumOnlyDone == \A j \in Job : ToVacuum(j) => State(j) = DONE
=============================================================================

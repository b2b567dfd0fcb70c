--------------------------- MODULE JobStoreProofs ---------------------------
(***************************************************************************)
(* Proofs about JobStore, for any number of jobs and requests.             *)
(***************************************************************************)
EXTENDS JobStore, TLAPS

USE DEF PENDING, ENQUEUED, STARTED, DONE, FAILED

-----------------------------------------------------------------------------
(* Typing.                                                                 *)

\* An idle request is well typed.
LEMMA IdleRequestType == IdleRequest \in RequestType
<1>1. NoMemory \in Memory
  BY TableAssumption DEF NoMemory, Memory
<1> QED
  BY <1>1 DEF IdleRequest, RequestType, Pc

\* Ending a request, with or without a client to answer, or when its job has been
\* postponed, keeps the type.
LEMMA EndedType ==
  ASSUME TableTypeOK, NEW r \in Request
  PROVE  /\ Ended(r) \in [Request -> RequestType]
         /\ Broken(r) \in [Request -> RequestType]
         /\ Postponed(r) \in [Request -> RequestType]
<1>1. req[r] \in RequestType
  BY DEF TableTypeOK
<1>2. Ended(r) \in [Request -> RequestType]
  BY IdleRequestType DEF Ended, TableTypeOK
<1>3. [IdleRequest EXCEPT !.pc = "error", !.client = TRUE, !.job = req[r].job]
        \in RequestType
  BY <1>1, IdleRequestType DEF RequestType, Pc
<1>4. NoMemory \in Memory
  BY TableAssumption DEF NoMemory, Memory
<1>5. Postponed(r) \in [Request -> RequestType]
  BY <1>1, <1>4 DEF Postponed, TableTypeOK, RequestType, Pc
<1> QED
  BY <1>2, <1>3, <1>5 DEF Broken, TableTypeOK

\* Writing a well typed row keeps the type of the table and of the requests.
LEMMA WriteType ==
  ASSUME TableTypeOK,
         NEW j \in Job, NEW stored \in Stored \cup {Gone},
         NEW requests \in [Request -> RequestType],
         Write(j, stored, requests)
  PROVE  /\ row' \in [Job -> Stored \cup {Fresh, Gone}]
         /\ req' \in [Request -> RequestType]
<1>1. row' \in [Job -> Stored \cup {Fresh, Gone}]
  BY DEF Write, TableTypeOK
<1>2. ASSUME NEW r \in Request
      PROVE  [requests[r] EXCEPT !.snap = "stale"] \in RequestType
  BY DEF RequestType
<1> QED
  BY <1>1, <1>2 DEF Write

\* A request that is not idle is about a job that has been created; nobody
\* waits for one that is idle.
RequestsKnown ==
  \A r \in Request :
    IF req[r].pc = "idle"
      THEN ~req[r].client
      ELSE req[r].job \in Job /\ row[req[r].job] # Fresh

\* A request counts an attempt within the bound of the counter.
LEMMA RetriedType ==
  ASSUME TableTypeOK, NEW r \in Request
  PROVE  Retried(r) \in 0..RetryCap
<1>1. req[r].mem.retry \in 0..RetryCap
  BY DEF TableTypeOK, RequestType, Memory
<1> QED
  BY <1>1, TableAssumption DEF Retried

\* The steps of a request that leave the table alone keep the types.
LEMMA RequestStepType ==
  ASSUME TableTypeOK, RequestsKnown, NEW r \in Request, RequestStep(r)
  PROVE  TableTypeOK'
<1>1. req[r] \in RequestType /\ Retried(r) \in 0..RetryCap
  BY RetriedType DEF TableTypeOK
<1>2. Ended(r) \in [Request -> RequestType] /\ Broken(r) \in [Request -> RequestType]
  BY EndedType
<1>3. CASE RequestLost(r) \/ RunjobReject(r) \/ NothingToDoConflict(r) \/ Crash(r)
  BY <1>2, <1>3
     DEF TableTypeOK, RequestLost, RunjobReject, NothingToDoConflict, Crash
<1>4. CASE TakeSnapshot(r)
  BY <1>1, <1>4 DEF TableTypeOK, TakeSnapshot, RequestType
<1>5. CASE PostponeFails(r)
  BY <1>1, <1>5 DEF TableTypeOK, PostponeFails, RequestType, Pc
<1>6. ASSUME NEW finished \in BOOLEAN, OperationalError(r, finished)
      PROVE  TableTypeOK'
  BY <1>1, <1>6 DEF TableTypeOK, OperationalError, RequestType, Pc, Memory
<1>7. ASSUME NEW finished \in BOOLEAN, OtherError(r, finished)
      PROVE  TableTypeOK'
  BY <1>1, <1>7 DEF TableTypeOK, OtherError, RequestType, Pc, Memory
<1>8. ASSUME NEW ignore_retry \in BOOLEAN, RetryableJobError(r, ignore_retry)
      PROVE  TableTypeOK'
  BY <1>1, <1>8 DEF TableTypeOK, RetryableJobError, RequestType, Pc, Memory
<1>9. ASSUME NEW part \in BOOLEAN, EndPostponed(r, part)
      PROVE  TableTypeOK'
  <2>1. part => req[r].job \in Job
    BY <1>9 DEF EndPostponed, Closing, RequestsKnown
  <2> QED
    BY <1>2, <1>9, <2>1 DEF TableTypeOK, EndPostponed
<1> QED
  BY <1>3, <1>4, <1>5, <1>6, <1>7, <1>8, <1>9 DEF RequestStep

\* So do the steps of a request that write the row of its job.
LEMMA RequestWriteType ==
  ASSUME TableTypeOK, RequestsKnown, NEW r \in Request, RequestWrite(r)
  PROVE  TableTypeOK'
<1> DEFINE j == req[r].job
<1>1. /\ req[r] \in RequestType
      /\ req[r].mem \in Memory
      /\ Retried(r) \in 0..RetryCap
  BY RetriedType DEF TableTypeOK, RequestType
<1>2. /\ Ended(r) \in [Request -> RequestType]
      /\ Broken(r) \in [Request -> RequestType]
      /\ Postponed(r) \in [Request -> RequestType]
  BY EndedType
<1>3. Exists(j) /\ j \in Job => row[j] \in Stored
  BY DEF TableTypeOK, Exists
<1>4. CASE ClientGivesUp(r)
  <2> DEFINE left == IF req[r].pc = "error"
                       THEN Ended(r)
                       ELSE [req EXCEPT ![r].client = FALSE]
  <2>1. left \in [Request -> RequestType]
    BY <1>1, <1>2 DEF TableTypeOK, RequestType
  <2>2. CASE State(j) = ENQUEUED
    <3>1. j \in Job /\ Exists(j)
      BY <1>4, <2>2 DEF ClientGivesUp, State, RequestsKnown
    <3>2. [row[j] EXCEPT !.state = PENDING] \in Stored
      BY <1>3, <3>1 DEF Stored, STATES
    <3>3. Write(j, [row[j] EXCEPT !.state = PENDING], left)
      BY <1>4, <2>2 DEF ClientGivesUp
    <3> QED
      BY <1>4, <2>1, <3>1, <3>2, <3>3, WriteType DEF TableTypeOK, ClientGivesUp
  <2>3. CASE State(j) # ENQUEUED
    BY <1>4, <2>1, <2>3 DEF TableTypeOK, ClientGivesUp
  <2> QED
    BY <2>2, <2>3
<1>5. CASE RunjobStart(r)
  <2> DEFINE started == [req EXCEPT ![r].pc = "performing",
                                    ![r].mem = [retry |-> row[j].retry,
                                                eta |-> row[j].eta,
                                                date_done |-> row[j].date_done]]
  <2>1. j \in Job /\ Exists(j) /\ row[j] \in Stored
    BY <1>3, <1>5 DEF RunjobStart, State, RequestsKnown
  <2>2. [row[j] EXCEPT !.state = STARTED] \in Stored
    BY <2>1 DEF Stored, STATES
  <2>3. started \in [Request -> RequestType]
    BY <1>1, <2>1 DEF TableTypeOK, RequestType, Pc, Memory, Stored
  <2>4. Write(j, [row[j] EXCEPT !.state = STARTED], started)
    BY <1>5 DEF RunjobStart
  <2> QED
    BY <1>5, <2>1, <2>2, <2>3, <2>4, WriteType DEF TableTypeOK, RunjobStart
<1>6. CASE Finish(r)
  <2> DEFINE stored == [state |-> DONE, retry |-> Retried(r),
                        eta |-> req[r].mem.eta, date_done |-> TRUE]
  <2>1. j \in Job
    BY <1>6 DEF Finish, RequestsKnown
  <2>2. stored \in Stored
    BY <1>1 DEF Stored, STATES, Memory
  <2>3. Write(j, stored, Ended(r))
    BY <1>6 DEF Finish
  <2>4. effects' \in [Job -> Nat] /\ parts' = parts
    BY <1>6, <2>1 DEF Finish, TableTypeOK
  <2> QED
    BY <1>2, <2>1, <2>2, <2>3, <2>4, WriteType DEF TableTypeOK
<1>7. ASSUME NEW eta \in Eta, Postpone(r, eta)
      PROVE  TableTypeOK'
  <2> DEFINE stored == [state |-> PENDING, retry |-> req[r].mem.retry,
                        eta |-> eta, date_done |-> req[r].mem.date_done]
  <2>1. j \in Job
    BY <1>7 DEF Postpone, RequestsKnown
  <2>2. stored \in Stored
    BY <1>1 DEF Stored, STATES, Memory
  <2>3. Write(j, stored, Postponed(r))
    BY <1>7 DEF Postpone
  <2> QED
    BY <1>2, <1>7, <2>1, <2>2, <2>3, WriteType DEF TableTypeOK, Postpone
<1>8. CASE SetFailed(r)
  <2> DEFINE stored == [state |-> FAILED, retry |-> req[r].mem.retry,
                        eta |-> req[r].mem.eta,
                        date_done |-> req[r].mem.date_done]
  <2>1. j \in Job
    BY <1>8 DEF SetFailed, RequestsKnown
  <2>2. stored \in Stored
    BY <1>1 DEF Stored, STATES, Memory
  <2>3. Write(j, stored, Broken(r))
    BY <1>8 DEF SetFailed
  <2> QED
    BY <1>2, <1>8, <2>1, <2>2, <2>3, WriteType DEF TableTypeOK, SetFailed
<1> QED
  BY <1>4, <1>5, <1>6, <1>7, <1>8 DEF RequestWrite

\* A row that is put back in the queue is well typed.
LEMMA RequeuedType ==
  ASSUME NEW j, row[j] \in Stored
  PROVE  [row[j] EXCEPT !.state = PENDING, !.retry = 0] \in Stored
<1>1. 0 \in 0..RetryCap /\ PENDING \in STATES
  BY TableAssumption DEF STATES
<1>2. [row[j] EXCEPT !.state = PENDING] \in Stored
  BY <1>1 DEF Stored
<1> QED
  BY <1>1, <1>2 DEF Stored

\* So does what users, crons and the runner do to a job.
LEMMA JobWriteType ==
  ASSUME TableTypeOK, NEW j \in Job, Administration(j) \/ SetJobEnqueued(j)
  PROVE  TableTypeOK'
<1>1. Exists(j) => row[j] \in Stored
  BY DEF TableTypeOK, Exists
<1>2. req \in [Request -> RequestType]
  BY DEF TableTypeOK
<1>3. ASSUME NEW eta \in Eta, Create(j, eta)
      PROVE  TableTypeOK'
  <2> DEFINE stored == [state |-> PENDING, retry |-> 0, eta |-> eta,
                        date_done |-> FALSE]
  <2>1. stored \in Stored
    BY TableAssumption DEF Stored, STATES
  <2>2. Write(j, stored, req) /\ UNCHANGED <<effects, parts>>
    BY <1>3 DEF Create
  <2> QED
    BY <1>2, <2>1, <2>2, WriteType DEF TableTypeOK
<1>4. CASE Requeue(j)
  <2> DEFINE stored == [row[j] EXCEPT !.state = PENDING, !.retry = 0]
  <2>1. stored \in Stored
    BY <1>1, <1>4, RequeuedType DEF Requeue
  <2>2. Write(j, stored, req) /\ effects' \in [Job -> Nat] /\ parts' = parts
    BY <1>4 DEF Requeue, TableTypeOK
  <2> QED
    BY <1>2, <2>1, <2>2, WriteType DEF TableTypeOK
<1>5. CASE ButtonDone(j)
  <2> DEFINE stored == [row[j] EXCEPT !.state = DONE, !.date_done = TRUE]
  <2>1. stored \in Stored
    BY <1>1, <1>5 DEF ButtonDone, Stored, STATES
  <2>2. Write(j, stored, req) /\ UNCHANGED <<effects, parts>>
    BY <1>5 DEF ButtonDone
  <2> QED
    BY <1>2, <2>1, <2>2, WriteType DEF TableTypeOK
<1>6. CASE RequeueStuck(j)
  <2> DEFINE stored == [row[j] EXCEPT !.state = PENDING, !.retry = 0]
  <2>0. Exists(j)
    BY <1>6 DEF RequeueStuck, State
  <2>1. stored \in Stored
    BY <1>1, <2>0, RequeuedType
  <2>2. Write(j, stored, req) /\ UNCHANGED <<effects, parts>>
    BY <1>6 DEF RequeueStuck
  <2> QED
    BY <1>2, <2>1, <2>2, WriteType DEF TableTypeOK
<1>7. CASE Autovacuum(j) \/ Unlink(j)
  <2>1. Write(j, Gone, req) /\ UNCHANGED <<effects, parts>>
    BY <1>7 DEF Autovacuum, Unlink
  <2> QED
    BY <1>2, <2>1, WriteType DEF TableTypeOK
<1>8. CASE SetJobEnqueued(j)
  <2> DEFINE stored == [row[j] EXCEPT !.state = ENQUEUED]
  <2>1. CASE Exists(j)
    <3>1. stored \in Stored
      BY <1>1, <2>1 DEF Stored, STATES
    <3>2. Write(j, stored, req) /\ UNCHANGED <<effects, parts>>
      BY <1>8, <2>1 DEF SetJobEnqueued
    <3> QED
      BY <1>2, <3>1, <3>2, WriteType DEF TableTypeOK
  <2>2. CASE ~Exists(j)
    BY <1>8, <2>2 DEF SetJobEnqueued, TableTypeOK
  <2> QED
    BY <2>1, <2>2
<1> QED
  BY <1>3, <1>4, <1>5, <1>6, <1>7, <1>8 DEF Administration

-----------------------------------------------------------------------------
(* The inductive invariant.  A request that executes a job, or the runner  *)
(* that holds it for pending, is the only one that may take it further.    *)

\* An execution is alone: its row is not up for another one, the runner does
\* not hold the job, and nothing of it has been committed.
ExecutionAlone ==
  \A r \in Request : Executing(r) =>
    /\ State(req[r].job) \notin {PENDING, ENQUEUED}
    /\ req[r].job \notin offered
    /\ effects[req[r].job] = 0

\* The row of a job that the runner holds has not gone further by itself.
OfferedWaits ==
  \A j \in offered : State(j) \notin {ENQUEUED, STARTED} /\ effects[j] = 0

\* Nothing has been committed of a job that is up for execution.
QueuedUncommitted ==
  \A j \in Job :
    State(j) \in {PENDING, ENQUEUED} \/ row[j] = Fresh => effects[j] = 0

Inv ==
  /\ TypeOK
  /\ RequestsKnown
  /\ OneExecution
  /\ ExecutionAlone
  /\ OfferedWaits
  /\ QueuedUncommitted
  /\ CommittedOnce

ExecutingPc == {"performing", "conflict", "postponing", "failing"}

\* What every step but HttpGet and RunjobStart makes of the requests: none
\* appears, none changes its job, none starts to execute.
Tame(q) ==
  /\ q \in [Request -> RequestType]
  /\ \A x \in Request :
       /\ q[x].pc = "idle" => ~q[x].client
       /\ q[x].pc # "idle" => req[x].pc # "idle" /\ q[x].job = req[x].job
       /\ q[x].pc \in ExecutingPc => req[x].pc \in ExecutingPc

\* Leaving the requests alone, or ending one of them, is tame.
LEMMA TameRequests ==
  ASSUME TypeOK, RequestsKnown
  PROVE  /\ Tame(req)
         /\ \A r \in Request :
              req[r].pc # "idle" =>
                Tame(Ended(r)) /\ Tame(Broken(r)) /\ Tame(Postponed(r))
<1>1. Tame(req)
  BY DEF Tame, TypeOK, TableTypeOK, RequestsKnown
<1>2. ASSUME NEW r \in Request, req[r].pc # "idle"
      PROVE  Tame(Ended(r)) /\ Tame(Broken(r)) /\ Tame(Postponed(r))
  <2>1. /\ Ended(r) \in [Request -> RequestType]
        /\ Broken(r) \in [Request -> RequestType]
        /\ Postponed(r) \in [Request -> RequestType]
    BY EndedType DEF TypeOK
  <2>2. Tame(Ended(r))
    BY <1>1, <2>1 DEF Tame, Ended, IdleRequest, ExecutingPc, TypeOK, TableTypeOK
  <2>3. ASSUME req[r].client
        PROVE  Tame(Broken(r))
    <3> DEFINE e == [IdleRequest EXCEPT !.pc = "error", !.client = TRUE,
                                        !.job = req[r].job]
    <3>1. e.pc = "error" /\ e.job = req[r].job
      BY DEF IdleRequest
    <3>2. Broken(r) = [req EXCEPT ![r] = e]
      BY <2>3 DEF Broken
    <3> QED
      BY <1>1, <1>2, <2>1, <2>2, <3>1, <3>2
         DEF Tame, ExecutingPc, TypeOK, TableTypeOK
  <2>4. ~req[r].client => Tame(Broken(r))
    BY <2>2 DEF Broken
  <2>5. Tame(Postponed(r))
    BY <1>1, <1>2, <2>1 DEF Tame, Postponed, ExecutingPc, TypeOK, TableTypeOK,
                            RequestType
  <2> QED
    BY <2>2, <2>3, <2>4, <2>5
<1> QED
  BY <1>1, <1>2

\* A request that ends, or closes, executes nothing any more, and is the only one
\* to change; only the one that closes may leave something.
LEMMA EndedPc ==
  ASSUME TypeOK, NEW r \in Request, NEW q \in {Ended(r), Broken(r), Postponed(r)}
  PROVE  /\ q \in [Request -> RequestType]
         /\ \A x \in Request \ {r} : q[x] = req[x]
         /\ q[r].pc \notin ExecutingPc
         /\ q \in {Ended(r), Broken(r)} => q[r].pc # "closing"
         /\ q[r].pc = "closing" => q[r].job = req[r].job
<1>1. req \in [Request -> RequestType] /\ req[r] \in RequestType
  BY DEF TypeOK, TableTypeOK
<1>2. /\ Ended(r)[r].pc \notin ExecutingPc \cup {"closing"}
      /\ Broken(r)[r].pc \notin ExecutingPc \cup {"closing"}
  BY <1>1 DEF Ended, Broken, IdleRequest, ExecutingPc
<1>3. \A x \in Request \ {r} :
        Ended(r)[x] = req[x] /\ Broken(r)[x] = req[x] /\ Postponed(r)[x] = req[x]
  BY <1>1 DEF Ended, Broken, Postponed
<1>4. Postponed(r)[r].pc = "closing" /\ Postponed(r)[r].job = req[r].job
  BY <1>1 DEF Postponed, RequestType
<1>5. "closing" \notin ExecutingPc
  BY DEF ExecutingPc
<1> QED
  BY <1>2, <1>3, <1>4, <1>5, EndedType DEF TypeOK

\* A tame step that leaves the table alone, and gives the runner nothing new,
\* keeps the invariant.
LEMMA TameStep ==
  ASSUME Inv, TypeOK', Tame(req'), UNCHANGED <<row, effects>>,
         offered' \subseteq offered
  PROVE  Inv'
<1>1. \A r \in Request : Executing(r)' => Executing(r) /\ req'[r].job = req[r].job
  BY DEF Tame, Executing, ExecutingPc
<1>2. \A j : State(j)' = State(j)
  BY DEF State, Exists
<1>3. RequestsKnown'
  BY DEF Inv, Tame, RequestsKnown
<1>4. OneExecution'
  BY <1>1 DEF Inv, OneExecution
<1>5. ExecutionAlone'
  BY <1>1, <1>2 DEF Inv, ExecutionAlone
<1>6. OfferedWaits' /\ QueuedUncommitted' /\ CommittedOnce'
  BY <1>2 DEF Inv, OfferedWaits, QueuedUncommitted, CommittedOnce
<1> QED
  BY <1>3, <1>4, <1>5, <1>6 DEF Inv

\* What a write does to the table and to the requests.
LEMMA WriteEffect ==
  ASSUME TypeOK, NEW j \in Job, NEW stored, NEW q \in [Request -> RequestType],
         Write(j, stored, q)
  PROVE  /\ row'[j] = stored
         /\ \A k \in Job \ {j} : row'[k] = row[k] /\ State(k)' = State(k)
         /\ stored \in Stored => State(j)' = stored.state
         /\ stored = Gone => State(j)' = "absent"
         /\ \A x \in Request : /\ req'[x].pc = q[x].pc
                               /\ req'[x].job = q[x].job
                               /\ req'[x].client = q[x].client
<1>1. row' = [row EXCEPT ![j] = stored] /\ row \in [Job -> Stored \cup {Fresh, Gone}]
  BY DEF Write, TypeOK, TableTypeOK
<1>2. row'[j] = stored /\ \A k \in Job \ {j} : row'[k] = row[k]
  BY <1>1
<1>3. \A k \in Job \ {j} : State(k)' = State(k)
  BY <1>2 DEF State, Exists
<1>4. stored \in Stored => State(j)' = stored.state
  BY <1>2, RowAssumption DEF State, Exists
<1>5. stored = Gone => State(j)' = "absent"
  BY <1>2 DEF State, Exists
<1>6. ASSUME NEW x \in Request
      PROVE  /\ req'[x].pc = q[x].pc
             /\ req'[x].job = q[x].job
             /\ req'[x].client = q[x].client
  BY DEF Write, RequestType
<1> QED
  BY <1>2, <1>3, <1>4, <1>5, <1>6

\* A write by a tame step keeps the invariant when the row it leaves is not up
\* for an execution that is under way, nor past what the runner holds, nor
\* committed and up for execution.
LEMMA TameWrite ==
  ASSUME Inv, TypeOK', NEW j \in Job, NEW stored \in Stored \cup {Gone},
         NEW q, Tame(q), Write(j, stored, q),
         offered' \subseteq offered,
         \A k \in Job \ {j} : effects'[k] = effects[k],
         stored \in Stored /\ stored.state \in {PENDING, ENQUEUED} =>
           /\ \A x \in Request : q[x].pc \in ExecutingPc => q[x].job # j
           /\ effects'[j] = 0,
         stored \in Stored /\ stored.state \in {ENQUEUED, STARTED} =>
           j \notin offered',
         j \in offered' => effects'[j] = 0,
         \A x \in Request : q[x].pc \in ExecutingPc /\ q[x].job = j => effects'[j] = 0,
         effects'[j] <= 1
  PROVE  Inv'
<1>1. q \in [Request -> RequestType]
  BY DEF Tame
<1>2. /\ row'[j] = stored
      /\ \A k \in Job \ {j} : row'[k] = row[k] /\ State(k)' = State(k)
      /\ stored \in Stored => State(j)' = stored.state
      /\ stored = Gone => State(j)' = "absent"
      /\ \A x \in Request : /\ req'[x].pc = q[x].pc
                            /\ req'[x].job = q[x].job
                            /\ req'[x].client = q[x].client
  BY <1>1, WriteEffect DEF Inv
<1>3. /\ \A x \in Request : Executing(x)' <=> q[x].pc \in ExecutingPc
      /\ \A x \in Request :
           Executing(x)' => Executing(x) /\ req'[x].job = req[x].job /\ req'[x].job \in Job
  BY <1>2 DEF Tame, Executing, ExecutingPc, Inv, RequestsKnown
<1>4. stored # Fresh
  BY RowAssumption
<1>5. RequestsKnown'
  BY <1>2, <1>4 DEF Inv, Tame, RequestsKnown
<1>6. OneExecution'
  BY <1>3 DEF Inv, OneExecution
<1>7. ExecutionAlone'
  <2> SUFFICES ASSUME NEW x \in Request, Executing(x)'
               PROVE  /\ State(req[x].job)' \notin {PENDING, ENQUEUED}
                      /\ req'[x].job \notin offered'
                      /\ effects'[req'[x].job] = 0
    BY DEF ExecutionAlone
  <2>1. /\ req'[x].job = req[x].job /\ req[x].job \in Job /\ q[x].job = req[x].job
        /\ q[x].pc \in ExecutingPc /\ Executing(x)
    BY <1>2, <1>3
  <2>2. CASE req[x].job = j
    BY <1>2, <2>1, <2>2 DEF Inv, ExecutionAlone
  <2>3. CASE req[x].job # j
    BY <1>2, <2>1, <2>3 DEF Inv, ExecutionAlone
  <2> QED
    BY <2>2, <2>3
<1>8. OfferedWaits'
  BY <1>2 DEF Inv, OfferedWaits, TypeOK
<1>9. QueuedUncommitted'
  BY <1>2, <1>4 DEF Inv, QueuedUncommitted
<1>10. CommittedOnce'
  BY DEF Inv, CommittedOnce
<1> QED
  BY <1>5, <1>6, <1>7, <1>8, <1>9, <1>10 DEF Inv

-----------------------------------------------------------------------------
(* Every step keeps the invariant.                                         *)

\* A request that arrives is about a created job and executes nothing yet.
LEMMA HttpGetType ==
  ASSUME TypeOK, NEW r \in Request, NEW j \in Job, NEW waits \in BOOLEAN,
         HttpGet(r, j, waits), UNCHANGED offered
  PROVE  TypeOK'
<1>1. [IdleRequest EXCEPT !.pc = "sent", !.job = j, !.client = waits] \in RequestType
  BY IdleRequestType DEF RequestType, Pc
<1> QED
  BY <1>1 DEF HttpGet, TypeOK, TableTypeOK

\* When the runner dies, no request is left with a client, and none goes on that
\* had not begun.
LEMMA ClientsDieTame ==
  ASSUME TypeOK, RequestsKnown, ClientsDie
  PROVE  Tame(req')
<1>1. \A r \in Request : req[r] \in RequestType
  BY DEF TypeOK, TableTypeOK
<1>2. ASSUME NEW r \in Request
      PROVE  [req[r] EXCEPT !.client = FALSE] \in RequestType
  BY <1>1 DEF RequestType
<1>3. req' \in [Request -> RequestType]
  BY <1>2, IdleRequestType DEF ClientsDie
<1>4. ASSUME NEW r \in Request
      PROVE  \/ req'[r] = IdleRequest
             \/ /\ req'[r].pc = req[r].pc
                /\ req'[r].job = req[r].job
                /\ ~req'[r].client
  BY <1>1 DEF ClientsDie, RequestType
<1>5. IdleRequest.pc = "idle" /\ ~IdleRequest.client
  BY DEF IdleRequest
<1> QED
  BY <1>3, <1>4, <1>5 DEF Tame, ExecutingPc

\* Every step keeps the types.
LEMMA TypeStep ==
  ASSUME TypeOK, RequestsKnown, [Next]_vars
  PROVE  TypeOK'
<1>1. CASE Refresh
  BY <1>1 DEF Refresh, TypeOK, TableTypeOK, tableVars, Pending
<1>2. ASSUME NEW j \in Job, Enqueue(j)
      PROVE  TypeOK'
  BY <1>2, JobWriteType DEF Enqueue, TypeOK
<1>3. ASSUME NEW r \in Request, RequestStep(r), UNCHANGED offered
      PROVE  TypeOK'
  BY <1>3, RequestStepType DEF TypeOK
<1>4. ASSUME NEW r \in Request, RequestWrite(r), UNCHANGED offered
      PROVE  TypeOK'
  BY <1>4, RequestWriteType DEF TypeOK
<1>5. ASSUME NEW r \in Request, NEW j \in Job, NEW waits \in BOOLEAN,
             HttpGet(r, j, waits), UNCHANGED offered
      PROVE  TypeOK'
  BY <1>5, HttpGetType
<1>6. ASSUME NEW j \in Job, Administration(j), UNCHANGED offered
      PROVE  TypeOK'
  BY <1>6, JobWriteType DEF TypeOK
<1>7. CASE RunnerDies
  BY <1>7, ClientsDieTame DEF RunnerDies, ClientsDie, Tame, TypeOK, TableTypeOK
<1>8. CASE UNCHANGED vars
  BY <1>8 DEF vars, TypeOK, TableTypeOK
<1> QED
  BY <1>1, <1>2, <1>3, <1>4, <1>5, <1>6, <1>7, <1>8 DEF Next

\* What the runner reads of the table it may hold: only pending jobs are added.
LEMMA RefreshInv ==
  ASSUME Inv, TypeOK', Refresh
  PROVE  Inv'
<1>1. UNCHANGED <<row, req, effects>>
  BY DEF Refresh, tableVars
<1>2. \A j : State(j)' = State(j)
  BY <1>1 DEF State, Exists
<1>3. \A r \in Request : Executing(r)' <=> Executing(r)
  BY <1>1 DEF Executing
<1>4. \A j \in offered' : j \in offered \/ (j \in Job /\ State(j) = PENDING)
  BY DEF Refresh, Pending
<1>5. RequestsKnown' /\ OneExecution' /\ QueuedUncommitted' /\ CommittedOnce'
  BY <1>1, <1>2, <1>3
     DEF Inv, RequestsKnown, OneExecution, QueuedUncommitted, CommittedOnce
<1>6. ExecutionAlone'
  BY <1>1, <1>2, <1>3, <1>4 DEF Inv, ExecutionAlone
<1>7. OfferedWaits'
  BY <1>1, <1>2, <1>4 DEF Inv, OfferedWaits, QueuedUncommitted
<1> QED
  BY <1>5, <1>6, <1>7 DEF Inv

\* The job that the runner enqueues is executed by nobody.
LEMMA EnqueueInv ==
  ASSUME Inv, TypeOK', NEW j \in Job, Enqueue(j)
  PROVE  Inv'
<1>1. /\ j \in offered /\ effects[j] = 0 /\ effects' = effects
      /\ offered' = offered \ {j}
      /\ \A x \in Request : req[x].pc \in ExecutingPc => req[x].job # j
  BY DEF Enqueue, SetJobEnqueued, Inv, OfferedWaits, ExecutionAlone, Executing,
         ExecutingPc
<1>2. Tame(req)
  BY TameRequests DEF Inv
<1>3. CASE Exists(j)
  <2> DEFINE stored == [row[j] EXCEPT !.state = ENQUEUED]
  <2>1. row[j] \in Stored
    BY <1>3 DEF Exists, Inv, TypeOK, TableTypeOK
  <2>2. stored \in Stored /\ stored.state = ENQUEUED
    BY <2>1 DEF Stored, STATES
  <2>3. Write(j, stored, req)
    BY <1>3 DEF Enqueue, SetJobEnqueued
  <2>4. j \notin offered'
    BY <1>1
  <2> HIDE DEF stored
  <2> QED
    BY <1>1, <1>2, <2>2, <2>3, <2>4, TameWrite
<1>4. CASE ~Exists(j)
  <2>1. UNCHANGED <<row, req, effects>>
    BY <1>4 DEF Enqueue, SetJobEnqueued
  <2>2. \A k : State(k)' = State(k)
    BY <2>1 DEF State, Exists
  <2>3. \A r \in Request : Executing(r)' <=> Executing(r)
    BY <2>1 DEF Executing
  <2> QED
    BY <1>1, <2>1, <2>2, <2>3
       DEF Inv, RequestsKnown, OneExecution, ExecutionAlone, OfferedWaits,
           QueuedUncommitted, CommittedOnce
<1> QED
  BY <1>3, <1>4

\* A request that arrives executes nothing yet, and disturbs nothing.
LEMMA HttpGetInv ==
  ASSUME Inv, TypeOK', NEW r \in Request, NEW j \in Job, NEW waits \in BOOLEAN,
         HttpGet(r, j, waits), UNCHANGED offered
  PROVE  Inv'
<1> DEFINE sent == [IdleRequest EXCEPT !.pc = "sent", !.job = j, !.client = waits]
<1>1. /\ row[j] # Fresh /\ req' = [req EXCEPT ![r] = sent]
      /\ UNCHANGED <<row, effects, offered>>
  BY DEF HttpGet
<1>2. sent.pc = "sent" /\ sent.job = j
  BY DEF IdleRequest
<1>3. \A x \in Request : Executing(x)' => Executing(x) /\ req'[x].job = req[x].job
  BY <1>1, <1>2 DEF Executing, Inv, TypeOK, TableTypeOK
<1>4. \A k : State(k)' = State(k)
  BY <1>1 DEF State, Exists
<1>5. RequestsKnown'
  BY <1>1, <1>2 DEF Inv, RequestsKnown, TypeOK, TableTypeOK
<1> QED
  BY <1>1, <1>3, <1>4, <1>5
     DEF Inv, OneExecution, ExecutionAlone, OfferedWaits, QueuedUncommitted,
         CommittedOnce

\* The steps of a request that leave the table alone keep the invariant.
LEMMA RequestStepInv ==
  ASSUME Inv, TypeOK', NEW r \in Request, RequestStep(r), UNCHANGED offered
  PROVE  Inv'
<1>1. UNCHANGED <<row, effects>> /\ req[r].pc # "idle"
  BY DEF RequestStep, RequestLost, RunjobReject, TakeSnapshot, NothingToDoConflict,
         OperationalError, RetryableJobError, OtherError, PostponeFails, Crash,
         EndPostponed, Closing, Executing
<1>2. CASE RequestLost(r) \/ RunjobReject(r) \/ NothingToDoConflict(r) \/ Crash(r)
  <2>1. Tame(req')
    BY <1>1, <1>2, TameRequests
       DEF Inv, RequestLost, RunjobReject, NothingToDoConflict, Crash
  <2> QED
    BY <1>1, <2>1, TameStep
<1>3. ASSUME Executing(r), req'[r].pc # "idle",
             req'[r].job = req[r].job,
             \A x \in Request \ {r} : req'[x] = req[x]
      PROVE  Inv'
  <2>1. Tame(req')
    BY <1>3 DEF Tame, Inv, TypeOK, TableTypeOK, RequestsKnown, Executing, ExecutingPc
  <2> QED
    BY <1>1, <2>1, TameStep
<1>4. req[r] \in RequestType /\ req \in [Request -> RequestType]
  BY DEF Inv, TypeOK, TableTypeOK
<1>5. CASE TakeSnapshot(r)
  BY <1>3, <1>4, <1>5 DEF TakeSnapshot, Executing, RequestType
<1>6. CASE PostponeFails(r)
  BY <1>3, <1>4, <1>6 DEF PostponeFails, Executing, RequestType
<1>7. ASSUME NEW finished \in BOOLEAN, OperationalError(r, finished)
      PROVE  Inv'
  BY <1>3, <1>4, <1>7 DEF OperationalError, Executing, RequestType
<1>8. ASSUME NEW finished \in BOOLEAN, OtherError(r, finished)
      PROVE  Inv'
  BY <1>3, <1>4, <1>8 DEF OtherError, Executing, RequestType
<1>9. ASSUME NEW ignore_retry \in BOOLEAN, RetryableJobError(r, ignore_retry)
      PROVE  Inv'
  BY <1>3, <1>4, <1>9 DEF RetryableJobError, Executing, RequestType
<1>10. ASSUME NEW part \in BOOLEAN, EndPostponed(r, part)
       PROVE  Inv'
  <2>1. Tame(req')
    BY <1>1, <1>10, TameRequests DEF Inv, EndPostponed
  <2> QED
    BY <1>1, <2>1, TameStep
<1> QED
  BY <1>2, <1>5, <1>6, <1>7, <1>8, <1>9, <1>10 DEF RequestStep

\* In the stored row of a request's transaction, the runner does not hold the
\* job and nobody else executes it; the request is over or its client is gone.
LEMMA RequestWriteInv ==
  ASSUME Inv, TypeOK', NEW r \in Request, RequestWrite(r), UNCHANGED offered
  PROVE  Inv'
<1> DEFINE j == req[r].job
<1>1. req[r] \in RequestType /\ req \in [Request -> RequestType]
  BY DEF Inv, TypeOK, TableTypeOK
<1>2. req[r].pc # "idle" /\ j \in Job /\ row[j] # Fresh
  <2>1. req[r].pc # "idle"
    BY DEF RequestWrite, ClientGivesUp, RunjobStart, Finish, Postpone, SetFailed,
           Inv, RequestsKnown
  <2> QED
    BY <2>1 DEF Inv, RequestsKnown
<1>3. Tame(Ended(r)) /\ Tame(Broken(r)) /\ Tame(Postponed(r)) /\ Tame(req)
  BY <1>2, TameRequests DEF Inv
<1>4. Exists(j) => row[j] \in Stored
  BY <1>2 DEF Exists, Inv, TypeOK, TableTypeOK
<1>5. Executing(r) => /\ j \notin offered /\ effects[j] = 0
                      /\ \A x \in Request \ {r} :
                           req[x].pc \in ExecutingPc => req[x].job # j
  BY DEF Inv, ExecutionAlone, OneExecution, Executing, ExecutingPc
<1>6. \A x \in Request \ {r} :
        Ended(r)[x] = req[x] /\ Broken(r)[x] = req[x] /\ Postponed(r)[x] = req[x]
  BY EndedPc DEF Inv
<1>7. /\ Ended(r)[r].pc \notin ExecutingPc
      /\ Broken(r)[r].pc \notin ExecutingPc
      /\ Postponed(r)[r].pc \notin ExecutingPc
  BY EndedPc DEF Inv
<1>8. State(j) = ENQUEUED =>
        /\ Exists(j) /\ effects[j] = 0 /\ j \notin offered
        /\ \A x \in Request : req[x].pc \in ExecutingPc => req[x].job # j
  BY <1>2 DEF State, Inv, ExecutionAlone, OfferedWaits, QueuedUncommitted, Executing,
              ExecutingPc
<1>9. CASE ClientGivesUp(r)
  <2> DEFINE left == IF req[r].pc = "error"
                       THEN Ended(r)
                       ELSE [req EXCEPT ![r].client = FALSE]
             stored == [row[j] EXCEPT !.state = PENDING]
  <2>1. Tame(left)
    BY <1>1, <1>3 DEF Tame, ExecutingPc, RequestType
  <2>2. \A x \in Request :
          left[x].pc \in ExecutingPc => req[x].pc \in ExecutingPc /\ left[x].job = req[x].job
    BY <2>1 DEF Tame, ExecutingPc
  <2>3. CASE State(j) = ENQUEUED
    <3>1. stored \in Stored /\ stored.state = PENDING
      BY <1>4, <1>8, <2>3 DEF Stored, STATES
    <3>2. Write(j, stored, left) /\ effects' = effects
      BY <1>9, <2>3 DEF ClientGivesUp
    <3>3. \A x \in Request : left[x].pc \in ExecutingPc => left[x].job # j
      BY <1>8, <2>2, <2>3
    <3> HIDE DEF stored, left
    <3> QED
      BY <1>2, <1>8, <2>1, <2>3, <3>1, <3>2, <3>3, TameWrite
  <2>4. CASE State(j) # ENQUEUED
    <3>1. req' = left /\ UNCHANGED <<row, effects>>
      BY <1>9, <2>4 DEF ClientGivesUp
    <3> HIDE DEF left
    <3> QED
      BY <2>1, <3>1, TameStep
  <2> QED
    BY <2>3, <2>4
<1>10. CASE RunjobStart(r)
  <2> DEFINE started == [req EXCEPT ![r].pc = "performing",
                                    ![r].mem = [retry |-> row[j].retry,
                                                eta |-> row[j].eta,
                                                date_done |-> row[j].date_done]]
             stored == [row[j] EXCEPT !.state = STARTED]
  <2>1. /\ State(j) = ENQUEUED /\ Write(j, stored, started)
        /\ effects' = effects
    BY <1>10 DEF RunjobStart
  <2>2. stored \in Stored /\ stored.state = STARTED
    BY <1>4, <1>8, <2>1 DEF Stored, STATES
  <2>3. started \in [Request -> RequestType]
    BY <1>1, <1>4, <1>8, <2>1 DEF RequestType, Pc, Memory, Stored
  <2>4. /\ \A x \in Request \ {r} : started[x] = req[x]
        /\ started[r].pc = "performing" /\ started[r].job = j
    BY <1>1 DEF RequestType
  <2> HIDE DEF stored, started
  <2>5. PICK k \in Job : k = j
    BY <1>2
  <2>6. /\ row'[k] = stored
        /\ \A i \in Job \ {k} : row'[i] = row[i] /\ State(i)' = State(i)
        /\ State(k)' = STARTED
        /\ \A x \in Request : /\ req'[x].pc = started[x].pc
                              /\ req'[x].job = started[x].job
                              /\ req'[x].client = started[x].client
    BY <2>1, <2>2, <2>3, <2>5, WriteEffect DEF Inv
  <2>7. \A x \in Request \ {r} :
          /\ req'[x].pc = req[x].pc /\ req'[x].job = req[x].job
          /\ req'[x].client = req[x].client
          /\ Executing(x)' => Executing(x) /\ req[x].job # k /\ req[x].job \in Job
    BY <1>8, <2>1, <2>4, <2>5, <2>6 DEF Executing, ExecutingPc, Inv, RequestsKnown
  <2>8. req'[r].pc = "performing" /\ req'[r].job = k
    BY <2>4, <2>5, <2>6
  <2>9. RequestsKnown'
    BY <1>2, <2>2, <2>5, <2>6, <2>7, <2>8, RowAssumption DEF Inv, RequestsKnown
  <2>10. OneExecution'
    BY <2>7, <2>8 DEF Inv, OneExecution
  <2>11. ExecutionAlone'
    BY <1>8, <2>1, <2>5, <2>6, <2>7, <2>8 DEF Inv, ExecutionAlone
  <2>12. OfferedWaits' /\ CommittedOnce'
    BY <1>8, <2>1, <2>5, <2>6 DEF Inv, OfferedWaits, CommittedOnce, TypeOK
  <2>13. QueuedUncommitted'
    BY <2>1, <2>2, <2>5, <2>6, RowAssumption DEF Inv, QueuedUncommitted
  <2> QED
    BY <2>9, <2>10, <2>11, <2>12, <2>13 DEF Inv
<1>11. CASE Finish(r)
  <2> DEFINE stored == [state |-> DONE, retry |-> Retried(r),
                        eta |-> req[r].mem.eta, date_done |-> TRUE]
  <2>1. Executing(r) /\ Write(j, stored, Ended(r))
    BY <1>11 DEF Finish, Executing
  <2>2. effects' = [effects EXCEPT ![j] = @ + 1] /\ effects \in [Job -> Nat]
    BY <1>11 DEF Finish, Inv, TypeOK, TableTypeOK
  <2>3. effects'[j] = 1 /\ \A k \in Job \ {j} : effects'[k] = effects[k]
    BY <1>2, <1>5, <2>1, <2>2
  <2>4. stored \in Stored /\ stored.state = DONE
    BY <1>1, RetriedType DEF Stored, STATES, RequestType, Memory, Inv, TypeOK
  <2>5. \A x \in Request : Ended(r)[x].pc \in ExecutingPc => Ended(r)[x].job # j
    BY <1>5, <1>6, <1>7, <2>1
  <2> HIDE DEF stored
  <2> QED
    BY <1>2, <1>3, <1>5, <2>1, <2>3, <2>4, <2>5, TameWrite
<1>12. ASSUME NEW eta \in Eta, Postpone(r, eta)
       PROVE  Inv'
  <2> DEFINE stored == [state |-> PENDING, retry |-> req[r].mem.retry,
                        eta |-> eta, date_done |-> req[r].mem.date_done]
  <2>1. Executing(r) /\ Write(j, stored, Postponed(r)) /\ effects' = effects
    BY <1>12 DEF Postpone, Executing
  <2>2. stored \in Stored /\ stored.state = PENDING
    BY <1>1 DEF Stored, STATES, RequestType, Memory
  <2>3. \A x \in Request : Postponed(r)[x].pc \in ExecutingPc => Postponed(r)[x].job # j
    BY <1>5, <1>6, <1>7, <2>1
  <2> HIDE DEF stored
  <2> QED
    BY <1>2, <1>3, <1>5, <2>1, <2>2, <2>3, TameWrite
<1>13. CASE SetFailed(r)
  <2> DEFINE stored == [state |-> FAILED, retry |-> req[r].mem.retry,
                        eta |-> req[r].mem.eta,
                        date_done |-> req[r].mem.date_done]
  <2>1. Executing(r) /\ Write(j, stored, Broken(r)) /\ effects' = effects
    BY <1>13 DEF SetFailed, Executing
  <2>2. stored \in Stored /\ stored.state = FAILED
    BY <1>1 DEF Stored, STATES, RequestType, Memory
  <2>3. \A x \in Request : Broken(r)[x].pc \in ExecutingPc => Broken(r)[x].job # j
    BY <1>5, <1>6, <1>7, <2>1
  <2> HIDE DEF stored
  <2> QED
    BY <1>2, <1>3, <1>5, <2>1, <2>2, <2>3, TameWrite
<1> QED
  BY <1>9, <1>10, <1>11, <1>12, <1>13 DEF RequestWrite

\* What users and crons do: a job they put back in the queue is not executed.
LEMMA AdministrationInv ==
  ASSUME Inv, TypeOK', NEW j \in Job, Administration(j), UNCHANGED offered
  PROVE  Inv'
<1>1. Tame(req)
  BY TameRequests DEF Inv
<1>2. Exists(j) => row[j] \in Stored
  BY DEF Exists, Inv, TypeOK, TableTypeOK
<1>3. effects \in [Job -> Nat] /\ effects[j] <= 1
  BY DEF Inv, TypeOK, TableTypeOK, CommittedOnce
<1>4. \A x \in Request : req[x].pc \in ExecutingPc /\ req[x].job = j =>
        effects[j] = 0 /\ State(j) \notin {PENDING, ENQUEUED} /\ row[j] # Fresh
  BY DEF Inv, ExecutionAlone, Executing, ExecutingPc, RequestsKnown
<1>5. j \in offered => effects[j] = 0
  BY DEF Inv, OfferedWaits
<1>6. /\ PENDING \in STATES /\ DONE \in STATES
      /\ PENDING \notin {ENQUEUED, STARTED}
      /\ DONE \notin {PENDING, ENQUEUED, STARTED}
  BY DEF STATES
<1>7. ASSUME NEW eta \in Eta, Create(j, eta)
      PROVE  Inv'
  <2> DEFINE stored == [state |-> PENDING, retry |-> 0, eta |-> eta,
                        date_done |-> FALSE]
  <2>1. stored \in Stored /\ stored.state = PENDING
    BY <1>6, TableAssumption DEF Stored
  <2>2. Write(j, stored, req) /\ effects' = effects /\ row[j] = Fresh
    BY <1>7 DEF Create
  <2>3. effects[j] = 0
    BY <2>2 DEF Inv, QueuedUncommitted
  <2>4. \A x \in Request : req[x].pc \in ExecutingPc => req[x].job # j
    BY <1>4, <2>2
  <2> HIDE DEF stored
  <2> QED
    BY <1>1, <1>3, <1>6, <2>1, <2>2, <2>3, <2>4, TameWrite
<1>8. CASE Requeue(j)
  <2> DEFINE stored == [row[j] EXCEPT !.state = PENDING, !.retry = 0]
  <2>1. /\ Write(j, stored, req) /\ Exists(j) /\ ~Live(j)
        /\ effects' = [effects EXCEPT ![j] = 0]
    BY <1>8 DEF Requeue
  <2>2. stored \in Stored /\ stored.state = PENDING
    BY <1>2, <2>1, RequeuedType DEF Stored
  <2>3. \A x \in Request : req[x].pc \in ExecutingPc => req[x].job # j
    BY <2>1 DEF Live, Executing, ExecutingPc
  <2>4. effects'[j] = 0 /\ \A k \in Job \ {j} : effects'[k] = effects[k]
    BY <1>3, <2>1
  <2> HIDE DEF stored
  <2> QED
    BY <1>1, <1>6, <2>1, <2>2, <2>3, <2>4, TameWrite
<1>9. CASE ButtonDone(j)
  <2> DEFINE stored == [row[j] EXCEPT !.state = DONE, !.date_done = TRUE]
  <2>1. Write(j, stored, req) /\ Exists(j) /\ effects' = effects
    BY <1>9 DEF ButtonDone
  <2>2. stored \in Stored /\ stored.state = DONE
    BY <1>2, <1>6, <2>1 DEF Stored
  <2> HIDE DEF stored
  <2> QED
    BY <1>1, <1>3, <1>4, <1>5, <1>6, <2>1, <2>2, TameWrite
<1>10. CASE RequeueStuck(j)
  <2> DEFINE stored == [row[j] EXCEPT !.state = PENDING, !.retry = 0]
  <2>1. /\ Write(j, stored, req) /\ State(j) = ENQUEUED /\ effects' = effects
        /\ Exists(j)
    BY <1>10 DEF RequeueStuck, State
  <2>2. stored \in Stored /\ stored.state = PENDING
    BY <1>2, <2>1, RequeuedType DEF Stored
  <2>3. effects[j] = 0
    BY <2>1 DEF Inv, QueuedUncommitted
  <2>4. \A x \in Request : req[x].pc \in ExecutingPc => req[x].job # j
    BY <1>4, <2>1
  <2> HIDE DEF stored
  <2> QED
    BY <1>1, <1>3, <1>6, <2>1, <2>2, <2>3, <2>4, TameWrite
<1>11. CASE Autovacuum(j) \/ Unlink(j)
  <2>1. Write(j, Gone, req) /\ effects' = effects
    BY <1>11 DEF Autovacuum, Unlink
  <2> QED
    BY <1>1, <1>3, <1>4, <1>5, <2>1, RowAssumption, TameWrite
<1> QED
  BY <1>7, <1>8, <1>9, <1>10, <1>11 DEF Administration

-----------------------------------------------------------------------------
(* The theorems.                                                           *)

\* The invariant holds while no job has been created.
LEMMA InitInv == Init => Inv
<1> SUFFICES ASSUME Init
             PROVE  Inv
  OBVIOUS
<1>1. /\ \A j \in Job : row[j] = Fresh /\ effects[j] = 0
      /\ \A r \in Request : req[r] = IdleRequest
      /\ offered = {}
  BY DEF Init, TableInit
<1>2. IdleRequest.pc = "idle" /\ IdleRequest.client = FALSE
  BY DEF IdleRequest
<1>3. TypeOK
  BY IdleRequestType DEF Init, TableInit, TypeOK, TableTypeOK
<1>4. \A r \in Request : ~Executing(r)
  BY <1>1, <1>2 DEF Executing
<1> QED
  BY <1>1, <1>2, <1>3, <1>4
     DEF Inv, RequestsKnown, OneExecution, ExecutionAlone, OfferedWaits,
         QueuedUncommitted, CommittedOnce

\* Every step keeps the invariant: one case for each group of actions.
LEMMA NextInv == Inv /\ [Next]_vars => Inv'
<1> SUFFICES ASSUME Inv, [Next]_vars
             PROVE  Inv'
  OBVIOUS
<1>1. TypeOK'
  BY TypeStep DEF Inv
<1>2. CASE Refresh
  BY <1>1, <1>2, RefreshInv
<1>3. ASSUME NEW j \in Job, Enqueue(j)
      PROVE  Inv'
  BY <1>1, <1>3, EnqueueInv
<1>4. ASSUME NEW r \in Request, RequestStep(r), UNCHANGED offered
      PROVE  Inv'
  BY <1>1, <1>4, RequestStepInv
<1>5. ASSUME NEW r \in Request, RequestWrite(r), UNCHANGED offered
      PROVE  Inv'
  BY <1>1, <1>5, RequestWriteInv
<1>6. ASSUME NEW r \in Request, NEW j \in Job, NEW waits \in BOOLEAN,
             HttpGet(r, j, waits), UNCHANGED offered
      PROVE  Inv'
  BY <1>1, <1>6, HttpGetInv
<1>7. ASSUME NEW j \in Job, Administration(j), UNCHANGED offered
      PROVE  Inv'
  BY <1>1, <1>7, AdministrationInv
<1>8. CASE RunnerDies
  BY <1>1, <1>8, ClientsDieTame, TameStep DEF RunnerDies, ClientsDie, Inv
<1>9. CASE UNCHANGED vars
  <2>1. Tame(req')
    BY <1>9, TameRequests DEF vars, Inv
  <2> QED
    BY <1>1, <1>9, <2>1, TameStep DEF vars
<1> QED
  BY <1>2, <1>3, <1>4, <1>5, <1>6, <1>7, <1>8, <1>9 DEF Next

\* The invariant holds in every reachable state, for any set of jobs, any number
\* of requests and any bound of retries.
THEOREM Invariance == Spec => []Inv
  BY InitInv, NextInv, PTL DEF Spec

\* The table and the requests keep their types.
THEOREM Typing == Spec => []TypeOK
<1>1. Inv => TypeOK
  BY DEF Inv
<1> QED
  BY <1>1, Invariance, PTL

\* No job is executed by two requests at a time.
THEOREM MutualExclusion == Spec => []OneExecution
<1>1. Inv => OneExecution
  BY DEF Inv
<1> QED
  BY <1>1, Invariance, PTL

\* The whole work of a job, with its row set done, is committed at most once between
\* two requeues by a user; nothing is said of the parts that postponed executions
\* leave.
THEOREM AtMostOneCommit == Spec => []CommittedOnce
<1>1. Inv => CommittedOnce
  BY DEF Inv
<1> QED
  BY <1>1, Invariance, PTL

\* A job that is executed is not up for another execution, neither in the table
\* nor in the memory of the runner.
THEOREM ExecutionKeepsRow == Spec => []NotQueuedWhileLive
<1>1. Inv => NotQueuedWhileLive
  BY DEF Inv, ExecutionAlone, NotQueuedWhileLive, Live
<1> QED
  BY <1>1, Invariance, PTL

-----------------------------------------------------------------------------
(* JobStore implements JobLifecycle: every step moves at most one job, and *)
(* moves it as JobLifecycle allows.                                        *)

\* A step that leaves the closing requests alone changes nothing of what may still
\* be left behind.
LEMMA OpenSame ==
  ASSUME \A x \in Request : /\ Closing(x)' <=> Closing(x)
                            /\ Closing(x) => req'[x].job = req[x].job
  PROVE  Open' = Open
  BY DEF Open

\* A step that changes nothing of the executions and the commits of the jobs
\* other than j, and starts, aborts, commits or restarts j, or none of these.
LEMMA PhaseStep ==
  ASSUME TypeOK, TypeOK', NEW j \in Job, UNCHANGED parts,
         \/ Open' = Open
         \/ Open' = Open \cup {j} /\ Live(j) /\ ~Live(j)' /\ effects'[j] = 0,
         \A k \in Job \ {j} : (Live(k)' <=> Live(k)) /\ effects'[k] = effects[k],
         \/ (Live(j)' <=> Live(j)) /\ effects'[j] = effects[j]
         \/ ~Live(j) /\ effects[j] = 0 /\ Live(j)'
         \/ Live(j) /\ ~Live(j)'
         \/ ~Live(j) /\ ~Live(j)' /\ effects'[j] = 0
  PROVE  [Lifecycle!Next]_(Lifecycle!vars)
<1> DEFINE phaseOf(k) == IF Live(k) THEN "running"
                         ELSE IF effects[k] > 0 THEN "committed" ELSE "idle"
<1>1. effects[j] \in Nat /\ effects'[j] \in Nat
  BY DEF TypeOK, TableTypeOK
<1>2. /\ Phase = [k \in Job |-> phaseOf(k)]
      /\ Phase' = [k \in Job |-> phaseOf(k)']
  BY DEF Phase
<1>3. \A k \in Job \ {j} : phaseOf(k)' = phaseOf(k)
  OBVIOUS
<1>4. \/ phaseOf(j)' = phaseOf(j) /\ Open' = Open
      \/ phaseOf(j) = "idle" /\ phaseOf(j)' = "running" /\ Open' = Open
      \/ phaseOf(j) = "running" /\ phaseOf(j)' = "committed" /\ Open' = Open
      \/ /\ phaseOf(j) = "running" /\ phaseOf(j)' = "idle"
         /\ Open' \in {Open, Open \cup {j}}
      \/ phaseOf(j) = "committed" /\ phaseOf(j)' = "idle" /\ Open' = Open
  BY <1>1
<1> HIDE DEF phaseOf
<1>5. Phase' = [Phase EXCEPT ![j] = phaseOf(j)'] /\ Phase[j] = phaseOf(j)
  BY <1>2, <1>3
<1>6. phaseOf(j)' = phaseOf(j) => Phase' = Phase
  BY <1>2, <1>3
<1> QED
  BY <1>4, <1>5, <1>6
     DEF Lifecycle!Next, Lifecycle!Start, Lifecycle!Abort, Lifecycle!Commit,
         Lifecycle!Restart, Lifecycle!Move, Lifecycle!vars

\* A closing request that ends leaves a part of its job's work, or nothing.
LEMMA LeaveStep ==
  ASSUME TypeOK, NEW r \in Request, NEW j \in Job, Closing(r), req[r].job = j,
         ~Executing(r)', ~Closing(r)',
         \A x \in Request \ {r} : req'[x] = req[x],
         effects' = effects, parts' \in {parts, parts \cup {j}}
  PROVE  [Lifecycle!Next]_(Lifecycle!vars)
<1>1. \A x \in Request : Executing(x)' <=> Executing(x)
  BY DEF Executing, Closing
<1>2. \A x \in Request : Executing(x) => req'[x].job = req[x].job
  BY DEF Executing, Closing
<1>3. Phase' = Phase
  BY <1>1, <1>2 DEF Phase, Live
<1>4. \A x \in Request \ {r} :
        (Closing(x)' <=> Closing(x)) /\ req'[x].job = req[x].job
  BY DEF Closing
<1>5. j \in Open /\ Open' \in {Open, Open \ {j}}
  BY <1>4 DEF Open
<1> QED
  BY <1>3, <1>5 DEF Lifecycle!Next, Lifecycle!Leave

\* A step of one request moves at most the job of that request.
LEMMA RequestPhase ==
  ASSUME Inv, TypeOK', NEW r \in Request, NEW j \in Job,
         \A x \in Request \ {r} : req'[x].pc = req[x].pc /\ req'[x].job = req[x].job,
         Executing(r) => req[r].job = j,
         Executing(r)' => req'[r].job = j,
         \A k \in Job \ {j} : effects'[k] = effects[k],
         UNCHANGED parts,
         \/ Closing(r)' <=> Closing(r)
         \/ Executing(r) /\ Closing(r)' /\ effects'[j] = 0,
         Closing(r) => req'[r].job = req[r].job,
         Closing(r)' => req'[r].job = j,
         \/ (Executing(r)' <=> Executing(r)) /\ effects'[j] = effects[j]
         \/ Executing(r) /\ ~Executing(r)'
         \/ ~Executing(r) /\ Executing(r)' /\ State(j) = ENQUEUED
  PROVE  [Lifecycle!Next]_(Lifecycle!vars)
<1>1. \A x \in Request \ {r} :
        /\ Executing(x)' <=> Executing(x)
        /\ req'[x].job = req[x].job
  BY DEF Executing
<1>2. \A k \in Job \ {j} : Live(k)' <=> Live(k)
  BY <1>1 DEF Live
<1>3. \A x \in Request \ {r} :
        (Closing(x)' <=> Closing(x)) /\ req'[x].job = req[x].job
  BY DEF Closing
<1>4. CASE (Executing(r)' <=> Executing(r)) /\ effects'[j] = effects[j]
  <2>1. Live(j)' <=> Live(j)
    BY <1>1, <1>4 DEF Live
  <2>2. Closing(r)' <=> Closing(r)
    BY <1>4 DEF Executing, Closing
  <2>3. Open' = Open
    BY <1>3, <2>2, OpenSame
  <2> QED
    BY <1>2, <1>4, <2>1, <2>3, PhaseStep DEF Inv
<1>5. CASE Executing(r) /\ ~Executing(r)'
  <2>1. Live(j) /\ ~Live(j)'
    BY <1>1, <1>5 DEF Live, Inv, OneExecution
  <2>2. CASE Closing(r)' <=> Closing(r)
    <3>1. Open' = Open
      BY <1>3, <2>2, OpenSame
    <3> QED
      BY <1>2, <2>1, <3>1, PhaseStep DEF Inv
  <2>3. CASE Closing(r)' /\ ~Closing(r) /\ effects'[j] = 0
    <3>1. Open' = Open \cup {j}
      BY <1>3, <2>3 DEF Open
    <3> QED
      BY <1>2, <2>1, <2>3, <3>1, PhaseStep DEF Inv
  <2>4. ~Closing(r)
    BY <1>5 DEF Executing, Closing
  <2> QED
    BY <2>2, <2>3, <2>4
<1>6. CASE ~Executing(r) /\ Executing(r)' /\ State(j) = ENQUEUED
  <2>1. ~Live(j) /\ effects[j] = 0 /\ Live(j)'
    BY <1>6 DEF Live, Inv, ExecutionAlone, QueuedUncommitted
  <2>2. Open' = Open
    BY <1>6, <1>3, OpenSame DEF Executing, Closing
  <2> QED
    BY <1>2, <2>1, <2>2, PhaseStep DEF Inv
<1> QED
  BY <1>4, <1>5, <1>6

\* Steps that leave the requests to themselves move no job, but for a requeue.
LEMMA QuietPhase ==
  ASSUME Inv, TypeOK', NEW j \in Job,
         \A x \in Request : req'[x].pc = req[x].pc /\ req'[x].job = req[x].job,
         \A k \in Job \ {j} : effects'[k] = effects[k],
         effects'[j] = effects[j] \/ (~Live(j) /\ effects'[j] = 0),
         UNCHANGED parts
  PROVE  [Lifecycle!Next]_(Lifecycle!vars)
<1>1. \A k : Live(k)' <=> Live(k)
  BY DEF Live, Executing
<1>2. Open' = Open
  BY OpenSame DEF Closing
<1> QED
  BY <1>1, <1>2, PhaseStep DEF Inv

\* What users, crons and the runner do to a job starts and ends no execution; only
\* a requeue takes back a commit.
LEMMA AdministrationPhase ==
  ASSUME Inv, TypeOK', NEW j \in Job, Administration(j) \/ SetJobEnqueued(j)
  PROVE  [Lifecycle!Next]_(Lifecycle!vars)
<1>1. \/ UNCHANGED <<row, req>>
      \/ \E stored : Write(j, stored, req)
  BY DEF Administration, Create, Requeue, ButtonDone, RequeueStuck, Autovacuum,
         Unlink, SetJobEnqueued
<1>2. \A x \in Request : req'[x].pc = req[x].pc /\ req'[x].job = req[x].job
  BY <1>1, WriteEffect DEF Inv, TypeOK, TableTypeOK
<1>3. \/ effects' = effects
      \/ ~Live(j) /\ effects' = [effects EXCEPT ![j] = 0]
  BY DEF Administration, Create, Requeue, ButtonDone, RequeueStuck, Autovacuum,
         Unlink, SetJobEnqueued
<1>4. parts' = parts
  BY DEF Administration, Create, Requeue, ButtonDone, RequeueStuck, Autovacuum,
         Unlink, SetJobEnqueued
<1> QED
  BY <1>2, <1>3, <1>4, QuietPhase DEF Inv, TypeOK, TableTypeOK

\* A step of a request that leaves the table alone may abort an execution.
LEMMA RequestStepPhase ==
  ASSUME Inv, TypeOK', NEW r \in Request, RequestStep(r)
  PROVE  [Lifecycle!Next]_(Lifecycle!vars)
<1>1. req[r].pc # "idle" /\ UNCHANGED <<row, effects>>
  BY DEF RequestStep, RequestLost, RunjobReject, TakeSnapshot, NothingToDoConflict,
         OperationalError, RetryableJobError, OtherError, PostponeFails, Crash,
         EndPostponed, Closing, Executing
<1>2. PICK j \in Job : j = req[r].job
  BY <1>1 DEF Inv, RequestsKnown
<1>3. req[r] \in RequestType /\ req \in [Request -> RequestType]
  BY DEF Inv, TypeOK, TableTypeOK
<1>4. CASE RequestLost(r) \/ RunjobReject(r) \/ NothingToDoConflict(r) \/ Crash(r)
  <2>1. /\ req' = Ended(r) \/ req' = Broken(r)
        /\ parts' = parts
    BY <1>4 DEF RequestLost, RunjobReject, NothingToDoConflict, Crash
  <2>2. /\ ~Executing(r)' /\ ~Closing(r)'
        /\ \A x \in Request \ {r} : req'[x] = req[x]
    BY <2>1, EndedPc DEF Executing, ExecutingPc, Closing, Inv
  <2>3. CASE Closing(r)
    BY <1>1, <1>2, <2>1, <2>2, <2>3, LeaveStep DEF Inv
  <2>4. CASE ~Closing(r)
    BY <1>1, <1>2, <2>1, <2>2, <2>4, RequestPhase
  <2> QED
    BY <2>3, <2>4
<1>5. ASSUME NEW part \in BOOLEAN, EndPostponed(r, part)
       PROVE  [Lifecycle!Next]_(Lifecycle!vars)
  <2>1. Closing(r) /\ req' = Ended(r) /\ parts' \in {parts, parts \cup {req[r].job}}
    BY <1>5 DEF EndPostponed
  <2>2. /\ ~Executing(r)' /\ ~Closing(r)'
        /\ \A x \in Request \ {r} : req'[x] = req[x]
    BY <2>1, <1>3 DEF Executing, Closing, Ended, IdleRequest
  <2> QED
    BY <1>1, <1>2, <2>1, <2>2, LeaveStep DEF Inv
<1>6. ASSUME Executing(r), Executing(r)', req'[r].job = req[r].job, UNCHANGED parts,
             \A x \in Request \ {r} : req'[x] = req[x]
      PROVE  [Lifecycle!Next]_(Lifecycle!vars)
  <2>1. ~Closing(r) /\ ~Closing(r)'
    BY <1>6 DEF Executing, Closing
  <2> QED
    BY <1>1, <1>2, <1>6, <2>1, RequestPhase
<1>7. CASE TakeSnapshot(r)
  BY <1>3, <1>6, <1>7 DEF TakeSnapshot, Executing, RequestType
<1>8. CASE PostponeFails(r)
  BY <1>3, <1>6, <1>8 DEF PostponeFails, Executing, RequestType
<1>9. ASSUME NEW finished \in BOOLEAN, OperationalError(r, finished)
      PROVE  [Lifecycle!Next]_(Lifecycle!vars)
  BY <1>3, <1>6, <1>9 DEF OperationalError, Executing, RequestType
<1>10. ASSUME NEW finished \in BOOLEAN, OtherError(r, finished)
      PROVE  [Lifecycle!Next]_(Lifecycle!vars)
  BY <1>3, <1>6, <1>10 DEF OtherError, Executing, RequestType
<1>11. ASSUME NEW ignore_retry \in BOOLEAN, RetryableJobError(r, ignore_retry)
       PROVE  [Lifecycle!Next]_(Lifecycle!vars)
  BY <1>3, <1>6, <1>11 DEF RetryableJobError, Executing, RequestType
<1> QED
  BY <1>4, <1>5, <1>7, <1>8, <1>9, <1>10, <1>11 DEF RequestStep

\* A step of a request that writes the row starts an execution of an enqueued job,
\* aborts it or commits it, once.
LEMMA RequestWritePhase ==
  ASSUME Inv, TypeOK', NEW r \in Request, RequestWrite(r)
  PROVE  [Lifecycle!Next]_(Lifecycle!vars)
<1>1. req[r].pc # "idle"
  BY DEF RequestWrite, ClientGivesUp, RunjobStart, Finish, Postpone, SetFailed,
         Inv, RequestsKnown
<1>2. PICK j \in Job : j = req[r].job
  BY <1>1 DEF Inv, RequestsKnown
<1>3. req[r] \in RequestType /\ req \in [Request -> RequestType]
  BY DEF Inv, TypeOK, TableTypeOK
<1>4. \A q \in {Ended(r), Broken(r), Postponed(r)} :
        /\ q \in [Request -> RequestType]
        /\ \A x \in Request \ {r} : q[x] = req[x]
        /\ q[r].pc \notin ExecutingPc
        /\ q[r].pc = "closing" => q[r].job = req[r].job
  BY EndedPc DEF Inv
<1>5. ASSUME NEW q \in [Request -> RequestType],
             req' = q \/ \E stored : Write(j, stored, q)
      PROVE  \A x \in Request : req'[x].pc = q[x].pc /\ req'[x].job = q[x].job
  BY <1>5, WriteEffect DEF Inv
<1>6. ASSUME NEW q \in {Ended(r), Broken(r), Postponed(r)},
             \E stored : Write(j, stored, q),
             Executing(r), \A k \in Job \ {j} : effects'[k] = effects[k],
             UNCHANGED parts, q[r].pc = "closing" => effects' = effects
      PROVE  [Lifecycle!Next]_(Lifecycle!vars)
  <2>1. \A x \in Request \ {r} : req'[x].pc = req[x].pc /\ req'[x].job = req[x].job
    BY <1>4, <1>5, <1>6
  <2>2. ~Executing(r)'
    BY <1>4, <1>5, <1>6 DEF Executing, ExecutingPc
  <2>3. effects[j] = 0 /\ ~Closing(r)
    BY <1>2, <1>6 DEF Inv, ExecutionAlone, Executing, Closing
  <2>4. Closing(r)' => req'[r].job = j /\ effects'[j] = 0
    BY <1>2, <1>4, <1>5, <1>6, <2>3 DEF Closing
  <2> QED
    BY <1>2, <1>6, <2>1, <2>2, <2>3, <2>4, RequestPhase
<1>7. CASE ClientGivesUp(r)
  <2> DEFINE left == IF req[r].pc = "error"
                       THEN Ended(r)
                       ELSE [req EXCEPT ![r].client = FALSE]
  <2>1. /\ UNCHANGED <<effects, parts>>
        /\ req' = left \/ \E stored : Write(j, stored, left)
    BY <1>2, <1>7 DEF ClientGivesUp
  <2>2. left \in [Request -> RequestType]
    BY <1>3, <1>4 DEF RequestType
  <2>3. /\ \A x \in Request \ {r} : left[x] = req[x]
        /\ left[r].pc \in ExecutingPc <=> req[r].pc \in ExecutingPc
        /\ left[r].pc \in ExecutingPc => left[r].job = j
        /\ left[r].pc = "closing" <=> req[r].pc = "closing"
        /\ left[r].pc = "closing" => left[r].job = j
    BY <1>2, <1>3 DEF RequestType, ExecutingPc, Ended, IdleRequest
  <2> HIDE DEF left
  <2>4. \A x \in Request : req'[x].pc = left[x].pc /\ req'[x].job = left[x].job
    BY <1>5, <2>1, <2>2
  <2>5. /\ Executing(r)' <=> Executing(r)
        /\ Executing(r)' => req'[r].job = j
        /\ Closing(r)' <=> Closing(r)
        /\ Closing(r) => req'[r].job = j
        /\ \A x \in Request \ {r} : req'[x].pc = req[x].pc /\ req'[x].job = req[x].job
    BY <2>3, <2>4 DEF Executing, ExecutingPc, Closing
  <2> QED
    BY <1>2, <2>1, <2>5, RequestPhase
<1>8. CASE RunjobStart(r)
  <2> DEFINE started == [req EXCEPT ![r].pc = "performing",
                                    ![r].mem = [retry |-> row[req[r].job].retry,
                                                eta |-> row[req[r].job].eta,
                                                date_done |-> row[req[r].job].date_done]]
  <2>1. /\ State(j) = ENQUEUED /\ UNCHANGED <<effects, parts>> /\ req[r].pc = "sent"
        /\ \E stored : Write(j, stored, started)
    BY <1>2, <1>8 DEF RunjobStart
  <2>2. row[req[r].job] \in Stored
    BY <1>2, <2>1 DEF State, Exists, Inv, TypeOK, TableTypeOK
  <2>3. started \in [Request -> RequestType]
    BY <1>3, <2>2 DEF RequestType, Pc, Memory, Stored
  <2>4. /\ \A x \in Request \ {r} : started[x] = req[x]
        /\ started[r].pc = "performing" /\ started[r].job = j
    BY <1>2, <1>3 DEF RequestType
  <2> HIDE DEF started
  <2>5. \A x \in Request : req'[x].pc = started[x].pc /\ req'[x].job = started[x].job
    BY <1>5, <2>1, <2>3
  <2>6. /\ ~Executing(r) /\ Executing(r)' /\ req'[r].job = j
        /\ ~Closing(r) /\ ~Closing(r)'
        /\ \A x \in Request \ {r} : req'[x].pc = req[x].pc /\ req'[x].job = req[x].job
    BY <2>1, <2>4, <2>5 DEF Executing, Closing
  <2> QED
    BY <2>1, <2>6, RequestPhase
<1>9. CASE Finish(r)
  <2>1. Ended(r)[r].pc # "closing"
    BY <1>3 DEF Ended, IdleRequest
  <2>2. /\ \E stored : Write(j, stored, Ended(r))
        /\ Executing(r) /\ UNCHANGED parts
        /\ \A k \in Job \ {j} : effects'[k] = effects[k]
    BY <1>2, <1>9 DEF Finish, Executing, Inv, TypeOK, TableTypeOK
  <2> QED
    BY <1>6, <2>1, <2>2
<1>10. ASSUME NEW eta \in Eta, Postpone(r, eta)
       PROVE  [Lifecycle!Next]_(Lifecycle!vars)
  BY <1>2, <1>6, <1>10 DEF Postpone, Executing
<1>11. CASE SetFailed(r)
  BY <1>2, <1>6, <1>11 DEF SetFailed, Executing
<1> QED
  BY <1>7, <1>8, <1>9, <1>10, <1>11 DEF RequestWrite

\* A request that arrives moves no job.
LEMMA HttpGetPhase ==
  ASSUME Inv, TypeOK', NEW r \in Request, NEW j \in Job, NEW waits \in BOOLEAN,
         HttpGet(r, j, waits)
  PROVE  [Lifecycle!Next]_(Lifecycle!vars)
<1> DEFINE sent == [IdleRequest EXCEPT !.pc = "sent", !.job = j, !.client = waits]
<1>1. /\ req' = [req EXCEPT ![r] = sent] /\ UNCHANGED <<effects, parts>>
      /\ req[r].pc = "idle" /\ sent.pc = "sent"
      /\ req \in [Request -> RequestType]
  BY DEF HttpGet, IdleRequest, Inv, TypeOK, TableTypeOK
<1> HIDE DEF sent
<1>2. /\ ~Executing(r) /\ ~Executing(r)' /\ ~Closing(r) /\ ~Closing(r)'
      /\ \A x \in Request \ {r} : req'[x] = req[x]
  BY <1>1 DEF Executing, Closing
<1> QED
  BY <1>1, <1>2, RequestPhase

\* Every step of JobStore is a step of JobLifecycle, or leaves the phases alone.
LEMMA Simulation == Inv /\ Inv' /\ [Next]_vars => [Lifecycle!Next]_(Lifecycle!vars)
<1> SUFFICES ASSUME Inv, Inv', [Next]_vars
             PROVE  [Lifecycle!Next]_(Lifecycle!vars)
  OBVIOUS
<1>1. TypeOK'
  BY DEF Inv
<1>2. CASE UNCHANGED <<req, effects, parts>>
  <2>1. Phase' = Phase /\ Open' = Open
    BY <1>2 DEF Phase, Live, Executing, Open, Closing
  <2> QED
    BY <1>2, <2>1 DEF Lifecycle!vars
<1>3. ASSUME NEW j \in Job, Enqueue(j)
      PROVE  [Lifecycle!Next]_(Lifecycle!vars)
  BY <1>1, <1>3, AdministrationPhase DEF Enqueue
<1>4. ASSUME NEW r \in Request, RequestStep(r)
      PROVE  [Lifecycle!Next]_(Lifecycle!vars)
  BY <1>1, <1>4, RequestStepPhase
<1>5. ASSUME NEW r \in Request, RequestWrite(r)
      PROVE  [Lifecycle!Next]_(Lifecycle!vars)
  BY <1>1, <1>5, RequestWritePhase
<1>6. ASSUME NEW r \in Request, NEW j \in Job, NEW waits \in BOOLEAN,
             HttpGet(r, j, waits)
      PROVE  [Lifecycle!Next]_(Lifecycle!vars)
  BY <1>1, <1>6, HttpGetPhase
<1>7. ASSUME NEW j \in Job, Administration(j)
      PROVE  [Lifecycle!Next]_(Lifecycle!vars)
  BY <1>1, <1>7, AdministrationPhase
<1>8. CASE RunnerDies
  <2>1. /\ \A x \in Request : Executing(x)' <=> Executing(x)
        /\ \A x \in Request : Executing(x) => req'[x].job = req[x].job
        /\ UNCHANGED <<effects, parts>>
    BY <1>8 DEF RunnerDies, ClientsDie, Executing, IdleRequest, Inv, TypeOK,
       TableTypeOK, RequestType
  <2>2. Phase' = Phase
    BY <2>1 DEF Phase, Live
  <2>3. \A x \in Request : /\ Closing(x)' <=> Closing(x)
                           /\ Closing(x) => req'[x].job = req[x].job
    BY <1>8 DEF RunnerDies, ClientsDie, Closing, IdleRequest, Inv, TypeOK,
       TableTypeOK, RequestType
  <2>4. Open' = Open
    BY <2>3, OpenSame
  <2> QED
    BY <2>1, <2>2, <2>4 DEF Lifecycle!vars
<1> QED
  BY <1>2, <1>3, <1>4, <1>5, <1>6, <1>7, <1>8 DEF Next, Refresh, tableVars, vars

\* The table queue_job, its requests and any runner that enqueues what it has
\* once read as pending implement JobLifecycle.
THEOREM Implementation == Spec => ImplementsLifecycle
<1>1. Init => Lifecycle!Init
  <2> SUFFICES ASSUME Init
               PROVE  Lifecycle!Init
    OBVIOUS
  <2>1. \A j \in Job : ~Live(j) /\ effects[j] = 0
    BY DEF Init, TableInit, Live, Executing, IdleRequest
  <2>2. Open = {} /\ parts = {}
    BY DEF Init, TableInit, Open, Closing, IdleRequest
  <2> QED
    BY <2>1, <2>2 DEF Lifecycle!Init, Phase
<1> QED
  BY <1>1, Simulation, Invariance, PTL DEF Spec, ImplementsLifecycle, Lifecycle!Spec

=============================================================================

----------------------------- MODULE JiraImport -----------------------------
(***************************************************************************)
(* The import of Jira issues (connector_jira, on connector and queue_job): *)
(* jobs executed concurrently, each in a database transaction of its own,  *)
(* read an issue in Jira and create or update its binding in Odoo.         *)
(*                                                                         *)
(* The database isolates transactions by snapshots (repeatable read): what *)
(* others commit after a job has begun is not seen by it, except through   *)
(* advisory locks, in a new transaction, and when a row it writes was      *)
(* written since.  Jira is the environment: issues appear, change and are  *)
(* deleted; a webhook tells most changes; the search of Jira leaves the    *)
(* latest ones out.                                                        *)
(***************************************************************************)
EXTENDS Integers, Sequences, FiniteSets

CONSTANTS
  Issue,        \* the issues of Jira, of synchronized types and projects
  NoIssue,
  Links,        \* the parent and the epic the issues may have
  Worker,       \* the jobs that import or delete an issue, executed at a time
  Delta,        \* IMPORT_DELTA
  Lag,          \* changes no older than this may be missing from a search
  LastChange,   \* bound: nothing changes in Jira later
  MaxTime,      \* bound of time
  MaxFailed     \* bound of the jobs that wait for a user

VARIABLES
  now,
  updated,      \* Jira: when an issue was last changed, 0 before it exists
  deleted,      \* Jira: the issues deleted
  links,        \* Jira: the parent of a sub-task, the epic of an issue
  binding,      \* Odoo: jira_updated_at of the binding of an issue, 0 for none
  imports,      \* the issues a job waits to import
  deletions,    \* the issues a job waits to delete
  failed,       \* the jobs failed, or left started by a process that died: they
                \* wait for a user; `change' is history, the change of the issue
                \* that was left with the job, 0 when there is none
  work,         \* the jobs importing or deleting, and their transactions
  timestamp,    \* last_timestamp of the backend
  until         \* when the job that holds the timestamp began, 0 without one

jira == <<now, updated, deleted, links>>
queue == <<imports, deletions>>
vars == <<now, updated, deleted, links, binding, imports, deletions, failed, work,
          timestamp, until>>

ASSUME JiraAssumption ==
  /\ NoIssue \notin Issue
  /\ Links \subseteq [Issue -> [{"parent", "epic"} -> Issue \cup {NoIssue}]]
  /\ Delta \in Nat /\ Lag \in 0..Delta
  /\ LastChange \in Nat /\ MaxTime \in Nat \ {0} /\ LastChange <= MaxTime
  /\ MaxFailed \in Nat

\* In Jira, sub-tasks have a parent, issues have an epic, and epics have neither.
Leveled(l, level) ==
  \A i \in Issue :
    /\ l[i].parent # NoIssue => level[i] < level[l[i].parent]
    /\ l[i].epic # NoIssue => level[i] < 2 /\ level[l[i].epic] = 2

ASSUME LevelAssumption ==
  \A l \in Links : \E level \in [Issue -> 0..2] : Leveled(l, level)

Time == 0..MaxTime
Keep == -1     \* no write of the row in this transaction
Unread == -1   \* no data of Jira yet

(* A frame of the importer: the issue, the step it is at, and what it has  *)
(* read of the issue and of its epic.                                      *)
Steps == {"lock", "read", "read epic", "check", "epic", "write"}
Frame == [issue : Issue, step : Steps, data : Time \cup {Unread},
          epic : Time \cup {Unread}]
NewFrame(i, data) == [issue |-> i, step |-> "lock", data |-> data, epic |-> Unread]

FailedJob == [kind : {"import", "delete"}, issue : Issue, change : Time]

NoWork == [kind |-> "idle", job |-> NoIssue, stack |-> <<>>, locks |-> {},
           snap |-> [i \in Issue |-> 0], write |-> [i \in Issue |-> Keep],
           stale |-> {}]

InJira(i) == updated[i] # 0 /\ i \notin deleted

-----------------------------------------------------------------------------
(* Jira.                                                                   *)

Tick ==
  /\ now < MaxTime
  /\ now' = now + 1
  /\ UNCHANGED <<updated, deleted, links, binding, queue, failed, work, timestamp, until>>

\* Issues are created after their parent and their epic.
Change(i) ==
  /\ now <= LastChange
  /\ i \notin deleted /\ updated[i] < now
  /\ \A d \in {links[i].parent, links[i].epic} \ {NoIssue} : InJira(d)
  /\ updated' = [updated EXCEPT ![i] = now]
  /\ \E S \in {{}, {i}} : imports' = imports \cup S   \* the webhook is received, or not
  /\ UNCHANGED <<now, deleted, links, binding, deletions, failed, work, timestamp, until>>

\* Only issues no other issue depends on; the webhook is received.
Delete(i) ==
  /\ now <= LastChange
  /\ InJira(i)
  /\ \A j \in Issue : i \notin {links[j].parent, links[j].epic}
  /\ deleted' = deleted \cup {i}
  /\ deletions' = deletions \cup {i}
  /\ UNCHANGED <<now, updated, links, binding, imports, failed, work, timestamp, until>>

-----------------------------------------------------------------------------
(* A job, its locks and its transaction.                                   *)

Others(w) == Worker \ {w}
Locked(w) == UNION {work[v].locks : v \in Others(w)}
Written(w) == {i \in Issue : work[w].write[i] # Keep}

\* What the transaction of w sees of the binding of an issue.
Seen(w, i) == IF i \in Written(w) THEN work[w].write[i] ELSE work[w].snap[i]

StartImport(w, i) ==
  /\ work[w] = NoWork /\ i \in imports
  /\ imports' = imports \ {i}
  /\ work' = [work EXCEPT ![w] =
       [NoWork EXCEPT !.kind = "import", !.job = i, !.snap = binding,
          !.stack = <<NewFrame(i, Unread)>>]]
  /\ UNCHANGED <<jira, binding, deletions, failed, timestamp, until>>

\* JiraDeleter.run: no advisory lock; nothing to do when it sees no binding.
StartDeletion(w, i) ==
  /\ work[w] = NoWork /\ i \in deletions
  /\ deletions' = deletions \ {i}
  /\ work' = [work EXCEPT ![w] =
       [NoWork EXCEPT !.kind = "delete", !.job = i, !.snap = binding,
          !.write[i] = IF binding[i] # 0 THEN 0 ELSE Keep]]
  /\ UNCHANGED <<jira, binding, imports, failed, timestamp, until>>

Executes(w) == work[w].kind \in {"import", "delete"}
Postponed(w) == work[w].kind = "closing"

\* The job has not read the issue yet, or has read or written its last change.
Holds(w, i) ==
  /\ work[w].kind = "import" /\ work[w].job = i
  /\ \/ work[w].write[i] = updated[i]
     \/ \E k \in 1..Len(work[w].stack) :
          /\ work[w].stack[k].issue = i
          /\ work[w].stack[k].data \in {Unread, updated[i]}

\* RetryableJobError, of an import: the job is pending again at once.  The request
\* has not ended yet: what its transaction has written stays, and its locks too.
Postpone(w) ==
  /\ work' = [work EXCEPT ![w] = [work[w] EXCEPT !.kind = "closing", !.stack = <<>>]]
  /\ imports' = imports \cup {work[w].job}
  /\ UNCHANGED <<jira, binding, deletions, failed, timestamp, until>>

\* A conflict: the database has aborted the transaction, the job is pending again.
Undo(w) ==
  /\ work' = [work EXCEPT ![w] = NoWork]
  /\ IF work[w].kind = "import"
     THEN imports' = imports \cup {work[w].job} /\ UNCHANGED deletions
     ELSE deletions' = deletions \cup {work[w].job} /\ UNCHANGED imports
  /\ UNCHANGED <<jira, binding, failed, timestamp, until>>

\* Mutant: a job that fails is set done.
Abort_Done(w) ==
  /\ Executes(w)
  /\ work' = [work EXCEPT ![w] = NoWork]
  /\ UNCHANGED <<jira, binding, queue, failed, timestamp, until>>

\* Any other error, the last retry or the death of the process: what the
\* transaction has written is rolled back, and nobody but a user sets the job
\* pending again.
Abort(w) ==
  /\ Executes(w) /\ Cardinality(failed) < MaxFailed
  /\ work' = [work EXCEPT ![w] = NoWork]
  /\ LET W == work[w] IN
     failed' = failed \cup
       {[kind |-> W.kind, issue |-> W.job,
         change |-> IF Holds(w, W.job) THEN updated[W.job] ELSE 0]}
  /\ UNCHANGED <<jira, binding, queue, timestamp, until>>

\* The button `requeue'.
Requeue(f) ==
  /\ failed' = failed \ {f}
  /\ IF f.kind = "import"
     THEN imports' = imports \cup {f.issue} /\ UNCHANGED deletions
     ELSE deletions' = deletions \cup {f.issue} /\ UNCHANGED imports
  /\ UNCHANGED <<jira, binding, work, timestamp, until>>

-----------------------------------------------------------------------------
(* JiraImporter.run, one frame per record; a dependency is another frame,  *)
(* in the same transaction.                                                *)

At(w, step) == work[w].stack # <<>> /\ Head(work[w].stack).step = step
Top(w) == Head(work[w].stack)

\* The top frame goes on with other values.
Step(w, frame) ==
  /\ work' = [work EXCEPT ![w].stack = <<frame>> \o Tail(@)]
  /\ UNCHANGED <<jira, binding, queue, failed, timestamp, until>>

\* The top frame is finished, and has written `value'.
Return(w, value) ==
  /\ work' = [work EXCEPT ![w] = [work[w] EXCEPT !.stack = Tail(@),
                                     !.write[Top(w).issue] = value]]
  /\ UNCHANGED <<jira, binding, queue, failed, timestamp, until>>

\* Mutant: the record is taken as handed over, though none was.
Lock_NothingToRead(w) ==
  /\ At(w, "lock")
  /\ LET f == Top(w)
         W == work[w]
     IN
     IF f.issue \in Locked(w) THEN Postpone(w)
     ELSE /\ work' = [work EXCEPT ![w] =
                [W EXCEPT !.locks = W.locks \cup {f.issue},
                   !.stack = <<[f EXCEPT !.step = "check"]>> \o Tail(W.stack)]]
          /\ UNCHANGED <<jira, binding, queue, failed, timestamp, until>>

\* A record handed over with the dependency is not read again.
Lock(w) ==
  /\ At(w, "lock")
  /\ LET f == Top(w)
         W == work[w]
     IN
     IF f.issue \in Locked(w) THEN Postpone(w)
     ELSE /\ work' = [work EXCEPT ![w] =
                [W EXCEPT !.locks = W.locks \cup {f.issue},
                   !.stack = <<[f EXCEPT !.step =
                      IF f.data = Unread THEN "read" ELSE "check"]>> \o Tail(W.stack)]]
          /\ UNCHANGED <<jira, binding, queue, failed, timestamp, until>>

\* A record missing on Jira takes its binding away.
Missing(w) ==
  Return(w, IF Seen(w, Top(w).issue) # 0 THEN 0 ELSE work[w].write[Top(w).issue])

Read(w) ==
  /\ At(w, "read")
  /\ LET f == Top(w) IN
     IF ~InJira(f.issue) THEN Missing(w)
     ELSE Step(w, [f EXCEPT !.data = updated[f.issue],
                     !.step = IF links[f.issue].epic = NoIssue THEN "check" ELSE "read epic"])

ReadEpic(w) ==
  /\ At(w, "read epic")
  /\ LET f == Top(w) IN
     IF ~InJira(links[f.issue].epic) THEN Missing(w)
     ELSE Step(w, [f EXCEPT !.epic = updated[links[f.issue].epic], !.step = "check"])

\* The top frame f imports first the parent and the epic that have no binding,
\* from `step' on, then writes the binding.
Unbound(w, i) == i # NoIssue /\ Seen(w, i) = 0

Depend(w, f, dependency, data) ==
  /\ work' = [work EXCEPT ![w].stack = <<NewFrame(dependency, data), f>> \o Tail(@)]
  /\ UNCHANGED <<jira, binding, queue, failed, timestamp, until>>

\* Mutant: a dependency whose import is running is left to the other job.
Proceed_LeftToOther(w, step) ==
  LET f == Top(w)
      parent == links[f.issue].parent
      epic == IF f.epic = Unread THEN NoIssue ELSE links[f.issue].epic
      free(i) == Unbound(w, i) /\ i \notin Locked(w)
  IN  IF step = "parent" /\ free(parent)
      THEN Depend(w, [f EXCEPT !.step = "epic"], parent, Unread)
      ELSE IF step # "write" /\ free(epic)
      THEN Depend(w, [f EXCEPT !.step = "write"], epic, f.epic)
      ELSE Return(w, f.data)

Proceed(w, step) ==
  LET f == Top(w)
      parent == links[f.issue].parent
      epic == IF f.epic = Unread THEN NoIssue ELSE links[f.issue].epic
  IN  IF step = "parent" /\ Unbound(w, parent)
      THEN Depend(w, [f EXCEPT !.step = "epic"], parent, Unread)
      ELSE IF step # "write" /\ Unbound(w, epic)
      THEN Depend(w, [f EXCEPT !.step = "write"], epic, f.epic)
      ELSE Return(w, f.data)

\* Mutant: no look from a new transaction.
Check_OneTransaction(w) ==
  /\ At(w, "check")
  /\ LET f == Top(w) IN
     IF f.data < Seen(w, f.issue) THEN Return(w, work[w].write[f.issue])
     ELSE Proceed(w, "parent")

\* Another transaction may have created the binding since this one began.  An
\* import is skipped when the binding is more recent than the data.
Check(w) ==
  /\ At(w, "check")
  /\ LET f == Top(w) IN
     IF Seen(w, f.issue) = 0 /\ binding[f.issue] # 0 THEN Postpone(w)
     ELSE IF f.data < Seen(w, f.issue) THEN Return(w, work[w].write[f.issue])
     ELSE Proceed(w, "parent")

\* The frame goes on after a dependency.
Resume(w) ==
  \E step \in {"epic", "write"} : At(w, step) /\ Proceed(w, step)

\* The database refuses to update or delete a row that another transaction has
\* written since the snapshot, and a second binding of the same issue.
Conflict(w) ==
  \E i \in Written(w) :
    IF work[w].snap[i] # 0 THEN i \in work[w].stale ELSE binding[i] # 0

Save(w) ==
  /\ ~Conflict(w)
  /\ binding' = [i \in Issue |->
                  IF i \in Written(w) THEN work[w].write[i] ELSE binding[i]]
  /\ work' = [v \in Worker |->
               IF v = w \/ work[v] = NoWork THEN NoWork
               ELSE [work[v] EXCEPT !.stale = @ \cup Written(w)]]
  /\ UNCHANGED <<jira, queue, failed, timestamp, until>>

Commit(w) ==
  /\ Executes(w) /\ work[w].stack = <<>>
  /\ Save(w) \/ (Conflict(w) /\ Undo(w))

\* The request of a postponed job ends: its transaction is committed, with the
\* records imported before the error, or fails or dies.
Close(w) ==
  /\ Postponed(w)
  /\ \/ Save(w)
     \/ /\ work' = [work EXCEPT ![w] = NoWork]
        /\ UNCHANGED <<jira, binding, queue, failed, timestamp, until>>

-----------------------------------------------------------------------------
(* TimestampBatchImporter.run.                                             *)

Max2(a, b) == IF a >= b THEN a ELSE b

\* FOR UPDATE NOWAIT: the job that finds the timestamp locked, or written since
\* its transaction began, is retried and changes nothing.
LockTimestamp ==
  /\ until = 0
  /\ until' = now
  /\ UNCHANGED <<jira, binding, queue, failed, work, timestamp>>

\* Jira answers with the issues changed since a time until another, maybe
\* without the latest ones.
Answers(since, to) ==
  LET changed(last) == {i \in Issue : InJira(i) /\ updated[i] \in since..last}
  IN  {changed(to) \ missed : missed \in SUBSET (changed(to) \ changed(now - Lag - 1))}

\* Mutant: the next search begins where this one ended.
Search_NoDelta ==
  /\ until # 0
  /\ \E found \in Answers(timestamp, until) : imports' = imports \cup found
  /\ timestamp' = until
  /\ until' = 0
  /\ UNCHANGED <<jira, binding, deletions, failed, work>>

\* The timestamp is moved and the imports are delayed in one transaction.
Search ==
  /\ until # 0
  /\ \E found \in Answers(timestamp, until) : imports' = imports \cup found
  /\ timestamp' = Max2(until - Delta, timestamp)
  /\ until' = 0
  /\ UNCHANGED <<jira, binding, deletions, failed, work>>

\* The job fails or its process dies: the timestamp is what it was.
AbortSearch ==
  /\ until # 0
  /\ until' = 0
  /\ UNCHANGED <<jira, binding, queue, failed, work, timestamp>>

-----------------------------------------------------------------------------
Init ==
  /\ now = 1
  /\ updated = [i \in Issue |-> 0] /\ deleted = {} /\ links \in Links
  /\ binding = [i \in Issue |-> 0]
  /\ imports = {} /\ deletions = {} /\ failed = {}
  /\ work = [w \in Worker |-> NoWork]
  /\ timestamp = 0
  /\ until = 0

WorkStep(w) ==
  \/ Lock(w) \/ Read(w) \/ ReadEpic(w) \/ Check(w)
  \/ Resume(w) \/ Commit(w) \/ Close(w)

Next ==
  \/ Tick
  \/ \E i \in Issue : Change(i) \/ Delete(i)
  \/ \E w \in Worker, i \in Issue : StartImport(w, i) \/ StartDeletion(w, i)
  \/ \E w \in Worker : WorkStep(w) \/ Abort(w)
  \/ \E f \in failed : Requeue(f)
  \/ LockTimestamp \/ Search \/ AbortSearch

Spec == Init /\ [][Next]_vars

-----------------------------------------------------------------------------
(* Properties.                                                             *)

TypeOK ==
  /\ now \in Time /\ updated \in [Issue -> Time] /\ deleted \subseteq Issue
  /\ binding \in [Issue -> Time]
  /\ imports \subseteq Issue /\ deletions \subseteq Issue
  /\ failed \subseteq FailedJob
  /\ \A w \in Worker :
       /\ work[w].kind \in {"idle", "import", "delete", "closing"}
       /\ \A k \in 1..Len(work[w].stack) :
            /\ work[w].stack[k] \in Frame
            /\ work[w].stack[k].data = Unread => work[w].stack[k].step \in {"lock", "read"}
       /\ work[w].locks \subseteq Issue /\ work[w].stale \subseteq Issue
       /\ work[w].snap \in [Issue -> Time]
       /\ work[w].write \in [Issue -> Time \cup {Keep}]
  /\ timestamp \in Time
  /\ until \in Time

Creates(w, i) == i \in Written(w) /\ work[w].snap[i] = 0

\* A job that has created the binding of an issue is the only one to have done
\* so, and will not find it there when it commits: the advisory lock and the
\* look from a new transaction leave nothing to the unique constraint, whose
\* retries are counted.
CreatedOnce ==
  \A w \in Worker, i \in Issue : Creates(w, i) =>
    /\ binding[i] = 0
    /\ \A v \in Others(w) : ~Creates(v, i)

\* No change of an issue is lost: a binding that is not up to date will be found
\* by the next search, or has a pending job, or one that has not read Jira yet, or
\* that has read the change and is about to write it, or one that had when it
\* failed or died, and waits for a user.
NothingLost ==
  \A i \in Issue :
    InJira(i) /\ binding[i] # updated[i] =>
      \/ timestamp <= updated[i]
      \/ i \in imports
      \/ \E w \in Worker : Holds(w, i)
      \/ [kind |-> "import", issue |-> i, change |-> updated[i]] \in failed

\* An issue is never bound without the parent and the epic it refers to: a
\* dependency is seen bound by the transaction, or bound by it before the issue.
DependenciesBound ==
  \A i \in Issue : binding[i] # 0 =>
    \A kind \in {"parent", "epic"} :
      links[i][kind] # NoIssue => binding[links[i][kind]] # 0
=============================================================================

---------------------------- MODULE JobLifecycle ----------------------------
(***************************************************************************)
(* What the job queue promises of a job: at any time at most one execution *)
(* of it is in progress, and once an execution has committed the whole     *)
(* work, the job is executed again only after a user has requeued it.  An  *)
(* execution that is given up commits nothing, or leaves a part of the     *)
(* work behind, at once or late.                                           *)
(***************************************************************************)
CONSTANT Job

VARIABLES
  phase,    \* how far each job is
  open,     \* jobs with an execution given up that may still leave a part
  parts     \* jobs of which a part was left behind

vars == <<phase, open, parts>>

Init == phase = [j \in Job |-> "idle"] /\ open = {} /\ parts = {}

Move(j, from, to) == phase[j] = from /\ phase' = [phase EXCEPT ![j] = to]

Start(j) == Move(j, "idle", "running") /\ UNCHANGED <<open, parts>>

Abort(j) ==
  /\ Move(j, "running", "idle")
  /\ open' \in {open, open \cup {j}}
  /\ UNCHANGED parts

Leave(j) ==
  /\ j \in open
  /\ open' \in {open, open \ {j}}
  /\ parts' \in {parts, parts \cup {j}}
  /\ UNCHANGED phase

Commit(j)  == Move(j, "running", "committed") /\ UNCHANGED <<open, parts>>
Restart(j) == Move(j, "committed", "idle") /\ UNCHANGED <<open, parts>>

Next ==
  \E j \in Job : Start(j) \/ Abort(j) \/ Leave(j) \/ Commit(j) \/ Restart(j)

Spec == Init /\ [][Next]_vars
=============================================================================

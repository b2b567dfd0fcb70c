----------------------------- MODULE JobStates -----------------------------
(***************************************************************************)
(* The states of a queue_job job, shared by the model of the channel       *)
(* manager and by the model of the queue_job table.                        *)
(***************************************************************************)

PENDING  == "pending"
ENQUEUED == "enqueued"
STARTED  == "started"
DONE     == "done"
FAILED   == "failed"

STATES == {PENDING, ENQUEUED, STARTED, DONE, FAILED}

\* What the job runner loads when it connects to a database.
NOT_DONE == STATES \ {DONE}
=============================================================================

----------------------------- MODULE MCJobStore -----------------------------
(***************************************************************************)
(* Small instances of JobStore.  Jobs interact through the request slots   *)
(* only, so one job is enough; of its three requests, one may still be     *)
(* closing a postponed execution while two others meet.                    *)
(***************************************************************************)
EXTENDS JobStore, TLC

Symmetry == Permutations(Job) \cup Permutations(Request)
=============================================================================

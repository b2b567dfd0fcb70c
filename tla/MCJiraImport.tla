---------------------------- MODULE MCJiraImport ----------------------------
(***************************************************************************)
(* Small instances of JiraImport: an issue and its epic, or a sub-task and *)
(* its parent.  In one, two interchangeable workers race and none fails;   *)
(* in the other, one worker may fail and up to two jobs wait for a user.   *)
(***************************************************************************)
EXTENDS JiraImport, TLC

CONSTANTS task, other

MCLinks == LET none == [parent |-> NoIssue, epic |-> NoIssue] IN
  {(task :> link) @@ (other :> none) :
     link \in {[none EXCEPT !.epic = other], [none EXCEPT !.parent = other]}}

Symmetry == Permutations(Worker)
=============================================================================

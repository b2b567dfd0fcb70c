----------------------------- MODULE MCContract -----------------------------
(***************************************************************************)
(* Small instances of Contract.  The ids of lines are interchangeable.     *)
(***************************************************************************)
EXTENDS Contract, TLC

\* Open-ended, with an end, or renewed automatically; pre-paid and post-paid.
Forms ==
  {[date_start |-> start, date_end |-> end, auto |-> auto, prepaid |-> prepaid] :
     start \in {3}, end \in {0, 4}, auto \in BOOLEAN, prepaid \in BOOLEAN}

Symmetry == Permutations(Line)
=============================================================================

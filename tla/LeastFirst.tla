----------------------------- MODULE LeastFirst -----------------------------
(***************************************************************************)
(* What the scheduler expects of a queue: a set of objects, from which an  *)
(* object of least rank is taken, or looked at.                            *)
(***************************************************************************)
EXTENDS Naturals

CONSTANTS
  Object,
  Rank,         \* the sorting key of an object; two objects may have the same
  None          \* returned by an empty queue

VARIABLES
  members,
  last          \* the last call that returned, with its argument or result

Least(S) == {o \in S : \A p \in S : Rank[o] <= Rank[p]}

Returned(call, o) == [op |-> call, object |-> o]

Add(o)    == members' = members \cup {o} /\ last' = Returned("add", o)
Remove(o) == members' = members \ {o} /\ last' = Returned("remove", o)
Pop(o)    == /\ o \in Least(members)
             /\ members' = members \ {o}
             /\ last' = Returned("pop", o)
Peek(o)   == /\ o \in Least(members)
             /\ UNCHANGED members
             /\ last' = Returned("peek", o)
Empty     == /\ members = {}
             /\ UNCHANGED members
             /\ \E call \in {"pop", "peek"} : last' = Returned(call, None)

Init == members = {} /\ last = Returned("new", None)

Next == Empty \/ \E o \in Object : Add(o) \/ Remove(o) \/ Pop(o) \/ Peek(o)

Spec == Init /\ [][Next]_<<members, last>>
=============================================================================

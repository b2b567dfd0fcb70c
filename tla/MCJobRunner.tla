---------------------------- MODULE MCJobRunner -----------------------------
(***************************************************************************)
(* Small instances of JobRunner: a root channel that runs one job at a     *)
(* time and a subchannel.  The first job belongs to the subchannel.        *)
(***************************************************************************)
EXTENDS JobRunner, TLC

MCChannel == {"root", "sub"}
MCName == MCChannel
MCParent == [c \in {"sub"} |-> "root"]
MCUp == [c \in MCChannel |-> {c, "root"}]
MCPostOrder == <<"sub", "root">>
MCCapacity == [c \in MCChannel |-> 1]
MCThrottle == [c \in MCChannel |-> 0]
MCJob == {"j1", "j2"}
MCCreated == [j \in MCJob |-> IF j = "j1" THEN 1 ELSE 2]
MCJobChannel == [j \in MCJob |-> IF j = "j1" THEN "sub" ELSE "root"]
MCPriority == [j \in MCJob |-> 10]

Symmetry == Permutations(Request)
=============================================================================

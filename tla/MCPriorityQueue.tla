-------------------------- MODULE MCPriorityQueue ---------------------------
(***************************************************************************)
(* Four objects; a and b have the same rank, like the former and the new   *)
(* ChannelJob of one job.                                                  *)
(***************************************************************************)
EXTENDS PriorityQueue

CONSTANTS a, b, c, d

MCObject == {a, b, c, d}
MCRank == [o \in MCObject |-> IF o \in {a, b} THEN 1 ELSE IF o = c THEN 2 ELSE 3]
=============================================================================

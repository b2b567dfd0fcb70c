----------------------------- MODULE ChannelTree -----------------------------
(***************************************************************************)
(* The tree of channels that Channel.__init__ and get_channel_from_config  *)
(* build from the configuration, and the order in which the recursion of   *)
(* get_jobs_to_run reaches them.                                           *)
(***************************************************************************)
EXTENDS Naturals, Sequences

CONSTANTS
  Channel,      \* the configured channels
  Root,         \* the root channel
  Parent,       \* the parent of every other channel
  Up,           \* a channel and its ancestors
  PostOrder     \* every channel once, children before their parent

Tree ==
  /\ Root \in Channel
  /\ Parent \in [Channel \ {Root} -> Channel]
  /\ Up \in [Channel -> SUBSET Channel]
  /\ Up[Root] = {Root}
  /\ \A c \in Channel \ {Root} :
       Up[c] = {c} \cup Up[Parent[c]] /\ c \notin Up[Parent[c]]
  /\ \A c \in Channel : Root \in Up[c]

ChildrenFirst ==
  /\ PostOrder \in Seq(Channel)
  /\ \A c \in Channel : \E i \in 1..Len(PostOrder) : PostOrder[i] = c
  /\ \A i, k \in 1..Len(PostOrder) :
       i < k => PostOrder[i] \notin Up[PostOrder[k]]

ASSUME TreeAssumption == Tree
ASSUME PostOrderAssumption == ChildrenFirst
=============================================================================

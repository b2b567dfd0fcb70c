-------------------------- MODULE MCChannelManager --------------------------
(***************************************************************************)
(* A small instance of ChannelManager: the root channel runs two jobs at a *)
(* time; channel `a' is sequential; `b' has no limit but a throttle; `bx'  *)
(* is a child of `b'.  Three jobs of the same priority, two of them of     *)
(* `a'; the third may change its channel, its priority and its eta.        *)
(***************************************************************************)
EXTENDS ChannelManager

MCJob == {"j1", "j2", "j3"}
MCChannel == {"root", "a", "b", "bx"}
MCName == MCChannel \cup {"unknown"}
MCParent == [c \in {"a", "b", "bx"} |-> IF c = "bx" THEN "b" ELSE "root"]
MCUp == [c \in MCChannel |->
          CASE c = "root" -> {"root"}
            [] c = "bx" -> {"bx", "b", "root"}
            [] OTHER -> {c, "root"}]
MCPostOrder == <<"a", "bx", "b", "root">>
MCCapacity == [c \in MCChannel |->
                CASE c = "root" -> 2 [] c = "b" -> 0 [] OTHER -> 1]
MCSequential == {"a"}
MCThrottle == [c \in MCChannel |-> IF c = "b" THEN 2 ELSE 0]
MCCreated == [j \in MCJob |-> CASE j = "j1" -> 1 [] j = "j2" -> 2 [] OTHER -> 3]

\* Started is left out: notify treats it as enqueued.
Say(names, priorities, etas) ==
  [channel : names, priority : priorities, eta : etas,
   state : STATES \ {STARTED}]
MCNotice == [j \in MCJob |->
              CASE j = "j1" -> Say({"a"}, {1}, {0, 3})
                [] j = "j2" -> Say({"a"}, {0, 1}, {0}) \cup Say({"b"}, {1}, {2})
                [] OTHER    -> Say({"bx"}, {1}, {0})
                               \cup Say({"unknown"}, {0}, {2})]

\* Three jobs of the sequential channel: the least urgent one has the nearest
\* eta, the most urgent one a later eta, the other none.
MCOrderNotice == [j \in MCJob |->
                   CASE j = "j1" -> Say({"a"}, {2}, {3})
                     [] j = "j2" -> Say({"a"}, {0}, {4})
                     [] OTHER    -> Say({"a"}, {1}, {0})]
=============================================================================

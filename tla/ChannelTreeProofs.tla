-------------------------- MODULE ChannelTreeProofs --------------------------
(***************************************************************************)
(* Trees of channels of any shape, and least elements.  The induction over *)
(* the tree looks at a least counterexample: ancestors come later in       *)
(* PostOrder.                                                              *)
(***************************************************************************)
EXTENDS ChannelTree, WellFoundedInduction, SequenceTheorems, TLAPS

-----------------------------------------------------------------------------
(* Least elements.                                                         *)

\* A set of natural numbers that is not empty has a least element.
LEMMA LeastNat ==
  ASSUME NEW T \in SUBSET Nat, T # {}
  PROVE  \E x \in T : \A y \in T : x <= y
<1> DEFINE less == {ss \in Nat \X Nat : ss[1] < ss[2]}
<1>1. IsWellFoundedOn(less, Nat)
  BY NatLessThanWellFounded, Zenon DEF OpToRel
<1>2. \A x, y \in Nat : y < x => <<y, x>> \in less
  OBVIOUS
<1> HIDE DEF less
<1>3. \E x \in T : \A y \in T : <<y, x>> \notin less
  BY <1>1, WFMin
<1>4. PICK x \in T : \A y \in T : <<y, x>> \notin less
  BY <1>3
<1>5. \A y \in T : ~(y < x)
  BY <1>2, <1>4
<1> QED
  BY <1>5

\* So an element has the least rank.
LEMMA LeastRank ==
  ASSUME NEW S, S # {}, NEW rank, \A s \in S : rank[s] \in Nat
  PROVE  \E x \in S : \A y \in S : rank[x] <= rank[y]
<1> DEFINE T == {rank[s] : s \in S}
<1>1. PICK m \in T : \A y \in T : m <= y
  <2>1. T \in SUBSET Nat /\ T # {}
    OBVIOUS
  <2> HIDE DEF T
  <2> QED
    BY <2>1, LeastNat
<1>2. PICK x \in S : m = rank[x]
  OBVIOUS
<1> QED
  BY <1>1, <1>2

-----------------------------------------------------------------------------
(* The tree.                                                               *)

\* When the recursion visits a channel.
Position(c) == CHOOSE i \in 1..Len(PostOrder) : PostOrder[i] = c

\* Every channel is visited once.
LEMMA PositionType ==
  ASSUME NEW c \in Channel
  PROVE  /\ Position(c) \in 1..Len(PostOrder)
         /\ PostOrder[Position(c)] = c
         /\ Position(c) \in Nat
         /\ c \in Up[c]
<1>1. \E i \in 1..Len(PostOrder) : PostOrder[i] = c
  BY PostOrderAssumption DEF ChildrenFirst
<1>2. Position(c) \in 1..Len(PostOrder) /\ PostOrder[Position(c)] = c
  BY <1>1, Zenon DEF Position
<1>3. Len(PostOrder) \in Nat
  BY PostOrderAssumption, LenProperties DEF ChildrenFirst
<1>4. c \in Up[c]
  BY TreeAssumption, c = Root \/ c \in Channel \ {Root} DEF Tree
<1> QED
  BY <1>2, <1>3, <1>4

\* Of some channels, one is visited last.
LEMMA LatestPosition ==
  ASSUME NEW S \in SUBSET Channel, S # {}
  PROVE  \E x \in S : \A y \in S : Position(y) <= Position(x)
<1> DEFINE rank == [y \in S |-> Len(PostOrder) - Position(y)]
<1>1. Len(PostOrder) \in Nat
  BY PostOrderAssumption, LenProperties DEF ChildrenFirst
<1>2. \A y \in S : rank[y] \in Nat /\ Position(y) \in Nat
  BY <1>1, PositionType
<1>3. \E x \in S : \A y \in S : rank[x] <= rank[y]
  <2> HIDE DEF rank
  <2> QED
    BY <1>2, LeastRank
<1> QED
  BY <1>1, <1>2, <1>3

\* The channels above another one are visited after it.
LEMMA AboveIsLater ==
  ASSUME NEW c \in Channel, NEW a \in Up[c], a # c
  PROVE  a \in Channel /\ Position(c) < Position(a)
<1>1. a \in Channel
  BY TreeAssumption DEF Tree
<1>2. /\ Position(a) \in Nat /\ Position(c) \in Nat
      /\ PostOrder[Position(a)] = a /\ PostOrder[Position(c)] = c
      /\ Position(a) \in 1..Len(PostOrder) /\ Position(c) \in 1..Len(PostOrder)
  BY <1>1, PositionType
<1>3. Position(a) # Position(c)
  BY <1>2
<1>4. ~(Position(a) < Position(c))
  BY <1>2, PostOrderAssumption DEF ChildrenFirst
<1> QED
  BY <1>1, <1>2, <1>3, <1>4

\* The parent of a channel, and what is above the parent, is above the channel.
LEMMA ParentAbove ==
  ASSUME NEW c \in Channel \ {Root}
  PROVE  /\ Parent[c] \in Channel
         /\ Up[c] = {c} \cup Up[Parent[c]]
         /\ c \notin Up[Parent[c]]
         /\ Parent[c] \in Up[c]
         /\ Position(c) < Position(Parent[c])
<1>1. /\ Parent[c] \in Channel
      /\ Up[c] = {c} \cup Up[Parent[c]]
      /\ c \notin Up[Parent[c]]
  BY TreeAssumption DEF Tree
<1>2. Parent[c] \in Up[c] /\ Parent[c] # c
  BY <1>1, PositionType
<1> QED
  BY <1>1, <1>2, AboveIsLater

\* Being above is transitive.
LEMMA AboveTransitive ==
  ASSUME NEW c \in Channel, NEW b \in Up[c]
  PROVE  Up[b] \subseteq Up[c]
<1> DEFINE Bad == {x \in Channel : \E y \in Up[x] : ~(Up[y] \subseteq Up[x])}
<1>1. SUFFICES Bad = {}
  OBVIOUS
<1>2. SUFFICES ASSUME Bad # {}
               PROVE  FALSE
  OBVIOUS
<1>3. PICK x \in Bad : \A y \in Bad : Position(y) <= Position(x)
  BY <1>2, LatestPosition
<1>4. PICK y \in Up[x] : ~(Up[y] \subseteq Up[x])
  OBVIOUS
<1>5. x # Root /\ y # x
  BY <1>4, TreeAssumption DEF Tree
<1>6. /\ Parent[x] \in Channel
      /\ Up[x] = {x} \cup Up[Parent[x]]
      /\ Position(x) < Position(Parent[x])
  BY <1>5, ParentAbove
<1>7. Parent[x] \notin Bad
  BY <1>3, <1>6, PositionType
<1> QED
  BY <1>4, <1>5, <1>6, <1>7

\* The parent of a channel that is above another one is above it too.
LEMMA ParentTransitive ==
  ASSUME NEW c \in Channel, NEW x \in Up[c], x # Root
  PROVE  x \in Channel \ {Root} /\ Parent[x] \in Up[c]
<1>1. x \in Channel
  BY TreeAssumption DEF Tree
<1> QED
  BY <1>1, ParentAbove, AboveTransitive

\* Of two channels above the same one, one is above the other.
LEMMA AboveLinear ==
  ASSUME NEW c \in Channel, NEW x \in Up[c], NEW y \in Up[c]
  PROVE  x \in Up[y] \/ y \in Up[x]
<1> DEFINE Bad == {z \in Channel : \E u, v \in Up[z] : u \notin Up[v] /\ v \notin Up[u]}
<1>1. SUFFICES Bad = {}
  OBVIOUS
<1>2. SUFFICES ASSUME Bad # {}
               PROVE  FALSE
  OBVIOUS
<1>3. PICK z \in Bad : \A w \in Bad : Position(w) <= Position(z)
  BY <1>2, LatestPosition
<1>4. PICK u, v \in Up[z] : u \notin Up[v] /\ v \notin Up[u]
  OBVIOUS
<1>5. z # Root
  BY <1>4, TreeAssumption DEF Tree
<1>6. /\ Parent[z] \in Channel
      /\ Up[z] = {z} \cup Up[Parent[z]]
      /\ Position(z) < Position(Parent[z])
  BY <1>5, ParentAbove
<1>7. Parent[z] \notin Bad
  BY <1>3, <1>6, PositionType
<1>8. u # z /\ v # z
  BY <1>4
<1> QED
  BY <1>4, <1>6, <1>7, <1>8
=============================================================================

------------------------ MODULE PriorityQueueProofs -------------------------
(***************************************************************************)
(* Proofs about PriorityQueue, for any objects and ranks.                  *)
(***************************************************************************)
EXTENDS PriorityQueue, FiniteSetTheorems, TLAPS

\* The inductive invariant: types, one copy of what is known, and no more than
\* finitely many objects known at a time.
Inv == TypeOK /\ HeldOnce /\ IsFiniteSet(known)

\* Every step keeps the types.
LEMMA TypeStep == TypeOK /\ HeldOnce /\ [Next]_vars => TypeOK'
<1> SUFFICES ASSUME TypeOK, HeldOnce, [Next]_vars
             PROVE  TypeOK'
  OBVIOUS
<1> USE DEF TypeOK, Returned
<1>1. ASSUME NEW method \in {"pop", "peek"}, Call(method)
      PROVE  TypeOK'
  BY <1>1 DEF Call
<1>2. CASE ReturnNone
  BY <1>2 DEF ReturnNone
<1>3. ASSUME NEW o \in Object, Add(o)
      PROVE  TypeOK'
  <2>1. heap' \in [Object -> Nat]
    BY <1>3 DEF Add
  <2>2. known' \subseteq Object /\ removed' \subseteq known'
    BY <1>3 DEF Add
  <2> QED
    BY <2>1, <2>2, <1>3 DEF Add
<1>4. ASSUME NEW o \in Object, Remove(o)
      PROVE  TypeOK'
  BY <1>4 DEF Remove
<1>5. ASSUME NEW o \in Object, OnTop(o), HeapPop(o)
      PROVE  heap' \in [Object -> Nat] /\ known' \in SUBSET Object
  <2>1. heap[o] > 0
    BY <1>5 DEF OnTop, Least, Held
  <2> QED
    BY <2>1, <1>5 DEF HeapPop
<1>6. ASSUME NEW o \in Object, Discard(o)
      PROVE  TypeOK'
  <2>1. removed' \subseteq known'
    BY <1>6 DEF Discard, HeapPop
  <2> QED
    BY <2>1, <1>5, <1>6 DEF Discard
<1>7. ASSUME NEW o \in Object, PopReturn(o)
      PROVE  TypeOK'
  <2>1. removed' \subseteq known'
    BY <1>7 DEF PopReturn, HeapPop
  <2> QED
    BY <2>1, <1>5, <1>7 DEF PopReturn
<1>8. ASSUME NEW o \in Object, PeekReturn(o)
      PROVE  TypeOK'
  BY <1>8 DEF PeekReturn
<1>9. CASE UNCHANGED vars
  BY <1>9 DEF vars
<1> QED
  BY <1>1, <1>2, <1>3, <1>4, <1>6, <1>7, <1>8, <1>9
  DEF Next

\* Every step keeps one copy of each known object in the heap.
LEMMA HeldOnceStep == TypeOK /\ HeldOnce /\ [Next]_vars => HeldOnce'
<1> SUFFICES ASSUME TypeOK, HeldOnce, [Next]_vars, NEW p \in Object
             PROVE  heap'[p] = IF p \in known' THEN 1 ELSE 0
  BY DEF HeldOnce
<1> USE DEF TypeOK, HeldOnce
<1>1. ASSUME NEW o \in Object, HeapPop(o), OnTop(o)
      PROVE  heap'[p] = IF p \in known' THEN 1 ELSE 0
  <2>1. heap[o] = 1
    BY <1>1 DEF OnTop, Least, Held
  <2> QED
    BY <1>1, <2>1 DEF HeapPop
<1>2. ASSUME NEW o \in Object, Add(o)
      PROVE  heap'[p] = IF p \in known' THEN 1 ELSE 0
  BY <1>2 DEF Add
<1>3. CASE UNCHANGED <<heap, known>>
  BY <1>3
<1> QED
  BY <1>1, <1>2, <1>3
  DEF Next, vars, Call, ReturnNone, Remove, Discard, PopReturn, PeekReturn

\* Every step keeps the known objects finite.
LEMMA FiniteStep == IsFiniteSet(known) /\ [Next]_vars => IsFiniteSet(known)'
<1> SUFFICES ASSUME IsFiniteSet(known), [Next]_vars
             PROVE  IsFiniteSet(known')
  OBVIOUS
<1>1. ASSUME NEW o \in Object
      PROVE  IsFiniteSet(known \cup {o}) /\ IsFiniteSet(known \ {o})
  BY FS_AddElement, FS_RemoveElement
<1>2. \/ known' = known
      \/ \E o \in Object : known' = known \cup {o} \/ known' = known \ {o}
  BY DEF Next, vars, Call, ReturnNone, Add, Remove, Discard, PopReturn,
         PeekReturn, HeapPop
<1> QED
  BY <1>1, <1>2

\* The inductive invariant holds of every reachable state: every known object is
\* once in the heap, and only known objects are marked as removed.
THEOREM Invariance == Spec => []Inv
<1>1. Init => Inv
  BY ObjectAssumption, FS_EmptySet
  DEF Init, Inv, TypeOK, HeldOnce, Returned
<1>2. Inv /\ [Next]_vars => Inv'
  BY TypeStep, HeldOnceStep, FiniteStep DEF Inv
<1> QED
  BY <1>1, <1>2, PTL DEF Spec

\* The fields of the queue keep their types, and `_removed' stays within `_known'.
THEOREM Typing == Spec => []TypeOK
<1>1. Inv => TypeOK
  BY DEF Inv
<1> QED
  BY <1>1, Invariance, PTL

\* No object is twice in the heap, nor known without being there.
THEOREM NoDuplicates == Spec => []HeldOnce
<1>1. Inv => HeldOnce
  BY DEF Inv
<1> QED
  BY <1>1, Invariance, PTL

\* __len__ counts the objects that __contains__ accepts.
THEOREM LengthIsExact == Spec => []LengthExact
<1>1. Inv => LengthExact
  <2> SUFFICES ASSUME TypeOK, IsFiniteSet(known)
               PROVE  LengthExact
    BY DEF Inv
  <2>1. known \cap removed = removed
    BY DEF TypeOK
  <2>2. Cardinality(known \ removed) = Cardinality(known) - Cardinality(removed)
    BY <2>1, FS_Difference
  <2> QED
    BY <2>2 DEF LengthExact, Length, Members
<1> QED
  BY <1>1, Invariance, PTL

-----------------------------------------------------------------------------
(* Refinement: the objects known and not removed are the members.          *)

\* What is on top of the heap and not removed is least among the members.
LEMMA TopIsLeast ==
  ASSUME TypeOK, HeldOnce, NEW o \in Object, OnTop(o), o \notin removed
  PROVE  o \in Abstract!Least(Members)
<1>1. Members \subseteq Held
  BY DEF TypeOK, HeldOnce, Members, Held
<1>2. o \in Members
  BY DEF OnTop, Least, Held, HeldOnce, TypeOK, Members
<1> QED
  BY <1>1, <1>2 DEF OnTop, Least, Abstract!Least

\* Throwing away a removed object changes nothing for the caller; any other step
\* is a step of the abstract queue.
LEMMA RefineStep ==
  TypeOK /\ HeldOnce /\ [Next]_vars => [Abstract!Next]_<<Members, last>>
<1> SUFFICES ASSUME TypeOK, HeldOnce, [Next]_vars
             PROVE  Abstract!Next \/ UNCHANGED <<Members, last>>
  OBVIOUS
<1> USE DEF Members, Returned, Abstract!Returned
<1>1. ASSUME NEW o \in Object, Add(o)
      PROVE  Abstract!Next
  <2>1. Members' = Members \cup {o}
    BY <1>1 DEF Add, TypeOK
  <2> QED
    BY <2>1, <1>1 DEF Add, Abstract!Add, Abstract!Next
<1>2. ASSUME NEW o \in Object, Remove(o)
      PROVE  Abstract!Next
  <2>1. Members' = Members \ {o}
    BY <1>2 DEF Remove, TypeOK
  <2> QED
    BY <2>1, <1>2 DEF Remove, Abstract!Remove, Abstract!Next
<1>3. ASSUME NEW o \in Object, Discard(o)
      PROVE  UNCHANGED <<Members, last>>
  BY <1>3 DEF Discard, HeapPop, TypeOK
<1>4. ASSUME NEW o \in Object, PopReturn(o)
      PROVE  Abstract!Next
  <2>1. Members' = Members \ {o}
    BY <1>4 DEF PopReturn, HeapPop
  <2>2. o \in Abstract!Least(Members)
    BY <1>4, TopIsLeast DEF PopReturn
  <2> QED
    BY <2>1, <2>2, <1>4 DEF PopReturn, Abstract!Pop, Abstract!Next
<1>5. ASSUME NEW o \in Object, PeekReturn(o)
      PROVE  Abstract!Next
  <2>1. o \in Abstract!Least(Members)
    BY <1>5, TopIsLeast DEF PeekReturn
  <2> QED
    BY <2>1, <1>5 DEF PeekReturn, Abstract!Peek, Abstract!Next
<1>6. CASE ReturnNone
  <2>1. Members = {}
    BY <1>6 DEF ReturnNone, Held, HeldOnce, TypeOK
  <2> QED
    BY <2>1, <1>6 DEF ReturnNone, Abstract!Empty, Abstract!Next
<1>7. ASSUME NEW method \in {"pop", "peek"}, Call(method)
      PROVE  UNCHANGED <<Members, last>>
  BY <1>7 DEF Call
<1>8. CASE UNCHANGED vars
  BY <1>8 DEF vars
<1> QED
  BY <1>1, <1>2, <1>3, <1>4, <1>5, <1>6, <1>7, <1>8
  DEF Next

\* The lazy heap of channels.py implements a set from which an object of least
\* rank is taken, ties broken in any way.
THEOREM Refinement == Spec => ImplementsLeastFirst
<1>1. Init => Abstract!Init
  BY DEF Init, Abstract!Init, Members, Returned, Abstract!Returned
<1>2. Inv /\ [Next]_vars => [Abstract!Next]_<<Members, last>>
  BY RefineStep DEF Inv
<1> QED
  BY <1>1, <1>2, Invariance, PTL DEF Spec, ImplementsLeastFirst, Abstract!Spec
=============================================================================

--------------------------- MODULE PriorityQueue ----------------------------
(***************************************************************************)
(* PriorityQueue of jobrunner/channels.py: a heap whose objects are        *)
(* removed lazily.  `_known' has the objects in the heap, `_removed' those *)
(* among them that do not count any more; they leave the heap when they    *)
(* come to its top.  One iteration of a loop is one action.                *)
(*                                                                         *)
(* heapq is modelled by the number of copies it holds of each object: what *)
(* it promises is that an object of least rank is on top.                  *)
(***************************************************************************)
EXTENDS Integers, FiniteSets

CONSTANTS Object, Rank, None

ASSUME ObjectAssumption == Rank \in [Object -> Nat] /\ None \notin Object

VARIABLES
  heap,         \* _heap: how many times each object is in it
  known,        \* _known
  removed,      \* _removed
  pc,           \* the method that is in its loop
  last          \* the last call that returned, with its argument or result

vars == <<heap, known, removed, pc, last>>

Least(S) == {o \in S : \A p \in S : Rank[o] <= Rank[p]}
Held == {o \in Object : heap[o] > 0}
Members == known \ removed
Length == Cardinality(known) - Cardinality(removed)

Returned(call, o) == [op |-> call, object |-> o]

-----------------------------------------------------------------------------
Init ==
  /\ heap = [o \in Object |-> 0]
  /\ known = {}
  /\ removed = {}
  /\ pc = "idle"
  /\ last = Returned("new", None)

\* Mutant: an object that is known is left as it is, removed or not.
Add_StillRemoved(o) ==
  /\ pc = "idle"
  /\ known' = known \cup {o}
  /\ heap' = [heap EXCEPT ![o] = IF o \in known THEN @ ELSE @ + 1]
  /\ last' = Returned("add", o)
  /\ UNCHANGED <<removed, pc>>

\* Mutant: an object that comes back is pushed again.
Add_PushAgain(o) ==
  /\ pc = "idle"
  /\ known' = known \cup {o}
  /\ heap' = [heap EXCEPT ![o] = IF o \in Members THEN @ ELSE @ + 1]
  /\ removed' = removed \ {o}
  /\ last' = Returned("add", o)
  /\ UNCHANGED pc

Add(o) ==
  /\ pc = "idle"
  /\ removed' = removed \ {o}
  /\ known' = known \cup {o}
  /\ heap' = [heap EXCEPT ![o] = IF o \in known THEN @ ELSE @ + 1]
  /\ last' = Returned("add", o)
  /\ UNCHANGED pc

\* Mutant: remove does not ask whether the object is known.
Remove_Unknown(o) ==
  /\ pc = "idle"
  /\ removed' = removed \cup {o}
  /\ last' = Returned("remove", o)
  /\ UNCHANGED <<heap, known, pc>>

Remove(o) ==
  /\ pc = "idle"
  /\ removed' = IF o \in known THEN removed \cup {o} ELSE removed
  /\ last' = Returned("remove", o)
  /\ UNCHANGED <<heap, known, pc>>

Call(method) ==
  /\ pc = "idle"
  /\ pc' = method
  /\ UNCHANGED <<heap, known, removed, last>>

OnTop(o) == o \in Least(Held)
HeapPop(o) == heap' = [heap EXCEPT ![o] = @ - 1] /\ known' = known \ {o}

\* Mutant: the mark of an object that leaves the heap stays.
Discard_KeepMark(o) ==
  /\ pc \in {"pop", "peek"}
  /\ OnTop(o)
  /\ o \in removed
  /\ HeapPop(o)
  /\ UNCHANGED <<removed, pc, last>>

\* pop and __getitem__ throw away what was removed, and go on.
Discard(o) ==
  /\ pc \in {"pop", "peek"}
  /\ OnTop(o)
  /\ o \in removed
  /\ HeapPop(o)
  /\ removed' = removed \ {o}
  /\ UNCHANGED <<pc, last>>

PopReturn(o) ==
  /\ pc = "pop"
  /\ OnTop(o)
  /\ o \notin removed
  /\ HeapPop(o)
  /\ pc' = "idle"
  /\ last' = Returned("pop", o)
  /\ UNCHANGED removed

PeekReturn(o) ==
  /\ pc = "peek"
  /\ OnTop(o)
  /\ o \notin removed
  /\ pc' = "idle"
  /\ last' = Returned("peek", o)
  /\ UNCHANGED <<heap, known, removed>>

\* pop returns None, __getitem__ raises IndexError.
ReturnNone ==
  /\ pc \in {"pop", "peek"}
  /\ Held = {}
  /\ pc' = "idle"
  /\ last' = Returned(pc, None)
  /\ UNCHANGED <<heap, known, removed>>

Next ==
  \/ \E method \in {"pop", "peek"} : Call(method)
  \/ ReturnNone
  \/ \E o \in Object : \/ Add(o)
                       \/ Remove(o)
                       \/ Discard(o)
                       \/ PopReturn(o)
                       \/ PeekReturn(o)

Spec == Init /\ [][Next]_vars

-----------------------------------------------------------------------------
(* Properties.                                                             *)

\* Only what is known can be removed: __len__ is a difference of sizes, and
\* __contains__ a difference of sets.
TypeOK ==
  /\ heap \in [Object -> Nat]
  /\ known \in SUBSET Object
  /\ removed \in SUBSET known
  /\ pc \in {"idle", "pop", "peek"}
  /\ last \in [op : {"new", "add", "remove", "pop", "peek"},
               object : Object \cup {None}]

\* An object is once in the heap while it is known, whatever the order in which
\* it is added, removed and added again before its turn came: a second copy would
\* be dispatched a second time, or make `_known.remove' raise KeyError.
HeldOnce == \A o \in Object : heap[o] = IF o \in known THEN 1 ELSE 0

\* len() is the number of the objects that count; `while self._eta_queue' and
\* `if self.sequential and ...' of ChannelQueue.pop rely on it before they look at
\* the top.
LengthExact == Length = Cardinality(Members)

\* The lazy heap is a set from which an object of least rank is taken.
Abstract == INSTANCE LeastFirst WITH members <- Members
ImplementsLeastFirst == Abstract!Spec
=============================================================================

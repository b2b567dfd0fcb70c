--------------------------- MODULE JiraImportProofs ---------------------------
(***************************************************************************)
(* Proofs about JiraImport, for any number of issues and of workers.       *)
(***************************************************************************)
EXTENDS JiraImport, SequenceTheorems, TLAPS

-----------------------------------------------------------------------------
(* The inductive invariant.                                                *)

Deps(i) == {links[i].parent, links[i].epic} \ {NoIssue}

\* The levels of the issues, as they are linked.
LevelOf(l) == CHOOSE level \in [Issue -> 0..2] : Leveled(l, level)
Level(i) == LevelOf(links)[i]

WorkType ==
  [kind : {"idle", "import", "delete", "closing"}, job : Issue \cup {NoIssue},
   stack : Seq(Frame), locks : SUBSET Issue, snap : [Issue -> Time],
   write : [Issue -> Time \cup {Keep}], stale : SUBSET Issue]

Typed ==
  /\ now \in 1..MaxTime /\ updated \in [Issue -> Time] /\ deleted \subseteq Issue
  /\ links \in Links /\ binding \in [Issue -> Time]
  /\ imports \subseteq Issue /\ deletions \subseteq Issue
  /\ work \in [Worker -> WorkType]
  /\ timestamp \in Time /\ until \in Time

\* The jobs that may wait for a user.
Left == {f \in FailedJob : f.kind = "delete" => f.issue \in deleted}

\* Nothing is known to Odoo that Jira has not shown; what others depend on comes first
\* and stays.
World ==
  /\ timestamp <= now /\ until <= now
  /\ \A i \in Issue :
       /\ updated[i] <= now
       /\ binding[i] <= updated[i]
       /\ \A d \in Deps(i) : /\ d \notin deleted
                             /\ updated[i] # 0 => updated[d] # 0
                             /\ binding[i] # 0 => binding[d] # 0
  /\ deletions \subseteq deleted /\ failed \subseteq Left

\* Nobody else holds the lock of an issue.
LocksExclusive ==
  \A w, v \in Worker : w # v => work[w].locks \cap work[v].locks = {}

\* What a job is about.
Jobs(w) ==
  LET W == work[w] IN
  /\ W.kind = "idle" => W = NoWork
  /\ W.kind # "idle" => W.job \in Issue
  /\ W.kind \in {"delete", "closing"} => W.stack = <<>>
  /\ W.kind = "delete" => W.job \in deleted
  /\ W.kind = "import" /\ W.stack # <<>> =>
       W.stack[Len(W.stack)].issue = W.job /\ W.write[W.job] = Keep

\* What a transaction has seen and written of an issue.
Writes(w, i) ==
  LET W == work[w] IN
  /\ W.snap[i] <= updated[i]
  /\ W.kind # "idle" /\ i \notin W.stale => W.snap[i] = binding[i]
  /\ \A d \in Deps(i) : W.snap[d] # 0 => binding[d] # 0
  /\ W.write[i] # Keep /\ (W.write[i] # 0 \/ W.snap[i] = 0) => i \in W.locks
  /\ W.write[i] # Keep /\ W.snap[i] = 0 => binding[i] = 0
  /\ W.write[i] = 0 => i \in deleted
  /\ W.write[i] \notin {Keep, 0} =>
       /\ W.snap[i] <= W.write[i] /\ W.write[i] <= updated[i]
       /\ \A d \in Deps(i) : Seen(w, d) # 0

\* What a frame of the importer has read, checked and ensured.
Reads(f) ==
  /\ f.data # Unread => 0 < f.data /\ f.data <= updated[f.issue]
  /\ f.epic # Unread => /\ links[f.issue].epic # NoIssue
                        /\ 0 < f.epic /\ f.epic <= updated[links[f.issue].epic]
  /\ f.step \in {"read epic", "check", "epic", "write"} => f.data # Unread
  /\ f.step = "read epic" => links[f.issue].epic # NoIssue
  /\ \/ f.step \in {"check", "epic", "write"} /\ f.epic = Unread
     \/ f.step = "lock" /\ f.data # Unread
     => links[f.issue].epic = NoIssue

Checked(w, f) ==
  /\ f.step # "lock" => f.issue \in work[w].locks
  /\ f.step \in {"epic", "write"} =>
       /\ work[w].snap[f.issue] = 0 => binding[f.issue] = 0
       /\ work[w].snap[f.issue] <= f.data

\* The dependency d of the k-th frame is seen bound, or is being imported.
Ensured(w, k, d) ==
  IF k = 1 THEN Seen(w, d) # 0 ELSE work[w].stack[k - 1].issue = d

Waits(w, k) ==
  LET f == work[w].stack[k]
      l == links[f.issue]
  IN  /\ k > 1 => f.step \in {"epic", "write"}
      /\ f.step = "epic" => l.parent # NoIssue /\ Ensured(w, k, l.parent)
      /\ f.step = "write" => /\ l.epic # NoIssue /\ Ensured(w, k, l.epic)
                             /\ l.parent # NoIssue => Seen(w, l.parent) # 0

Stacks(w) ==
  LET s == work[w].stack IN
  /\ \A k \in 1..Len(s) : Reads(s[k]) /\ Checked(w, s[k]) /\ Waits(w, k)
  /\ \A j, k \in 1..Len(s) : j < k => Level(s[k].issue) < Level(s[j].issue)

Sound(w) == Jobs(w) /\ Stacks(w) /\ \A i \in Issue : Writes(w, i)

Inv == Typed /\ World /\ LocksExclusive /\ \A w \in Worker : Sound(w)

-----------------------------------------------------------------------------
(* What the constants and the types give.                                  *)

\* The links are of issues; times are natural numbers; no issue is NoIssue.
LEMMA LinkTypes ==
  ASSUME Typed, NEW i \in Issue
  PROVE  /\ links[i].parent \in Issue \cup {NoIssue} /\ links[i].epic \in Issue \cup {NoIssue}
         /\ Deps(i) \subseteq Issue
         /\ NoIssue \notin Issue
<1>1. links[i] \in [{"parent", "epic"} -> Issue \cup {NoIssue}] /\ NoIssue \notin Issue
  BY JiraAssumption DEF Typed
<1> QED
  BY <1>1 DEF Deps

\* Times are natural numbers.
LEMMA TimeNat == Time \subseteq Nat
  BY JiraAssumption DEF Time

\* So are those of Jira and of the bindings.
LEMMA TimeTypes ==
  ASSUME Typed, NEW i \in Issue
  PROVE  /\ updated[i] \in Nat /\ binding[i] \in Nat /\ now \in Nat /\ now # 0
         /\ timestamp \in Nat /\ until \in Nat /\ now \in Time /\ 0 \in Time
  BY JiraAssumption DEF Typed, Time

\* The dependencies of an issue are of a higher level, and an epic has no epic.
LEMMA Levels ==
  ASSUME Typed, NEW i \in Issue
  PROVE  /\ Level(i) \in 0..2
         /\ \A d \in Deps(i) : Level(i) < Level(d)
         /\ links[i].epic # NoIssue => links[links[i].epic].epic = NoIssue
<1>1. \E level \in [Issue -> 0..2] : Leveled(links, level)
  BY LevelAssumption DEF Typed
<1>2. LevelOf(links) \in [Issue -> 0..2] /\ Leveled(links, LevelOf(links))
  BY <1>1, Zenon DEF LevelOf
<1>3. \A d \in Issue : Level(d) \in 0..2
  BY <1>2 DEF Level
<1>4. \A d \in Deps(i) : d \in Issue /\ Level(i) < Level(d)
  BY <1>2, <1>3, LinkTypes DEF Leveled, Deps, Level
<1>5. ASSUME links[i].epic # NoIssue
      PROVE  links[links[i].epic].epic = NoIssue
  <2>1. links[i].epic \in Issue
    BY <1>5, LinkTypes
  <2>2. Level(links[i].epic) = 2
    BY <1>2, <1>5 DEF Leveled, Level
  <2> QED
    BY <1>2, <2>1, <2>2 DEF Leveled, Level
<1> QED
  BY <1>3, <1>4, <1>5

\* What a job and its frames are made of.
LEMMA WorkTypes ==
  ASSUME Typed, NEW w \in Worker
  PROVE  /\ work[w] \in WorkType
         /\ work[w].stack \in Seq(Frame) /\ Len(work[w].stack) \in Nat
         /\ \A k \in 1..Len(work[w].stack) : work[w].stack[k] \in Frame
         /\ work[w].locks \subseteq Issue /\ work[w].stale \subseteq Issue
         /\ \A i \in Issue : /\ work[w].snap[i] \in Nat
                             /\ work[w].write[i] \in Nat \cup {Keep}
<1>1. work[w] \in WorkType
  BY DEF Typed
<1>2. work[w].stack \in Seq(Frame)
  BY <1>1 DEF WorkType
<1>3. /\ Len(work[w].stack) \in Nat
      /\ \A k \in 1..Len(work[w].stack) : work[w].stack[k] \in Frame
  BY <1>2, LenProperties
<1>4. Time \subseteq Nat
  BY JiraAssumption DEF Time
<1> QED
  BY <1>1, <1>2, <1>3, <1>4 DEF WorkType

-----------------------------------------------------------------------------
(* The stack of frames.                                                    *)

\* The top frame has none over it.
LEMMA First == ~(1 > 1)
  OBVIOUS

\* The top frame replaced by another one.
LEMMA Replaced ==
  ASSUME NEW s \in Seq(Frame), s # <<>>, NEW f \in Frame
  PROVE  LET t == <<f>> \o Tail(s)
         IN  /\ t \in Seq(Frame) /\ t # <<>>
             /\ Len(t) = Len(s) /\ Len(s) \in Nat \ {0} /\ t[1] = f
             /\ \A k \in 2..Len(s) : t[k] = s[k]
<1>1. /\ Len(s) \in Nat \ {0} /\ Tail(s) \in Seq(Frame) /\ Len(Tail(s)) = Len(s) - 1
      /\ \A k \in 1..(Len(s) - 1) : Tail(s)[k] = s[k + 1]
  BY HeadTailProperties, LenProperties, EmptySeq
<1> DEFINE r == Tail(s)
<1> HIDE DEF r
<1>2. /\ r \in Seq(Frame) /\ Len(r) = Len(s) - 1
      /\ \A k \in 1..(Len(s) - 1) : r[k] = s[k + 1]
  BY <1>1 DEF r
<1>3. LET t == <<f>> \o r
      IN  /\ t \in Seq(Frame) /\ Len(t) = Len(s) /\ t[1] = f
          /\ \A k \in 2..Len(s) : t[k] = r[k - 1]
  <2>1. <<f>> \in Seq(Frame) /\ Len(<<f>>) = 1 /\ <<f>>[1] = f
    OBVIOUS
  <2>2. /\ <<f>> \o r \in Seq(Frame) /\ Len(<<f>> \o r) = 1 + Len(r)
        /\ \A k \in 1..(1 + Len(r)) :
             (<<f>> \o r)[k] = IF k <= 1 THEN <<f>>[k] ELSE r[k - 1]
    BY <1>2, <2>1, ConcatProperties
  <2> DEFINE t == <<f>> \o r
  <2> HIDE DEF t
  <2>3. /\ t \in Seq(Frame) /\ Len(t) = 1 + Len(r)
        /\ \A k \in 1..(1 + Len(r)) : t[k] = IF k <= 1 THEN <<f>>[k] ELSE r[k - 1]
    BY <2>2 DEF t
  <2>4. t \in Seq(Frame) /\ Len(t) = Len(s) /\ t[1] = f /\ \A k \in 2..Len(s) : t[k] = r[k - 1]
    BY <1>1, <1>2, <2>1, <2>3
  <2> QED
    BY <2>4 DEF t
<1> QED
  BY <1>1, <1>2, <1>3 DEF r

\* The frame of a dependency pushed over the top one.
LEMMA Pushed ==
  ASSUME NEW s \in Seq(Frame), s # <<>>, NEW e \in Frame, NEW f \in Frame
  PROVE  LET t == <<e, f>> \o Tail(s)
         IN  /\ t \in Seq(Frame) /\ t # <<>>
             /\ Len(t) = Len(s) + 1 /\ Len(s) \in Nat \ {0}
             /\ t[1] = e /\ t[2] = f
             /\ \A k \in 3..Len(t) : t[k] = s[k - 1]
<1>1. /\ Len(s) \in Nat \ {0} /\ Tail(s) \in Seq(Frame) /\ Len(Tail(s)) = Len(s) - 1
      /\ \A k \in 1..(Len(s) - 1) : Tail(s)[k] = s[k + 1]
  BY HeadTailProperties, LenProperties, EmptySeq
<1> DEFINE r == Tail(s)
<1> HIDE DEF r
<1>2. /\ r \in Seq(Frame) /\ Len(r) = Len(s) - 1
      /\ \A k \in 1..(Len(s) - 1) : r[k] = s[k + 1]
  BY <1>1 DEF r
<1>3. LET t == <<e, f>> \o r
      IN  /\ t \in Seq(Frame) /\ Len(t) = Len(s) + 1 /\ t[1] = e /\ t[2] = f
          /\ \A k \in 3..(Len(s) + 1) : t[k] = r[k - 2]
  BY <1>1, <1>2
<1> QED
  BY <1>1, <1>2, <1>3 DEF r

\* The top frame finished.
LEMMA Popped ==
  ASSUME NEW s \in Seq(Frame), s # <<>>
  PROVE  LET t == Tail(s)
         IN  /\ t \in Seq(Frame)
             /\ Len(t) = Len(s) - 1 /\ Len(s) \in Nat \ {0}
             /\ \A k \in 1..Len(t) : t[k] = s[k + 1]
             /\ Head(s) = s[1] /\ s[1] \in Frame
<1>1. /\ Len(s) \in Nat \ {0} /\ Tail(s) \in Seq(Frame) /\ Len(Tail(s)) = Len(s) - 1
      /\ \A k \in 1..Len(Tail(s)) : Tail(s)[k] = s[k + 1]
  BY HeadTailProperties, EmptySeq
<1>2. Head(s) = s[1] /\ s[1] \in Frame
  BY <1>1, LenProperties
<1> QED
  BY <1>1, <1>2
-----------------------------------------------------------------------------
(* Jobs that do not take the step.                                         *)

\* What a step keeps: nothing shown by Jira is taken back.
Later ==
  /\ links' = links
  /\ deleted \subseteq deleted'
  /\ \A i \in Issue : updated[i] <= updated'[i]

\* The issues are linked as before.
LEMMA SameLinks ==
  ASSUME Later, NEW i
  PROVE  Deps(i)' = Deps(i) /\ Level(i)' = Level(i)
  BY DEF Later, Deps, Level

\* What a frame has read is not newer than Jira.
LEMMA ReadsStay ==
  ASSUME Typed, Typed', Later, NEW f \in Frame, Reads(f)
  PROVE  Reads(f)'
<1>1. f.issue \in Issue /\ (f.data # Unread => f.data \in Nat) /\ (f.epic # Unread => f.epic \in Nat)
  BY JiraAssumption DEF Frame, Time
<1>2. links[f.issue].epic # NoIssue => links[f.issue].epic \in Issue
  BY <1>1, LinkTypes
<1>3. \A i \in Issue : updated[i] \in Nat /\ updated'[i] \in Nat /\ updated[i] <= updated'[i]
  BY JiraAssumption DEF Typed, Time, Later
<1>4. f.data # Unread => f.data <= updated'[f.issue]
  <2> SUFFICES ASSUME f.data # Unread
               PROVE  f.data <= updated'[f.issue]
    OBVIOUS
  <2>1. f.data \in Nat /\ f.data <= updated[f.issue]
    BY <1>1 DEF Reads
  <2> QED
    BY <1>1, <1>3, <2>1
<1>5. f.epic # Unread => f.epic <= updated'[links[f.issue].epic]
  <2> SUFFICES ASSUME f.epic # Unread
               PROVE  f.epic <= updated'[links[f.issue].epic]
    OBVIOUS
  <2> DEFINE e == links[f.issue].epic
  <2>1. f.epic \in Nat /\ f.epic <= updated[e] /\ e \in Issue
    BY <1>1, <1>2 DEF Reads
  <2> QED
    BY <1>3, <2>1
<1>6. links' = links
  BY DEF Later
<1> QED
  BY <1>4, <1>5, <1>6 DEF Reads

\* A job is as sound as it was when the step is not its own, and binds nothing.
LEMMA Untouched ==
  ASSUME Typed, Typed', Later, NEW w \in Worker, Sound(w),
         work'[w] = work[w], binding' = binding
  PROVE  Sound(w)'
<1>1. \A i : Deps(i)' = Deps(i) /\ Level(i)' = Level(i)
  BY SameLinks
<1>2. \A i : Seen(w, i)' = Seen(w, i)
  BY DEF Seen, Written
<1>3. \A i \in Issue : updated[i] \in Nat /\ updated'[i] \in Nat /\ updated[i] <= updated'[i]
  BY JiraAssumption DEF Typed, Time, Later
<1>4. Jobs(w)'
  BY DEF Sound, Jobs, Later
<1>5. ASSUME NEW i \in Issue
      PROVE  Writes(w, i)'
  <2>1. work[w].snap[i] \in Nat /\ work[w].write[i] \in Nat \cup {Keep}
    BY WorkTypes
  <2> QED
    BY <1>1, <1>2, <1>3, <2>1 DEF Sound, Writes, Later
<1>6. Stacks(w)'
  <2>1. ASSUME NEW k \in 1..Len(work[w].stack)
        PROVE  Reads(work[w].stack[k])' /\ Checked(w, work[w].stack[k])' /\ Waits(w, k)'
    <3>1. work[w].stack[k] \in Frame
      BY WorkTypes
    <3>2. Reads(work[w].stack[k])'
      BY <3>1, ReadsStay DEF Sound, Stacks
    <3>3. Checked(w, work[w].stack[k])'
      BY DEF Sound, Stacks, Checked
    <3>4. Waits(w, k)'
      <4>1. Waits(w, k)
        BY DEF Sound, Stacks
      <4>2. links' = links
        BY DEF Later
      <4>3. \A d : Ensured(w, k, d)' = Ensured(w, k, d)
        BY <1>2 DEF Ensured
      <4> QED
        BY <1>2, <4>1, <4>2, <4>3 DEF Waits
    <3> QED
      BY <3>2, <3>3, <3>4
  <2> QED
    BY <1>1, <2>1 DEF Sound, Stacks
<1> QED
  BY <1>4, <1>5, <1>6 DEF Sound

\* A worker without a job is sound.
IdleFine == \A w \in Worker : work[w] = NoWork => Sound(w)

\* A job without a transaction is sound.
LEMMA IdleSound == Typed => IdleFine
<1> SUFFICES ASSUME Typed, NEW w \in Worker, work[w] = NoWork
             PROVE  Sound(w)
  BY DEF IdleFine
<1>1. /\ work[w].kind = "idle" /\ work[w].stack = <<>> /\ Len(work[w].stack) = 0
      /\ \A i \in Issue : work[w].snap[i] = 0 /\ work[w].write[i] = Keep
  BY DEF NoWork
<1>2. \A i \in Issue : updated[i] \in Nat
  BY TimeTypes
<1>3. Jobs(w)
  BY <1>1 DEF Jobs
<1>4. Stacks(w)
  BY <1>1 DEF Stacks
<1>5. \A i \in Issue : Writes(w, i)
  <2>1. \A i \in Issue : \A d \in Deps(i) : d \in Issue
    BY LinkTypes
  <2> QED
    BY <1>1, <1>2, <2>1 DEF Writes, Keep
<1> QED
  BY <1>3, <1>4, <1>5 DEF Sound

\* So it is after a step.
LEMMA IdleSoundNext == Typed' => IdleFine'
  BY IdleSound, PTL

-----------------------------------------------------------------------------
(* The steps of Jira, and of the search.                                   *)

\* Jobs do not notice what Jira does meanwhile, nor the search.
LEMMA OutsideInv ==
  ASSUME Inv, Typed', Later, World', UNCHANGED <<work, binding>>
  PROVE  Inv'
<1>1. \A w \in Worker : Sound(w)'
  BY Untouched DEF Inv
<1>2. LocksExclusive'
  BY DEF Inv, LocksExclusive
<1> QED
  BY <1>1, <1>2 DEF Inv

\* Steps that leave Jira alone keep what it has shown.
LEMMA SameJira ==
  ASSUME Typed, UNCHANGED <<updated, deleted, links>>
  PROVE  Later
<1>1. \A i \in Issue : updated[i] \in Nat
  BY TimeTypes
<1> QED
  BY <1>1 DEF Later

\* The jobs that may wait for a user go on to be so.
LEMMA LeftLater == deleted \subseteq deleted' => Left \subseteq Left'
  BY DEF Left

\* Time passes.
LEMMA TickInv ==
  ASSUME Inv, Tick
  PROVE  Inv'
<1>1. Typed /\ Later /\ UNCHANGED <<work, binding>>
  BY SameJira DEF Inv, Tick
<1>2. now \in 1..MaxTime /\ now' \in 1..MaxTime /\ now <= now'
  BY <1>1, JiraAssumption DEF Tick, Typed
<1>3. Typed'
  BY <1>1, <1>2 DEF Typed, Tick, queue
<1>4. World'
  <2>1. timestamp \in Nat /\ until \in Nat /\ now \in Nat /\ now' \in Nat
    BY <1>1, <1>2, JiraAssumption DEF Typed, Time
  <2>2. timestamp <= now' /\ until <= now'
    BY <1>2, <2>1 DEF Inv, World, Tick
  <2>3. \A i \in Issue : updated[i] \in Nat /\ updated[i] <= now'
    BY <1>1, <1>2, <2>1, TimeTypes DEF Inv, World
  <2>4. failed' \subseteq Left'
    BY LeftLater DEF Inv, World, Tick
  <2> QED
    BY <1>1, <2>2, <2>3, <2>4 DEF Inv, World, Tick, Deps, queue
<1> QED
  BY <1>1, <1>3, <1>4, OutsideInv

\* An issue changes after what it depends on has been created.
LEMMA ChangeInv ==
  ASSUME Inv, NEW i \in Issue, Change(i)
  PROVE  Inv'
<1>1. /\ Typed /\ UNCHANGED <<now, deleted, links, binding, deletions, work, timestamp, until>>
      /\ updated' = [updated EXCEPT ![i] = now]
      /\ now \in Time /\ now \in Nat /\ now # 0
  BY TimeTypes DEF Inv, Change
<1>2. \A j \in Issue : /\ updated[j] \in Nat /\ updated[j] <= now
                       /\ updated'[j] = IF j = i THEN now ELSE updated[j]
  BY <1>1, TimeTypes DEF Inv, World, Typed
<1>3. Later
  BY <1>1, <1>2 DEF Later
<1>4. Typed'
  BY <1>1 DEF Typed, Change
<1>5. World'
  <2>1. \A j : Deps(j)' = Deps(j)
    BY <1>3, SameLinks
  <2>2. ASSUME NEW j \in Issue
        PROVE  /\ updated'[j] <= now /\ binding[j] <= updated'[j]
               /\ \A d \in Deps(j) : /\ d \notin deleted
                                     /\ updated'[j] # 0 => updated'[d] # 0
                                     /\ binding[j] # 0 => binding[d] # 0
    <3>1. binding[j] \in Nat /\ binding[j] <= updated[j] /\ updated'[j] <= now
      BY <1>1, <1>2, TimeTypes DEF Inv, World
    <3>2. binding[j] <= updated'[j]
      BY <1>1, <1>2, <3>1
    <3>3. \A d \in Deps(i) : updated[d] # 0
      BY DEF Change, Deps, InJira
    <3>4. \A d \in Deps(j) : d \in Issue
      BY <1>1, LinkTypes
    <3> QED
      BY <1>1, <1>2, <3>1, <3>2, <3>3, <3>4 DEF Inv, World
  <2>3. failed' \subseteq Left'
    BY LeftLater DEF Inv, World, Change
  <2> QED
    BY <1>1, <2>1, <2>2, <2>3 DEF Inv, World
<1> QED
  BY <1>1, <1>3, <1>4, <1>5, OutsideInv

\* An issue that others depend on is not deleted.
LEMMA DeleteInv ==
  ASSUME Inv, NEW i \in Issue, Delete(i)
  PROVE  Inv'
<1>1. /\ Typed /\ UNCHANGED <<now, updated, links, binding, imports, work, timestamp, until>>
      /\ deleted' = deleted \cup {i} /\ deletions' = deletions \cup {i}
  BY DEF Inv, Delete
<1>2. Later
  <2>1. \A j \in Issue : updated[j] \in Nat
    BY <1>1, TimeTypes
  <2> QED
    BY <1>1, <2>1 DEF Later
<1>3. Typed'
  BY <1>1 DEF Typed
<1>4. World'
  <2>1. \A j \in Issue : Deps(j)' = Deps(j) /\ i \notin Deps(j)
    BY <1>2, SameLinks DEF Delete, Deps
  <2>2. failed' \subseteq Left'
    BY <1>1, LeftLater DEF Inv, World, Delete
  <2> QED
    BY <1>1, <2>1, <2>2 DEF Inv, World
<1> QED
  BY <1>1, <1>2, <1>3, <1>4, OutsideInv

\* The search only moves the timestamp, and asks for imports.
LEMMA SearchInv ==
  ASSUME Inv, LockTimestamp \/ Search \/ AbortSearch
  PROVE  Inv'
<1>1. Typed /\ Later /\ UNCHANGED <<now, updated, deleted, links, work, binding, deletions>>
  BY SameJira DEF Inv, LockTimestamp, Search, AbortSearch, jira, queue
<1>2. /\ imports' \subseteq Issue
      /\ timestamp' \in Nat /\ timestamp' <= now /\ until' \in Nat /\ until' <= now
  <2>1. /\ imports \subseteq Issue /\ timestamp \in Nat /\ timestamp <= now
        /\ until \in Nat /\ until <= now /\ now \in Nat
    BY <1>1, JiraAssumption DEF Inv, World, Typed, Time
  <2>2. CASE LockTimestamp \/ AbortSearch
    BY <2>1, <2>2 DEF LockTimestamp, AbortSearch, queue
  <2>3. CASE Search
    <3>1. \A found \in Answers(timestamp, until) : found \subseteq Issue
      BY DEF Answers
    <3>2. timestamp' \in Nat /\ timestamp' <= now
      BY <2>1, <2>3, JiraAssumption DEF Search, Max2
    <3> QED
      BY <2>1, <2>3, <3>1, <3>2 DEF Search
  <2> QED
    BY <2>2, <2>3
<1>3. now \in Nat /\ now \in 1..MaxTime /\ MaxTime \in Nat
  BY <1>1, JiraAssumption DEF Typed
<1>4. Typed'
  BY <1>1, <1>2, <1>3 DEF Typed, Time
<1>5. World'
  <2>1. failed' \subseteq Left'
    BY <1>1, LeftLater DEF Inv, World, LockTimestamp, Search, AbortSearch
  <2> QED
    BY <1>1, <1>2, <2>1 DEF Inv, World, Deps
<1> QED
  BY <1>1, <1>4, <1>5, OutsideInv

-----------------------------------------------------------------------------
(* The steps of a job within its transaction.                              *)

\* A step of worker w that binds nothing yet: its work is W afterwards.
Works(w, W) ==
  /\ W \in WorkType
  /\ work' = [work EXCEPT ![w] = W]
  /\ UNCHANGED <<jira, binding, timestamp, until>>
  /\ imports' \subseteq Issue /\ deletions' \subseteq deleted /\ failed' \subseteq Left
  /\ \A v \in Worker \ {w} : W.locks \cap work[v].locks = {}

\* What such a step leaves as it was.
LEMMA WorksEffect ==
  ASSUME Inv, NEW w \in Worker, NEW W, Works(w, W)
  PROVE  /\ Typed' /\ World' /\ Later /\ LocksExclusive' /\ work'[w] = W
         /\ \A i : Deps(i)' = Deps(i) /\ Level(i)' = Level(i)
<1>1. /\ Typed /\ UNCHANGED <<now, updated, deleted, links, binding, timestamp, until>>
      /\ \A v \in Worker : work'[v] = IF v = w THEN W ELSE work[v]
  BY DEF Inv, Works, jira, Typed
<1>2. Typed'
  BY <1>1 DEF Typed, Works
<1>3. Later
  BY <1>1, SameJira
<1>4. World'
  <2>1. failed' \subseteq Left'
    BY <1>1, LeftLater DEF Works
  <2> QED
    BY <1>1, <2>1 DEF Inv, World, Deps, Works
<1>5. LocksExclusive'
  BY <1>1 DEF Inv, LocksExclusive, Works
<1> QED
  BY <1>1, <1>2, <1>3, <1>4, <1>5, SameLinks

\* It is enough to look at the worker itself.
LEMMA WorksInv ==
  ASSUME Inv, NEW w \in Worker, NEW W, Works(w, W), Sound(w)'
  PROVE  Inv'
<1>1. Typed' /\ World' /\ Later /\ LocksExclusive'
  BY WorksEffect
<1>2. ASSUME NEW v \in Worker, v # w
      PROVE  Sound(v)'
  <2>1. work'[v] = work[v] /\ binding' = binding
    BY <1>2 DEF Works, Inv, Typed
  <2> QED
    BY <1>1, <1>2, <2>1, Untouched DEF Inv
<1> QED
  BY <1>1, <1>2 DEF Inv

\* Nothing, and nobody, is idle by name only.
LEMMA NoWorkType == Typed => NoWork \in WorkType
<1> SUFFICES ASSUME Typed
             PROVE  NoWork \in WorkType
  OBVIOUS
<1>1. 0 \in Time /\ <<>> \in Seq(Frame)
  BY JiraAssumption, EmptySeq DEF Time
<1> QED
  BY <1>1 DEF NoWork, WorkType

\* A job whose transaction leaves nothing is not in the way of the others.
LEMMA RestInv ==
  ASSUME Inv, NEW w \in Worker, work' = [work EXCEPT ![w] = NoWork],
         UNCHANGED <<jira, binding, timestamp, until>>,
         imports' \subseteq Issue, deletions' \subseteq deleted, failed' \subseteq Left
  PROVE  Inv'
<1>1. NoWork \in WorkType
  BY NoWorkType DEF Inv
<1>2. Works(w, NoWork)
  BY <1>1 DEF Works, NoWork
<1>3. Sound(w)'
  BY <1>2, WorksEffect, IdleSoundNext DEF IdleFine
<1> QED
  BY <1>2, <1>3, WorksInv

\* What a job that is executed is about.
LEMMA JobKnown ==
  ASSUME Inv, NEW w \in Worker, Executes(w)
  PROVE  /\ work[w].kind \in {"import", "delete"} /\ work[w].job \in Issue
         /\ work[w].kind = "delete" => work[w].job \in deleted
  BY DEF Executes, Inv, Sound, Jobs

\* The job whose transaction the database has aborted waits again.
LEMMA UndoInv ==
  ASSUME Inv, NEW w \in Worker, Executes(w), Undo(w)
  PROVE  Inv'
<1>1. imports' \subseteq Issue /\ deletions' \subseteq deleted
  BY JobKnown DEF Undo, Inv, Typed, World
<1> QED
  BY <1>1, RestInv DEF Undo, Inv, World

\* The job that fails, or whose process dies, is left to a user.
LEMMA AbortInv ==
  ASSUME Inv, NEW w \in Worker, Abort(w)
  PROVE  Inv'
<1>1. Executes(w) /\ Typed
  BY DEF Abort, Inv
<1>2. PICK change : change = IF Holds(w, work[w].job) THEN updated[work[w].job] ELSE 0
  OBVIOUS
<1>3. change \in Time
  BY <1>1, <1>2, JobKnown, TimeTypes DEF Typed
<1>4. PICK f : f = [kind |-> work[w].kind, issue |-> work[w].job, change |-> change]
  OBVIOUS
<1>5. f \in Left
  BY <1>1, <1>3, <1>4, JobKnown DEF Left, FailedJob
<1>6. failed' = failed \cup {f}
  BY <1>2, <1>4 DEF Abort
<1>7. failed' \subseteq Left
  BY <1>5, <1>6 DEF Inv, World
<1> QED
  BY <1>1, <1>7, RestInv DEF Abort, queue, Inv, World, Typed

\* The user requeues it.
LEMMA RequeueInv ==
  ASSUME Inv, NEW f \in failed, Requeue(f)
  PROVE  Inv'
<1>1. /\ Typed /\ f \in Left
      /\ UNCHANGED <<now, updated, deleted, links, binding, work, timestamp, until>>
  BY DEF Requeue, jira, Inv, World
<1>2. f.issue \in Issue /\ f.kind \in {"import", "delete"}
  BY <1>1 DEF Left, FailedJob
<1>3. imports' \subseteq Issue /\ deletions' \subseteq deleted
  BY <1>1, <1>2 DEF Requeue, Left, Inv, Typed, World
<1>4. Typed'
  BY <1>1, <1>3 DEF Typed
<1>5. World'
  <2>1. failed' \subseteq Left'
    BY <1>1 DEF Requeue, Left, Inv, World
  <2> QED
    BY <1>1, <1>3, <2>1 DEF Inv, World, Deps
<1> QED
  BY <1>1, <1>4, <1>5, SameJira, OutsideInv

\* The job that meets a retryable error has no frame left; what its transaction has
\* seen, locked and written stays.
LEMMA PostponeInv ==
  ASSUME Inv, NEW w \in Worker, work[w].kind = "import", Postpone(w)
  PROVE  Inv'
<1>1. Typed /\ work[w] \in WorkType /\ Sound(w) /\ work[w].job \in Issue
  BY WorkTypes DEF Inv, Sound, Jobs
<1>2. PICK V, W : V = work[w] /\ W = [V EXCEPT !.kind = "closing", !.stack = <<>>]
  OBVIOUS
<1>3. /\ W \in WorkType /\ W.kind = "closing" /\ W.stack = <<>> /\ Len(W.stack) = 0
      /\ W.job = V.job /\ W.locks = V.locks /\ W.snap = V.snap
      /\ W.write = V.write /\ W.stale = V.stale
  <2>1. <<>> \in Seq(Frame) /\ V \in WorkType
    BY <1>1, <1>2, EmptySeq
  <2> QED
    BY <1>2, <2>1 DEF WorkType
<1>4. Works(w, W)
  <2>1. \A v \in Worker \ {w} : W.locks \cap work[v].locks = {}
    BY <1>2, <1>3 DEF Inv, LocksExclusive
  <2>2. work' = [work EXCEPT ![w] = W] /\ imports' \subseteq Issue
    BY <1>1, <1>2 DEF Postpone, Inv, Typed
  <2> QED
    BY <1>3, <2>1, <2>2 DEF Works, Postpone, Inv, World
<1>5. /\ work'[w] = W /\ UNCHANGED <<updated, deleted, binding, links>>
      /\ \A j : Deps(j)' = Deps(j)
  <2>1. work'[w] = W /\ \A j : Deps(j)' = Deps(j)
    BY <1>4, WorksEffect
  <2> QED
    BY <1>4, <2>1 DEF Works, jira
<1>6. Jobs(w)'
  BY <1>1, <1>2, <1>3, <1>5 DEF Jobs
<1>7. Stacks(w)'
  BY <1>3, <1>5 DEF Stacks
<1>8. ASSUME NEW i \in Issue
      PROVE  Writes(w, i)'
  <2>1. \A j : Seen(w, j)' = Seen(w, j)
    BY <1>2, <1>3, <1>5 DEF Seen, Written
  <2>2. Writes(w, i) /\ V.kind = "import"
    BY <1>1, <1>2 DEF Sound
  <2> QED
    BY <1>2, <1>3, <1>5, <2>1, <2>2 DEF Writes
<1> QED
  BY <1>4, <1>6, <1>7, <1>8, WorksInv DEF Sound

\* An import begins with an empty transaction and one frame.
LEMMA StartImportInv ==
  ASSUME Inv, NEW w \in Worker, NEW i \in Issue, StartImport(w, i)
  PROVE  Inv'
<1> DEFINE f == NewFrame(i, Unread)
           W == [NoWork EXCEPT !.kind = "import", !.job = i, !.snap = binding, !.stack = <<f>>]
<1>1. /\ W.kind = "import" /\ W.job = i /\ W.stack = <<f>> /\ W.locks = {} /\ W.snap = binding
      /\ W.write = [j \in Issue |-> Keep] /\ W.stale = {}
  BY DEF NoWork
<1>2. f \in Frame /\ f.issue = i /\ f.step = "lock" /\ f.data = Unread /\ f.epic = Unread
  BY DEF NewFrame, Frame, Steps
<1>3. W \in WorkType
  <2>1. <<f>> \in Seq(Frame)
    BY <1>2
  <2> QED
    BY <2>1 DEF Inv, Typed, WorkType, NoWork
<1>4. work' = [work EXCEPT ![w] = W]
  BY DEF StartImport
<1> HIDE DEF W, f
<1>5. Works(w, W)
  BY <1>1, <1>3, <1>4 DEF Works, StartImport, Inv, Typed, World
<1>6. /\ work'[w] = W /\ UNCHANGED <<updated, deleted, binding, links>> /\ Typed
      /\ \A j : Deps(j)' = Deps(j)
  BY <1>5, WorksEffect DEF Works, jira, Inv
<1>7. Len(W.stack) = 1 /\ W.stack[1] = f
  BY <1>1
<1>8. Jobs(w)'
  BY <1>1, <1>2, <1>6, <1>7 DEF Jobs
<1>9. Stacks(w)'
  <2>1. Reads(f)' /\ Checked(w, f)'
    BY <1>2 DEF Reads, Checked, Unread
  <2>2. \A k \in 1..1 : k = 1
    OBVIOUS
  <2>3. Waits(w, 1)'
    BY <1>2, <1>6, <1>7 DEF Waits
  <2>4. \A k \in 1..Len(work'[w].stack) : k = 1 /\ work'[w].stack[k] = f
    BY <1>6, <1>7, <2>2
  <2>5. \A k \in 1..Len(work'[w].stack) :
          Reads(work[w].stack[k])' /\ Checked(w, work[w].stack[k])' /\ Waits(w, k)'
    BY <2>1, <2>3, <2>4
  <2>6. \A j, k \in 1..Len(work'[w].stack) : ~(j < k)
    BY <2>4
  <2> QED
    BY <2>5, <2>6 DEF Stacks
<1>10. ASSUME NEW j \in Issue
       PROVE  Writes(w, j)'
  BY <1>1, <1>6 DEF Writes, Inv, World, Keep
<1> QED
  BY <1>5, <1>8, <1>9, <1>10, WorksInv DEF Sound

\* A deletion takes the binding away that it sees.
LEMMA StartDeletionInv ==
  ASSUME Inv, NEW w \in Worker, NEW i \in Issue, StartDeletion(w, i)
  PROVE  Inv'
<1> DEFINE W == [NoWork EXCEPT !.kind = "delete", !.job = i, !.snap = binding,
                               !.write[i] = IF binding[i] # 0 THEN 0 ELSE Keep]
<1>1. /\ W.kind = "delete" /\ W.job = i /\ W.stack = <<>> /\ W.locks = {} /\ W.snap = binding
      /\ \A j \in Issue : W.write[j] = IF j = i /\ binding[i] # 0 THEN 0 ELSE Keep
      /\ W.stale = {} /\ Len(W.stack) = 0
  BY DEF NoWork
<1>2. W \in WorkType
  <2>1. <<>> \in Seq(Frame) /\ 0 \in Time
    BY JiraAssumption, EmptySeq DEF Time
  <2> QED
    BY <2>1 DEF Inv, Typed, WorkType, NoWork
<1>3. work' = [work EXCEPT ![w] = W]
  BY DEF StartDeletion
<1> HIDE DEF W
<1>4. Works(w, W)
  BY <1>1, <1>2, <1>3 DEF Works, StartDeletion, Inv, Typed, World
<1>5. /\ work'[w] = W /\ UNCHANGED <<updated, deleted, binding, links>> /\ Typed
      /\ i \in deleted /\ \A j : Deps(j)' = Deps(j)
  <2>1. work'[w] = W /\ \A j : Deps(j)' = Deps(j)
    BY <1>4, WorksEffect
  <2>2. UNCHANGED <<updated, deleted, binding, links>> /\ Typed
    BY <1>4 DEF Works, jira, Inv
  <2>3. i \in deleted
    BY DEF Inv, World, StartDeletion
  <2> QED
    BY <2>1, <2>2, <2>3
<1>6. Jobs(w)'
  BY <1>1, <1>5 DEF Jobs
<1>7. Stacks(w)'
  BY <1>1, <1>5 DEF Stacks
<1>8. ASSUME NEW j \in Issue
      PROVE  Writes(w, j)'
  BY <1>1, <1>5 DEF Writes, Inv, World, Keep
<1> QED
  BY <1>4, <1>6, <1>7, <1>8, WorksInv DEF Sound

-----------------------------------------------------------------------------
(* The steps of the importer.                                              *)

\* The places of a sequence that is not empty.
LEMMA Places ==
  ASSUME NEW n \in Nat \ {0}
  PROVE  /\ 1 \in 1..n /\ n \in 1..n
         /\ \A k \in 1..n : k = 1 \/ (k \in 2..n /\ k - 1 \in 1..n)
         /\ n = 1 \/ n > 1
  OBVIOUS

\* A job with frames is an import; its top frame is sound.
LEMMA TopFrame ==
  ASSUME Inv, NEW w \in Worker, work[w].stack # <<>>
  PROVE  /\ work[w].kind = "import" /\ Len(work[w].stack) \in Nat \ {0}
         /\ Top(w) = work[w].stack[1] /\ Top(w) \in Frame /\ Top(w).issue \in Issue
         /\ Reads(Top(w)) /\ Checked(w, Top(w)) /\ Waits(w, 1)
<1>1. /\ work[w] \in WorkType /\ work[w].stack \in Seq(Frame)
  BY WorkTypes DEF Inv
<1>2. /\ Len(work[w].stack) \in Nat \ {0}
      /\ Top(w) = work[w].stack[1] /\ Top(w) \in Frame
  BY <1>1, Popped DEF Top
<1>3. work[w].kind = "import"
  BY <1>1 DEF Inv, Sound, Jobs, WorkType, NoWork
<1>4. Reads(work[w].stack[1]) /\ Checked(w, work[w].stack[1]) /\ Waits(w, 1)
  <2>1. 1 \in 1..Len(work[w].stack)
    BY <1>2
  <2> QED
    BY <2>1 DEF Inv, Sound, Stacks
<1> QED
  BY <1>2, <1>3, <1>4 DEF Frame

\* A frame over another one is of a dependency of it, which exists in Jira; the
\* first frame of the job has not been written.
LEMMA TopIssue ==
  ASSUME Inv, NEW w \in Worker, work[w].stack # <<>>
  PROVE  /\ Len(work[w].stack) = 1 =>
              Top(w).issue = work[w].job /\ work[w].write[Top(w).issue] = Keep
         /\ Len(work[w].stack) > 1 =>
              /\ InJira(Top(w).issue) /\ Top(w).issue # work[w].job
              /\ work[w].stack[Len(work[w].stack)].issue = work[w].job
              /\ work[w].write[work[w].job] = Keep
<1> DEFINE s == work[w].stack
<1>1. /\ work[w].kind = "import" /\ Len(s) \in Nat \ {0} /\ Top(w) = s[1] /\ Typed
      /\ \A k \in 1..Len(s) : s[k] \in Frame
  BY TopFrame, WorkTypes DEF Inv
<1>2. s[Len(s)].issue = work[w].job /\ work[w].write[work[w].job] = Keep
  BY <1>1 DEF Inv, Sound, Jobs
<1>3. ASSUME Len(s) > 1
      PROVE  InJira(Top(w).issue) /\ Top(w).issue # work[w].job
  <2> DEFINE f == s[2]
  <2>1. 1 \in 1..Len(s) /\ 2 \in 1..Len(s) /\ Len(s) \in 1..Len(s) /\ 1 < Len(s)
    BY <1>1, <1>3
  <2>2. f \in Frame /\ f.issue \in Issue /\ Reads(f) /\ Waits(w, 2)
    BY <1>1, <2>1 DEF Inv, Sound, Stacks, Frame
  <2>3. f.step \in {"epic", "write"} /\ s[1].issue \in Deps(f.issue)
    BY <2>2 DEF Waits, Ensured, Deps
  <2>4. updated[f.issue] # 0
    <3>1. 0 < f.data /\ f.data <= updated[f.issue]
      BY <2>2, <2>3 DEF Reads
    <3>2. updated[f.issue] \in Nat /\ f.data \in Time \cup {Unread} /\ f.data # Unread
      BY <1>1, <2>2, <2>3, TimeTypes DEF Reads, Frame
    <3>3. f.data \in Nat
      BY <3>2, JiraAssumption DEF Time
    <3> QED
      BY <3>1, <3>2, <3>3
  <2>5. InJira(s[1].issue)
    BY <2>2, <2>3, <2>4 DEF Inv, World, InJira
  <2>6. Level(s[Len(s)].issue) < Level(s[1].issue)
    BY <2>1 DEF Inv, Sound, Stacks
  <2>7. s[1].issue \in Issue /\ Level(s[1].issue) \in 0..2
    BY <1>1, <2>1, Levels DEF Frame
  <2>8. s[1].issue # s[Len(s)].issue
    BY <2>6, <2>7
  <2> QED
    BY <1>1, <1>2, <2>5, <2>8
<1> QED
  BY <1>1, <1>2, <1>3

\* The job W is the job V with another top frame, and maybe more locks.
Continues(V, W, g) ==
  /\ W.stack = <<g>> \o Tail(V.stack)
  /\ V.locks \subseteq W.locks
  /\ W.kind = V.kind /\ W.job = V.job
  /\ W.snap = V.snap /\ W.write = V.write /\ W.stale = V.stale

\* The top frame goes on, maybe with one more lock.
LEMMA AdvanceInv ==
  ASSUME Inv, NEW w \in Worker, work[w].stack # <<>>,
         NEW g \in Frame, g.issue = Top(w).issue,
         g.step \in {"read", "read epic", "check"}, Reads(g), NEW W \in WorkType, g.issue \in W.locks,
         Works(w, W), Continues(work[w], W, g)
  PROVE  Inv'
<1> DEFINE s == work[w].stack
<1>1. /\ Typed /\ work[w] \in WorkType /\ s \in Seq(Frame) /\ Sound(w)
      /\ work[w].kind = "import"
      /\ Top(w) = s[1] /\ Len(s) \in Nat \ {0}
  BY WorkTypes, TopFrame DEF Inv
<1>0. PICK t : t = W.stack
  OBVIOUS
<1>2. /\ t \in Seq(Frame) /\ t # <<>> /\ Len(t) = Len(s) /\ t[1] = g
      /\ \A k \in 2..Len(s) : t[k] = s[k]
  <2>1. PICK r : r = s
    OBVIOUS
  <2>2. r \in Seq(Frame) /\ r # <<>> /\ t = <<g>> \o Tail(r)
    BY <1>0, <1>1, <2>1 DEF Continues
  <2>3. /\ t \in Seq(Frame) /\ t # <<>> /\ Len(t) = Len(r) /\ t[1] = g
        /\ \A k \in 2..Len(r) : t[k] = r[k]
    BY <2>2, Replaced
  <2> QED
    BY <2>1, <2>3
<1>4. /\ W.stack = t /\ W.kind = "import" /\ W.job = work[w].job
      /\ W.snap = work[w].snap /\ W.write = work[w].write /\ W.stale = work[w].stale
      /\ work[w].locks \subseteq W.locks
  BY <1>0, <1>1 DEF Continues
<1>3. \A k \in 1..Len(s) : t[k].issue = s[k].issue
  BY <1>1, <1>2, Places
<1>7. /\ work'[w] = W /\ UNCHANGED <<updated, deleted, binding, links>>
      /\ \A i : Deps(i)' = Deps(i) /\ Level(i)' = Level(i)
  <2>1. work'[w] = W /\ \A i : Deps(i)' = Deps(i) /\ Level(i)' = Level(i)
    BY WorksEffect
  <2> QED
    BY <2>1 DEF Works, jira
<1>8. \A i : Seen(w, i)' = Seen(w, i)
  BY <1>4, <1>7 DEF Seen, Written
<1>9. Jobs(w)'
  <2>1. Len(s) \in 1..Len(s)
    BY <1>1, Places
  <2>2. t[Len(t)].issue = work[w].job /\ work[w].write[work[w].job] = Keep
    BY <1>1, <1>2, <1>3, <2>1 DEF Sound, Jobs
  <2> QED
    BY <1>1, <1>4, <1>7, <2>2 DEF Sound, Jobs
<1>10. ASSUME NEW i \in Issue
       PROVE  Writes(w, i)'
  <2>1. Writes(w, i)
    BY <1>1 DEF Sound
  <2>2. /\ work'[w].kind = work[w].kind /\ work'[w].snap = work[w].snap
        /\ work'[w].write = work[w].write /\ work'[w].stale = work[w].stale
        /\ work[w].locks \subseteq work'[w].locks
    BY <1>1, <1>4, <1>7
  <2> QED
    BY <1>7, <1>8, <2>1, <2>2 DEF Writes
<1>11. ASSUME NEW k \in 1..Len(s)
       PROVE  Reads(t[k])' /\ Checked(w, t[k])' /\ Waits(w, k)'
  <2>1. CASE k = 1
    <3>0. t[k] = g
      BY <1>2, <2>1
    <3>1. Reads(t[k])'
      BY <1>7, <3>0 DEF Reads
    <3>2. Checked(w, t[k])'
      BY <1>7, <3>0 DEF Checked
    <3>3. work'[w].stack[k] = g
      BY <1>4, <1>7, <3>0
    <3>4. g.step # "epic" /\ g.step # "write"
      OBVIOUS
    <3>5. Waits(w, 1)'
      BY <2>1, <3>3, <3>4, First, Zenon DEF Waits
    <3> QED
      BY <2>1, <3>1, <3>2, <3>5
  <2>2. CASE k # 1
    <3>1. k \in 2..Len(s) /\ k - 1 \in 1..Len(s) /\ t[k] = s[k]
      BY <1>1, <1>2, <2>2, Places
    <3>2. Reads(s[k]) /\ Checked(w, s[k]) /\ Waits(w, k)
      BY <1>1 DEF Sound, Stacks
    <3>3. Reads(t[k])'
      BY <1>7, <3>1, <3>2 DEF Reads
    <3>4. Checked(w, t[k])'
      BY <1>4, <1>7, <3>1, <3>2 DEF Checked
    <3>5. \A d : Ensured(w, k, d) => Ensured(w, k, d)'
      BY <1>3, <1>4, <1>7, <2>2, <3>1 DEF Ensured
    <3>6. Waits(w, k)'
      BY <1>4, <1>7, <1>8, <3>1, <3>2, <3>5 DEF Waits
    <3> QED
      BY <3>3, <3>4, <3>6
  <2> QED
    BY <2>1, <2>2
<1>12. Stacks(w)'
  BY <1>1, <1>2, <1>3, <1>4, <1>7, <1>11 DEF Sound, Stacks
<1> QED
  BY <1>9, <1>10, <1>12, WorksInv DEF Sound

\* What such a job is made of.
LEMMA Continued ==
  ASSUME Inv, NEW w \in Worker, work[w].stack # <<>>, NEW g \in Frame,
         NEW W, W = [work[w] EXCEPT !.locks = @ \cup {g.issue},
                                    !.stack = <<g>> \o Tail(work[w].stack)]
  PROVE  /\ W \in WorkType /\ W.locks = work[w].locks \cup {g.issue}
         /\ Continues(work[w], W, g)
<1>1. /\ Typed /\ work[w] \in WorkType /\ work[w].stack \in Seq(Frame) /\ g.issue \in Issue
  BY WorkTypes DEF Inv, Frame
<1>2. PICK s, t, V, L : /\ s = work[w].stack /\ t = <<g>> \o Tail(s)
                        /\ V = work[w] /\ L = V.locks \cup {g.issue}
  OBVIOUS
<1>3. t \in Seq(Frame)
  <2>1. s \in Seq(Frame) /\ s # <<>>
    BY <1>1, <1>2
  <2> QED
    BY <1>2, <2>1, Replaced
<1>4. W = [V EXCEPT !.locks = L, !.stack = t] /\ V \in WorkType
  BY <1>1, <1>2
<1>5. L \in SUBSET Issue
  BY <1>1, <1>2, <1>4 DEF WorkType
<1>6. /\ W \in WorkType /\ W.locks = L /\ W.stack = t /\ W.kind = V.kind
      /\ W.job = V.job /\ W.snap = V.snap /\ W.write = V.write /\ W.stale = V.stale
  BY <1>3, <1>4, <1>5 DEF WorkType
<1>7. Continues(V, W, g)
  BY <1>2, <1>6 DEF Continues
<1> QED
  BY <1>2, <1>6, <1>7

\* The top frame goes on under the lock of its issue.
LEMMA ContinueInv ==
  ASSUME Inv, NEW w \in Worker, work[w].stack # <<>>,
         NEW g \in Frame, g.issue = Top(w).issue,
         g.step \in {"read", "read epic", "check"}, Reads(g),
         NEW W, W = [work[w] EXCEPT !.locks = @ \cup {g.issue},
                                    !.stack = <<g>> \o Tail(work[w].stack)],
         g.issue \notin Locked(w),
         work' = [work EXCEPT ![w] = W], UNCHANGED <<jira, binding, queue, failed, timestamp, until>>
  PROVE  Inv'
<1>1. /\ W \in WorkType /\ W.locks = work[w].locks \cup {g.issue}
      /\ Continues(work[w], W, g)
  BY Continued
<1>2. \A v \in Worker \ {w} : W.locks \cap work[v].locks = {}
  <2>1. \A v \in Worker \ {w} : g.issue \notin work[v].locks
    BY DEF Locked, Others
  <2> QED
    BY <1>1, <2>1 DEF Inv, LocksExclusive
<1>3. Works(w, W)
  BY <1>1, <1>2 DEF Works, queue, Inv, Typed, World
<1> QED
  BY <1>1, <1>3, AdvanceInv

\* A frame takes the lock of its issue, or the job is retried.
LEMMA LockInv ==
  ASSUME Inv, NEW w \in Worker, Lock(w)
  PROVE  Inv'
<1>1. /\ work[w].stack # <<>> /\ Top(w).step = "lock" /\ Top(w) \in Frame
      /\ work[w].kind = "import" /\ Reads(Top(w))
  BY TopFrame DEF Lock, At, Top
<1>2. CASE Top(w).issue \in Locked(w)
  BY <1>1, <1>2, PostponeInv DEF Lock
<1>3. CASE Top(w).issue \notin Locked(w)
  <2>1. PICK f, g, W :
          /\ f = Top(w)
          /\ g = [f EXCEPT !.step = IF f.data = Unread THEN "read" ELSE "check"]
          /\ W = [work[w] EXCEPT !.locks = @ \cup {g.issue},
                                 !.stack = <<g>> \o Tail(work[w].stack)]
    OBVIOUS
  <2>2. /\ g \in Frame /\ g.issue = f.issue /\ g.data = f.data /\ g.epic = f.epic
        /\ g.step = IF f.data = Unread THEN "read" ELSE "check"
    BY <1>1, <2>1 DEF Frame, Steps
  <2>3. Reads(g)
    BY <1>1, <2>1, <2>2 DEF Reads
  <2>4. /\ work' = [work EXCEPT ![w] = W]
        /\ UNCHANGED <<jira, binding, queue, failed, timestamp, until>>
    BY <1>3, <2>1, <2>2 DEF Lock
  <2>5. g.step \in {"read", "read epic", "check"}
    BY <2>2
  <2> QED
    BY <1>1, <1>3, <2>1, <2>2, <2>3, <2>4, <2>5, ContinueInv
<1> QED
  BY <1>2, <1>3

\* A frame that has its lock keeps it.
LEMMA Stepped ==
  ASSUME Inv, NEW w \in Worker, Top(w).issue \in work[w].locks,
         NEW g \in Frame, g.issue = Top(w).issue, Step(w, g),
         NEW W, W = [work[w] EXCEPT !.locks = @ \cup {g.issue},
                                    !.stack = <<g>> \o Tail(work[w].stack)]
  PROVE  /\ work' = [work EXCEPT ![w] = W]
         /\ UNCHANGED <<jira, binding, queue, failed, timestamp, until>>
<1>1. work[w] \in WorkType
  BY WorkTypes DEF Inv
<1>2. W = [work[w] EXCEPT !.stack = <<g>> \o Tail(work[w].stack)]
  <2>1. work[w].locks \cup {g.issue} = work[w].locks
    OBVIOUS
  <2>2. [work[w] EXCEPT !.locks = work[w].locks] = work[w]
    BY <1>1 DEF WorkType
  <2> QED
    BY <2>1, <2>2
<1> QED
  BY <1>2 DEF Step

\* The top frame goes on with what it has read.
LEMMA StepInv ==
  ASSUME Inv, NEW w \in Worker, work[w].stack # <<>>, Top(w).issue \in work[w].locks,
         NEW g \in Frame, g.issue = Top(w).issue,
         g.step \in {"read", "read epic", "check"}, Reads(g), Step(w, g)
  PROVE  Inv'
<1>1. PICK W : W = [work[w] EXCEPT !.locks = @ \cup {g.issue},
                                   !.stack = <<g>> \o Tail(work[w].stack)]
  OBVIOUS
<1>2. g.issue \notin Locked(w)
  BY DEF Inv, LocksExclusive, Locked, Others
<1>3. /\ work' = [work EXCEPT ![w] = W]
      /\ UNCHANGED <<jira, binding, queue, failed, timestamp, until>>
  BY <1>1, Stepped
<1> QED
  BY <1>1, <1>2, <1>3, ContinueInv

\* What is seen of another issue does not change when the top frame returns.
Finishes(V, W, i, value) ==
  /\ W.stack = Tail(V.stack) /\ W.kind = V.kind /\ W.job = V.job /\ W.locks = V.locks
  /\ W.snap = V.snap /\ W.stale = V.stale
  /\ \A j \in Issue : W.write[j] = IF j = i THEN value ELSE V.write[j]

\* The value that the top frame may leave: it keeps what is there, takes the binding of
\* a deleted issue away, or writes what it has read, its dependencies being bound.
Leaves(w, i, value) ==
  /\ i \in work[w].locks /\ value \in Time \cup {Keep}
  /\ \/ value = work[w].write[i]
     \/ value = 0 /\ work[w].snap[i] # 0 /\ i \in deleted
     \/ /\ value \notin {0, Keep}
        /\ work[w].snap[i] <= value /\ value <= updated[i]
        /\ work[w].snap[i] = 0 => binding[i] = 0
        /\ \A d \in Deps(i) : Seen(w, d) # 0
  /\ Len(work[w].stack) > 1 =>
       value \notin {0, Keep} \/ (value = work[w].write[i] /\ Seen(w, i) # 0)

\* The top frame is finished.
LEMMA ReturnInv ==
  ASSUME Inv, NEW w \in Worker, work[w].stack # <<>>,
         NEW value, Leaves(w, Top(w).issue, value), Return(w, value)
  PROVE  Inv'
<1>1. /\ Typed /\ work[w] \in WorkType /\ work[w].stack \in Seq(Frame) /\ Sound(w)
      /\ work[w].kind = "import" /\ Len(work[w].stack) \in Nat \ {0}
      /\ Top(w) = work[w].stack[1] /\ Top(w).issue \in Issue
      /\ \A k \in 1..Len(work[w].stack) : work[w].stack[k] \in Frame
  BY WorkTypes, TopFrame DEF Inv
<1>2. PICK s, t, i, V, W :
        /\ s = work[w].stack /\ t = Tail(s) /\ i = Top(w).issue /\ V = work[w]
        /\ W = [V EXCEPT !.stack = t, !.write = [V.write EXCEPT ![i] = value]]
  OBVIOUS
<1>3. /\ t \in Seq(Frame) /\ Len(t) = Len(s) - 1 /\ Len(s) \in Nat \ {0}
      /\ \A k \in 1..Len(t) : t[k] = s[k + 1]
  <2>1. s \in Seq(Frame) /\ s # <<>>
    BY <1>1, <1>2
  <2> QED
    BY <1>2, <2>1, Popped
<1>4. W \in WorkType /\ Finishes(V, W, i, value)
  <2>1. V \in WorkType /\ V.write \in [Issue -> Time \cup {Keep}] /\ V.stack = s
    BY <1>1, <1>2 DEF WorkType
  <2>2. PICK u : u = [V.write EXCEPT ![i] = value]
    OBVIOUS
  <2>3. /\ u \in [Issue -> Time \cup {Keep}]
        /\ \A j \in Issue : u[j] = IF j = i THEN value ELSE V.write[j]
    BY <1>1, <1>2, <2>1, <2>2 DEF Leaves
  <2>4. W = [V EXCEPT !.stack = t, !.write = u]
    BY <1>2, <2>2
  <2>5. /\ W \in WorkType /\ W.stack = t /\ W.kind = V.kind /\ W.job = V.job
        /\ W.locks = V.locks /\ W.snap = V.snap /\ W.stale = V.stale /\ W.write = u
    BY <1>3, <2>1, <2>3, <2>4 DEF WorkType
  <2> QED
    BY <1>2, <2>1, <2>3, <2>5 DEF Finishes
<1>5. /\ work' = [work EXCEPT ![w] = W] /\ UNCHANGED <<jira, binding, queue, failed, timestamp, until>>
  BY <1>2 DEF Return
<1>6. Works(w, W)
  BY <1>1, <1>2, <1>4, <1>5 DEF Works, Finishes, queue, Inv, Typed, World, LocksExclusive
<1>7. /\ work'[w] = W /\ UNCHANGED <<updated, deleted, binding, links>>
      /\ \A j : Deps(j)' = Deps(j) /\ Level(j)' = Level(j)
  <2>1. work'[w] = W /\ \A j : Deps(j)' = Deps(j) /\ Level(j)' = Level(j)
    BY <1>6, WorksEffect
  <2> QED
    BY <1>5, <2>1 DEF jira
<1>8. \A j \in Issue :
        /\ Seen(w, j) = IF V.write[j] = Keep THEN V.snap[j] ELSE V.write[j]
        /\ Seen(w, j)' = IF W.write[j] = Keep THEN W.snap[j] ELSE W.write[j]
  BY <1>2, <1>7 DEF Seen, Written
<1>9. ASSUME NEW j \in Issue, NEW d \in Deps(j), Seen(w, d) # 0
      PROVE  Seen(w, d)' # 0
  <2>1. d \in Issue /\ d \notin deleted
    BY <1>1, LinkTypes DEF Inv, World
  <2>2. CASE d # i
    BY <1>4, <1>8, <1>9, <2>1, <2>2 DEF Finishes
  <2>3. CASE d = i
    <3>1. value = V.write[d] \/ value \notin {0, Keep}
      BY <1>2, <2>1, <2>3 DEF Leaves
    <3>2. W.write[d] = value /\ W.snap = V.snap
      BY <1>4, <2>1, <2>3 DEF Finishes
    <3> QED
      BY <1>8, <1>9, <2>1, <3>1, <3>2
  <2> QED
    BY <2>2, <2>3
<1>10. Len(s) > 1 => Seen(w, i)' # 0
  <2>1. W.write[i] = value /\ W.snap = V.snap /\ i \in Issue
    BY <1>1, <1>2, <1>4 DEF Finishes
  <2>2. Len(s) > 1 => value \notin {0, Keep} \/ (value = V.write[i] /\ Seen(w, i) # 0)
    BY <1>2 DEF Leaves
  <2> QED
    BY <1>8, <2>1, <2>2
<1>11. Jobs(w)'
  <2>1. /\ W.kind = "import" /\ W.job = V.job /\ W.stack = t /\ V.job \in Issue
        /\ \A j \in Issue : W.write[j] = IF j = i THEN value ELSE V.write[j]
    BY <1>1, <1>2, <1>4 DEF Finishes, Sound, Jobs
  <2>2. ASSUME t # <<>>
        PROVE  t[Len(t)].issue = V.job /\ W.write[V.job] = Keep
    <3>1. Len(t) # 0
      BY <1>3, <2>2, EmptySeq
    <3>2. Len(s) > 1 /\ Len(t) \in 1..Len(t) /\ Len(t) + 1 = Len(s)
      BY <1>3, <3>1
    <3>3. t[Len(t)] = s[Len(s)]
      BY <1>3, <3>2
    <3>4. i # V.job /\ s[Len(s)].issue = V.job /\ V.write[V.job] = Keep
      BY <1>2, <3>2, TopIssue
    <3> QED
      BY <2>1, <3>3, <3>4
  <2> QED
    BY <1>7, <2>1, <2>2 DEF Jobs
<1>12. ASSUME NEW j \in Issue
       PROVE  Writes(w, j)'
  <2>1. /\ W.kind = V.kind /\ W.locks = V.locks /\ W.snap = V.snap /\ W.stale = V.stale
        /\ W.write[j] = IF j = i THEN value ELSE V.write[j]
    BY <1>4 DEF Finishes
  <2>2. Writes(w, j)
    BY <1>1 DEF Sound
  <2>3. /\ V.snap[j] <= updated[j]
        /\ V.kind # "idle" /\ j \notin V.stale => V.snap[j] = binding[j]
        /\ \A d \in Deps(j) : V.snap[d] # 0 => binding[d] # 0
    BY <1>2, <2>2 DEF Writes
  <2>4. CASE W.write[j] = V.write[j]
    BY <1>2, <1>7, <1>9, <2>1, <2>2, <2>4 DEF Writes
  <2>5. CASE j = i /\ value = 0 /\ V.snap[i] # 0 /\ i \in deleted
    BY <1>7, <2>1, <2>3, <2>5 DEF Writes, Keep
  <2>6. CASE /\ j = i /\ value \notin {0, Keep} /\ i \in V.locks
             /\ V.snap[i] <= value /\ value <= updated[i]
             /\ V.snap[i] = 0 => binding[i] = 0
             /\ \A d \in Deps(i) : Seen(w, d) # 0
    BY <1>7, <1>9, <2>1, <2>3, <2>6 DEF Writes
  <2> QED
    BY <1>2, <2>1, <2>4, <2>5, <2>6 DEF Leaves
<1>13. ASSUME NEW k \in 1..Len(t)
       PROVE  Reads(t[k])' /\ Checked(w, t[k])' /\ Waits(w, k)'
  <2>1. k + 1 \in 1..Len(s) /\ t[k] = s[k + 1] /\ k + 1 > 1 /\ Len(s) > 1
    BY <1>3
  <2>2. Reads(s[k + 1]) /\ Checked(w, s[k + 1]) /\ Waits(w, k + 1) /\ s[k + 1] \in Frame
    BY <1>1, <1>2, <2>1 DEF Sound, Stacks
  <2>3. Reads(t[k])'
    BY <1>7, <2>1, <2>2 DEF Reads
  <2>4. Checked(w, t[k])'
    BY <1>2, <1>4, <1>7, <2>1, <2>2 DEF Checked, Finishes
  <2>5. ASSUME NEW d, Ensured(w, k + 1, d)
        PROVE  Ensured(w, k, d)'
    <3>1. s[k].issue = d
      BY <1>2, <2>1, <2>5 DEF Ensured
    <3>2. CASE k = 1
      BY <1>1, <1>2, <1>10, <2>1, <3>1, <3>2 DEF Ensured
    <3>3. CASE k # 1
      <4>1. k - 1 \in 1..Len(t) /\ t[k - 1] = s[k]
        BY <1>3, <3>3
      <4> QED
        BY <1>4, <1>7, <3>1, <3>3, <4>1, <1>2 DEF Ensured, Finishes
    <3> QED
      BY <3>2, <3>3
  <2>6. PICK f, l : f = s[k + 1] /\ l = links[f.issue]
    OBVIOUS
  <2>7. work'[w].stack[k] = f /\ links'[f.issue] = l /\ f.issue \in Issue
    BY <1>2, <1>4, <1>7, <2>1, <2>2, <2>6 DEF Finishes, Frame
  <2>8. /\ f.step \in {"epic", "write"}
        /\ f.step = "epic" => l.parent # NoIssue /\ Ensured(w, k + 1, l.parent)
        /\ f.step = "write" => /\ l.epic # NoIssue /\ Ensured(w, k + 1, l.epic)
                               /\ l.parent # NoIssue => Seen(w, l.parent) # 0
    BY <1>2, <2>1, <2>2, <2>6 DEF Waits
  <2>9. l.parent # NoIssue => l.parent \in Deps(f.issue)
    BY <2>6 DEF Deps
  <2>10. Waits(w, k)'
    BY <1>9, <2>5, <2>7, <2>8, <2>9 DEF Waits
  <2> QED
    BY <2>3, <2>4, <2>10
<1>14. Stacks(w)'
  <2>1. ASSUME NEW j \in 1..Len(t), NEW k \in 1..Len(t), j < k
        PROVE  Level(t[k].issue) < Level(t[j].issue)
    <3>1. j + 1 \in 1..Len(s) /\ k + 1 \in 1..Len(s) /\ j + 1 < k + 1
      BY <1>3, <2>1
    <3>2. Level(s[k + 1].issue) < Level(s[j + 1].issue)
      BY <1>1, <1>2, <3>1 DEF Sound, Stacks
    <3> QED
      BY <1>3, <3>2
  <2>2. work'[w].stack = t
    BY <1>4, <1>7, <1>2 DEF Finishes
  <2> QED
    BY <1>7, <1>13, <2>1, <2>2 DEF Stacks
<1> QED
  BY <1>6, <1>11, <1>12, <1>14, WorksInv DEF Sound

\* What Jira shows of an issue is never nothing.
LEMMA Shown ==
  ASSUME Typed, NEW i \in Issue, InJira(i)
  PROVE  updated[i] \in Time /\ updated[i] # Unread /\ 0 < updated[i]
<1>1. updated[i] \in Nat /\ updated[i] # 0 /\ updated[i] \in Time
  BY TimeTypes DEF InJira, Typed
<1> QED
  BY <1>1 DEF Unread

\* An issue that is not in Jira is the one of the job, and its binding goes if it has one.
LEMMA MissingInv ==
  ASSUME Inv, NEW w \in Worker, work[w].stack # <<>>, Top(w).issue \in work[w].locks,
         ~InJira(Top(w).issue), Missing(w)
  PROVE  Inv'
<1>1. /\ Typed /\ Top(w).issue \in Issue /\ Len(work[w].stack) \in Nat \ {0}
      /\ Sound(w)
  BY TopFrame DEF Inv
<1>2. PICK i, value :
        /\ i = Top(w).issue
        /\ value = IF Seen(w, i) # 0 THEN 0 ELSE work[w].write[i]
  OBVIOUS
<1>3. ~(Len(work[w].stack) > 1) /\ work[w].write[i] = Keep
  <2>1. ~(Len(work[w].stack) > 1)
    BY TopIssue
  <2>2. Len(work[w].stack) = 1
    BY <1>1, <2>1, Places
  <2> QED
    BY <1>2, <2>1, <2>2, TopIssue
<1>4. Seen(w, i) = work[w].snap[i]
  BY <1>3 DEF Seen, Written
<1>5. work[w].snap[i] # 0 => i \in deleted
  <2>1. /\ work[w].snap[i] \in Nat /\ updated[i] \in Nat
        /\ work[w].snap[i] <= updated[i]
    BY <1>1, <1>2, WorkTypes, TimeTypes DEF Sound, Writes
  <2> QED
    BY <1>2, <2>1 DEF InJira
<1>6. Leaves(w, i, value)
  <2>1. value \in Time \cup {Keep}
    BY <1>1, <1>2, <1>3, TimeTypes
  <2> QED
    BY <1>2, <1>3, <1>4, <1>5, <2>1 DEF Leaves
<1>7. Return(w, value)
  BY <1>2 DEF Missing
<1> QED
  BY <1>2, <1>6, <1>7, ReturnInv

\* A frame reads its issue, if it is there.
LEMMA ReadInv ==
  ASSUME Inv, NEW w \in Worker, Read(w)
  PROVE  Inv'
<1>1. /\ Typed /\ work[w].stack # <<>> /\ Top(w) \in Frame /\ Top(w).step = "read"
      /\ Reads(Top(w)) /\ Top(w).issue \in Issue /\ Top(w).issue \in work[w].locks
  BY TopFrame DEF Inv, Read, At, Top, Checked
<1>2. CASE ~InJira(Top(w).issue)
  BY <1>1, <1>2, MissingInv DEF Read
<1>3. CASE InJira(Top(w).issue)
  <2>1. PICK f, g :
          /\ f = Top(w)
          /\ g = [f EXCEPT !.data = updated[f.issue],
                     !.step = IF links[f.issue].epic = NoIssue THEN "check" ELSE "read epic"]
    OBVIOUS
  <2>2. /\ updated[f.issue] \in Time /\ updated[f.issue] # Unread /\ 0 < updated[f.issue]
        /\ updated[f.issue] <= updated[f.issue]
    BY <1>1, <1>3, <2>1, Shown, TimeTypes
  <2>3. /\ g \in Frame /\ g.issue = f.issue /\ g.data = updated[f.issue] /\ g.epic = f.epic
        /\ g.step = IF links[f.issue].epic = NoIssue THEN "check" ELSE "read epic"
    BY <1>1, <2>1, <2>2 DEF Frame, Steps
  <2>4. Reads(g)
    BY <1>1, <2>1, <2>2, <2>3 DEF Reads
  <2>5. g.step \in {"read", "read epic", "check"}
    BY <2>3
  <2>6. Step(w, g)
    BY <1>3, <2>1 DEF Read
  <2> QED
    BY <1>1, <2>1, <2>3, <2>4, <2>5, <2>6, StepInv
<1> QED
  BY <1>2, <1>3

\* What has been read at a time exists later.
LEMMA LaterExists == \A a, b \in Nat : 0 < a /\ a <= b => b # 0
  OBVIOUS

\* The epic of an issue is there as long as the issue has been.
LEMMA EpicThere ==
  ASSUME Inv, NEW w \in Worker, At(w, "read epic")
  PROVE  links[Top(w).issue].epic \in Issue /\ InJira(links[Top(w).issue].epic)
<1>1. /\ Typed /\ work[w].stack # <<>> /\ Top(w) \in Frame /\ Top(w).step = "read epic"
      /\ Reads(Top(w)) /\ Top(w).issue \in Issue
  BY TopFrame DEF Inv, At, Top
<1>2. PICK f, e : f = Top(w) /\ e = links[f.issue].epic
  OBVIOUS
<1>3. f.data # Unread /\ e # NoIssue /\ 0 < f.data /\ f.data <= updated[f.issue]
  BY <1>1, <1>2 DEF Reads
<1>4. e \in Deps(f.issue) /\ e \in Issue
  BY <1>1, <1>2, <1>3, LinkTypes DEF Deps
<1>5. f.data \in Nat /\ updated[f.issue] \in Nat
  <2>1. f.data \in Time
    BY <1>1, <1>2, <1>3 DEF Frame
  <2> QED
    BY <1>1, <1>2, <2>1, TimeTypes, TimeNat
<1>6. updated[f.issue] # 0
  BY <1>3, <1>5, LaterExists
<1>7. InJira(e)
  BY <1>1, <1>2, <1>4, <1>6 DEF Inv, World, InJira
<1> QED
  BY <1>2, <1>4, <1>7

\* A frame reads the epic of its issue, which is there.
LEMMA ReadEpicInv ==
  ASSUME Inv, NEW w \in Worker, ReadEpic(w)
  PROVE  Inv'
<1>1. /\ Typed /\ work[w].stack # <<>> /\ Top(w) \in Frame /\ Top(w).step = "read epic"
      /\ Reads(Top(w)) /\ Top(w).issue \in Issue /\ Top(w).issue \in work[w].locks
  BY TopFrame DEF Inv, ReadEpic, At, Top, Checked
<1>2. PICK f, e : f = Top(w) /\ e = links[f.issue].epic
  OBVIOUS
<1>3. f.data # Unread /\ e # NoIssue /\ 0 < f.data /\ f.data <= updated[f.issue]
  BY <1>1, <1>2 DEF Reads
<1>5. InJira(e) /\ e \in Issue
  BY <1>2, EpicThere DEF ReadEpic
<1>6. PICK g : g = [f EXCEPT !.epic = updated[e], !.step = "check"]
  OBVIOUS
<1>7. /\ updated[e] \in Time /\ updated[e] # Unread /\ 0 < updated[e]
      /\ updated[e] <= updated[e]
  <2>1. updated[e] \in Time /\ updated[e] # Unread /\ 0 < updated[e]
    BY <1>1, <1>5, Shown
  <2>2. updated[e] \in Nat
    BY <1>1, <1>5, TimeTypes
  <2> QED
    BY <2>1, <2>2
<1>8. /\ g \in Frame /\ g.issue = f.issue /\ g.data = f.data /\ g.epic = updated[e]
      /\ g.step = "check"
  BY <1>1, <1>2, <1>6, <1>7 DEF Frame, Steps
<1>9. Reads(g)
  BY <1>2, <1>3, <1>7, <1>8 DEF Reads
<1>10. Step(w, g)
  BY <1>2, <1>5, <1>6 DEF ReadEpic
<1> QED
  BY <1>1, <1>2, <1>8, <1>9, <1>10, StepInv

\* The top frame g waits for the dependency d, whose data it may hand over.
Asks(w, g, d, data) ==
  /\ g \in Frame /\ g.issue = Top(w).issue /\ Reads(g) /\ Checked(w, g)
  /\ d # NoIssue
  /\ \/ g.step = "epic" /\ d = links[g.issue].parent /\ data = Unread
     \/ /\ g.step = "write" /\ d = links[g.issue].epic /\ data = g.epic
        /\ links[g.issue].parent # NoIssue => Seen(w, links[g.issue].parent) # 0

\* A dependency is imported first.
LEMMA DependInv ==
  ASSUME Inv, NEW w \in Worker, work[w].stack # <<>>,
         NEW g, NEW d, NEW data, Asks(w, g, d, data), Depend(w, g, d, data)
  PROVE  Inv'
<1>1. /\ Typed /\ work[w] \in WorkType /\ work[w].stack \in Seq(Frame) /\ Sound(w)
      /\ work[w].kind = "import" /\ Len(work[w].stack) \in Nat \ {0}
      /\ Top(w) = work[w].stack[1] /\ Top(w).issue \in Issue
      /\ \A k \in 1..Len(work[w].stack) : work[w].stack[k] \in Frame
  BY WorkTypes, TopFrame DEF Inv
<1>2. PICK s, t, e, V, W :
        /\ s = work[w].stack /\ V = work[w] /\ e = NewFrame(d, data)
        /\ t = <<e, g>> \o Tail(s) /\ W = [V EXCEPT !.stack = t]
  OBVIOUS
<1>3. g \in Frame /\ g.issue \in Issue /\ d \in Deps(g.issue) /\ d \in Issue
  <2>1. d \in Deps(g.issue)
    BY DEF Asks, Deps
  <2> QED
    BY <1>1, <2>1, LinkTypes DEF Asks
<1>4. /\ e \in Frame /\ e.issue = d /\ e.step = "lock" /\ e.data = data /\ e.epic = Unread
  <2>1. data \in Time \cup {Unread}
    BY <1>3 DEF Asks, Frame
  <2> QED
    BY <1>2, <1>3, <2>1 DEF NewFrame, Frame, Steps
<1>5. /\ t \in Seq(Frame) /\ Len(t) = Len(s) + 1 /\ Len(s) \in Nat \ {0}
      /\ t[1] = e /\ t[2] = g /\ \A k \in 3..Len(t) : t[k] = s[k - 1]
  <2>1. s \in Seq(Frame) /\ s # <<>>
    BY <1>1, <1>2
  <2> QED
    BY <1>2, <1>3, <1>4, <2>1, Pushed
<1>6. \A k \in 2..Len(t) : t[k].issue = s[k - 1].issue /\ k - 1 \in 1..Len(s)
  <2>1. t[2].issue = s[1].issue
    BY <1>1, <1>2, <1>5 DEF Asks
  <2>2. \A k \in 2..Len(t) : (k = 2 \/ k \in 3..Len(t)) /\ k - 1 \in 1..Len(s)
    BY <1>5
  <2> QED
    BY <1>5, <2>1, <2>2
<1>7. /\ W \in WorkType /\ W.stack = t /\ W.kind = V.kind /\ W.job = V.job /\ W.locks = V.locks
      /\ W.snap = V.snap /\ W.write = V.write /\ W.stale = V.stale
  <2>1. V \in WorkType
    BY <1>1, <1>2
  <2> QED
    BY <1>2, <1>5, <2>1 DEF WorkType
<1>8. /\ work' = [work EXCEPT ![w] = W] /\ UNCHANGED <<jira, binding, queue, failed, timestamp, until>>
  <2>1. W = [work[w] EXCEPT !.stack = <<NewFrame(d, data), g>> \o Tail(work[w].stack)]
    BY <1>2
  <2> QED
    BY <2>1 DEF Depend
<1>9. Works(w, W)
  BY <1>1, <1>2, <1>7, <1>8 DEF Works, queue, Inv, Typed, World, LocksExclusive
<1>10. /\ work'[w] = W /\ UNCHANGED <<updated, deleted, binding, links>>
       /\ \A j : Deps(j)' = Deps(j) /\ Level(j)' = Level(j)
  <2>1. work'[w] = W /\ \A j : Deps(j)' = Deps(j) /\ Level(j)' = Level(j)
    BY <1>9, WorksEffect
  <2> QED
    BY <1>8, <2>1 DEF jira
<1>11. \A i : Seen(w, i)' = Seen(w, i)
  BY <1>2, <1>7, <1>10 DEF Seen, Written
<1>12. Jobs(w)'
  <2>1. Len(t) \in 2..Len(t) /\ Len(t) - 1 = Len(s)
    BY <1>5
  <2>2. t[Len(t)].issue = s[Len(s)].issue
    BY <1>6, <2>1
  <2>3. s[Len(s)].issue = V.job /\ V.write[V.job] = Keep /\ V.job \in Issue
    BY <1>1, <1>2 DEF Sound, Jobs
  <2>4. W.kind = "import"
    BY <1>1, <1>2, <1>7
  <2> QED
    BY <1>7, <1>10, <2>2, <2>3, <2>4 DEF Jobs
<1>13. ASSUME NEW i \in Issue
       PROVE  Writes(w, i)'
  <2>1. Writes(w, i)
    BY <1>1 DEF Sound
  <2>2. /\ work'[w].kind = work[w].kind /\ work'[w].snap = work[w].snap
        /\ work'[w].write = work[w].write /\ work'[w].stale = work[w].stale
        /\ work'[w].locks = work[w].locks
    BY <1>2, <1>7, <1>10
  <2> QED
    BY <1>10, <1>11, <2>1, <2>2 DEF Writes
<1>14. Reads(e)' /\ Checked(w, e)' /\ Waits(w, 1)'
  <2>1. data # Unread => /\ 0 < data /\ data <= updated[d] /\ links[d].epic = NoIssue
    <3> SUFFICES ASSUME data # Unread
                 PROVE  0 < data /\ data <= updated[d] /\ links[d].epic = NoIssue
      OBVIOUS
    <3>1. d = links[g.issue].epic /\ data = g.epic /\ Reads(g)
      BY DEF Asks
    <3>2. 0 < data /\ data <= updated[d]
      BY <3>1 DEF Reads
    <3>3. links[d].epic = NoIssue
      BY <1>1, <1>3, <3>1, Levels DEF Asks
    <3> QED
      BY <3>2, <3>3
  <2>2. Reads(e)'
    BY <1>4, <1>10, <2>1 DEF Reads
  <2>3. Checked(w, e)'
    BY <1>4 DEF Checked
  <2>4. work'[w].stack[1] = e /\ e.step # "epic" /\ e.step # "write"
    BY <1>4, <1>5, <1>7, <1>10
  <2>5. Waits(w, 1)'
    BY <2>4, First, Zenon DEF Waits
  <2> QED
    BY <2>2, <2>3, <2>5
<1>15. Reads(g)' /\ Checked(w, g)' /\ Waits(w, 2)'
  <2>1. Reads(g)'
    BY <1>10 DEF Asks, Reads
  <2>2. Checked(w, g)'
    BY <1>2, <1>7, <1>10 DEF Asks, Checked
  <2>3. work'[w].stack[2] = g /\ work'[w].stack[2 - 1] = e
    BY <1>5, <1>7, <1>10
  <2>4. Ensured(w, 2, d)'
    BY <1>4, <2>3 DEF Ensured
  <2>5. /\ g.step = "epic" => d = links[g.issue].parent
        /\ g.step = "write" => /\ d = links[g.issue].epic
                               /\ links[g.issue].parent # NoIssue =>
                                    Seen(w, links[g.issue].parent) # 0
        /\ g.step \in {"epic", "write"} /\ d # NoIssue
    BY DEF Asks
  <2>6. links' = links
    BY <1>10
  <2>7. Waits(w, 2)'
    BY <1>11, <2>3, <2>4, <2>5, <2>6 DEF Waits
  <2> QED
    BY <2>1, <2>2, <2>7
<1>16. ASSUME NEW k \in 3..Len(t)
       PROVE  Reads(t[k])' /\ Checked(w, t[k])' /\ Waits(w, k)'
  <2>1. k - 1 \in 1..Len(s) /\ t[k] = s[k - 1] /\ k - 1 > 1 /\ k > 1 /\ k \in Nat
    BY <1>5
  <2>2. Reads(s[k - 1]) /\ Checked(w, s[k - 1]) /\ Waits(w, k - 1)
    BY <1>1, <1>2, <2>1 DEF Sound, Stacks
  <2>3. Reads(t[k])'
    BY <1>10, <2>1, <2>2 DEF Reads
  <2>4. Checked(w, t[k])'
    BY <1>2, <1>7, <1>10, <2>1, <2>2 DEF Checked
  <2>5. ASSUME NEW c, Ensured(w, k - 1, c)
        PROVE  Ensured(w, k, c)'
    <3>1. s[k - 1 - 1].issue = c
      BY <1>2, <2>1, <2>5 DEF Ensured
    <3>2. k - 1 \in 2..Len(t) /\ k # 1
      BY <1>5, <2>1
    <3>3. t[k - 1].issue = c
      BY <1>6, <3>1, <3>2
    <3> QED
      BY <1>7, <1>10, <3>2, <3>3 DEF Ensured
  <2>6. PICK f, l : f = s[k - 1] /\ l = links[f.issue]
    OBVIOUS
  <2>7. work'[w].stack[k] = f /\ links'[f.issue] = l
    BY <1>7, <1>10, <2>1, <2>6
  <2>8. /\ f.step \in {"epic", "write"}
        /\ f.step = "epic" => l.parent # NoIssue /\ Ensured(w, k - 1, l.parent)
        /\ f.step = "write" => /\ l.epic # NoIssue /\ Ensured(w, k - 1, l.epic)
                               /\ l.parent # NoIssue => Seen(w, l.parent) # 0
    BY <1>2, <2>1, <2>2, <2>6 DEF Waits
  <2>9. Waits(w, k)'
    BY <1>11, <2>5, <2>7, <2>8 DEF Waits
  <2> QED
    BY <2>3, <2>4, <2>9
<1>17. Stacks(w)'
  <2>1. ASSUME NEW j \in 1..Len(t), NEW k \in 1..Len(t), j < k
        PROVE  Level(t[k].issue) < Level(t[j].issue)
    <3>1. k \in 2..Len(t) /\ k - 1 \in 1..Len(s)
      BY <1>5, <2>1
    <3>2. Level(s[1].issue) < Level(d) /\ s[1].issue = g.issue
      BY <1>1, <1>2, <1>3, Levels DEF Asks
    <3>3. CASE j = 1
      <4>1. Level(t[k].issue) = Level(s[k - 1].issue) /\ Level(t[j].issue) = Level(d)
        BY <1>4, <1>5, <1>6, <3>1, <3>3
      <4>2. CASE k - 1 = 1
        BY <3>2, <4>1, <4>2
      <4>3. CASE k - 1 # 1
        <5>1. 1 \in 1..Len(s) /\ 1 < k - 1
          BY <1>5, <3>1, <4>3
        <5>2. Level(s[k - 1].issue) < Level(s[1].issue)
          BY <1>1, <1>2, <3>1, <5>1 DEF Sound, Stacks
        <5>3. /\ Level(s[k - 1].issue) \in 0..2 /\ Level(s[1].issue) \in 0..2
              /\ Level(d) \in 0..2
          <6>1. s[k - 1].issue \in Issue /\ s[1].issue \in Issue
            BY <1>1, <1>2, <3>1, <5>1 DEF Frame
          <6> QED
            BY <1>1, <1>3, <6>1, Levels
        <5> QED
          BY <3>2, <4>1, <5>2, <5>3
      <4> QED
        BY <4>2, <4>3
    <3>4. CASE j # 1
      <4>1. j \in 2..Len(t) /\ j - 1 \in 1..Len(s) /\ j - 1 < k - 1
        BY <1>5, <2>1, <3>4
      <4>2. Level(s[k - 1].issue) < Level(s[j - 1].issue)
        BY <1>1, <1>2, <3>1, <4>1 DEF Sound, Stacks
      <4> QED
        BY <1>6, <3>1, <4>1, <4>2
    <3> QED
      BY <3>3, <3>4
  <2>2. ASSUME NEW k \in 1..Len(t)
        PROVE  Reads(t[k])' /\ Checked(w, t[k])' /\ Waits(w, k)'
    <3>1. k = 1 \/ k = 2 \/ k \in 3..Len(t)
      BY <1>5
    <3> QED
      BY <1>5, <1>14, <1>15, <1>16, <3>1
  <2>3. work'[w].stack = t
    BY <1>7, <1>10
  <2> QED
    BY <1>10, <2>1, <2>2, <2>3 DEF Stacks
<1> QED
  BY <1>9, <1>12, <1>13, <1>17, WorksInv DEF Sound

\* The top frame asks for what it depends on, and writes when it has it.
LEMMA ProceedInv ==
  ASSUME Inv, NEW w \in Worker, work[w].stack # <<>>,
         Top(w).step \in {"check", "epic", "write"},
         LET i == Top(w).issue
         IN  /\ work[w].snap[i] = 0 => binding[i] = 0
             /\ work[w].snap[i] <= Top(w).data,
         NEW step \in {"parent", "epic", "write"},
         LET l == links[Top(w).issue]
         IN  /\ step # "parent" /\ l.parent # NoIssue => Seen(w, l.parent) # 0
             /\ step = "write" /\ l.epic # NoIssue => Seen(w, l.epic) # 0,
         Proceed(w, step)
  PROVE  Inv'
<1>1. PICK f, i, l :
        f = Top(w) /\ i = f.issue /\ l = links[i]
  OBVIOUS
<1>2. /\ Typed /\ f \in Frame /\ i \in Issue /\ Reads(f) /\ Checked(w, f) /\ i \in work[w].locks
      /\ f.step \in {"check", "epic", "write"} /\ f.data # Unread
      /\ f.epic = Unread => l.epic = NoIssue
      /\ f.epic # Unread => l.epic # NoIssue
      /\ l.parent # NoIssue => l.parent \in Deps(i)
      /\ l.epic # NoIssue => l.epic \in Deps(i)
  <2>1. Typed /\ f \in Frame /\ i \in Issue /\ Reads(f) /\ Checked(w, f)
    BY <1>1, TopFrame DEF Inv
  <2>2. f.step \in {"check", "epic", "write"} /\ f.step # "lock" /\ i \in work[w].locks
    BY <1>1, <2>1 DEF Checked
  <2>3. /\ f.data # Unread
        /\ f.epic = Unread => l.epic = NoIssue
        /\ f.epic # Unread => l.epic # NoIssue
    BY <1>1, <2>1, <2>2 DEF Reads
  <2> QED
    BY <1>1, <2>1, <2>2, <2>3 DEF Deps
<1>3. /\ work[w].snap[i] = 0 => binding[i] = 0
      /\ work[w].snap[i] <= f.data
      /\ step # "parent" /\ l.parent # NoIssue => Seen(w, l.parent) # 0
      /\ step = "write" /\ l.epic # NoIssue => Seen(w, l.epic) # 0
  BY <1>1
<1>4. PICK epic : epic = IF f.epic = Unread THEN NoIssue ELSE l.epic
  OBVIOUS
<1>5. epic = l.epic
  BY <1>2, <1>4
<1>6. CASE step = "parent" /\ Unbound(w, l.parent)
  <2>1. PICK g : g = [f EXCEPT !.step = "epic"]
    OBVIOUS
  <2>2. /\ g \in Frame /\ g.issue = i /\ g.step = "epic" /\ g.data = f.data
        /\ g.epic = f.epic
    BY <1>1, <1>2, <2>1 DEF Frame, Steps
  <2>3. Reads(g)
    BY <1>1, <1>2, <2>2 DEF Reads
  <2>4. Checked(w, g)
    BY <1>2, <1>3, <2>2 DEF Checked
  <2>5. Asks(w, g, l.parent, Unread)
    BY <1>1, <1>6, <2>2, <2>3, <2>4 DEF Asks, Unbound
  <2>6. Depend(w, g, l.parent, Unread)
    BY <1>1, <1>6, <2>1 DEF Proceed
  <2> QED
    BY <2>5, <2>6, DependInv
<1>7. CASE ~(step = "parent" /\ Unbound(w, l.parent)) /\ step # "write" /\ Unbound(w, epic)
  <2>1. PICK g : g = [f EXCEPT !.step = "write"]
    OBVIOUS
  <2>2. /\ g \in Frame /\ g.issue = i /\ g.step = "write" /\ g.data = f.data
        /\ g.epic = f.epic
    BY <1>1, <1>2, <2>1 DEF Frame, Steps
  <2>3. Reads(g)
    BY <1>1, <1>2, <2>2 DEF Reads
  <2>4. Checked(w, g)
    BY <1>2, <1>3, <2>2 DEF Checked
  <2>5. Asks(w, g, l.epic, f.epic)
    BY <1>1, <1>3, <1>5, <1>7, <2>2, <2>3, <2>4 DEF Asks, Unbound
  <2>6. Depend(w, g, epic, f.epic)
    BY <1>1, <1>4, <1>7, <2>1 DEF Proceed
  <2> QED
    BY <1>5, <2>5, <2>6, DependInv
<1>8. CASE /\ ~(step = "parent" /\ Unbound(w, l.parent))
           /\ ~(step # "write" /\ Unbound(w, epic))
  <2>1. Return(w, f.data)
    BY <1>1, <1>4, <1>8 DEF Proceed
  <2>2. ASSUME NEW d \in Deps(i)
        PROVE  Seen(w, d) # 0
    <3>1. d # NoIssue /\ (d = l.parent \/ d = l.epic)
      BY <1>1 DEF Deps
    <3>2. d = l.parent => Seen(w, d) # 0
      BY <1>3, <1>8, <3>1 DEF Unbound
    <3>3. d = l.epic => Seen(w, d) # 0
      BY <1>3, <1>5, <1>8, <3>1 DEF Unbound
    <3> QED
      BY <3>1, <3>2, <3>3
  <2>3. 0 < f.data /\ f.data <= updated[i] /\ f.data \in Time /\ f.data \in Nat
    <3>1. f.data \in Time
      BY <1>2 DEF Frame
    <3> QED
      BY <1>1, <1>2, <3>1, TimeNat DEF Reads
  <2>4. f.data \notin {0, Keep}
    BY <2>3 DEF Keep
  <2>5. /\ i \in work[w].locks /\ f.data \in Time \cup {Keep} /\ f.data \notin {0, Keep}
        /\ work[w].snap[i] <= f.data /\ f.data <= updated[i]
        /\ work[w].snap[i] = 0 => binding[i] = 0
        /\ \A d \in Deps(i) : Seen(w, d) # 0
    BY <1>2, <1>3, <2>2, <2>3, <2>4
  <2>6. Leaves(w, i, f.data)
    BY <2>5, Zenon DEF Leaves
  <2>7. Leaves(w, Top(w).issue, f.data)
    BY <1>1, <2>6
  <2> QED
    BY <2>1, <2>7, ReturnInv
<1> QED
  BY <1>6, <1>7, <1>8

\* What is seen of the issue of the top frame is what the transaction began with, unless
\* it has been written as a dependency before.
LEMMA TopSeen ==
  ASSUME Inv, NEW w \in Worker, work[w].stack # <<>>
  PROVE  LET i == Top(w).issue
         IN  /\ Seen(w, i) \in Nat /\ work[w].snap[i] \in Nat
             /\ work[w].snap[i] <= Seen(w, i)
             /\ work[w].write[i] \in Time \cup {Keep} /\ work[w].write[i] # 0
             /\ Seen(w, i) # 0 /\ work[w].snap[i] = 0 => binding[i] = 0
<1>1. PICK i : i = Top(w).issue
  OBVIOUS
<1>2. /\ Typed /\ i \in Issue /\ Writes(w, i) /\ Len(work[w].stack) \in Nat \ {0}
      /\ work[w] \in WorkType
  BY <1>1, TopFrame, WorkTypes DEF Inv, Sound
<1>3. /\ work[w].snap[i] \in Nat /\ work[w].write[i] \in Nat \cup {Keep}
      /\ work[w].write[i] \in Time \cup {Keep}
  <2>1. work[w].write \in [Issue -> Time \cup {Keep}]
    BY <1>2 DEF WorkType
  <2> QED
    BY <1>2, <2>1, WorkTypes
<1>4. work[w].write[i] # 0
  <2>1. CASE Len(work[w].stack) = 1
    BY <1>1, <2>1, TopIssue DEF Keep
  <2>2. CASE Len(work[w].stack) > 1
    BY <1>1, <1>2, <2>2, TopIssue DEF Writes, InJira
  <2> QED
    BY <1>2, <2>1, <2>2, Places
<1>5. Seen(w, i) = IF work[w].write[i] = Keep THEN work[w].snap[i] ELSE work[w].write[i]
  BY <1>2 DEF Seen, Written
<1>6. work[w].write[i] # Keep => work[w].snap[i] <= work[w].write[i]
  BY <1>2, <1>4 DEF Writes
<1>7. Seen(w, i) # 0 /\ work[w].snap[i] = 0 => binding[i] = 0
  BY <1>2, <1>5 DEF Writes
<1> QED
  BY <1>1, <1>3, <1>4, <1>5, <1>6, <1>7

\* An issue is looked for once more; it is skipped, retried or imported.
LEMMA CheckInv ==
  ASSUME Inv, NEW w \in Worker, Check(w)
  PROVE  Inv'
<1>1. PICK f, i : f = Top(w) /\ i = f.issue
  OBVIOUS
<1>2. /\ Typed /\ work[w].stack # <<>> /\ f \in Frame /\ f.step = "check" /\ i \in Issue
      /\ Reads(f) /\ i \in work[w].locks /\ work[w].kind = "import"
  BY <1>1, TopFrame DEF Inv, Check, At, Top, Checked
<1>3. /\ Seen(w, i) \in Nat /\ work[w].snap[i] \in Nat
      /\ work[w].snap[i] <= Seen(w, i)
      /\ work[w].write[i] \in Time \cup {Keep} /\ work[w].write[i] # 0
      /\ Seen(w, i) # 0 /\ work[w].snap[i] = 0 => binding[i] = 0
  BY <1>1, <1>2, TopSeen
<1>4. f.data \in Nat /\ 0 < f.data
  <2>1. f.data # Unread
    BY <1>2 DEF Reads
  <2>2. f.data \in Time
    BY <1>2, <2>1 DEF Frame
  <2> QED
    BY <1>2, <2>1, <2>2, TimeNat DEF Reads
<1>5. CASE Seen(w, i) = 0 /\ binding[i] # 0
  BY <1>1, <1>2, <1>5, PostponeInv DEF Check
<1>6. CASE ~(Seen(w, i) = 0 /\ binding[i] # 0) /\ f.data < Seen(w, i)
  <2>1. Return(w, work[w].write[i])
    BY <1>1, <1>6 DEF Check
  <2>2. Seen(w, i) # 0
    BY <1>3, <1>4, <1>6
  <2>3. Leaves(w, i, work[w].write[i])
    BY <1>2, <1>3, <2>2 DEF Leaves
  <2> QED
    BY <1>1, <1>2, <2>1, <2>3, ReturnInv
<1>7. CASE ~(Seen(w, i) = 0 /\ binding[i] # 0) /\ ~(f.data < Seen(w, i))
  <2>1. Proceed(w, "parent")
    BY <1>1, <1>7 DEF Check
  <2>2. work[w].snap[i] = 0 => binding[i] = 0
    BY <1>3, <1>7
  <2>3. work[w].snap[i] <= f.data
    BY <1>3, <1>4, <1>7
  <2> QED
    BY <1>1, <1>2, <2>1, <2>2, <2>3, ProceedInv
<1> QED
  BY <1>5, <1>6, <1>7

\* A frame goes on after a dependency.
LEMMA ResumeInv ==
  ASSUME Inv, NEW w \in Worker, Resume(w)
  PROVE  Inv'
<1>1. PICK step \in {"epic", "write"} : At(w, step) /\ Proceed(w, step)
  BY DEF Resume
<1>2. PICK f, l : f = Top(w) /\ l = links[f.issue]
  OBVIOUS
<1>3. /\ work[w].stack # <<>> /\ f.step = step /\ Checked(w, f) /\ Waits(w, 1)
      /\ work[w].stack[1] = f
  BY <1>1, <1>2, TopFrame DEF At, Top
<1>4. /\ step = "epic" => l.parent # NoIssue /\ Seen(w, l.parent) # 0
      /\ step = "write" => /\ l.epic # NoIssue /\ Seen(w, l.epic) # 0
                           /\ l.parent # NoIssue => Seen(w, l.parent) # 0
  BY <1>2, <1>3 DEF Waits, Ensured
<1>5. /\ work[w].snap[f.issue] = 0 => binding[f.issue] = 0
      /\ work[w].snap[f.issue] <= f.data
  BY <1>1, <1>3 DEF Checked
<1>6. step \in {"parent", "epic", "write"} /\ Top(w).step \in {"check", "epic", "write"}
  BY <1>1, <1>2, <1>3
<1>7. /\ step # "parent" /\ l.parent # NoIssue => Seen(w, l.parent) # 0
      /\ step = "write" /\ l.epic # NoIssue => Seen(w, l.epic) # 0
  BY <1>1, <1>4
<1> QED
  BY <1>1, <1>2, <1>3, <1>5, <1>6, <1>7, ProceedInv

-----------------------------------------------------------------------------
(* The end of a transaction.                                               *)

\* The bindings after w commits.
Bound(w) == [i \in Issue |-> IF i \in Written(w) THEN work[w].write[i] ELSE binding[i]]

\* Bindings stay as Jira allows, a dependency keeps its binding, and what another job
\* has locked without a binding gets none.
LEMMA BoundSound ==
  ASSUME Inv, NEW w \in Worker
  PROVE  /\ Bound(w) \in [Issue -> Time]
         /\ \A i \in Issue :
              /\ Bound(w)[i] <= updated[i]
              /\ \A d \in Deps(i) : /\ binding[d] # 0 => Bound(w)[d] # 0
                                    /\ Bound(w)[i] # 0 => Bound(w)[d] # 0
              /\ \A v \in Worker \ {w} :
                   i \in work[v].locks /\ binding[i] = 0 => Bound(w)[i] = 0
<1>1. /\ Typed /\ work[w] \in WorkType
      /\ \A i \in Issue : Writes(w, i) /\ binding[i] \in Time /\ binding[i] <= updated[i]
      /\ \A i \in Issue : updated[i] \in Nat /\ 0 <= updated[i]
      /\ \A i \in Issue : work[w].write[i] \in Time \cup {Keep}
  <2>1. Typed /\ World /\ \A i \in Issue : Writes(w, i)
    BY DEF Inv, Sound
  <2>2. work[w] \in WorkType
    BY <2>1, WorkTypes
  <2>3. \A i \in Issue : binding[i] \in Time /\ binding[i] <= updated[i]
    BY <2>1 DEF Typed, World
  <2>4. \A i \in Issue : updated[i] \in Nat /\ 0 <= updated[i]
    BY <2>1, TimeTypes DEF Typed
  <2>5. \A i \in Issue : work[w].write[i] \in Time \cup {Keep}
    BY <2>2 DEF WorkType
  <2> QED
    BY <2>1, <2>2, <2>3, <2>4, <2>5
<1>2. \A i \in Issue : Bound(w)[i] = IF work[w].write[i] # Keep THEN work[w].write[i] ELSE binding[i]
  BY DEF Bound, Written
<1>3. Bound(w) \in [Issue -> Time]
  <2>1. \A i \in Issue : (IF i \in Written(w) THEN work[w].write[i] ELSE binding[i]) \in Time
    BY <1>1 DEF Written
  <2> QED
    BY <2>1 DEF Bound
<1>4. ASSUME NEW i \in Issue
      PROVE  Bound(w)[i] <= updated[i]
  BY <1>1, <1>2 DEF Writes
<1>5. ASSUME NEW i \in Issue, NEW d \in Deps(i)
      PROVE  /\ d \in Issue /\ work[w].write[d] # 0
             /\ binding[d] # 0 => Bound(w)[d] # 0
  <2>1. d \in Issue /\ d \notin deleted
    BY <1>1, LinkTypes DEF Inv, World
  <2>2. work[w].write[d] # 0
    BY <1>1, <2>1 DEF Writes
  <2> QED
    BY <1>2, <2>1, <2>2
<1>6. ASSUME NEW i \in Issue, NEW d \in Deps(i), Bound(w)[i] # 0
      PROVE  Bound(w)[d] # 0
  <2>1. d \in Issue /\ work[w].write[d] # 0
    BY <1>5
  <2>2. CASE work[w].write[i] = Keep
    <3>1. binding[d] # 0
      BY <1>2, <1>6, <2>2 DEF Inv, World
    <3> QED
      BY <1>5, <3>1
  <2>3. CASE work[w].write[i] # Keep
    <3>1. Seen(w, d) # 0
      BY <1>1, <1>2, <1>6, <2>3 DEF Writes
    <3>2. CASE work[w].write[d] # Keep
      BY <1>2, <2>1, <3>2
    <3>3. CASE work[w].write[d] = Keep
      <4>1. work[w].snap[d] # 0
        BY <3>1, <3>3 DEF Seen, Written
      <4>2. binding[d] # 0
        BY <1>1, <4>1 DEF Writes
      <4> QED
        BY <1>5, <4>2
    <3> QED
      BY <3>2, <3>3
  <2> QED
    BY <2>2, <2>3
<1>7. ASSUME NEW i \in Issue, NEW v \in Worker \ {w}, i \in work[v].locks, binding[i] = 0
      PROVE  Bound(w)[i] = 0
  <2>1. i \notin work[w].locks
    BY <1>7 DEF Inv, LocksExclusive
  <2>2. work[w].write[i] # Keep => work[w].write[i] = 0
    BY <1>1, <2>1 DEF Writes
  <2> QED
    BY <1>2, <1>7, <2>2
<1> QED
  BY <1>3, <1>4, <1>5, <1>6, <1>7

\* A job that commits is not in the way of the others.
LEMMA SaveInv ==
  ASSUME Inv, NEW w \in Worker, Save(w)
  PROVE  Inv'
<1>0. Typed
  BY DEF Inv
<1>1. PICK b, S : b = Bound(w) /\ S = Written(w)
  OBVIOUS
<1>2. /\ binding' = b
      /\ work' = [v \in Worker |->
                     IF v = w \/ work[v] = NoWork THEN NoWork
                     ELSE [work[v] EXCEPT !.stale = @ \cup S]]
      /\ UNCHANGED <<jira, queue, failed, timestamp, until>>
  BY <1>1 DEF Save, Bound
<1>3. /\ b \in [Issue -> Time]
      /\ \A i \in Issue :
           /\ b[i] <= updated[i]
           /\ \A d \in Deps(i) : (binding[d] # 0 => b[d] # 0) /\ (b[i] # 0 => b[d] # 0)
           /\ \A v \in Worker \ {w} : i \in work[v].locks /\ binding[i] = 0 => b[i] = 0
           /\ i \notin S => b[i] = binding[i]
  <2>1. \A i \in Issue : i \notin S => b[i] = binding[i]
    BY <1>1 DEF Bound
  <2> QED
    BY <1>1, <2>1, BoundSound
<1>4. UNCHANGED <<now, updated, deleted, links, imports, deletions, failed, timestamp, until>>
  BY <1>2 DEF jira, queue
<1>5. Later /\ \A i : Deps(i)' = Deps(i) /\ Level(i)' = Level(i)
  BY <1>0, <1>4, SameJira, SameLinks
<1>6. ASSUME NEW v \in Worker, v # w, work[v] # NoWork
      PROVE  /\ work'[v] \in WorkType
             /\ work'[v].kind = work[v].kind /\ work'[v].job = work[v].job
             /\ work'[v].stack = work[v].stack /\ work'[v].locks = work[v].locks
             /\ work'[v].snap = work[v].snap /\ work'[v].write = work[v].write
             /\ work'[v].stale = work[v].stale \cup S
  <2>1. PICK V, W : V = work[v] /\ W = [V EXCEPT !.stale = V.stale \cup S]
    OBVIOUS
  <2>2. V \in WorkType /\ S \subseteq Issue
    BY <1>0, <1>1, <2>1, WorkTypes DEF Written
  <2>3. work'[v] = W
    BY <1>2, <1>6, <2>1
  <2>4. /\ W \in WorkType /\ W.kind = V.kind /\ W.job = V.job /\ W.stack = V.stack
        /\ W.locks = V.locks /\ W.snap = V.snap /\ W.write = V.write
        /\ W.stale = V.stale \cup S
    BY <2>1, <2>2 DEF WorkType
  <2> QED
    BY <2>1, <2>3, <2>4
<1>7. \A v \in Worker : v = w \/ work[v] = NoWork => work'[v] = NoWork
  BY <1>2
<1>8. Typed'
  <2>1. NoWork \in WorkType
    BY <1>0, NoWorkType
  <2>2. \A v \in Worker : work'[v] \in WorkType
    BY <1>6, <1>7, <2>1
  <2>3. work' \in [Worker -> WorkType]
    BY <1>2, <2>2
  <2> QED
    BY <1>0, <1>2, <1>3, <1>4, <2>3 DEF Typed
<1>9. World'
  BY <1>2, <1>3, <1>4, <1>5, LeftLater DEF Inv, World
<1>10. LocksExclusive'
  <2>1. \A v \in Worker : work'[v].locks = {} \/ work'[v].locks = work[v].locks
    <3>1. NoWork.locks = {}
      BY DEF NoWork
    <3> QED
      BY <1>6, <1>7, <3>1
  <2> QED
    BY <2>1 DEF Inv, LocksExclusive
<1>11. ASSUME NEW v \in Worker, v # w, work[v] # NoWork
       PROVE  Sound(v)'
  <2>1. Sound(v) /\ v \in Worker \ {w}
    BY <1>11 DEF Inv
  <2>2. \A i : Seen(v, i)' = Seen(v, i)
    BY <1>6, <1>11 DEF Seen, Written
  <2>3. Jobs(v)'
    <3>1. work[v].kind # "idle"
      BY <1>11, <2>1 DEF Sound, Jobs
    <3> QED
      BY <1>4, <1>6, <1>11, <2>1, <3>1 DEF Sound, Jobs
  <2>4. ASSUME NEW i \in Issue
        PROVE  Writes(v, i)'
    <3>1. Writes(v, i)
      BY <2>1 DEF Sound
    <3>2. /\ work'[v].kind = work[v].kind /\ work'[v].locks = work[v].locks
          /\ work'[v].snap = work[v].snap /\ work'[v].write = work[v].write
          /\ work'[v].stale = work[v].stale \cup S
      BY <1>6, <1>11
    <3>3. /\ i \notin S => binding'[i] = binding[i]
          /\ i \in work[v].locks /\ binding[i] = 0 => binding'[i] = 0
          /\ \A d \in Deps(i) : binding[d] # 0 => binding'[d] # 0
      BY <1>2, <1>3, <2>1
    <3>4. /\ work[v].snap[i] <= updated[i]
          /\ work[v].kind # "idle" /\ i \notin work[v].stale => work[v].snap[i] = binding[i]
          /\ \A d \in Deps(i) : work[v].snap[d] # 0 => binding[d] # 0
          /\ work[v].write[i] # Keep /\ (work[v].write[i] # 0 \/ work[v].snap[i] = 0)
               => i \in work[v].locks
          /\ work[v].write[i] # Keep /\ work[v].snap[i] = 0 => binding[i] = 0
      BY <3>1 DEF Writes
    <3>5. /\ work[v].kind # "idle" /\ i \notin work'[v].stale => work[v].snap[i] = binding'[i]
          /\ work[v].write[i] # Keep /\ work[v].snap[i] = 0 => binding'[i] = 0
      BY <3>2, <3>3, <3>4
    <3> QED
      BY <1>4, <1>5, <2>2, <3>1, <3>2, <3>3, <3>5 DEF Writes
  <2>5. ASSUME NEW k \in 1..Len(work[v].stack)
        PROVE  Reads(work[v].stack[k])' /\ Checked(v, work[v].stack[k])' /\ Waits(v, k)'
    <3>1. PICK f : f = work[v].stack[k]
      OBVIOUS
    <3>2. f \in Frame /\ f.issue \in Issue /\ Reads(f) /\ Checked(v, f) /\ Waits(v, k)
      BY <1>0, <2>1, <3>1, WorkTypes DEF Sound, Stacks, Frame
    <3>3. work'[v].stack = work[v].stack
      BY <1>6, <1>11
    <3>4. Reads(f)'
      BY <1>4, <3>2 DEF Reads
    <3>5. Checked(v, f)'
      <4>1. f.issue \in work[v].locks /\ binding[f.issue] = 0 => binding'[f.issue] = 0
        BY <1>2, <1>3, <2>1, <3>2
      <4> QED
        BY <1>6, <1>11, <3>2, <4>1 DEF Checked
    <3>6. Waits(v, k)'
      BY <1>4, <2>2, <3>2, <3>3 DEF Waits, Ensured
    <3> QED
      BY <3>1, <3>3, <3>4, <3>5, <3>6
  <2>6. Stacks(v)'
    <3>1. work'[v].stack = work[v].stack
      BY <1>6, <1>11
    <3> QED
      BY <1>5, <2>1, <2>5, <3>1 DEF Sound, Stacks
  <2> QED
    BY <2>3, <2>4, <2>6 DEF Sound
<1>12. \A v \in Worker : v = w \/ work[v] = NoWork => Sound(v)'
  BY <1>7, <1>8, IdleSoundNext DEF IdleFine
<1> QED
  BY <1>8, <1>9, <1>10, <1>11, <1>12 DEF Inv

\* An executed job commits, or is pending again.
LEMMA CommitInv ==
  ASSUME Inv, NEW w \in Worker, Commit(w)
  PROVE  Inv'
  BY SaveInv, UndoInv DEF Commit

\* A postponed one commits what it has written, or nothing.
LEMMA CloseInv ==
  ASSUME Inv, NEW w \in Worker, Close(w)
  PROVE  Inv'
<1>1. CASE Save(w)
  BY <1>1, SaveInv
<1>2. CASE ~Save(w)
  BY <1>2, RestInv DEF Close, queue, Inv, World, Typed
<1> QED
  BY <1>1, <1>2

-----------------------------------------------------------------------------
(* Theorems.                                                               *)

\* The initial state is as it should be.
LEMMA InitInv == Init => Inv
<1> SUFFICES ASSUME Init
             PROVE  Inv
  OBVIOUS
<1>1. 0 \in Time /\ 1 \in 1..MaxTime
  BY JiraAssumption DEF Time
<1>2. Typed
  <2>1. NoWork \in WorkType
    <3>1. <<>> \in Seq(Frame)
      BY EmptySeq
    <3> QED
      BY <1>1, <3>1 DEF NoWork, WorkType
  <2> QED
    BY <1>1, <2>1 DEF Init, Typed
<1>3. World
  BY <1>2, LinkTypes DEF Init, World
<1>4. LocksExclusive
  BY DEF Init, LocksExclusive, NoWork
<1>5. \A w \in Worker : Sound(w)
  BY <1>2, IdleSound DEF Init, IdleFine
<1> QED
  BY <1>2, <1>3, <1>4, <1>5 DEF Inv

\* Every step keeps the invariant.
LEMMA NextInv == Inv /\ [Next]_vars => Inv'
<1> SUFFICES ASSUME Inv, [Next]_vars
             PROVE  Inv'
  OBVIOUS
<1>1. CASE Tick
  BY <1>1, TickInv
<1>2. ASSUME NEW i \in Issue, Change(i) \/ Delete(i)
      PROVE  Inv'
  BY <1>2, ChangeInv, DeleteInv
<1>3. ASSUME NEW w \in Worker, NEW i \in Issue, StartImport(w, i) \/ StartDeletion(w, i)
      PROVE  Inv'
  BY <1>3, StartImportInv, StartDeletionInv
<1>4. ASSUME NEW w \in Worker, WorkStep(w)
      PROVE  Inv'
  BY <1>4, LockInv, ReadInv, ReadEpicInv, CheckInv, ResumeInv, CommitInv, CloseInv
  DEF WorkStep
<1>5. ASSUME NEW w \in Worker, Abort(w)
      PROVE  Inv'
  BY <1>5, AbortInv
<1>6. CASE LockTimestamp \/ Search \/ AbortSearch
  BY <1>6, SearchInv
<1>7. CASE UNCHANGED vars
  <2>1. Typed /\ UNCHANGED <<updated, deleted, links, work, binding>>
    BY <1>7 DEF Inv, vars
  <2>2. Typed' /\ World'
    BY <1>7 DEF Inv, Typed, World, Left, Deps, vars
  <2> QED
    BY <2>1, <2>2, SameJira, OutsideInv
<1>8. ASSUME NEW f \in failed, Requeue(f)
      PROVE  Inv'
  BY <1>8, RequeueInv
<1> QED
  BY <1>1, <1>2, <1>3, <1>4, <1>5, <1>6, <1>7, <1>8 DEF Next

\* The inductive invariant holds in every reachable state.
LEMMA Invariance == Spec => []Inv
  BY InitInv, NextInv, PTL DEF Spec

\* The state of Jira, of the bindings and of the jobs is what it should be.
THEOREM Typing == Spec => []TypeOK
<1>1. Inv => TypeOK
  <2> SUFFICES ASSUME Inv
               PROVE  TypeOK
    OBVIOUS
  <2>1. Typed /\ now \in Time
    BY JiraAssumption DEF Inv, Typed, Time
  <2>2. ASSUME NEW w \in Worker
        PROVE  /\ work[w].kind \in {"idle", "import", "delete", "closing"}
               /\ work[w].locks \subseteq Issue /\ work[w].stale \subseteq Issue
               /\ work[w].snap \in [Issue -> Time]
               /\ work[w].write \in [Issue -> Time \cup {Keep}]
    BY <2>1, WorkTypes DEF WorkType
  <2>3. ASSUME NEW w \in Worker, NEW k \in 1..Len(work[w].stack)
        PROVE  /\ work[w].stack[k] \in Frame
               /\ work[w].stack[k].data = Unread =>
                    work[w].stack[k].step \in {"lock", "read"}
    <3>1. work[w].stack[k] \in Frame /\ Reads(work[w].stack[k])
      BY <2>1, WorkTypes DEF Inv, Sound, Stacks
    <3> QED
      BY <3>1 DEF Frame, Steps, Reads
  <2>4. failed \subseteq FailedJob
    BY DEF Inv, World, Left
  <2> QED
    BY <2>1, <2>2, <2>3, <2>4 DEF TypeOK, Typed
<1> QED
  BY <1>1, Invariance, PTL

\* The locks and the look from a new transaction make the binding of an issue created
\* once: nobody meets the unique constraint.
THEOREM CreatedByOne == Spec => []CreatedOnce
<1>1. Inv => CreatedOnce
  <2> SUFFICES ASSUME Inv, NEW w \in Worker, NEW i \in Issue, Creates(w, i)
               PROVE  /\ binding[i] = 0
                      /\ \A v \in Others(w) : ~Creates(v, i)
    BY DEF CreatedOnce
  <2>1. \A v \in Worker : Creates(v, i) => i \in work[v].locks /\ binding[i] = 0
    BY DEF Inv, Sound, Writes, Creates, Written
  <2>2. \A v \in Others(w) : i \notin work[v].locks
    BY <2>1 DEF Inv, LocksExclusive, Others
  <2> QED
    BY <2>1, <2>2 DEF Others
<1> QED
  BY <1>1, Invariance, PTL

\* An issue is bound after what it depends on, whoever bound that, and no deletion takes
\* the binding of a dependency away.
THEOREM DependenciesFirst == Spec => []DependenciesBound
<1>1. Inv => DependenciesBound
  BY DEF Inv, World, Deps, DependenciesBound
<1> QED
  BY <1>1, Invariance, PTL

-----------------------------------------------------------------------------
(* No change is lost.                                                      *)

\* A job that had not read the change of the issue i, or brought it, waits for a user.
Parked(i) == [kind |-> "import", issue |-> i, change |-> updated[i]] \in failed

\* A change that Odoo does not have will come.
Due(i) ==
  InJira(i) /\ binding[i] # updated[i] =>
    \/ timestamp <= updated[i] \/ i \in imports
    \/ (\E w \in Worker : Holds(w, i)) \/ Parked(i)

\* NothingLost, issue by issue, before a step.
LEMMA AllDue == NothingLost <=> \A i \in Issue : Due(i)
  BY DEF NothingLost, Due, Parked

\* The same after a step.
LEMMA AllDueNext == NothingLost' <=> \A i \in Issue : Due(i)'
  BY Zenon DEF NothingLost, Due, Parked

\* A step of a job that binds nothing loses nothing when what the job handles, or what it
\* takes out of the queue, is handled by it, or is in the queue, afterwards.
LEMMA WorkDue ==
  ASSUME Inv, NothingLost, NEW w \in Worker,
         UNCHANGED <<jira, binding, timestamp>>, failed \subseteq failed',
         \A v \in Worker \ {w} : work'[v] = work[v],
         \A i \in Issue : InJira(i) /\ (i \in imports \/ Holds(w, i)) =>
                           i \in imports' \/ Holds(w, i)' \/ Parked(i)'
  PROVE  NothingLost'
<1> SUFFICES ASSUME NEW i \in Issue
             PROVE  Due(i)'
  BY AllDueNext
<1>1. UNCHANGED <<updated, deleted, binding, timestamp>>
  BY DEF jira
<1>2. Due(i)
  BY AllDue
<1>3. \A v \in Worker \ {w} : Holds(v, i) => Holds(v, i)'
  BY <1>1 DEF Holds
<1>4. InJira(i)' = InJira(i) /\ (Parked(i) => Parked(i)')
  BY <1>1 DEF InJira, Parked
<1> QED
  BY <1>1, <1>2, <1>3, <1>4 DEF Due

\* A job that is postponed, or undone, is queued again.
LEMMA RetryDue ==
  ASSUME Inv, NothingLost, NEW w \in Worker, Postpone(w) \/ Undo(w)
  PROVE  NothingLost'
<1>1. /\ UNCHANGED <<jira, binding, failed, timestamp>>
      /\ \A v \in Worker \ {w} : work'[v] = work[v]
  BY DEF Postpone, Undo, Inv, Typed
<1>2. \A i \in Issue : i \in imports \/ Holds(w, i) => i \in imports'
  BY DEF Postpone, Undo, Holds
<1> QED
  BY <1>1, <1>2, WorkDue

\* A job that fails keeps the change it had, for the user who requeues it.
LEMMA AbortDue ==
  ASSUME Inv, NothingLost, NEW w \in Worker, Abort(w)
  PROVE  NothingLost'
<1>1. /\ UNCHANGED <<jira, binding, timestamp>> /\ failed \subseteq failed'
      /\ UNCHANGED <<updated, imports>>
      /\ \A v \in Worker \ {w} : work'[v] = work[v]
  BY DEF Abort, Inv, Typed, jira, queue
<1>2. ASSUME NEW i \in Issue, Holds(w, i)
      PROVE  Parked(i)'
  <2>1. work[w].kind = "import" /\ work[w].job = i
    BY <1>2 DEF Holds
  <2>2. [kind |-> "import", issue |-> i, change |-> updated[i]] \in failed'
    BY <1>2, <2>1 DEF Abort
  <2> QED
    BY <1>1, <2>2 DEF Parked
<1> QED
  BY <1>1, <1>2, WorkDue

\* Requeued, it is pending.
LEMMA RequeueDue ==
  ASSUME Inv, NothingLost, NEW f \in failed, Requeue(f)
  PROVE  NothingLost'
<1> SUFFICES ASSUME NEW i \in Issue
             PROVE  Due(i)'
  BY AllDueNext
<1>1. UNCHANGED <<updated, deleted, binding, work, timestamp>> /\ imports \subseteq imports'
  BY DEF Requeue, jira
<1>2. Due(i) /\ InJira(i)' = InJira(i) /\ \A w \in Worker : Holds(w, i)' = Holds(w, i)
  BY <1>1, AllDue DEF InJira, Holds
<1>3. Parked(i) => Parked(i)' \/ i \in imports'
  BY <1>1 DEF Parked, Requeue
<1> QED
  BY <1>1, <1>2, <1>3 DEF Due

\* A job that begins takes its issue out of the queue to read it.
LEMMA StartDue ==
  ASSUME Inv, NothingLost, NEW w \in Worker, NEW i \in Issue,
         StartImport(w, i) \/ StartDeletion(w, i)
  PROVE  NothingLost'
<1>1. /\ UNCHANGED <<jira, binding, failed, timestamp>> /\ work[w] = NoWork
      /\ \A v \in Worker \ {w} : work'[v] = work[v]
  BY DEF StartImport, StartDeletion, Inv, Typed
<1>2. \A j \in Issue : ~Holds(w, j)
  <2>1. work[w].kind = "idle"
    BY <1>1 DEF NoWork
  <2> QED
    BY <2>1 DEF Holds
<1>3. CASE StartDeletion(w, i)
  BY <1>1, <1>2, <1>3, WorkDue DEF StartDeletion
<1>4. CASE StartImport(w, i)
  <2>1. PICK f, s : f = NewFrame(i, Unread) /\ s = <<f>>
    OBVIOUS
  <2>2. Len(s) = 1 /\ s[1] = f /\ f.issue = i /\ f.data = Unread
    BY <2>1 DEF NewFrame
  <2>3. work'[w].kind = "import" /\ work'[w].job = i /\ work'[w].stack = s
    <3>1. PICK W : W = [NoWork EXCEPT !.kind = "import", !.job = i, !.snap = binding, !.stack = s]
      OBVIOUS
    <3>2. W.kind = "import" /\ W.job = i /\ W.stack = s
      BY <3>1 DEF NoWork
    <3>3. work' = [work EXCEPT ![w] = W]
      BY <1>4, <2>1, <3>1 DEF StartImport
    <3> QED
      BY <3>2, <3>3 DEF Inv, Typed
  <2>4. 1 \in 1..Len(work'[w].stack)
    BY <2>2, <2>3
  <2>5. Holds(w, i)'
    <3>1. work'[w].stack[1].issue = i /\ work'[w].stack[1].data = Unread
      BY <2>2, <2>3
    <3> QED
      BY <2>3, <2>4, <3>1, SMTT(30) DEF Holds
  <2>6. \A j \in Issue : j \in imports => j \in imports' \/ j = i
    BY <1>4 DEF StartImport
  <2> QED
    BY <1>1, <1>2, <2>5, <2>6, WorkDue
<1> QED
  BY <1>3, <1>4

\* The top frame goes on with the data it had, or with those of Jira.
LEMMA AdvanceDue ==
  ASSUME Inv, NothingLost, NEW w \in Worker, work[w].stack # <<>>,
         NEW g \in Frame, g.issue = Top(w).issue,
         g.data = Top(w).data \/ g.data = updated[g.issue],
         NEW W, Continues(work[w], W, g),
         work' = [work EXCEPT ![w] = W], UNCHANGED <<jira, binding, queue, failed, timestamp, until>>
  PROVE  NothingLost'
<1>1. /\ Typed /\ work[w].stack \in Seq(Frame) /\ Len(work[w].stack) \in Nat \ {0}
      /\ Top(w) = work[w].stack[1] /\ work'[w] = W
      /\ \A v \in Worker \ {w} : work'[v] = work[v]
      /\ UNCHANGED <<updated, imports, failed>>
  BY WorkTypes, TopFrame DEF Inv, Typed, jira, queue
<1>2. PICK s, t : s = work[w].stack /\ t = W.stack
  OBVIOUS
<1>3. Len(t) = Len(s) /\ t[1] = g /\ \A k \in 2..Len(s) : t[k] = s[k]
  <2>1. s \in Seq(Frame) /\ s # <<>> /\ t = <<g>> \o Tail(s)
    BY <1>1, <1>2 DEF Continues
  <2> QED
    BY <2>1, Replaced
<1>4. ASSUME NEW i \in Issue, Holds(w, i)
      PROVE  Holds(w, i)'
  <2>1. /\ work'[w].job = i /\ work'[w].kind = "import" /\ work'[w].write = work[w].write
        /\ work'[w].stack = t
    BY <1>1, <1>2, <1>4 DEF Holds, Continues
  <2>2. ASSUME NEW k \in 1..Len(s), s[k].issue = i, s[k].data \in {Unread, updated[i]}
        PROVE  t[k].issue = i /\ t[k].data \in {Unread, updated[i]}
    <3>1. k = 1 \/ k \in 2..Len(s)
      BY <1>1, <1>2, Places
    <3>2. k = 1 => t[k] = g /\ g.issue = i /\ g.data \in {s[k].data, updated[i]}
      BY <1>1, <1>2, <1>3, <2>2
    <3> QED
      BY <1>3, <2>2, <3>1, <3>2
  <2>3. CASE work[w].write[i] = updated[i]
    BY <1>1, <2>1, <2>3 DEF Holds
  <2>4. CASE \E k \in 1..Len(s) : s[k].issue = i /\ s[k].data \in {Unread, updated[i]}
    <3>1. \E k \in 1..Len(t) : t[k].issue = i /\ t[k].data \in {Unread, updated[i]}
      BY <1>3, <2>2, <2>4
    <3> QED
      BY <1>1, <2>1, <3>1 DEF Holds
  <2> QED
    BY <1>2, <1>4, <2>3, <2>4 DEF Holds
<1> QED
  BY <1>1, <1>4, WorkDue

\* A frame that takes its lock handles its issue as before.
LEMMA LockDue ==
  ASSUME Inv, NothingLost, NEW w \in Worker, Lock(w)
  PROVE  NothingLost'
<1>1. work[w].stack # <<>> /\ Top(w) \in Frame
  BY TopFrame DEF Lock, At, Top
<1>2. CASE Top(w).issue \in Locked(w)
  BY <1>2, RetryDue DEF Lock
<1>3. CASE Top(w).issue \notin Locked(w)
  <2>1. PICK f, g, W :
          /\ f = Top(w)
          /\ g = [f EXCEPT !.step = IF f.data = Unread THEN "read" ELSE "check"]
          /\ W = [work[w] EXCEPT !.locks = @ \cup {g.issue},
                                 !.stack = <<g>> \o Tail(work[w].stack)]
    OBVIOUS
  <2>2. g \in Frame /\ g.issue = f.issue /\ g.data = f.data
    BY <1>1, <2>1 DEF Frame, Steps
  <2>3. /\ work' = [work EXCEPT ![w] = W]
        /\ UNCHANGED <<jira, binding, queue, failed, timestamp, until>>
    BY <1>3, <2>1, <2>2 DEF Lock
  <2>4. Continues(work[w], W, g)
    BY <1>1, <2>1, <2>2, Continued
  <2> QED
    BY <1>1, <2>1, <2>2, <2>3, <2>4, AdvanceDue
<1> QED
  BY <1>2, <1>3

\* So does one that reads.
LEMMA StepDue ==
  ASSUME Inv, NothingLost, NEW w \in Worker, work[w].stack # <<>>,
         Top(w).issue \in work[w].locks, NEW g \in Frame, g.issue = Top(w).issue,
         g.data = Top(w).data \/ g.data = updated[g.issue], Step(w, g)
  PROVE  NothingLost'
<1>1. PICK W : W = [work[w] EXCEPT !.locks = @ \cup {g.issue},
                                   !.stack = <<g>> \o Tail(work[w].stack)]
  OBVIOUS
<1>2. /\ work' = [work EXCEPT ![w] = W]
      /\ UNCHANGED <<jira, binding, queue, failed, timestamp, until>>
  BY <1>1, Stepped
<1>3. Continues(work[w], W, g)
  BY <1>1, Continued
<1> QED
  BY <1>2, <1>3, AdvanceDue

\* The issue of the job is read by its first frame, which writes what Jira still shows or
\* an issue that is not there any more.
LEMMA ReturnDue ==
  ASSUME Inv, NothingLost, NEW w \in Worker, work[w].stack # <<>>, NEW value,
         Return(w, value),
         LET f == Top(w)
         IN  InJira(f.issue) /\ f.data \in {Unread, updated[f.issue]} /\
               work[w].write[f.issue] = Keep => value = updated[f.issue]
  PROVE  NothingLost'
<1>1. /\ Typed /\ work[w] \in WorkType /\ work[w].stack \in Seq(Frame)
      /\ Len(work[w].stack) \in Nat \ {0}
      /\ Top(w) = work[w].stack[1] /\ Top(w).issue \in Issue
  BY WorkTypes, TopFrame DEF Inv
<1>2. PICK s, t, i, V, W :
        /\ s = work[w].stack /\ t = Tail(s) /\ i = Top(w).issue /\ V = work[w]
        /\ W = [V EXCEPT !.stack = t, !.write = [V.write EXCEPT ![i] = value]]
  OBVIOUS
<1>3. /\ Len(t) = Len(s) - 1 /\ Len(s) \in Nat \ {0}
      /\ \A k \in 1..Len(t) : t[k] = s[k + 1]
  <2>1. s \in Seq(Frame) /\ s # <<>>
    BY <1>1, <1>2
  <2> QED
    BY <1>2, <2>1, Popped
<1>4. /\ W.stack = t /\ W.kind = V.kind /\ W.job = V.job
      /\ \A j \in Issue : W.write[j] = IF j = i THEN value ELSE V.write[j]
  <2>1. V \in WorkType /\ V.write \in [Issue -> Time \cup {Keep}]
    BY <1>1, <1>2 DEF WorkType
  <2> QED
    BY <1>1, <1>2, <2>1 DEF WorkType
<1>5. /\ work' = [work EXCEPT ![w] = W] /\ work'[w] = W /\ UNCHANGED <<updated, imports>>
      /\ UNCHANGED <<jira, binding, failed, timestamp>> /\ \A v \in Worker \ {w} : work'[v] = work[v]
  BY <1>1, <1>2 DEF Return, jira, queue, Typed
<1>6. ASSUME NEW j \in Issue, InJira(j), Holds(w, j)
      PROVE  Holds(w, j)'
  <2>1. /\ work'[w].job = j /\ work'[w].kind = "import" /\ work'[w].stack = t
        /\ work'[w].write[j] = IF j = i THEN value ELSE V.write[j]
        /\ V.job = j
    BY <1>2, <1>4, <1>5, <1>6 DEF Holds
  <2>2. CASE i = j
    <3>1. Len(s) = 1 /\ V.write[i] = Keep
      <4>1. ~(Len(s) > 1)
        BY <1>2, <2>1, <2>2, TopIssue
      <4>2. Len(s) = 1
        BY <1>3, <4>1, Places
      <4> QED
        BY <1>2, <4>2, TopIssue
    <3>2. V.write[i] # updated[i]
      <4>1. updated[i] \in Nat
        BY <1>1, <1>2, TimeTypes
      <4> QED
        BY <3>1, <4>1 DEF Keep
    <3>3. \A k \in 1..Len(s) : s[k] = Top(w)
      BY <1>1, <1>2, <3>1
    <3>4. Top(w).data \in {Unread, updated[i]}
      BY <1>2, <1>6, <2>2, <3>2, <3>3 DEF Holds
    <3>5. value = updated[i]
      BY <1>2, <1>6, <2>2, <3>1, <3>4
    <3> QED
      BY <1>5, <2>1, <2>2, <3>5 DEF Holds
  <2>3. CASE i # j
    <3>1. CASE V.write[j] = updated[j]
      BY <1>5, <2>1, <2>3, <3>1 DEF Holds
    <3>2. ASSUME NEW k \in 1..Len(s), s[k].issue = j, s[k].data \in {Unread, updated[j]}
          PROVE  Holds(w, j)'
      <4>1. k # 1
        BY <1>1, <1>2, <2>3, <3>2
      <4>2. k - 1 \in 1..Len(t) /\ (k - 1) + 1 = k
        BY <1>3, <4>1
      <4>3. t[k - 1] = s[k]
        BY <1>3, <4>2
      <4> QED
        BY <1>5, <2>1, <3>2, <4>2, <4>3 DEF Holds
    <3> QED
      BY <1>2, <1>6, <3>1, <3>2 DEF Holds
  <2> QED
    BY <2>2, <2>3
<1> QED
  BY <1>5, <1>6, WorkDue

\* A frame that waits for a dependency keeps what it has read.
LEMMA DependDue ==
  ASSUME Inv, NothingLost, NEW w \in Worker, work[w].stack # <<>>,
         NEW g \in Frame, g.issue = Top(w).issue, g.data = Top(w).data,
         NEW d \in Issue, NEW data \in Time \cup {Unread}, Depend(w, g, d, data)
  PROVE  NothingLost'
<1>1. /\ Typed /\ work[w] \in WorkType /\ work[w].stack \in Seq(Frame)
      /\ Len(work[w].stack) \in Nat \ {0} /\ Top(w) = work[w].stack[1]
  BY WorkTypes, TopFrame DEF Inv
<1>2. PICK s, t, e, V, W :
        /\ s = work[w].stack /\ V = work[w] /\ e = NewFrame(d, data)
        /\ t = <<e, g>> \o Tail(s) /\ W = [V EXCEPT !.stack = t]
  OBVIOUS
<1>3. e \in Frame
  BY <1>2 DEF NewFrame, Frame, Steps
<1>4. /\ Len(t) = Len(s) + 1 /\ Len(s) \in Nat \ {0}
      /\ t[2] = g /\ \A k \in 3..Len(t) : t[k] = s[k - 1]
  <2>1. s \in Seq(Frame) /\ s # <<>>
    BY <1>1, <1>2
  <2> QED
    BY <1>2, <1>3, <2>1, Pushed
<1>5. W.stack = t /\ W.kind = V.kind /\ W.job = V.job /\ W.write = V.write
  <2>1. V \in WorkType
    BY <1>1, <1>2
  <2> QED
    BY <1>2, <2>1 DEF WorkType
<1>6. /\ work'[w] = W /\ UNCHANGED <<updated, imports>>
      /\ UNCHANGED <<jira, binding, failed, timestamp>> /\ \A v \in Worker \ {w} : work'[v] = work[v]
  <2>1. W = [work[w] EXCEPT !.stack = <<NewFrame(d, data), g>> \o Tail(work[w].stack)]
    BY <1>2
  <2> QED
    BY <1>1, <2>1 DEF Depend, jira, queue, Typed
<1>7. ASSUME NEW j \in Issue, Holds(w, j)
      PROVE  Holds(w, j)'
  <2>1. /\ work'[w].job = j /\ work'[w].kind = "import" /\ work'[w].stack = t
        /\ work'[w].write = work[w].write
    BY <1>2, <1>5, <1>6, <1>7 DEF Holds
  <2>2. CASE work[w].write[j] = updated[j]
    BY <1>6, <2>1, <2>2 DEF Holds
  <2>3. ASSUME NEW k \in 1..Len(s), s[k].issue = j, s[k].data \in {Unread, updated[j]}
        PROVE  Holds(w, j)'
    <3>1. k + 1 \in 1..Len(t) /\ (k = 1 \/ k + 1 \in 3..Len(t)) /\ k + 1 - 1 = k
      BY <1>4
    <3>2. t[k + 1].issue = s[k].issue /\ t[k + 1].data = s[k].data
      <4>1. CASE k = 1
        <5>1. t[1 + 1] = g
          BY <1>4
        <5> QED
          BY <1>1, <1>2, <4>1, <5>1
      <4>2. CASE k # 1
        BY <1>4, <3>1, <4>2
      <4> QED
        BY <4>1, <4>2
    <3> QED
      BY <1>6, <2>1, <2>3, <3>1, <3>2 DEF Holds
  <2> QED
    BY <1>2, <1>7, <2>2, <2>3 DEF Holds
<1> QED
  BY <1>6, <1>7, WorkDue

\* A frame that reads its issue has the latest change of it.
LEMMA ReadDue ==
  ASSUME Inv, NothingLost, NEW w \in Worker, Read(w)
  PROVE  NothingLost'
<1>1. /\ work[w].stack # <<>> /\ Top(w) \in Frame /\ Top(w).step = "read"
      /\ Top(w).issue \in Issue /\ Top(w).issue \in work[w].locks
  BY TopFrame DEF Read, At, Top, Checked
<1>2. CASE ~InJira(Top(w).issue)
  BY <1>1, <1>2, ReturnDue DEF Read, Missing
<1>3. CASE InJira(Top(w).issue)
  <2>1. PICK f, g :
          /\ f = Top(w)
          /\ g = [f EXCEPT !.data = updated[f.issue],
                     !.step = IF links[f.issue].epic = NoIssue THEN "check" ELSE "read epic"]
    OBVIOUS
  <2>2. updated[f.issue] \in Time
    BY <1>1, <1>3, <2>1, Shown DEF Inv
  <2>3. g \in Frame /\ g.issue = f.issue /\ g.data = updated[f.issue]
    BY <1>1, <2>1, <2>2 DEF Frame, Steps
  <2>4. Step(w, g)
    BY <1>3, <2>1 DEF Read
  <2> QED
    BY <1>1, <2>1, <2>3, <2>4, StepDue
<1> QED
  BY <1>2, <1>3

\* The epic is read besides.
LEMMA ReadEpicDue ==
  ASSUME Inv, NothingLost, NEW w \in Worker, ReadEpic(w)
  PROVE  NothingLost'
<1>1. /\ work[w].stack # <<>> /\ Top(w) \in Frame /\ Top(w).step = "read epic"
      /\ Top(w).issue \in Issue /\ Top(w).issue \in work[w].locks
  BY TopFrame DEF ReadEpic, At, Top, Checked
<1>2. PICK f, e : f = Top(w) /\ e = links[f.issue].epic
  OBVIOUS
<1>3. InJira(e) /\ e \in Issue
  BY <1>2, EpicThere DEF ReadEpic
<1>4. PICK g : g = [f EXCEPT !.epic = updated[e], !.step = "check"]
  OBVIOUS
<1>5. updated[e] \in Time
  BY <1>3, Shown DEF Inv
<1>6. g \in Frame /\ g.issue = f.issue /\ g.data = f.data
  BY <1>1, <1>2, <1>4, <1>5 DEF Frame, Steps
<1>7. Step(w, g)
  BY <1>2, <1>3, <1>4 DEF ReadEpic
<1> QED
  BY <1>1, <1>2, <1>6, <1>7, StepDue

\* A frame keeps what it has read, and writes it.
LEMMA ProceedDue ==
  ASSUME Inv, NothingLost, NEW w \in Worker, work[w].stack # <<>>,
         Top(w).step \in {"check", "epic", "write"}, NEW step, Proceed(w, step)
  PROVE  NothingLost'
<1>1. PICK f, i, l : f = Top(w) /\ i = f.issue /\ l = links[i]
  OBVIOUS
<1>2. /\ Typed /\ f \in Frame /\ i \in Issue /\ f.data # Unread
      /\ l.parent \in Issue \cup {NoIssue} /\ l.epic \in Issue \cup {NoIssue}
      /\ f.epic \in Time \cup {Unread}
  <2>1. Typed /\ f \in Frame /\ i \in Issue /\ Reads(f)
    BY <1>1, TopFrame DEF Inv
  <2>2. f.data # Unread
    BY <1>1, <2>1 DEF Reads
  <2>3. l.parent \in Issue \cup {NoIssue} /\ l.epic \in Issue \cup {NoIssue}
    BY <1>1, <2>1, LinkTypes
  <2> QED
    BY <2>1, <2>2, <2>3 DEF Frame
<1>3. PICK epic : epic = IF f.epic = Unread THEN NoIssue ELSE l.epic
  OBVIOUS
<1>4. CASE step = "parent" /\ Unbound(w, l.parent)
  <2>1. PICK g : g = [f EXCEPT !.step = "epic"]
    OBVIOUS
  <2>2. g \in Frame /\ g.issue = f.issue /\ g.data = f.data
    BY <1>2, <2>1 DEF Frame, Steps
  <2>3. l.parent \in Issue
    BY <1>2, <1>4 DEF Unbound
  <2>4. Depend(w, g, l.parent, Unread)
    BY <1>1, <1>4, <2>1 DEF Proceed
  <2> QED
    BY <1>1, <2>2, <2>3, <2>4, DependDue
<1>5. CASE ~(step = "parent" /\ Unbound(w, l.parent)) /\ step # "write" /\ Unbound(w, epic)
  <2>1. PICK g : g = [f EXCEPT !.step = "write"]
    OBVIOUS
  <2>2. g \in Frame /\ g.issue = f.issue /\ g.data = f.data
    BY <1>2, <2>1 DEF Frame, Steps
  <2>3. epic \in Issue
    BY <1>2, <1>3, <1>5 DEF Unbound
  <2>4. Depend(w, g, epic, f.epic)
    BY <1>1, <1>3, <1>5, <2>1 DEF Proceed
  <2> QED
    BY <1>1, <1>2, <2>2, <2>3, <2>4, DependDue
<1>6. CASE /\ ~(step = "parent" /\ Unbound(w, l.parent))
           /\ ~(step # "write" /\ Unbound(w, epic))
  <2>1. Return(w, f.data)
    BY <1>1, <1>3, <1>6 DEF Proceed
  <2> QED
    BY <1>1, <1>2, <2>1, ReturnDue
<1> QED
  BY <1>4, <1>5, <1>6

\* An import is not skipped when it brings the latest change.
LEMMA CheckDue ==
  ASSUME Inv, NothingLost, NEW w \in Worker, Check(w)
  PROVE  NothingLost'
<1>1. PICK f, i : f = Top(w) /\ i = f.issue
  OBVIOUS
<1>2. /\ Typed /\ work[w].stack # <<>> /\ f.step = "check" /\ i \in Issue /\ f.data # Unread
  BY <1>1, TopFrame DEF Inv, Check, At, Top, Reads
<1>3. CASE Seen(w, i) = 0 /\ binding[i] # 0
  BY <1>1, <1>3, RetryDue DEF Check
<1>4. CASE ~(Seen(w, i) = 0 /\ binding[i] # 0) /\ f.data < Seen(w, i)
  <2>1. Return(w, work[w].write[i])
    BY <1>1, <1>4 DEF Check
  <2>2. ASSUME work[w].write[i] = Keep
        PROVE  f.data # updated[i]
    <3>1. Seen(w, i) = work[w].snap[i]
      BY <2>2 DEF Seen, Written
    <3>2. /\ work[w].snap[i] \in Nat /\ updated[i] \in Nat
          /\ work[w].snap[i] <= updated[i]
      BY <1>2, WorkTypes, TimeTypes DEF Inv, Sound, Writes
    <3> QED
      BY <1>4, <3>1, <3>2
  <2> QED
    BY <1>1, <1>2, <2>1, <2>2, ReturnDue
<1>5. CASE ~(Seen(w, i) = 0 /\ binding[i] # 0) /\ ~(f.data < Seen(w, i))
  <2>1. Proceed(w, "parent")
    BY <1>1, <1>5 DEF Check
  <2> QED
    BY <1>1, <1>2, <2>1, ProceedDue
<1> QED
  BY <1>3, <1>4, <1>5

\* A job that commits brings the change it has read, and never takes back a later one.
LEMMA SaveDue ==
  ASSUME Inv, NothingLost, NEW w \in Worker, work[w].stack = <<>>,
         work[w].kind # "idle", Save(w)
  PROVE  NothingLost'
<1>0. ~Conflict(w)
  BY DEF Save
<1>1. /\ Typed /\ work[w] # NoWork /\ work[w].stack = <<>> /\ work[w].kind # "idle"
      /\ UNCHANGED <<updated, deleted, imports, failed, timestamp>>
      /\ \A i \in Issue : Writes(w, i)
      /\ \A i \in Issue : binding'[i] = IF work[w].write[i] # Keep THEN work[w].write[i]
                                         ELSE binding[i]
  <2>1. Typed /\ work[w] # NoWork /\ \A i \in Issue : Writes(w, i)
    BY DEF Inv, Sound, NoWork
  <2>2. UNCHANGED <<updated, deleted, imports, failed, timestamp>>
    BY DEF Save, jira, queue
  <2>3. \A i \in Issue : binding'[i] = IF work[w].write[i] # Keep THEN work[w].write[i]
                                           ELSE binding[i]
    BY DEF Save, Written
  <2> QED
    BY <2>1, <2>2, <2>3
<1> SUFFICES ASSUME NEW i \in Issue
             PROVE  Due(i)'
  BY AllDueNext
<1> SUFFICES ASSUME InJira(i), binding'[i] # updated[i]
             PROVE  \/ timestamp <= updated[i] \/ i \in imports
                    \/ (\E v \in Worker : Holds(v, i)') \/ Parked(i)
  BY <1>1 DEF Due, InJira, Parked
<1>2. /\ updated[i] \in Nat /\ updated[i] # 0 /\ binding[i] \in Nat
      /\ work[w].snap[i] \in Nat /\ work[w].write[i] \in Nat \cup {Keep}
      /\ i \notin deleted
  BY <1>1, TimeTypes, WorkTypes DEF InJira
<1>3. binding[i] # updated[i]
  <2> SUFFICES ASSUME binding[i] = updated[i]
               PROVE  FALSE
    OBVIOUS
  <2>1. work[w].write[i] # Keep /\ work[w].write[i] # updated[i]
    BY <1>1
  <2>2. work[w].write[i] # 0
    BY <1>1, <1>2 DEF Writes
  <2>3. work[w].snap[i] <= work[w].write[i] /\ work[w].write[i] <= updated[i]
    BY <1>1, <2>1, <2>2 DEF Writes
  <2>4. i \in Written(w)
    BY <2>1 DEF Written
  <2>5. CASE work[w].snap[i] = 0
    BY <1>0, <1>2, <2>4, <2>5 DEF Conflict
  <2>6. CASE work[w].snap[i] # 0
    <3>1. i \notin work[w].stale
      BY <1>0, <2>4, <2>6 DEF Conflict
    <3>2. work[w].snap[i] = updated[i]
      BY <1>1, <3>1 DEF Writes
    <3> QED
      BY <1>2, <2>1, <2>3, <3>2
  <2> QED
    BY <2>5, <2>6
<1>4. timestamp <= updated[i] \/ i \in imports \/ Parked(i) \/ \E v \in Worker : Holds(v, i)
  BY <1>3, AllDue DEF Due
<1>5. ASSUME NEW v \in Worker, Holds(v, i)
      PROVE  Holds(v, i)'
  <2>1. v # w
    <3> SUFFICES ASSUME v = w
                 PROVE  FALSE
      OBVIOUS
    <3>1. ~(\E k \in 1..Len(work[w].stack) : TRUE)
      BY <1>1
    <3>2. work[w].write[i] = updated[i]
      BY <1>5, <3>1 DEF Holds
    <3> QED
      BY <1>1, <1>2, <3>2 DEF Keep
  <2>2. work[v] # NoWork /\ work[v] \in WorkType
    BY <1>1, <1>5, WorkTypes DEF Holds, NoWork
  <2>3. PICK V, W : V = work[v] /\ W = [V EXCEPT !.stale = V.stale \cup Written(w)]
    OBVIOUS
  <2>4. W.kind = V.kind /\ W.job = V.job /\ W.stack = V.stack /\ W.write = V.write
    BY <2>2, <2>3 DEF WorkType
  <2>5. work'[v] = W
    BY <1>0, <2>1, <2>2, <2>3 DEF Save
  <2> QED
    BY <1>1, <1>5, <2>3, <2>4, <2>5 DEF Holds
<1> QED
  BY <1>4, <1>5

\* So does an executed job that is at its end.
LEMMA CommitDue ==
  ASSUME Inv, NothingLost, NEW w \in Worker, Commit(w)
  PROVE  NothingLost'
<1>1. work[w].stack = <<>> /\ work[w].kind # "idle"
  BY DEF Commit, Executes
<1> QED
  BY <1>1, SaveDue, RetryDue DEF Commit

\* A postponed one is pending already.
LEMMA CloseDue ==
  ASSUME Inv, NothingLost, NEW w \in Worker, Close(w)
  PROVE  NothingLost'
<1>1. work[w].kind = "closing" /\ work[w].stack = <<>>
  BY DEF Close, Postponed, Inv, Sound, Jobs
<1>2. CASE Save(w)
  BY <1>1, <1>2, SaveDue
<1>3. CASE ~Save(w)
  <2>1. /\ UNCHANGED <<jira, binding, failed, timestamp, imports>>
        /\ \A v \in Worker \ {w} : work'[v] = work[v]
    BY <1>3 DEF Close, Inv, Typed, queue
  <2>2. \A i \in Issue : ~Holds(w, i)
    BY <1>1 DEF Holds
  <2> QED
    BY <2>1, <2>2, WorkDue
<1> QED
  BY <1>2, <1>3

\* The search finds what has changed before the time the next one begins at.
LEMMA SearchDue ==
  ASSUME Inv, NothingLost, LockTimestamp \/ Search \/ AbortSearch
  PROVE  NothingLost'
<1> SUFFICES ASSUME NEW i \in Issue
             PROVE  Due(i)'
  BY AllDueNext
<1>1. /\ UNCHANGED <<updated, deleted, binding, failed, work>> /\ imports \subseteq imports'
  BY DEF LockTimestamp, Search, AbortSearch, jira, queue
<1>2. /\ Due(i) /\ InJira(i)' = InJira(i) /\ Parked(i)' = Parked(i)
      /\ \A w \in Worker : Holds(w, i)' = Holds(w, i)
  BY <1>1, AllDue DEF InJira, Holds, Parked
<1>3. CASE timestamp' = timestamp
  BY <1>1, <1>2, <1>3 DEF Due
<1>4. CASE Search
  <2> SUFFICES ASSUME InJira(i), timestamp <= updated[i], ~(timestamp' <= updated[i])
               PROVE  i \in imports'
    BY <1>1, <1>2 DEF Due
  <2>1. /\ Typed /\ now \in Nat /\ timestamp \in Nat /\ until \in Nat /\ until <= now
        /\ updated[i] \in Nat /\ Delta \in Nat /\ Lag \in Nat /\ Lag <= Delta
    BY TimeTypes, JiraAssumption DEF Inv, World
  <2>2. timestamp' = until - Delta /\ updated[i] < until - Delta
    BY <1>4, <2>1 DEF Search, Max2
  <2>3. updated[i] \in timestamp..until /\ updated[i] \in timestamp..(now - Lag - 1)
    BY <2>1, <2>2
  <2>4. \A found \in Answers(timestamp, until) : i \in found
    BY <2>3 DEF Answers
  <2> QED
    BY <1>4, <2>4 DEF Search
<1> QED
  BY <1>3, <1>4 DEF LockTimestamp, AbortSearch

\* What changes in Jira is found by the next search.
LEMMA JiraDue ==
  ASSUME Inv, NothingLost, Tick \/ \E i \in Issue : Change(i) \/ Delete(i)
  PROVE  NothingLost'
<1> SUFFICES ASSUME NEW i \in Issue, InJira(i)', binding'[i] # updated'[i]
             PROVE  \/ timestamp' <= updated'[i] \/ i \in imports'
                    \/ (\E w \in Worker : Holds(w, i)') \/ Parked(i)'
  BY AllDueNext DEF Due
<1>1. /\ UNCHANGED <<binding, failed, work, timestamp>> /\ imports \subseteq imports'
      /\ deleted \subseteq deleted'
      /\ updated'[i] = updated[i] \/ updated'[i] = now
  BY DEF Tick, Change, Delete, queue, Inv, Typed
<1>2. CASE updated'[i] = updated[i]
  <2>1. InJira(i)
    BY <1>1, <1>2 DEF InJira
  <2>2. /\ Due(i) /\ Parked(i)' = Parked(i)
        /\ \A w \in Worker : Holds(w, i)' = Holds(w, i)
    BY <1>1, <1>2, AllDue DEF Holds, Parked
  <2> QED
    BY <1>1, <1>2, <2>1, <2>2 DEF Due
<1>3. CASE updated'[i] = now
  BY <1>1, <1>3 DEF Inv, World
<1> QED
  BY <1>1, <1>2, <1>3

\* Every change of an issue reaches its binding, or is still on its way, or is with a job
\* that failed or died and waits for a user: the search looks back far enough for what
\* Jira did not show at once, no job leaves an issue with an older change than it could
\* have read, and a postponed job is pending, whatever its request then commits.
THEOREM NoChangeLost == Spec => []NothingLost
<1>1. Init => NothingLost
  <2> SUFFICES ASSUME Init, NEW i \in Issue
               PROVE  Due(i)
    BY AllDue
  <2> QED
    BY DEF Init, Due, InJira
<1>2. Inv /\ NothingLost /\ [Next]_vars => NothingLost'
  <2> SUFFICES ASSUME Inv, NothingLost, [Next]_vars
               PROVE  NothingLost'
    OBVIOUS
  <2>1. CASE Tick \/ \E i \in Issue : Change(i) \/ Delete(i)
    BY <2>1, JiraDue
  <2>2. ASSUME NEW w \in Worker, NEW i \in Issue, StartImport(w, i) \/ StartDeletion(w, i)
        PROVE  NothingLost'
    BY <2>2, StartDue
  <2>3. ASSUME NEW w \in Worker, WorkStep(w)
        PROVE  NothingLost'
    <3>1. ASSUME Resume(w)
          PROVE  NothingLost'
      <4>1. PICK step \in {"epic", "write"} : At(w, step) /\ Proceed(w, step)
        BY <3>1 DEF Resume
      <4>2. work[w].stack # <<>> /\ Top(w).step \in {"check", "epic", "write"}
        BY <4>1 DEF At, Top
      <4> QED
        BY <4>1, <4>2, ProceedDue
    <3> QED
      BY <2>3, <3>1, LockDue, ReadDue, ReadEpicDue, CheckDue, CommitDue, CloseDue
      DEF WorkStep
  <2>4. ASSUME NEW w \in Worker, Abort(w)
        PROVE  NothingLost'
    BY <2>4, AbortDue
  <2>5. CASE LockTimestamp \/ Search \/ AbortSearch
    BY <2>5, SearchDue
  <2>6. CASE UNCHANGED vars
    <3>1. \A i \in Issue : Due(i)' = Due(i)
      BY <2>6 DEF Due, InJira, Holds, Parked, vars
    <3> QED
      BY <3>1, AllDue, AllDueNext
  <2>7. ASSUME NEW f \in failed, Requeue(f)
        PROVE  NothingLost'
    BY <2>7, RequeueDue
  <2> QED
    BY <2>1, <2>2, <2>3, <2>4, <2>5, <2>6, <2>7 DEF Next
<1> QED
  BY <1>1, <1>2, Invariance, PTL DEF Spec

=============================================================================

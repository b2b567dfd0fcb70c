------------------------ MODULE ChannelManagerProofs ------------------------
(***************************************************************************)
(* Proofs about ChannelManager, for trees of channels of any shape, any    *)
(* number of jobs, and anything that notify may be told of them.           *)
(***************************************************************************)
EXTENDS ChannelManager, ChannelTreeProofs, FiniteSetTheorems

USE DEF PENDING, ENQUEUED, STARTED, DONE, FAILED, STATES

-----------------------------------------------------------------------------
(* Where a job is, in any table `ch' of channels: Notify changes it twice. *)

Everywhere(box) == box.queue \cup box.eta_queue \cup box.running \cup box.failed

\* A job is in one place of a channel at most.
Once(ch, j) ==
  \A c \in Channel :
    /\ j \in ch[c].queue => j \notin ch[c].eta_queue \cup ch[c].running \cup ch[c].failed
    /\ j \in ch[c].eta_queue => j \notin ch[c].running \cup ch[c].failed
    /\ j \in ch[c].running => j \notin ch[c].failed

Nowhere(ch, j) == \A c \in Channel : j \notin Everywhere(ch[c])

\* PathConsistent, of one job.
OnPath(ch, j, home) ==
  /\ \A c \in Channel \ Up[home] : j \notin Everywhere(ch[c])
  /\ \A c \in Up[home] \ {home} : j \notin ch[c].failed \cup ch[c].eta_queue
  /\ \A c \in Up[home] \ {Root} :
       j \in ch[c].running <=> j \in Everywhere(ch[Parent[c]])

\* A job has not been moved.
Unmoved(ch, new, j) ==
  \A c \in Channel :
    /\ j \in new[c].queue <=> j \in ch[c].queue
    /\ j \in new[c].eta_queue <=> j \in ch[c].eta_queue
    /\ j \in new[c].running <=> j \in ch[c].running
    /\ j \in new[c].failed <=> j \in ch[c].failed

\* A job that is not moved stays as consistent as it was.
LEMMA UnmovedStays ==
  ASSUME NEW ch, NEW new, NEW j, Unmoved(ch, new, j)
  PROVE  /\ Once(ch, j) => Once(new, j)
         /\ Nowhere(ch, j) => Nowhere(new, j)
         /\ \A home \in Channel : OnPath(ch, j, home) => OnPath(new, j, home)
<1>1. \A c \in Channel : j \in Everywhere(new[c]) <=> j \in Everywhere(ch[c])
  BY DEF Unmoved, Everywhere
<1>2. Once(ch, j) => Once(new, j)
  BY DEF Unmoved, Once
<1>3. ASSUME NEW home \in Channel, OnPath(ch, j, home)
      PROVE  OnPath(new, j, home)
  <2>1. \A c \in Up[home] : c \in Channel /\ (c # Root => Parent[c] \in Channel)
    BY TreeAssumption DEF Tree
  <2> QED
    BY <1>1, <1>3, <2>1 DEF Unmoved, OnPath
<1> QED
  BY <1>1, <1>2, <1>3 DEF Nowhere

\* What Without and QueueAdd leave in a channel.
LEMMA WithoutFields ==
  ASSUME NEW box \in ChannelType, NEW j \in Job
  PROVE  /\ Without(box, j) \in ChannelType
         /\ Without(box, j).queue = box.queue \ {j}
         /\ Without(box, j).eta_queue = box.eta_queue \ {j}
         /\ Without(box, j).running = box.running \ {j}
         /\ Without(box, j).failed = box.failed \ {j}
         /\ Without(box, j).pause_until = box.pause_until
  BY DEF Without, ChannelType

\* What QueueAdd does to each field of a channel.
LEMMA QueueAddFields ==
  ASSUME NEW box \in ChannelType, NEW j \in Job, NEW eta
  PROVE  /\ QueueAdd(box, j, eta) \in ChannelType
         /\ QueueAdd(box, j, eta).queue = box.queue \cup (IF eta # 0 THEN {} ELSE {j})
         /\ QueueAdd(box, j, eta).eta_queue = box.eta_queue \cup (IF eta # 0 THEN {j} ELSE {})
         /\ QueueAdd(box, j, eta).running = box.running
         /\ QueueAdd(box, j, eta).failed = box.failed
         /\ QueueAdd(box, j, eta).pause_until = box.pause_until
<1>1. CASE eta # 0
  BY <1>1 DEF QueueAdd, ChannelType
<1>2. CASE eta = 0
  BY <1>2 DEF QueueAdd, ChannelType
<1> QED
  BY <1>1, <1>2

\* A table of channels after a transition of job j in channel c.
Moved(ch, new, j) ==
  /\ new \in [Channel -> ChannelType]
  /\ \A x \in Channel : new[x].pause_until = ch[x].pause_until
  /\ \A k \in Job \ {j} : Unmoved(ch, new, k)

\* The channels above a channel are channels.
LEMMA UpChannel ==
  \A c \in Channel : \A x \in Up[c] : x \in Channel
BY TreeAssumption DEF Tree

\* Remove takes a job out of every place of the channels above c, others stay.
LEMMA RemoveEffect ==
  ASSUME NEW ch \in [Channel -> ChannelType], NEW c \in Channel, NEW j \in Job
  PROVE  /\ Moved(ch, Remove(ch, c, j), j)
         /\ OnPath(ch, j, c) \/ Nowhere(ch, j) => Nowhere(Remove(ch, c, j), j)
<1> DEFINE new == Remove(ch, c, j)
<1>1. \A x \in Channel : new[x] = IF x \in Up[c] THEN Without(ch[x], j) ELSE ch[x]
  BY DEF Remove
<1>2. new \in [Channel -> ChannelType]
  BY WithoutFields DEF Remove
<1>3. \A x \in Channel : new[x].pause_until = ch[x].pause_until
  BY <1>1, WithoutFields
<1>4. \A k \in Job \ {j} : Unmoved(ch, new, k)
  <2> HIDE DEF new
  <2> QED BY <1>1, WithoutFields DEF Unmoved
<1>5. OnPath(ch, j, c) \/ Nowhere(ch, j) => Nowhere(new, j)
  <2> HIDE DEF new
  <2> QED BY <1>1, WithoutFields DEF OnPath, Nowhere, Everywhere
<1> QED
  BY <1>2, <1>3, <1>4, <1>5 DEF Moved

\* Without the channel itself.
LEMMA RemoveAboveEffect ==
  ASSUME NEW ch \in [Channel -> ChannelType], NEW c \in Channel, NEW j \in Job
  PROVE  /\ RemoveAbove(ch, c, j) \in [Channel -> ChannelType]
         /\ RemoveAbove(ch, c, j)[c] = ch[c]
         /\ \A x \in Channel \ {c} :
              RemoveAbove(ch, c, j)[x] = IF x \in Up[c] THEN Without(ch[x], j) ELSE ch[x]
  BY WithoutFields DEF RemoveAbove

\* After a step that puts the job in one place of its channel and takes it out of
\* all channels above, its places fit together, wherever it was on its path.
LEMMA AtHome ==
  ASSUME NEW ch \in [Channel -> ChannelType], NEW new \in [Channel -> ChannelType],
         NEW c \in Channel, NEW j \in Job,
         Nowhere(ch, j) \/ OnPath(ch, j, c),
         \A x \in Channel \ {c} : new[x] = IF x \in Up[c] THEN Without(ch[x], j) ELSE ch[x],
         j \notin new[c].running
  PROVE  OnPath(new, j, c)
<1>1. \A x \in Channel \ {c} : j \notin Everywhere(new[x])
  BY WithoutFields DEF Everywhere, Nowhere, OnPath
<1>2. \A x \in Up[c] \ {Root} : x \in Channel /\ Parent[x] \in Channel /\ Parent[x] # c
  <2>1. ASSUME NEW x \in Up[c] \ {Root}
        PROVE  x \in Channel /\ Parent[x] \in Channel /\ Parent[x] # c
    <3>1. x \in Channel \ {Root} /\ Parent[x] \in Channel
      BY UpChannel, ParentAbove
    <3>2. x # c => Position(c) < Position(x)
      BY AboveIsLater
    <3>3. Position(x) < Position(Parent[x])
      BY <3>1, ParentAbove
    <3> QED
      BY <3>1, <3>2, <3>3, PositionType
  <2> QED
    BY <2>1
<1>3. \A x \in Channel \ {c} : /\ j \notin new[x].running /\ j \notin new[x].failed
                               /\ j \notin new[x].eta_queue
  BY <1>1 DEF Everywhere
<1>4. c \in Up[c]
  BY PositionType
<1> QED
  BY <1>1, <1>2, <1>3, <1>4, UpChannel DEF OnPath

\* The two transitions that put a job in a place of its channel, other than running.
LEMMA PutHome ==
  ASSUME NEW ch \in [Channel -> ChannelType], NEW c \in Channel, NEW j \in Job,
         Once(ch, j), Nowhere(ch, j) \/ OnPath(ch, j, c),
         NEW box \in ChannelType, NEW new,
         new = [RemoveAbove(ch, c, j) EXCEPT ![c] = box],
         box.pause_until = ch[c].pause_until,
         \A k \in Job \ {j} : /\ k \in box.queue <=> k \in ch[c].queue
                              /\ k \in box.eta_queue <=> k \in ch[c].eta_queue
                              /\ k \in box.running <=> k \in ch[c].running
                              /\ k \in box.failed <=> k \in ch[c].failed,
         j \notin box.running,
         j \in box.queue => j \notin box.eta_queue \cup box.failed,
         j \in box.eta_queue => j \notin box.failed
  PROVE  Moved(ch, new, j) /\ Once(new, j) /\ OnPath(new, j, c)
<1>1. /\ new \in [Channel -> ChannelType]
      /\ new[c] = box
      /\ \A x \in Channel \ {c} :
           new[x] = IF x \in Up[c] THEN Without(ch[x], j) ELSE ch[x]
  BY RemoveAboveEffect
<1>2. \A x \in Channel : new[x].pause_until = ch[x].pause_until
  BY <1>1, WithoutFields
<1>3. \A k \in Job \ {j} : Unmoved(ch, new, k)
  BY <1>1, WithoutFields DEF Unmoved
<1>4. Once(new, j)
  BY <1>1, WithoutFields DEF Once
<1>5. OnPath(new, j, c)
  BY <1>1, AtHome
<1> QED
  BY <1>1, <1>2, <1>3, <1>4, <1>5 DEF Moved

\* After set_pending the job waits in c alone, others stay where they are.
LEMMA SetPendingEffect ==
  ASSUME NEW ch \in [Channel -> ChannelType], NEW c \in Channel, NEW j \in Job,
         NEW eta, Once(ch, j), Nowhere(ch, j) \/ OnPath(ch, j, c)
  PROVE  LET new == SetPending(ch, c, j, eta)
         IN  Moved(ch, new, j) /\ Once(new, j) /\ OnPath(new, j, c)
<1>1. CASE j \in Queued(ch, c)
  <2>1. SetPending(ch, c, j, eta) = ch
    BY <1>1 DEF SetPending
  <2>2. OnPath(ch, j, c)
    BY <1>1 DEF Nowhere, Everywhere, Queued
  <2> QED
    BY <2>1, <2>2 DEF Moved, Unmoved
<1>2. CASE j \notin Queued(ch, c)
  <2> DEFINE box == QueueAdd(Without(ch[c], j), j, eta)
  <2>1. /\ box \in ChannelType
        /\ j \notin box.running /\ j \notin box.failed
        /\ j \in box.queue => j \notin box.eta_queue
        /\ box.pause_until = ch[c].pause_until
        /\ \A k \in Job \ {j} : /\ k \in box.queue <=> k \in ch[c].queue
                                /\ k \in box.eta_queue <=> k \in ch[c].eta_queue
                                /\ k \in box.running <=> k \in ch[c].running
                                /\ k \in box.failed <=> k \in ch[c].failed
    BY WithoutFields, QueueAddFields
  <2>2. SetPending(ch, c, j, eta) = [RemoveAbove(ch, c, j) EXCEPT ![c] = box]
    BY <1>2, RemoveAboveEffect DEF SetPending
  <2> HIDE DEF box
  <2> QED
    BY <2>1, <2>2, PutHome
<1> QED
  BY <1>1, <1>2

\* After set_failed the job is among the failed of c alone, others stay.
LEMMA SetFailedEffect ==
  ASSUME NEW ch \in [Channel -> ChannelType], NEW c \in Channel, NEW j \in Job,
         Once(ch, j), Nowhere(ch, j) \/ OnPath(ch, j, c)
  PROVE  LET new == SetFailed(ch, c, j)
         IN  Moved(ch, new, j) /\ Once(new, j) /\ OnPath(new, j, c)
<1>1. CASE j \in ch[c].failed
  <2>1. SetFailed(ch, c, j) = ch
    BY <1>1 DEF SetFailed
  <2>2. OnPath(ch, j, c)
    BY <1>1 DEF Nowhere, Everywhere
  <2> QED
    BY <2>1, <2>2 DEF Moved, Unmoved
<1>2. CASE j \notin ch[c].failed
  <2> DEFINE box == [Without(ch[c], j) EXCEPT !.failed = @ \cup {j}]
  <2>1. /\ box \in ChannelType
        /\ j \notin box.running /\ j \notin box.queue /\ j \notin box.eta_queue
        /\ box.pause_until = ch[c].pause_until
        /\ \A k \in Job \ {j} : /\ k \in box.queue <=> k \in ch[c].queue
                                /\ k \in box.eta_queue <=> k \in ch[c].eta_queue
                                /\ k \in box.running <=> k \in ch[c].running
                                /\ k \in box.failed <=> k \in ch[c].failed
    BY DEF Without, ChannelType
  <2>2. SetFailed(ch, c, j) = [RemoveAbove(ch, c, j) EXCEPT ![c] = box]
    BY <1>2 DEF SetFailed
  <2> HIDE DEF box
  <2> QED
    BY <2>1, <2>2, PutHome
<1> QED
  BY <1>1, <1>2

\* A job that does not run in its channel climbs to the first channel where it runs.
LEMMA SetRunningEffect ==
  ASSUME NEW ch \in [Channel -> ChannelType], NEW c \in Channel, NEW j \in Job,
         Once(ch, j), Nowhere(ch, j) \/ OnPath(ch, j, c)
  PROVE  LET new == SetRunning(ch, c, j)
         IN  Moved(ch, new, j) /\ Once(new, j) /\ OnPath(new, j, c)
<1> DEFINE climbed == {x \in Up[c] : \A y \in Up[c] :
                                       x \in Up[y] => j \notin ch[y].running}
           new == SetRunning(ch, c, j)
<1>1. \A x \in Channel :
        new[x] = IF x \in climbed
                   THEN [Without(ch[x], j) EXCEPT !.running = @ \cup {j}] ELSE ch[x]
  BY DEF SetRunning
<1>2. \A x \in Channel :
        LET box == [Without(ch[x], j) EXCEPT !.running = @ \cup {j}]
        IN  /\ box \in ChannelType
            /\ j \in box.running
            /\ j \notin box.queue /\ j \notin box.eta_queue /\ j \notin box.failed
            /\ box.pause_until = ch[x].pause_until
            /\ \A k \in Job \ {j} : /\ k \in box.queue <=> k \in ch[x].queue
                                    /\ k \in box.eta_queue <=> k \in ch[x].eta_queue
                                    /\ k \in box.running <=> k \in ch[x].running
                                    /\ k \in box.failed <=> k \in ch[x].failed
  <2> TAKE x \in Channel
  <2>1. ch[x] \in ChannelType
    OBVIOUS
  <2> QED
    BY <2>1 DEF Without, ChannelType
<1>3. new \in [Channel -> ChannelType]
  BY <1>2 DEF SetRunning
<1> HIDE DEF new
<1>4. /\ \A x \in climbed : /\ j \in new[x].running
                            /\ j \notin new[x].queue /\ j \notin new[x].eta_queue
                            /\ j \notin new[x].failed
      /\ \A x \in Channel \ climbed : new[x] = ch[x]
  BY <1>1, <1>2, UpChannel
<1>5. Moved(ch, new, j)
  <2>1. \A x \in Channel : new[x].pause_until = ch[x].pause_until
    BY <1>1, <1>2
  <2>2. \A k \in Job \ {j} : Unmoved(ch, new, k)
    BY <1>1, <1>2 DEF Unmoved
  <2> QED
    BY <1>3, <2>1, <2>2 DEF Moved
<1>6. Once(new, j)
  BY <1>4 DEF Once
<1>7. ASSUME NEW x \in Up[c] \ {Root}
      PROVE  j \in new[x].running <=> j \in Everywhere(new[Parent[x]])
  <2>1. x \in Channel \ {Root} /\ Parent[x] \in Up[c] /\ Parent[x] \in Channel
    BY UpChannel, ParentTransitive
  <2>2. CASE x \notin climbed
    <3>1. PICK y \in Up[c] : x \in Up[y] /\ j \in ch[y].running
      BY <2>2
    <3>2. Parent[x] \in Up[y]
      BY <2>1, <3>1, UpChannel, ParentTransitive
    <3>3. Parent[x] \notin climbed
      BY <3>1, <3>2
    <3>4. OnPath(ch, j, c)
      BY <3>1, UpChannel DEF Nowhere, Everywhere
    <3> QED
      BY <1>4, <2>1, <2>2, <3>3, <3>4 DEF OnPath
  <2>3. CASE x \in climbed /\ Parent[x] \in climbed
    BY <1>4, <2>3 DEF Everywhere
  <2>4. CASE x \in climbed /\ Parent[x] \notin climbed
    <3>1. PICK y \in Up[c] : Parent[x] \in Up[y] /\ j \in ch[y].running
      BY <2>1, <2>4
    <3>2. x \notin Up[y]
      BY <2>4, <3>1
    <3>3. y \in Up[x] /\ y # x
      BY <3>2, AboveLinear, PositionType, <2>1
    <3>4. y \in Up[Parent[x]] /\ y \in Channel
      BY <2>1, <3>3, ParentAbove, UpChannel
    <3>5. y = Parent[x]
      <4>1. CASE y # Parent[x]
        <5>1. Position(Parent[x]) < Position(y) /\ Position(y) < Position(Parent[x])
          BY <2>1, <3>1, <3>4, <4>1, AboveIsLater
        <5> QED
          BY <2>1, <3>4, <5>1, PositionType
      <4> QED
        BY <4>1
    <3> QED
      BY <1>4, <2>1, <2>4, <3>1, <3>5 DEF Everywhere
  <2> QED
    BY <2>2, <2>3, <2>4
<1>8. OnPath(new, j, c)
  BY <1>4, <1>7, UpChannel DEF OnPath, Everywhere, Nowhere
<1> QED
  BY <1>5, <1>6, <1>8 DEF new

\* After any transition that notify may choose the job is well placed at its
\* channel, others stay.
LEMMA TransitionEffect ==
  ASSUME NEW ch \in [Channel -> ChannelType], NEW c \in Channel, NEW j \in Job,
         NEW d \in NoticeType, Once(ch, j), Nowhere(ch, j) \/ OnPath(ch, j, c)
  PROVE  LET new == Transition(ch, c, j, d)
         IN  Moved(ch, new, j) /\ Once(new, j) /\ OnPath(new, j, c)
<1>1. CASE d.state = DONE
  <2>1. Transition(ch, c, j, d) = Remove(ch, c, j)
    BY <1>1 DEF Transition
  <2>2. Moved(ch, Remove(ch, c, j), j) /\ Nowhere(Remove(ch, c, j), j)
    BY RemoveEffect
  <2>3. Once(Remove(ch, c, j), j)
    BY <2>2 DEF Nowhere, Everywhere, Once
  <2>4. OnPath(Remove(ch, c, j), j, c)
    BY <2>2, UpChannel, ParentAbove DEF Nowhere, Everywhere, OnPath
  <2> QED
    BY <2>1, <2>2, <2>3, <2>4
<1>2. CASE d.state = PENDING
  <2>1. Transition(ch, c, j, d) = SetPending(ch, c, j, d.eta)
    BY <1>2 DEF Transition
  <2> QED
    BY <2>1, SetPendingEffect
<1>3. CASE d.state \in {ENQUEUED, STARTED}
  <2>1. Transition(ch, c, j, d) = SetRunning(ch, c, j)
    BY <1>3 DEF Transition
  <2> QED
    BY <2>1, SetRunningEffect
<1>4. CASE d.state = FAILED
  <2>1. Transition(ch, c, j, d) = SetFailed(ch, c, j)
    BY <1>4 DEF Transition
  <2> QED
    BY <2>1, SetFailedEffect
<1> QED
  BY <1>1, <1>2, <1>3, <1>4 DEF NoticeType

-----------------------------------------------------------------------------
(* Places.                                                                 *)

Placed(ch, j, job) ==
  Once(ch, j) /\ IF job = NoJob THEN Nowhere(ch, j) ELSE OnPath(ch, j, job.channel)

Fits == \A j \in Job : Placed(chan, j, jobs[j])

\* The invariant of the places: the types, with PathConsistent and SinglePlace.
PlaceInv == TypeOK /\ Fits

\* The type of what jobs_by_uuid says of a known job.
LEMMA JobType ==
  ASSUME TypeOK, NEW j \in Job
  PROVE  \/ jobs[j] = NoJob
         \/ /\ jobs[j] \in ChannelJob /\ jobs[j].channel \in Channel
            /\ jobs[j].priority \in Nat /\ jobs[j].eta \in Nat
  BY DEF TypeOK, ChannelJob

\* A channel keeps its pause, and gets the job moved, in the steps of notify.
LEMMA MovedFits ==
  ASSUME Fits, TypeOK, NEW new, NEW j \in Job, Moved(chan, new, j)
  PROVE  \A k \in Job \ {j} : Placed(new, k, jobs[k])
<1> TAKE k \in Job \ {j}
<1>1. Unmoved(chan, new, k) /\ Placed(chan, k, jobs[k])
  BY DEF Moved, Fits
<1> QED
  BY <1>1, UnmovedStays, JobType DEF Placed

\* Two moves of the same job are one.
LEMMA MovedTwice ==
  ASSUME NEW ch, NEW mid, NEW new, NEW j, Moved(ch, mid, j), Moved(mid, new, j)
  PROVE  Moved(ch, new, j)
  BY DEF Moved, Unmoved

\* What notify does, taken apart: the job is as notified, nowhere or well placed
\* at the channel it was notified for, and nobody else has moved.
LEMMA NotifyEffect ==
  ASSUME PlaceInv, NEW j \in Job, NEW d \in NoticeType, Notify(j, d)
  PROVE  /\ Moved(chan, chan', j)
         /\ Once(chan', j)
         /\ OnPath(chan', j, ChannelOf(d))
<1> DEFINE known == IF PropertiesChanged(j, d) THEN Remove(chan, jobs[j].channel, j)
                                               ELSE chan
           c == ChannelOf(d)
<1>1. c \in Channel
  BY TreeAssumption DEF ChannelOf, Tree
<1>2. chan \in [Channel -> ChannelType] /\ Placed(chan, j, jobs[j])
  BY DEF PlaceInv, TypeOK, Fits
<1>3. /\ Moved(chan, known, j) /\ known \in [Channel -> ChannelType]
      /\ Once(known, j)
      /\ Nowhere(known, j) \/ OnPath(known, j, c)
  <2>1. CASE jobs[j] = NoJob
    BY <1>2, <2>1 DEF PropertiesChanged, Moved, Unmoved, Placed
  <2>2. CASE jobs[j] # NoJob /\ PropertiesChanged(j, d)
    <3>1. jobs[j].channel \in Channel
      BY <2>2, JobType DEF PlaceInv
    <3>2. Moved(chan, known, j) /\ Nowhere(known, j)
      BY <1>2, <2>2, <3>1, RemoveEffect DEF Placed
    <3> QED
      BY <3>2 DEF Moved, Nowhere, Everywhere, Once
  <2>3. CASE jobs[j] # NoJob /\ ~PropertiesChanged(j, d)
    BY <1>2, <2>3 DEF PropertiesChanged, Moved, Unmoved, Placed
  <2> QED
    BY <2>1, <2>2, <2>3
<1>4. chan' = Transition(known, c, j, d)
  BY DEF Notify
<1> HIDE DEF known, c
<1>5. Moved(known, chan', j) /\ Once(chan', j) /\ OnPath(chan', j, c)
  BY <1>1, <1>3, <1>4, TransitionEffect
<1> QED
  BY <1>3, <1>5, MovedTwice DEF c

\* notify keeps the invariant of the places.
LEMMA NotifyPlaces ==
  ASSUME PlaceInv, NEW j \in Job, NEW d \in NoticeType, Notify(j, d)
  PROVE  PlaceInv'
<1>1. /\ Moved(chan, chan', j) /\ Once(chan', j) /\ OnPath(chan', j, ChannelOf(d))
  BY NotifyEffect
<1>2. ChannelOf(d) \in Channel
  BY TreeAssumption DEF ChannelOf, Tree
<1>3. [channel |-> ChannelOf(d), priority |-> d.priority, eta |-> d.eta] \in ChannelJob
  BY <1>2 DEF ChannelJob, NoticeType
<1>4. TypeOK'
  BY <1>1, <1>3 DEF PlaceInv, TypeOK, Notify, Moved
<1>5. \A k \in Job \ {j} : Placed(chan', k, jobs[k])
  BY <1>1, MovedFits DEF PlaceInv
<1>6. Placed(chan', j, jobs'[j])
  <2>1. jobs'[j] = [channel |-> ChannelOf(d), priority |-> d.priority, eta |-> d.eta]
    BY DEF Notify, PlaceInv, TypeOK
  <2>2. jobs'[j] # NoJob /\ jobs'[j].channel = ChannelOf(d)
    BY <1>3, <2>1, ConfigAssumption DEF Config
  <2> QED
    BY <1>1, <2>2 DEF Placed
<1>7. \A k \in Job \ {j} : jobs'[k] = jobs[k]
  BY DEF Notify, PlaceInv, TypeOK
<1> QED
  BY <1>4, <1>5, <1>6, <1>7 DEF PlaceInv, Fits

\* remove_job keeps it.
LEMMA RemoveJobPlaces ==
  ASSUME PlaceInv, NEW j \in Job, RemoveJob(j)
  PROVE  PlaceInv' /\ Moved(chan, chan', j)
<1>1. chan \in [Channel -> ChannelType] /\ Placed(chan, j, jobs[j])
  BY DEF PlaceInv, TypeOK, Fits
<1>2. Moved(chan, chan', j) /\ Nowhere(chan', j)
  <2>1. CASE jobs[j] = NoJob
    BY <1>1, <2>1 DEF RemoveJob, Moved, Unmoved, Placed
  <2>2. CASE jobs[j] # NoJob
    <3>1. jobs[j].channel \in Channel
      BY <2>2, JobType DEF PlaceInv
    <3> QED
      BY <1>1, <2>2, <3>1, RemoveEffect DEF Placed, RemoveJob
  <2> QED
    BY <2>1, <2>2
<1>3. TypeOK'
  BY <1>2 DEF PlaceInv, TypeOK, RemoveJob, Moved
<1>4. \A k \in Job \ {j} : Placed(chan', k, jobs[k])
  BY <1>2, MovedFits DEF PlaceInv
<1>5. Placed(chan', j, jobs'[j])
  <2>1. jobs'[j] = NoJob
    BY DEF RemoveJob, PlaceInv, TypeOK
  <2> QED
    BY <1>2, <2>1 DEF Placed, Once, Nowhere, Everywhere
<1>6. \A k \in Job \ {j} : jobs'[k] = jobs[k]
  BY DEF RemoveJob, PlaceInv, TypeOK
<1> QED
  BY <1>2, <1>3, <1>4, <1>5, <1>6 DEF PlaceInv, Fits

\* Forgetting the etas that are past changes nothing else of the jobs.
LEMMA RipenJobs ==
  ASSUME PlaceInv, NEW c \in Channel
  PROVE  /\ Ripen(c) \in [Job -> ChannelJob \cup {NoJob}]
         /\ \A j \in Job : Ripen(c)[j] = NoJob <=> jobs[j] = NoJob
         /\ \A j \in Job : jobs[j] # NoJob =>
              /\ Ripen(c)[j].channel = jobs[j].channel
              /\ Ripen(c)[j].priority = jobs[j].priority
              /\ Ripen(c)[j].eta = IF j \in Ripe(c) THEN 0 ELSE jobs[j].eta
         /\ Ripe(c) \subseteq {j \in chan[c].eta_queue : jobs[j] # NoJob}
<1>1. \A j \in Ripe(c) : j \in Job /\ j \in chan[c].eta_queue /\ jobs[j] # NoJob
  BY DEF Ripe, PlaceInv, TypeOK, ChannelType, Fits, Placed, Nowhere, Everywhere
<1>2. \A j \in Job : jobs[j] # NoJob => jobs[j] \in ChannelJob
  BY DEF PlaceInv, TypeOK
<1>3. \A job \in ChannelJob : /\ [job EXCEPT !.eta = 0] \in ChannelJob
                              /\ [job EXCEPT !.eta = 0].channel = job.channel
                              /\ [job EXCEPT !.eta = 0].priority = job.priority
                              /\ [job EXCEPT !.eta = 0].eta = 0
  BY DEF ChannelJob
<1>4. NoJob \notin ChannelJob
  BY ConfigAssumption DEF Config
<1> QED
  BY <1>1, <1>2, <1>3, <1>4 DEF Ripen

\* The places of a job when some channels have moved it from their queue of etas to
\* their queue, and nothing else: it has stayed in the channel.
LEMMA RipenPlaces ==
  ASSUME PlaceInv, NEW c \in Channel, NEW new \in [Channel -> ChannelType], NEW j \in Job,
         \A x \in Channel \ {c} : new[x] = chan[x],
         new[c].queue = Ready(c), new[c].eta_queue = Waiting(c),
         new[c].running = chan[c].running, new[c].failed = chan[c].failed
  PROVE  Placed(new, j, jobs[j])
<1>1. Placed(chan, j, jobs[j])
  BY DEF PlaceInv, Fits
<1>2. \A x \in Channel :
        /\ j \in Everywhere(new[x]) <=> j \in Everywhere(chan[x])
        /\ j \in new[x].running <=> j \in chan[x].running
        /\ j \in new[x].failed <=> j \in chan[x].failed
        /\ j \in new[x].eta_queue => j \in chan[x].eta_queue
  BY DEF Ready, Waiting, Ripe, Everywhere
<1>3. Once(new, j)
  BY <1>1, <1>2 DEF Placed, Once, Ready, Waiting, Ripe
<1>4. ASSUME jobs[j] # NoJob, OnPath(chan, j, jobs[j].channel)
      PROVE  OnPath(new, j, jobs[j].channel)
  <2>1. jobs[j].channel \in Channel
    BY <1>4, JobType DEF PlaceInv
  <2>2. \A x \in Up[jobs[j].channel] : x \in Channel /\ (x # Root => Parent[x] \in Channel)
    BY <2>1, UpChannel, ParentAbove
  <2> QED
    BY <1>2, <1>4, <2>2 DEF OnPath
<1> QED
  BY <1>1, <1>2, <1>3, <1>4 DEF Placed, Nowhere

\* The iterations of get_jobs_to_run that yield nothing keep it.
LEMMA SkipPlaces ==
  ASSUME PlaceInv, NEW c \in Channel, SkipPaused(c) \/ SkipFull(c) \/ SkipEmpty(c)
  PROVE  PlaceInv'
<1>1. Unpaused(c) \in Nat
  BY DEF Unpaused, PlaceInv, TypeOK, ChannelType
<1>2. cursor + 1 \in 0..(Visits + 1)
  <2>1. Visits \in Nat
    BY PostOrderAssumption, LenProperties DEF Visits, ChildrenFirst
  <2>2. Visiting(c)
    BY DEF SkipPaused, SkipFull, SkipEmpty
  <2>3. cursor \in 1..Visits
    BY <2>2 DEF Visiting
  <2> QED
    BY <2>1, <2>3
<1>3. CASE SkipPaused(c)
  BY <1>2, <1>3 DEF SkipPaused, PlaceInv, TypeOK, Fits
<1>4. CASE SkipFull(c)
  <2>1. /\ chan' \in [Channel -> ChannelType]
        /\ \A j \in Job : Unmoved(chan, chan', j)
    BY <1>1, <1>4 DEF SkipFull, PlaceInv, TypeOK, ChannelType, Unmoved
  <2>2. TypeOK'
    BY <1>2, <1>4, <2>1 DEF SkipFull, PlaceInv, TypeOK
  <2>3. \A j \in Job : Placed(chan', j, jobs[j])
    BY <2>1, UnmovedStays, JobType DEF PlaceInv, Fits, Placed
  <2> QED
    BY <1>4, <2>2, <2>3 DEF SkipFull, PlaceInv, Fits
<1>5. CASE SkipEmpty(c)
  <2>1. /\ chan' \in [Channel -> ChannelType]
        /\ \A x \in Channel \ {c} : chan'[x] = chan[x]
        /\ chan'[c].queue = Ready(c) /\ chan'[c].eta_queue = Waiting(c)
        /\ chan'[c].running = chan[c].running /\ chan'[c].failed = chan[c].failed
    <3>1. Ready(c) \in SUBSET Job /\ Waiting(c) \in SUBSET Job
      BY DEF PlaceInv, TypeOK, ChannelType, Ready, Waiting, Ripe
    <3>2. chan \in [Channel -> ChannelType]
      BY DEF PlaceInv, TypeOK
    <3>3. PICK C : C = [chan[c] EXCEPT !.queue = Ready(c), !.eta_queue = Waiting(c),
                                       !.pause_until = Unpaused(c)]
      OBVIOUS
    <3>4. chan' = [chan EXCEPT ![c] = C]
      BY <1>5, <3>3 DEF SkipEmpty
    <3>5. /\ C \in ChannelType
          /\ C.queue = Ready(c) /\ C.eta_queue = Waiting(c)
          /\ C.running = chan[c].running /\ C.failed = chan[c].failed
      BY <1>1, <3>1, <3>2, <3>3 DEF ChannelType
    <3> QED
      BY <3>2, <3>4, <3>5
  <2>2. jobs' = Ripen(c)
    BY <1>5 DEF SkipEmpty
  <2>3. TypeOK'
    BY <1>2, <1>5, <2>1, <2>2, RipenJobs DEF SkipEmpty, PlaceInv, TypeOK
  <2>4. \A j \in Job : Placed(chan', j, jobs[j])
    BY <2>1, RipenPlaces
  <2>5. \A j \in Job : Placed(chan', j, jobs'[j])
    BY <2>2, <2>4, RipenJobs DEF Placed
  <2> QED
    BY <2>3, <2>5 DEF PlaceInv, Fits
<1> QED
  BY <1>3, <1>4, <1>5

-----------------------------------------------------------------------------
(* The heads of the queues.                                                *)

\* The head of a queue is in it, and comes before the others.
LEMMA FirstLeast ==
  ASSUME TypeOK, NEW S \in SUBSET Job, S # {}, \A j \in S : jobs[j] # NoJob
  PROVE  First(S) \in S /\ \A k \in S \ {First(S)} : KeyLess(First(S), k)
<1>1. \A j \in S : jobs[j].priority \in Nat /\ Created[j] \in Nat
  BY JobType, ConfigAssumption DEF Config
<1>2. PICK x \in S : \A y \in S : jobs[x].priority <= jobs[y].priority
  <2> DEFINE rank == [j \in S |-> jobs[j].priority]
  <2>1. \A j \in S : rank[j] = jobs[j].priority /\ rank[j] \in Nat
    BY <1>1
  <2> HIDE DEF rank
  <2> QED
    BY <2>1, LeastRank
<1> DEFINE T == {y \in S : jobs[y].priority = jobs[x].priority}
<1>3. PICK z \in T : \A y \in T : Created[z] <= Created[y]
  <2>1. T # {} /\ \A y \in T : Created[y] \in Nat
    BY <1>1
  <2> HIDE DEF T
  <2> QED
    BY <2>1, LeastRank
<1>4. z \in S /\ \A k \in S \ {z} : KeyLess(z, k)
  <2> SUFFICES ASSUME NEW k \in S \ {z}
               PROVE  KeyLess(z, k)
    BY <1>3
  <2>1. CASE k \in T
    BY <1>1, <1>3, <2>1, ConfigAssumption DEF KeyLess, Config
  <2>2. CASE k \notin T
    BY <1>1, <1>2, <1>3, <2>2 DEF KeyLess
  <2> QED
    BY <2>1, <2>2
<1>5. \E j \in S : \A k \in S \ {j} : KeyLess(j, k)
  BY <1>4
<1> QED
  BY <1>5, Zenon DEF First

\* The jobs that are ready are jobs.
LEMMA ReadyType ==
  ASSUME PlaceInv, NEW c \in Channel
  PROVE  /\ Ready(c) \in SUBSET Job /\ Waiting(c) \in SUBSET Job
         /\ \A j \in Ready(c) \cup Waiting(c) : jobs[j] # NoJob
  BY DEF PlaceInv, TypeOK, ChannelType, Ready, Waiting, Ripe, Fits, Placed, Nowhere,
     Everywhere

\* The job that is popped was ready in the channel: it now runs there, and waits in
\* the queue of the parent.
LEMMA PopEffect ==
  ASSUME PlaceInv, NEW c \in Channel, NEW j \in Job, Pop(c, j)
  PROVE  /\ j \in Ready(c)
         /\ chan' \in [Channel -> ChannelType]
         /\ \A x \in Channel \ {c} :
              /\ c # Root /\ x = Parent[c] => chan'[x].queue = chan[x].queue \cup {j}
              /\ ~(c # Root /\ x = Parent[c]) => chan'[x] = chan[x]
              /\ chan'[x].eta_queue = chan[x].eta_queue
              /\ chan'[x].running = chan[x].running
              /\ chan'[x].failed = chan[x].failed
              /\ chan'[x].pause_until = chan[x].pause_until
         /\ chan'[c].queue = Ready(c) \ {j}
         /\ chan'[c].eta_queue = Waiting(c)
         /\ chan'[c].running = chan[c].running \cup {j}
         /\ chan'[c].failed = chan[c].failed
         /\ chan'[c].pause_until = Repaused(c)
<1>1. j \in Ready(c)
  BY ReadyType, FirstLeast DEF Pop, PlaceInv
<1> DEFINE box == [chan[c] EXCEPT
                     !.queue = Ready(c) \ {j}, !.eta_queue = Waiting(c),
                     !.running = @ \cup {j}, !.pause_until = Repaused(c)]
           popped == [chan EXCEPT ![c] = box]
<1>2. /\ box \in ChannelType
      /\ box.queue = Ready(c) \ {j} /\ box.eta_queue = Waiting(c)
      /\ box.running = chan[c].running \cup {j} /\ box.failed = chan[c].failed
      /\ box.pause_until = Repaused(c)
  <2>1. /\ chan[c] \in ChannelType /\ Repaused(c) \in Nat
        /\ Ready(c) \in SUBSET Job /\ Waiting(c) \in SUBSET Job
    BY ReadyType, ConfigAssumption DEF PlaceInv, TypeOK, Config, ChannelType, Repaused
  <2> QED
    BY <2>1 DEF ChannelType
<1>3. chan' = IF c = Root THEN popped ELSE [popped EXCEPT ![Parent[c]].queue = @ \cup {j}]
  BY DEF Pop
<1> HIDE DEF box
<1>4. chan \in [Channel -> ChannelType] /\ popped \in [Channel -> ChannelType]
  BY <1>2 DEF PlaceInv, TypeOK
<1>5. CASE c = Root
  BY <1>1, <1>2, <1>3, <1>4, <1>5
<1>6. CASE c # Root
  <2>1. Parent[c] \in Channel /\ Parent[c] # c
    BY <1>6, ParentAbove, PositionType
  <2> DEFINE above == [chan[Parent[c]] EXCEPT !.queue = @ \cup {j}]
  <2>2. /\ above \in ChannelType
        /\ above.queue = chan[Parent[c]].queue \cup {j}
        /\ above.eta_queue = chan[Parent[c]].eta_queue
        /\ above.running = chan[Parent[c]].running
        /\ above.failed = chan[Parent[c]].failed
        /\ above.pause_until = chan[Parent[c]].pause_until
    BY <1>4, <2>1 DEF ChannelType
  <2>3. chan' = [popped EXCEPT ![Parent[c]] = above]
    BY <1>3, <1>4, <1>6, <2>1
  <2> HIDE DEF above
  <2> QED
    BY <1>1, <1>2, <1>4, <1>6, <2>1, <2>2, <2>3
<1> QED
  BY <1>5, <1>6

\* The pop of a job, with its move to the parent or to the running ones, keeps it.
LEMMA PopPlaces ==
  ASSUME PlaceInv, NEW c \in Channel, NEW j \in Job, Pop(c, j)
  PROVE  PlaceInv'
<1>1. jobs' = Ripen(c) /\ UNCHANGED <<cursor, now>>
      /\ last_pop' = [last_pop EXCEPT ![c] = IF Throttle[c] > 0 THEN now ELSE @]
  BY DEF Pop
<1>2. TypeOK'
  BY <1>1, PopEffect, RipenJobs DEF PlaceInv, TypeOK
<1>3. \A k \in Job \ {j} : Placed(chan', k, jobs[k])
  <2> TAKE k \in Job \ {j}
  <2>1. Placed(chan, k, jobs[k])
    BY DEF PlaceInv, Fits
  <2>2. \A x \in Channel :
          /\ k \in Everywhere(chan'[x]) <=> k \in Everywhere(chan[x])
          /\ k \in chan'[x].running <=> k \in chan[x].running
          /\ k \in chan'[x].failed <=> k \in chan[x].failed
          /\ k \in chan'[x].eta_queue => k \in chan[x].eta_queue
    BY PopEffect DEF Ready, Waiting, Ripe, Everywhere
  <2>3. Once(chan', k)
    BY <2>1, PopEffect DEF Placed, Once, Ready, Waiting, Ripe
  <2>4. ASSUME jobs[k] # NoJob, OnPath(chan, k, jobs[k].channel)
        PROVE  OnPath(chan', k, jobs[k].channel)
    <3>1. \A x \in Up[jobs[k].channel] : x \in Channel /\ (x # Root => Parent[x] \in Channel)
      BY <2>4, JobType, UpChannel, ParentAbove DEF PlaceInv
    <3> QED
      BY <2>2, <2>4, <3>1 DEF OnPath
  <2> QED
    BY <2>1, <2>2, <2>3, <2>4 DEF Placed, Nowhere
<1>4. Placed(chan', j, jobs[j])
  <2> DEFINE home == jobs[j].channel
  <2>1. /\ j \in Ready(c) /\ jobs[j] # NoJob /\ home \in Channel
        /\ Once(chan, j) /\ OnPath(chan, j, home)
    BY PopEffect, ReadyType, JobType DEF PlaceInv, Fits, Placed
  <2>2. j \in chan[c].queue \cup chan[c].eta_queue /\ c \in Up[home]
    BY <2>1 DEF Ready, Ripe, OnPath, Everywhere
  <2>3. j \notin chan[c].running /\ j \notin chan[c].failed
    BY <2>1, <2>2 DEF Once
  <2>4. c # Root => j \notin Everywhere(chan[Parent[c]])
    BY <2>1, <2>2, <2>3 DEF OnPath
  <2>5. c # Root => Parent[c] \in Channel \ {c} /\ Parent[c] \in Up[home]
    BY <2>1, <2>2, ParentAbove, ParentTransitive, PositionType
  <2>6. Once(chan', j)
    BY <2>1, <2>3, <2>4, <2>5, PopEffect DEF Once, Ready, Waiting, Ripe, Everywhere
  <2>7. \A x \in Channel \ Up[home] : j \notin Everywhere(chan'[x])
    BY <2>1, <2>2, <2>5, PopEffect DEF OnPath, Everywhere
  <2>8. \A x \in Up[home] \ {home} : j \notin chan'[x].failed \cup chan'[x].eta_queue
    BY <2>1, <2>2, UpChannel, PopEffect DEF OnPath, Waiting
  <2>9. ASSUME NEW x \in Up[home] \ {Root}
        PROVE  j \in chan'[x].running <=> j \in Everywhere(chan'[Parent[x]])
    <3>1. x \in Channel \ {Root} /\ Parent[x] \in Channel
      BY <2>1, UpChannel, ParentAbove
    <3>2. CASE x = c
      BY <2>5, <3>1, <3>2, PopEffect DEF Everywhere
    <3>3. CASE x # c /\ Parent[x] = c
      <4>1. j \in chan'[x].running <=> j \in chan[x].running
        BY <3>1, <3>3, PopEffect
      <4> QED
        BY <2>1, <2>2, <3>1, <3>3, <4>1, PopEffect DEF OnPath, Everywhere
    <3>4. CASE x # c /\ Parent[x] # c /\ (c = Root \/ Parent[x] # Parent[c])
      BY <2>1, <3>1, <3>4, PopEffect DEF OnPath, Everywhere
    <3>5. CASE x # c /\ c # Root /\ Parent[x] = Parent[c]
      <4>1. CASE x \in Up[c]
        <5>1. x \in Up[Parent[c]]
          BY <2>2, <3>5, <4>1, ParentAbove
        <5> QED
          BY <3>1, <3>5, <5>1, ParentAbove
      <4>2. CASE c \in Up[x]
        <5>1. c \in Up[Parent[x]]
          BY <3>1, <3>5, <4>2, ParentAbove
        <5> QED
          BY <3>5, <5>1, ParentAbove
      <4> QED
        BY <2>1, <2>2, <4>1, <4>2, AboveLinear
    <3> QED
      BY <3>2, <3>3, <3>4, <3>5
  <2>10. OnPath(chan', j, home)
    BY <2>7, <2>8, <2>9 DEF OnPath
  <2> QED
    BY <2>1, <2>6, <2>10 DEF Placed
<1>5. \A k \in Job : Placed(chan', k, jobs'[k])
  BY <1>1, <1>3, <1>4, RipenJobs DEF Placed
<1> QED
  BY <1>2, <1>5 DEF PlaceInv, Fits
-----------------------------------------------------------------------------
(* The invariant of the places.                                            *)

\* The manager starts with empty channels.
LEMMA InitPlaces ==
  ASSUME Init
  PROVE  PlaceInv
<1>1. EmptyChannel \in ChannelType
  BY DEF EmptyChannel, ChannelType
<1>2. Len(PostOrder) \in Nat
  BY PostOrderAssumption, LenProperties DEF ChildrenFirst
<1>3. TypeOK
  BY <1>1, <1>2 DEF Init, TypeOK, Visits
<1>4. \A j \in Job : Placed(chan, j, jobs[j])
  BY DEF Init, Placed, Once, Nowhere, Everywhere, EmptyChannel
<1> QED
  BY <1>3, <1>4 DEF PlaceInv, Fits

\* Removing everything leaves nothing anywhere.
LEMMA RemoveDbPlaces ==
  ASSUME PlaceInv, RemoveDb, UNCHANGED <<cursor, now, last_pop>>
  PROVE  PlaceInv'
<1>1. \A c \in Channel :
        /\ chan'[c] \in ChannelType
        /\ Everywhere(chan'[c]) = {}
  BY DEF RemoveDb, PlaceInv, TypeOK, ChannelType, Everywhere
<1>2. TypeOK'
  BY <1>1 DEF RemoveDb, PlaceInv, TypeOK
<1>3. \A j \in Job : Placed(chan', j, jobs'[j])
  BY <1>1 DEF RemoveDb, Placed, Once, Nowhere, Everywhere
<1> QED
  BY <1>2, <1>3 DEF PlaceInv, Fits

\* Between two passes, and at their start and end, no job moves.
LEMMA ClockPlaces ==
  ASSUME PlaceInv, StartPass \/ EndPass \/ Tick
  PROVE  PlaceInv'
<1>1. UNCHANGED <<jobs, chan, last_pop>>
  BY DEF StartPass, EndPass, Tick
<1>2. Len(PostOrder) \in Nat
  BY PostOrderAssumption, LenProperties DEF ChildrenFirst
<1>3. TypeOK'
  BY <1>2 DEF StartPass, EndPass, Tick, PlaceInv, TypeOK, Visits
<1> QED
  BY <1>1, <1>3 DEF PlaceInv, Fits

\* Every step keeps the invariant.
LEMMA NextPlaces ==
  ASSUME PlaceInv, [Next]_vars
  PROVE  PlaceInv'
<1>1. CASE StartPass \/ EndPass \/ Tick
  BY <1>1, ClockPlaces
<1>2. ASSUME NEW c \in Channel, SkipPaused(c) \/ SkipFull(c) \/ SkipEmpty(c)
      PROVE  PlaceInv'
  BY <1>2, SkipPlaces
<1>3. ASSUME NEW c \in Channel, NEW j \in Job, Pop(c, j)
      PROVE  PlaceInv'
  BY <1>3, PopPlaces
<1>4. ASSUME NEW j \in Job, NEW d \in Notice[j], Notify(j, d)
      PROVE  PlaceInv'
  <2>1. d \in NoticeType
    BY ConfigAssumption DEF Config
  <2> QED
    BY <1>4, <2>1, NotifyPlaces
<1>5. ASSUME NEW j \in Job, RemoveJob(j)
      PROVE  PlaceInv'
  BY <1>5, RemoveJobPlaces
<1>6. CASE RemoveDb /\ UNCHANGED <<cursor, now, last_pop>>
  BY <1>6, RemoveDbPlaces
<1>7. CASE UNCHANGED vars
  BY <1>7 DEF vars, PlaceInv, TypeOK, Fits
<1> QED
  BY <1>1, <1>2, <1>3, <1>4, <1>5, <1>6, <1>7 DEF Next, Scheduling, Notification

\* The places are sound at any time.
LEMMA Places_Invariance == Spec => []PlaceInv
<1>1. Init => PlaceInv
  BY InitPlaces
<1>2. PlaceInv /\ [Next]_vars => PlaceInv'
  BY NextPlaces
<1> QED
  BY <1>1, <1>2, PTL DEF Spec

\* Every variable of the manager keeps its type; the head of a queue that is popped
\* is a job of it.
THEOREM Typing == Spec => []TypeOK
<1>1. PlaceInv => TypeOK
  BY DEF PlaceInv
<1> QED
  BY <1>1, Places_Invariance, PTL

\* A job is in one place of a channel at most, whatever it is told of jobs, and
\* whichever way the passes of get_jobs_to_run move them (channels.py, Channel).
THEOREM PlacedOnce == Spec => []SinglePlace
<1>1. ASSUME PlaceInv, NEW c \in Channel, NEW j \in Job
      PROVE  Cardinality({f \in {"queue", "eta_queue", "running", "failed"} :
                            j \in chan[c][f]}) <= 1
  <2> DEFINE S == {f \in {"queue", "eta_queue", "running", "failed"} : j \in chan[c][f]}
  <2>1. \A f, g \in S : f = g
    BY <1>1 DEF PlaceInv, Fits, Placed, Once
  <2>2. CASE S = {}
    BY <2>2, FS_EmptySet
  <2>3. CASE S # {}
    <3>1. PICK f \in S : TRUE
      BY <2>3
    <3>2. S = {f}
      BY <2>1, <3>1
    <3>3. Cardinality({f}) = 1
      BY FS_Singleton
    <3> QED
      BY <3>2, <3>3
  <2> QED
    BY <2>2, <2>3
<1>2. PlaceInv => SinglePlace
  BY <1>1 DEF SinglePlace
<1> QED
  BY <1>2, Places_Invariance, PTL

\* The places of a job along the tree fit together: it runs in a channel exactly when
\* it has reached the parent, in trees of any shape.
THEOREM PathsFit == Spec => []PathConsistent
<1>1. PlaceInv => PathConsistent
  <2> SUFFICES ASSUME PlaceInv, NEW j \in Job
               PROVE  IF jobs[j] = NoJob
                        THEN \A c \in Channel : j \notin Places(c)
                        ELSE LET home == jobs[j].channel
                             IN  /\ \A c \in Channel \ Up[home] : j \notin Places(c)
                                 /\ \A c \in Up[home] \ {home} :
                                      j \notin chan[c].failed \cup chan[c].eta_queue
                                 /\ \A c \in Up[home] \ {Root} :
                                      j \in chan[c].running <=> j \in Places(Parent[c])
    BY DEF PathConsistent
  <2>1. \A c : Places(c) = Everywhere(chan[c])
    BY DEF Places, Everywhere
  <2>2. Placed(chan, j, jobs[j])
    BY DEF PlaceInv, Fits
  <2> QED
    BY <2>1, <2>2 DEF Placed, Nowhere, OnPath
<1> QED
  BY <1>1, Places_Invariance, PTL
-----------------------------------------------------------------------------
(* The throttle.                                                           *)

\* A throttled channel has paused for long enough since it last yielded, or that time
\* is over; a channel without throttle never pauses.
PauseHolds(c) ==
  /\ Throttle[c] = 0 => chan[c].pause_until = 0
  /\ Throttle[c] > 0 /\ last_pop[c] # 0 =>
       \/ last_pop[c] + Throttle[c] <= chan[c].pause_until
       \/ last_pop[c] + Throttle[c] <= now

ThrottleInv == PlaceInv /\ \A c \in Channel : PauseHolds(c)

\* What the arithmetic of the pauses is about.
LEMMA PauseTypes ==
  ASSUME TypeOK, NEW c \in Channel
  PROVE  /\ chan[c].pause_until \in Nat /\ last_pop[c] \in Nat /\ now \in Nat
         /\ Throttle[c] \in Nat
  BY ConfigAssumption DEF TypeOK, ChannelType, Config

\* When the channel is not paused any more, the throttle has elapsed.
LEMMA PauseOver ==
  ASSUME ThrottleInv, NEW c \in Channel, ~Paused(c)
  PROVE  /\ Throttle[c] > 0 /\ last_pop[c] # 0 => last_pop[c] + Throttle[c] <= now
         /\ Unpaused(c) = 0
  BY PauseTypes DEF ThrottleInv, PlaceInv, PauseHolds, Paused, Unpaused

\* A notification moves the job only: the pauses stay.
LEMMA PausesStay ==
  ASSUME PlaceInv, Notification
  PROVE  /\ \A c \in Channel : chan'[c].pause_until = chan[c].pause_until
         /\ cursor = 0 /\ UNCHANGED <<cursor, now, last_pop>>
<1>1. ASSUME NEW j \in Job, NEW d \in Notice[j], Notify(j, d)
      PROVE  \A c \in Channel : chan'[c].pause_until = chan[c].pause_until
  <2>1. d \in NoticeType
    BY ConfigAssumption DEF Config
  <2> QED
    BY <1>1, <2>1, NotifyEffect DEF Moved
<1>2. ASSUME NEW j \in Job, RemoveJob(j)
      PROVE  \A c \in Channel : chan'[c].pause_until = chan[c].pause_until
  BY <1>2, RemoveJobPlaces DEF Moved
<1>3. ASSUME RemoveDb
      PROVE  \A c \in Channel : chan'[c].pause_until = chan[c].pause_until
  BY <1>3 DEF RemoveDb, PlaceInv, TypeOK, ChannelType
<1>4. cursor = 0 /\ UNCHANGED <<cursor, now, last_pop>>
  BY DEF Notification, Notify, RemoveJob
<1> QED
  BY <1>1, <1>2, <1>3, <1>4 DEF Notification

\* What the steps of a pass do to the channels that are not visited, and to the
\* running jobs.
LEMMA VisitEffect ==
  ASSUME PlaceInv, NEW c \in Channel,
         SkipPaused(c) \/ SkipFull(c) \/ SkipEmpty(c) \/ (\E j \in Job : Pop(c, j))
  PROVE  /\ Visiting(c) /\ UNCHANGED now
         /\ \A x \in Channel \ {c} :
              /\ chan'[x].pause_until = chan[x].pause_until
              /\ chan'[x].running = chan[x].running
              /\ last_pop'[x] = last_pop[x]
              /\ ~(c # Root /\ x = Parent[c]) => chan'[x] = chan[x]
         /\ \/ chan'[c].running = chan[c].running
            \/ \E j \in Job : Pop(c, j)
<1>1. CASE SkipPaused(c)
  BY <1>1 DEF SkipPaused
<1>2. CASE SkipFull(c)
  BY <1>2 DEF SkipFull, PlaceInv, TypeOK, ChannelType
<1>3. CASE SkipEmpty(c)
  BY <1>3 DEF SkipEmpty, PlaceInv, TypeOK, ChannelType
<1>4. ASSUME NEW j \in Job, Pop(c, j)
      PROVE  /\ Visiting(c) /\ UNCHANGED now
             /\ \A x \in Channel \ {c} :
                  /\ chan'[x].pause_until = chan[x].pause_until
                  /\ chan'[x].running = chan[x].running
                  /\ last_pop'[x] = last_pop[x]
                  /\ ~(c # Root /\ x = Parent[c]) => chan'[x] = chan[x]
  <2>1. Visiting(c) /\ UNCHANGED now
    BY <1>4 DEF Pop
  <2>2. \A x \in Channel \ {c} : last_pop'[x] = last_pop[x]
    BY <1>4 DEF Pop, PlaceInv, TypeOK
  <2> QED
    BY <1>4, <2>1, <2>2, PopEffect
<1> QED
  BY <1>1, <1>2, <1>3, <1>4

\* Every step keeps the pauses long enough.
LEMMA NextThrottle ==
  ASSUME ThrottleInv, [Next]_vars
  PROVE  ThrottleInv'
<1>1. PlaceInv /\ PlaceInv' /\ TypeOK /\ TypeOK'
  BY NextPlaces DEF ThrottleInv, PlaceInv
<1>2. \A c \in Channel :
        /\ chan[c].pause_until \in Nat /\ last_pop[c] \in Nat /\ now \in Nat
        /\ Throttle[c] \in Nat
  BY <1>1, PauseTypes
<1>3. CASE /\ now' \in Nat /\ now <= now'
           /\ \A c \in Channel : /\ chan'[c].pause_until = chan[c].pause_until
                                 /\ last_pop'[c] = last_pop[c]
  <2>1. ASSUME NEW c \in Channel
        PROVE  PauseHolds(c)'
    BY <1>2, <1>3 DEF ThrottleInv, PauseHolds
  <2> QED
    BY <1>1, <2>1 DEF ThrottleInv
<1>4. CASE StartPass \/ EndPass \/ Tick \/ UNCHANGED vars
  <2>1. UNCHANGED <<chan, last_pop>> /\ now' \in Nat /\ now <= now'
    BY <1>1, <1>4 DEF StartPass, EndPass, Tick, vars, TypeOK
  <2> QED
    BY <1>3, <2>1
<1>5. CASE Notification
  BY <1>1, <1>3, <1>5, PausesStay DEF TypeOK
<1>6. ASSUME NEW c \in Channel,
             SkipPaused(c) \/ SkipFull(c) \/ SkipEmpty(c) \/ (\E j \in Job : Pop(c, j))
      PROVE  ThrottleInv'
  <2>1. now' = now /\ \A x \in Channel \ {c} : PauseHolds(x)'
    BY <1>1, <1>2, <1>6, VisitEffect DEF ThrottleInv, PauseHolds
  <2>2. PauseHolds(c)'
    <3>1. CASE SkipPaused(c)
      BY <3>1 DEF SkipPaused, ThrottleInv, PauseHolds
    <3>2. CASE SkipFull(c) \/ SkipEmpty(c)
      <4>1. ~Paused(c) /\ last_pop' = last_pop /\ chan'[c].pause_until = Unpaused(c)
        BY <1>1, <3>2 DEF SkipFull, SkipEmpty, TypeOK, ChannelType
      <4> QED
        BY <1>2, <2>1, <4>1, PauseOver DEF PauseHolds
    <3>3. CASE \E j \in Job : Pop(c, j)
      <4>1. PICK j \in Job : Pop(c, j)
        BY <3>3
      <4>2. chan'[c].pause_until = Repaused(c)
        BY <1>1, <4>1, PopEffect
      <4>3. last_pop'[c] = IF Throttle[c] > 0 THEN now ELSE last_pop[c]
        BY <1>1, <4>1 DEF Pop, TypeOK
      <4> QED
        BY <1>2, <2>1, <4>2, <4>3 DEF PauseHolds, Repaused, ThrottleInv
    <3> QED
      BY <1>6, <3>1, <3>2, <3>3
  <2> QED
    BY <1>1, <2>1, <2>2 DEF ThrottleInv
<1> QED
  BY <1>4, <1>5, <1>6 DEF Next, Scheduling

\* The pauses are long enough at any time.
LEMMA Throttle_Invariance == Spec => []ThrottleInv
<1>1. Init => ThrottleInv
  <2>1. ASSUME Init, NEW c \in Channel
        PROVE  PauseHolds(c)
    BY <2>1 DEF Init, EmptyChannel, PauseHolds
  <2> QED
    BY <2>1, InitPlaces DEF ThrottleInv
<1>2. ThrottleInv /\ [Next]_vars => ThrottleInv'
  BY NextThrottle
<1> QED
  BY <1>1, <1>2, PTL DEF Spec

\* A channel is visited once in a pass.
LEMMA VisitOnce ==
  ASSUME NEW c \in Channel, Visiting(c)
  PROVE  cursor = Position(c) /\ cursor \in Nat /\ cursor # 0
<1>1. /\ cursor \in 1..Len(PostOrder) /\ PostOrder[cursor] = c
      /\ Position(c) \in 1..Len(PostOrder) /\ PostOrder[Position(c)] = c
      /\ c \in Up[c] /\ Len(PostOrder) \in Nat
  BY PositionType, PostOrderAssumption, LenProperties DEF Visiting, Visits, ChildrenFirst
<1>2. ~(cursor < Position(c)) /\ ~(Position(c) < cursor)
  BY <1>1, PostOrderAssumption DEF ChildrenFirst
<1> QED
  BY <1>1, <1>2

\* Two jobs that a throttled channel yields are `throttle' seconds apart, whatever is
\* notified in between (channels.py, Channel.get_jobs_to_run).
THEOREM ThrottleKept == Spec => ThrottleSpaced
<1>1. ASSUME ThrottleInv, [Next]_vars
      PROVE  [\A c \in Channel :
                Throttle[c] > 0 /\ last_pop[c] # 0 /\ Visiting(c)
                /\ chan[c].running # chan'[c].running
                  => now >= last_pop[c] + Throttle[c]]_vars
  <2> SUFFICES ASSUME NEW c \in Channel, Throttle[c] > 0, last_pop[c] # 0, Visiting(c),
                      chan[c].running # chan'[c].running
               PROVE  now >= last_pop[c] + Throttle[c]
    OBVIOUS
  <2>1. PlaceInv /\ cursor # 0 /\ cursor \in 1..Visits
    BY <1>1, VisitOnce DEF ThrottleInv, Visiting
  <2>2. PICK x \in Channel :
          SkipPaused(x) \/ SkipFull(x) \/ SkipEmpty(x) \/ (\E j \in Job : Pop(x, j))
    <3>1. Visits \in Nat
      BY PostOrderAssumption, LenProperties DEF ChildrenFirst, Visits
    <3>2. ~StartPass /\ ~EndPass /\ ~Tick /\ ~Notification /\ ~UNCHANGED vars
      BY <2>1, <3>1 DEF StartPass, EndPass, Tick, Notification, vars
    <3> QED
      BY <1>1, <3>2 DEF Next, Scheduling
  <2>3. x = c
    BY <2>1, <2>2, VisitEffect DEF Visiting
  <2>4. \E j \in Job : Pop(c, j)
    BY <2>1, <2>2, <2>3, VisitEffect
  <2>5. ~Paused(c)
    BY <2>4 DEF Pop
  <2>6. last_pop[c] + Throttle[c] <= now
    BY <1>1, <2>5, PauseOver
  <2> QED
    BY <2>1, <2>6, PauseTypes DEF PlaceInv
<1> QED
  BY <1>1, Throttle_Invariance, PTL DEF Spec, ThrottleSpaced
-----------------------------------------------------------------------------
(* What a pass leaves behind.                                              *)

\* A channel that the pass has left: what it still holds could not be started.
Passed(c) ==
  \/ Paused(c)
  \/ /\ chan[c].pause_until = 0
     /\ HasCapacity(c) => Ripe(c) = {} /\ (chan[c].queue = {} \/ HeldBack(c))

PassInv ==
  cursor # 0 => \A c \in Channel : Position(c) < cursor => Passed(c)

\* The head of a queue of etas is in it, and comes before the others.
LEMMA FirstByEtaLeast ==
  ASSUME TypeOK, NEW S \in SUBSET Job, S # {}, \A j \in S : jobs[j] # NoJob
  PROVE  /\ FirstByEta(S) \in S
         /\ \A k \in S \ {FirstByEta(S)} :
              \/ jobs[FirstByEta(S)].eta < jobs[k].eta
              \/ jobs[FirstByEta(S)].eta = jobs[k].eta /\ KeyLess(FirstByEta(S), k)
<1>1. \A j \in S : jobs[j].eta \in Nat
  BY JobType
<1>2. PICK x \in S : \A y \in S : jobs[x].eta <= jobs[y].eta
  <2> DEFINE rank == [j \in S |-> jobs[j].eta]
  <2>1. \A j \in S : rank[j] = jobs[j].eta /\ rank[j] \in Nat
    BY <1>1
  <2> HIDE DEF rank
  <2> QED
    BY <2>1, LeastRank
<1> DEFINE T == {y \in S : jobs[y].eta = jobs[x].eta}
<1>3. First(T) \in T /\ \A k \in T \ {First(T)} : KeyLess(First(T), k)
  BY FirstLeast
<1>4. \E j \in S : \A k \in S \ {j} :
        \/ jobs[j].eta < jobs[k].eta
        \/ jobs[j].eta = jobs[k].eta /\ KeyLess(j, k)
  <2>1. \A k \in S \ {First(T)} :
          \/ jobs[First(T)].eta < jobs[k].eta
          \/ jobs[First(T)].eta = jobs[k].eta /\ KeyLess(First(T), k)
    BY <1>1, <1>2, <1>3
  <2> QED
    BY <1>3, <2>1
<1> QED
  BY <1>4, Zenon DEF FirstByEta

\* The heads of queues whose jobs are known.
Heads ==
  \A S \in SUBSET Job : S # {} /\ (\A j \in S : jobs[j] # NoJob) =>
    /\ First(S) \in S
    /\ \A k \in S \ {First(S)} : KeyLess(First(S), k)
    /\ FirstByEta(S) \in S
    /\ \A k \in S \ {FirstByEta(S)} :
         \/ jobs[FirstByEta(S)].eta < jobs[k].eta
         \/ jobs[FirstByEta(S)].eta = jobs[k].eta /\ KeyLess(FirstByEta(S), k)

\* What First and FirstByEta choose exists in every typed state.
LEMMA HeadsExist == TypeOK => Heads
  BY FirstLeast, FirstByEtaLeast DEF Heads

\* So they do after a step.
LEMMA HeadsExistNext == TypeOK' => Heads'
  BY HeadsExist, PTL

\* Jobs keep what they are sorted by, at least those of S their etas.
KeysKept(S) ==
  /\ \A j \in Job : jobs[j] # NoJob => jobs'[j] # NoJob /\ jobs'[j].priority = jobs[j].priority
  /\ \A j \in S : jobs'[j].eta = jobs[j].eta

\* The etas that a channel forgets are those of its ripe jobs.
LEMMA RipenKeeps ==
  ASSUME PlaceInv, NEW c \in Channel, jobs' = Ripen(c), NEW S \in SUBSET Job,
         S \cap Ripe(c) = {}, \A j \in S : jobs[j] # NoJob
  PROVE  KeysKept(S)
<1>1. \A j \in S : j \in Job /\ j \notin Ripe(c)
  OBVIOUS
<1> QED
  BY <1>1, RipenJobs DEF KeysKept

\* A job does not come before one that comes before it.
LEMMA KeysAsymmetric ==
  ASSUME TypeOK, NEW j \in Job, NEW k \in Job, jobs[j] # NoJob, jobs[k] # NoJob,
         KeyLess(j, k), KeyLess(k, j)
  PROVE  FALSE
  BY JobType, ConfigAssumption DEF KeyLess, Config

\* A sequential channel that waits goes on waiting when etas are forgotten, but for
\* those of its own queue.
LEMMA HeldBackStays ==
  ASSUME PlaceInv, PlaceInv', NEW x \in Channel, KeysKept(Waiting(x)),
         Ready(x)' = Ready(x), Waiting(x)' = Waiting(x), HeldBack(x)
  PROVE  HeldBack(x)'
<1>0. PICK R, W, f, fn, g, gn :
        /\ R = Ready(x) /\ W = Waiting(x)
        /\ f = First(R) /\ fn = First(R)'
        /\ g = FirstByEta(W) /\ gn = FirstByEta(W)'
  OBVIOUS
<1>1. TypeOK /\ Heads /\ Heads'
  BY HeadsExist, HeadsExistNext DEF PlaceInv
<1>2. /\ R \in SUBSET Job /\ W \in SUBSET Job /\ R # {} /\ W # {}
      /\ \A j \in R \cup W : jobs[j] # NoJob /\ jobs'[j] # NoJob
  BY <1>0, ReadyType DEF HeldBack, KeysKept
<1>3. \A j, k \in R \cup W : KeyLess(j, k)' <=> KeyLess(j, k)
  BY <1>2 DEF KeyLess, KeysKept
<1>4. \A j \in W : jobs'[j].eta = jobs[j].eta /\ jobs[j].eta \in Nat
  <2>1. \A j \in W : j \in Job /\ jobs[j] # NoJob
    BY <1>2
  <2> QED
    BY <1>0, <1>1, <2>1, JobType DEF KeysKept
<1>5. \A j, k \in R \cup W : ~(KeyLess(j, k) /\ KeyLess(k, j))
  BY <1>1, <1>2, KeysAsymmetric
<1>6. f \in R /\ fn \in R /\ f = fn
  <2>1. f \in R /\ \A k \in R \ {f} : KeyLess(f, k)
    BY <1>0, <1>1, <1>2 DEF Heads
  <2>2. fn \in R /\ \A k \in R \ {fn} : KeyLess(fn, k)'
    BY <1>0, <1>1, <1>2 DEF Heads
  <2> QED
    BY <1>3, <1>5, <2>1, <2>2
<1>7. g \in W /\ gn \in W /\ g = gn
  <2>1. g \in W /\ \A k \in W \ {g} : \/ jobs[g].eta < jobs[k].eta
                                      \/ jobs[g].eta = jobs[k].eta /\ KeyLess(g, k)
    BY <1>0, <1>1, <1>2 DEF Heads
  <2>2. gn \in W /\ \A k \in W \ {gn} : \/ jobs'[gn].eta < jobs'[k].eta
                                        \/ jobs'[gn].eta = jobs'[k].eta /\ KeyLess(gn, k)'
    BY <1>0, <1>1, <1>2 DEF Heads
  <2> QED
    BY <1>3, <1>4, <1>5, <2>1, <2>2
<1>8. KeyLess(g, f)'
  BY <1>0, <1>3, <1>6, <1>7 DEF HeldBack
<1> QED
  BY <1>0, <1>2, <1>6, <1>7, <1>8 DEF HeldBack

\* A job waits for its eta in its own channel only.
LEMMA EtaAtHome ==
  ASSUME PlaceInv, NEW c \in Channel, NEW x \in Channel, c # x
  PROVE  chan[c].eta_queue \cap chan[x].eta_queue = {}
<1> SUFFICES ASSUME NEW j \in chan[c].eta_queue, j \in chan[x].eta_queue
             PROVE  FALSE
  OBVIOUS
<1>1. j \in Job
  BY DEF PlaceInv, TypeOK, ChannelType
<1>2. Placed(chan, j, jobs[j]) /\ j \in Everywhere(chan[c]) /\ j \in Everywhere(chan[x])
  BY <1>1 DEF PlaceInv, Fits, Everywhere
<1>3. OnPath(chan, j, jobs[j].channel)
  BY <1>2 DEF Placed, Nowhere
<1> QED
  BY <1>2, <1>3 DEF OnPath

\* What was left behind in a channel stays so while the pass goes on in another one.
LEMMA PassedStays ==
  ASSUME PlaceInv, PlaceInv', NEW x \in Channel, KeysKept(chan[x].eta_queue),
         chan'[x] = chan[x], now' = now, Passed(x)
  PROVE  Passed(x)'
<1>1. (Paused(x) => Paused(x)') /\ (HasCapacity(x)' <=> HasCapacity(x))
  BY DEF Paused, HasCapacity
<1>2. Ripe(x)' = Ripe(x)
  BY DEF Ripe, KeysKept
<1>3. Ready(x)' = Ready(x) /\ Waiting(x)' = Waiting(x) /\ KeysKept(Waiting(x))
  BY <1>2 DEF Ready, Waiting, KeysKept
<1>4. HeldBack(x) => HeldBack(x)'
  BY <1>3, HeldBackStays
<1> QED
  BY <1>1, <1>2, <1>4 DEF Passed

\* The steps that leave a channel leave nothing behind that could be started.
LEMMA LeavesPassed ==
  ASSUME ThrottleInv, PlaceInv', NEW c \in Channel,
         SkipPaused(c) \/ SkipFull(c) \/ SkipEmpty(c)
  PROVE  Passed(c)'
<1>1. PlaceInv /\ TypeOK /\ chan \in [Channel -> ChannelType]
  BY DEF ThrottleInv, PlaceInv, TypeOK
<1>2. CASE SkipPaused(c)
  BY <1>2 DEF SkipPaused, Passed, Paused
<1>3. CASE SkipFull(c)
  <2>1. Unpaused(c) = 0
    BY <1>3, PauseOver DEF SkipFull
  <2>2. /\ chan'[c].pause_until = 0
        /\ chan'[c].failed = chan[c].failed /\ chan'[c].running = chan[c].running
    BY <1>1, <1>3, <2>1 DEF SkipFull, ChannelType
  <2>3. ~HasCapacity(c)'
    BY <1>3, <2>2 DEF SkipFull, HasCapacity
  <2> QED
    BY <2>2, <2>3 DEF Passed
<1>4. CASE SkipEmpty(c)
  <2>1. Unpaused(c) = 0 /\ jobs' = Ripen(c) /\ now' = now
    BY <1>4, PauseOver DEF SkipEmpty
  <2>2. /\ chan'[c].pause_until = 0
        /\ chan'[c].queue = Ready(c) /\ chan'[c].eta_queue = Waiting(c)
    BY <1>1, <1>4, <2>1 DEF SkipEmpty, ChannelType
  <2>3. KeysKept(Waiting(c)) /\ \A j \in Waiting(c) : ~(jobs[j].eta <= now)
    BY <1>1, <2>1, RipenKeeps, ReadyType DEF Waiting, Ripe
  <2>4. Ripe(c)' = {}
    BY <2>1, <2>2, <2>3 DEF Ripe, KeysKept
  <2>5. Ready(c)' = Ready(c) /\ Waiting(c)' = Waiting(c)
    BY <2>2, <2>4 DEF Ready, Waiting
  <2>6. HeldBack(c) => HeldBack(c)'
    BY <1>1, <2>3, <2>5, HeldBackStays
  <2>7. Ready(c) = {} \/ HeldBack(c)
    BY <1>4 DEF SkipEmpty
  <2> QED
    BY <2>2, <2>4, <2>6, <2>7 DEF Passed
<1> QED
  BY <1>2, <1>3, <1>4

\* Every step keeps what the pass has left behind as it was.
LEMMA NextPass ==
  ASSUME ThrottleInv, PassInv, [Next]_vars
  PROVE  PassInv'
<1>1. PlaceInv /\ PlaceInv' /\ TypeOK /\ cursor \in Nat
  BY NextPlaces DEF ThrottleInv, PlaceInv, TypeOK
<1>2. CASE StartPass
  <2>1. \A c \in Channel : ~(Position(c) < 1)
    BY PositionType
  <2> QED
    BY <1>2, <2>1 DEF StartPass, PassInv
<1>3. CASE EndPass \/ Tick \/ Notification
  BY <1>1, <1>3, PausesStay DEF EndPass, Tick, PassInv
<1>4. ASSUME NEW c \in Channel,
             SkipPaused(c) \/ SkipFull(c) \/ SkipEmpty(c) \/ (\E j \in Job : Pop(c, j))
      PROVE  PassInv'
  <2>1. cursor = Position(c) /\ cursor # 0 /\ now' = now
    BY <1>1, <1>4, VisitEffect, VisitOnce
  <2>2. ASSUME NEW x \in Channel, Position(x) < cursor
        PROVE  Passed(x)'
    <3>1. Passed(x) /\ x # c
      BY <1>1, <2>1, <2>2 DEF PassInv
    <3>2. c # Root => x # Parent[c]
      BY <2>1, <2>2, ParentAbove, PositionType
    <3>3. chan'[x] = chan[x]
      BY <1>1, <1>4, <3>1, <3>2, VisitEffect
    <3>4. jobs' = Ripen(c) \/ jobs' = jobs
      BY <1>4 DEF SkipPaused, SkipFull, SkipEmpty, Pop
    <3>5. /\ chan[x].eta_queue \in SUBSET Job
          /\ chan[x].eta_queue \cap Ripe(c) = {}
          /\ \A j \in chan[x].eta_queue : jobs[j] # NoJob
      BY <1>1, <3>1, EtaAtHome
         DEF TypeOK, ChannelType, Ripe, PlaceInv, Fits, Placed, Nowhere, Everywhere
    <3>6. KeysKept(chan[x].eta_queue)
      <4>1. CASE jobs' = jobs
        BY <4>1 DEF KeysKept
      <4>2. CASE jobs' = Ripen(c)
        BY <1>1, <3>5, <4>2, RipenKeeps
      <4> QED
        BY <3>4, <4>1, <4>2
    <3> QED
      BY <1>1, <2>1, <3>1, <3>3, <3>6, PassedStays
  <2>3. CASE SkipPaused(c) \/ SkipFull(c) \/ SkipEmpty(c)
    <3>1. Passed(c)' /\ cursor' = cursor + 1
      BY <1>1, <2>3, LeavesPassed DEF SkipPaused, SkipFull, SkipEmpty
    <3>2. \A x \in Channel : Position(x) < cursor + 1 => x = c \/ Position(x) < cursor
      BY <1>1, <2>1, PositionType
    <3> QED
      BY <2>2, <3>1, <3>2 DEF PassInv
  <2>4. CASE \E j \in Job : Pop(c, j)
    <3>1. cursor' = cursor
      BY <2>4 DEF Pop
    <3> QED
      BY <2>2, <3>1 DEF PassInv
  <2> QED
    BY <1>4, <2>3, <2>4
<1>5. CASE UNCHANGED vars
  <2>1. UNCHANGED <<jobs, chan, cursor, now>> /\ \A S : KeysKept(S)
    BY <1>5 DEF vars, KeysKept
  <2>2. \A x \in Channel : Passed(x) => Passed(x)'
    BY <1>1, <2>1, PassedStays
  <2> QED
    BY <2>1, <2>2 DEF PassInv
<1> QED
  BY <1>2, <1>3, <1>4, <1>5 DEF Next, Scheduling

\* At any time of a pass, nothing is left behind that could be started.
LEMMA Pass_Invariance == Spec => [](ThrottleInv /\ PassInv)
<1>1. Init => PassInv
  BY DEF Init, PassInv
<1>2. ThrottleInv /\ PassInv /\ [Next]_vars => PassInv'
  BY NextPass
<1> QED
  BY <1>1, <1>2, Throttle_Invariance, PTL DEF Spec

\* At the end of a pass, every channel has been left.
LEMMA AllPassed ==
  ASSUME PassInv, cursor = Visits + 1, NEW c \in Channel
  PROVE  Passed(c)
<1>1. Position(c) \in 1..Len(PostOrder) /\ Len(PostOrder) \in Nat
  BY PositionType, PostOrderAssumption, LenProperties DEF ChildrenFirst
<1>2. Position(c) < cursor /\ cursor # 0
  BY <1>1 DEF Visits
<1> QED
  BY <1>2 DEF PassInv

\* A pass of get_jobs_to_run starts all that can be started, in trees of any shape.
THEOREM Conserving == Spec => []WorkConserving
<1>1. ThrottleInv /\ PassInv => WorkConserving
  <2> SUFFICES ASSUME PassInv, cursor = Visits + 1, NEW c \in Channel
               PROVE  Paused(c) \/ ~HasCapacity(c) \/ Ready(c) = {} \/ HeldBack(c)
    BY DEF WorkConserving
  <2>1. Passed(c)
    BY AllPassed
  <2> QED
    BY <2>1 DEF Passed, Ready
<1> QED
  BY <1>1, Pass_Invariance, PTL
-----------------------------------------------------------------------------
(* The wakeup time.                                                        *)

Wakes == UNION {Wakeups(c) : c \in {x \in Channel : Asked(x)}}

\* After a pass, every time at which a channel wants to be woken up is to come.
LEMMA WakesLater ==
  ASSUME ThrottleInv, PassInv, cursor = Visits + 1
  PROVE  \A t \in Wakes : t \in Nat /\ t > now
<1> SUFFICES ASSUME NEW c \in Channel, NEW t \in Wakeups(c)
             PROVE  t \in Nat /\ t > now
  BY DEF Wakes
<1>1. Passed(c) /\ TypeOK /\ now \in Nat /\ chan[c].pause_until \in Nat
  BY AllPassed, PauseTypes DEF ThrottleInv, PlaceInv
<1>2. CASE chan[c].pause_until # 0
  BY <1>1, <1>2 DEF Wakeups, Passed, Paused
<1>3. CASE chan[c].pause_until = 0
  <2>1. PICK j \in chan[c].eta_queue : t = jobs[j].eta
    BY <1>3 DEF Wakeups
  <2>2. j \notin Ripe(c)
    BY <1>1, <1>3 DEF Wakeups, Passed, Paused
  <2>3. j \in Job /\ jobs[j] # NoJob
    BY DEF ThrottleInv, PlaceInv, TypeOK, ChannelType, Fits, Placed, Nowhere, Everywhere
  <2> QED
    BY <1>1, <2>1, <2>2, <2>3, JobType DEF Ripe
<1> QED
  BY <1>2, <1>3

\* The wakeup time is the first of them.
LEMMA WakeupFirst ==
  ASSUME \A t \in Wakes : t \in Nat
  PROVE  /\ Wakes = {} => WakeupTime = 0
         /\ Wakes # {} => WakeupTime \in Wakes /\ \A u \in Wakes : WakeupTime <= u
<1>1. WakeupTime = IF Wakes = {} THEN 0 ELSE CHOOSE t \in Wakes : \A u \in Wakes : t <= u
  BY DEF WakeupTime, Wakes
<1>2. ASSUME Wakes # {}
      PROVE  \E t \in Wakes : \A u \in Wakes : t <= u
  <2>1. Wakes \in SUBSET Nat
    OBVIOUS
  <2> QED
    BY <1>2, <2>1, LeastNat
<1>3. ASSUME Wakes # {}
      PROVE  WakeupTime \in Wakes /\ \A u \in Wakes : WakeupTime <= u
  <2>1. WakeupTime = CHOOSE t \in Wakes : \A u \in Wakes : t <= u
    BY <1>1, <1>3
  <2> QED
    BY <1>2, <1>3, <2>1, Zenon
<1> QED
  BY <1>1, <1>3

\* A channel from which a job moves down at time t, or a paused one below it on the
\* path to the root, wants to be woken up by then.
LEMMA MoverWakes ==
  ASSUME ThrottleInv, PassInv, cursor = Visits + 1, NEW t \in Nat, MovesAt(t)
  PROVE  \E u \in Wakes : u <= t
<1>1. PICK c \in Channel :
        /\ \A a \in Up[c] : HasCapacity(a) /\ chan[a].pause_until <= t
        /\ LET ready == chan[c].queue
                          \cup {j \in chan[c].eta_queue : jobs[j].eta <= t}
               later == chan[c].eta_queue \ ready
           IN  /\ ready # {}
               /\ c \in Sequential /\ later # {}
                    => ~KeyLess(FirstByEta(later), First(ready))
  BY DEF MovesAt
<1>2. Passed(c) /\ PlaceInv /\ TypeOK
  BY AllPassed DEF ThrottleInv, PlaceInv
<1>3. CASE \E a \in Up[c] : chan[a].pause_until # 0
  <2> DEFINE S == {x \in Up[c] : chan[x].pause_until # 0}
  <2>1. PICK a \in S : \A y \in S : Position(y) <= Position(a)
    <3>1. S \in SUBSET Channel /\ S # {}
      BY <1>3, UpChannel
    <3> HIDE DEF S
    <3> QED
      BY <3>1, LatestPosition
  <2>2. a \in Channel /\ a \in Up[c] /\ chan[a].pause_until # 0 /\ HasCapacity(a)
        /\ chan[a].pause_until <= t
    BY <1>1, <2>1, UpChannel
  <2>3. ASSUME NEW y \in Up[a] \ {a}
        PROVE  HasCapacity(y) /\ chan[y].pause_until = 0
    <3>1. y \in Up[c] /\ y \in Channel /\ Position(a) < Position(y)
      BY <2>2, AboveTransitive, AboveIsLater
    <3>2. y \notin S
      BY <2>1, <2>2, <3>1, PositionType
    <3> QED
      BY <1>1, <3>1, <3>2
  <2>4. chan[a].pause_until \in Wakes
    BY <2>2, <2>3 DEF Wakes, Asked, Wakeups
  <2> QED
    BY <2>2, <2>4
<1>4. CASE \A a \in Up[c] : chan[a].pause_until = 0
  <2>1. c \in Up[c] /\ HasCapacity(c) /\ chan[c].pause_until = 0 /\ Asked(c)
    BY <1>1, <1>4, PositionType DEF Asked
  <2>2. \A j \in chan[c].eta_queue : jobs[j].eta \in Wakes
    BY <2>1 DEF Wakes, Wakeups
  <2>3. CASE \E j \in chan[c].eta_queue : jobs[j].eta <= t
    BY <2>2, <2>3
  <2>4. CASE ~ \E j \in chan[c].eta_queue : jobs[j].eta <= t
    <3>1. ~Paused(c) /\ Ripe(c) = {} /\ (chan[c].queue = {} \/ HeldBack(c))
      BY <1>2, <2>1 DEF Passed, Paused
    <3>2. chan[c].queue \cup {j \in chan[c].eta_queue : jobs[j].eta <= t} = Ready(c)
      BY <2>4, <3>1 DEF Ready
    <3>3. chan[c].eta_queue \ Ready(c) = Waiting(c)
      <4>1. chan[c].eta_queue \cap chan[c].queue = {}
        BY <1>2 DEF PlaceInv, TypeOK, ChannelType, Fits, Placed, Once
      <4> QED
        BY <3>1, <4>1 DEF Ready, Waiting
    <3>4. /\ Ready(c) # {}
          /\ c \in Sequential /\ Waiting(c) # {}
               => ~KeyLess(FirstByEta(Waiting(c)), First(Ready(c)))
      BY <1>1, <3>2, <3>3
    <3> QED
      BY <3>1, <3>4 DEF HeldBack, Ready
  <2> QED
    BY <2>3, <2>4
<1> QED
  BY <1>3, <1>4

\* Between two passes the runner sleeps until the wakeup time: that is always to come,
\* and never later than the time at which a job can move (get_wakeup_time).
THEOREM WakeupTimely == Spec => []WakeupSound
<1>1. ThrottleInv /\ PassInv => WakeupSound
  <2> SUFFICES ASSUME ThrottleInv, PassInv, cursor = Visits + 1
               PROVE  /\ WakeupTime = 0 \/ WakeupTime > now
                      /\ \A t \in (now + 1)..MaxTime :
                           MovesAt(t) => WakeupTime # 0 /\ WakeupTime <= t
    BY DEF WakeupSound
  <2>1. now \in Nat /\ \A t \in Wakes : t \in Nat /\ t > now
    BY WakesLater DEF ThrottleInv, PlaceInv, TypeOK
  <2>2. WakeupTime = 0 \/ WakeupTime > now
    BY <2>1, WakeupFirst
  <2>3. ASSUME NEW t \in (now + 1)..MaxTime, MovesAt(t)
        PROVE  WakeupTime # 0 /\ WakeupTime <= t
    <3>1. t \in Nat /\ now \in Nat
      BY <2>1, ConfigAssumption DEF Config
    <3>2. PICK u \in Wakes : u <= t
      BY <2>3, <3>1, MoverWakes
    <3>3. WakeupTime \in Wakes /\ WakeupTime <= u
      BY <2>1, <3>2, WakeupFirst
    <3> QED
      BY <2>1, <3>1, <3>2, <3>3
  <2> QED
    BY <2>2, <2>3
<1> QED
  BY <1>1, Pass_Invariance, PTL
=============================================================================

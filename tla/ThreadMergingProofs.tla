------------------------- MODULE ThreadMergingProofs -------------------------
(***************************************************************************)
(* What holds of ThreadMerging for every group of engines, any number of   *)
(* which show platform views, every lease and every depth of the frame     *)
(* pipelines.  The first part is about TaskQueues alone, for every set of  *)
(* queues, of target times and of work and any number of waiting tasks: it *)
(* uses the assumptions of that module only.  The second is about the      *)
(* engines, under whose actions the queues keep those facts.               *)
(***************************************************************************)
EXTENDS ThreadMerging, SequenceTheorems, FiniteInduction

-----------------------------------------------------------------------------
(* TaskQueues: queues that are merged and loops that serve them. *)

\* Some task is the next one to run wherever one is pending.
LEMMA TopExists ==
  ASSUME NEW ts \in Seq(Tasks), NEW qs, HasPending(ts, qs)
  PROVE  \E i \in DOMAIN ts : IsTop(ts, qs, i)
<1> DEFINE D == {i \in DOMAIN ts : ts[i].queue \in qs}
           V == {ts[i].time : i \in D}
<1>1. DOMAIN ts \subseteq Nat /\ \A i \in DOMAIN ts : ts[i] \in Tasks
  OBVIOUS
<1>2. D # {} /\ D \subseteq Nat
  BY <1>1 DEF HasPending
<1>3. V # {} /\ V \subseteq Nat
  BY <1>1, <1>2, QueuesAssumption DEF Tasks
<1>4. PICK v \in V : \A w \in V : v <= w
  BY <1>3, LeastNatural
<1> DEFINE E == {i \in D : ts[i].time = v}
<1>5. E # {} /\ E \subseteq Nat
  BY <1>2, <1>4
<1>6. PICK i \in E : \A j \in E : i <= j
  BY <1>5, LeastNatural
<1>7. ASSUME NEW j \in D
      PROVE  ts[i].time < ts[j].time \/ (ts[i].time = ts[j].time /\ i <= j)
  <2>1. ts[j].time \in V /\ ts[i].time = v
    BY <1>6, <1>7
  <2>2. v <= ts[j].time /\ v \in Nat /\ ts[j].time \in Nat
    BY <2>1, <1>3, <1>4
  <2>3. CASE ts[j].time = v
    <3>1. j \in E
      BY <2>3
    <3> QED
      BY <3>1, <2>1, <2>3, <1>6
  <2>4. CASE ts[j].time # v
    BY <2>1, <2>2, <2>4
  <2> QED
    BY <2>3, <2>4
<1> QED
  BY <1>6, <1>7 DEF IsTop

\* What removing a task leaves of a sequence of tasks.
LEMMA RemoveAtFacts ==
  ASSUME NEW ts \in Seq(Tasks), NEW i \in DOMAIN ts
  PROVE  /\ RemoveAt(ts, i) \in Seq(Tasks)
         /\ DOMAIN RemoveAt(ts, i) = 1 .. Len(ts) - 1
         /\ \A j \in 1 .. Len(ts) - 1 : RemoveAt(ts, i)[j] = ts[IF j < i THEN j ELSE j + 1]
         /\ \A j \in DOMAIN RemoveAt(ts, i) : \E k \in DOMAIN ts : RemoveAt(ts, i)[j] = ts[k]
<1> DEFINE a == SubSeq(ts, 1, i - 1)
           b == SubSeq(ts, i + 1, Len(ts))
<1>1. i \in 1 .. Len(ts) /\ Len(ts) \in Nat
  OBVIOUS
<1>2. /\ a \in Seq(Tasks) /\ Len(a) = i - 1
      /\ \A j \in 1 .. i - 1 : a[j] = ts[j]
  BY <1>1
<1>3. /\ b \in Seq(Tasks) /\ Len(b) = Len(ts) - i
      /\ \A j \in 1 .. Len(ts) - i : b[j] = ts[i + j]
  BY <1>1
<1>4. RemoveAt(ts, i) = a \o b
  BY DEF RemoveAt
<1> HIDE DEF a, b
<1>5. /\ a \o b \in Seq(Tasks) /\ Len(a \o b) = Len(ts) - 1
      /\ \A j \in 1 .. Len(ts) - 1 :
           (a \o b)[j] = IF j <= i - 1 THEN a[j] ELSE b[j - (i - 1)]
  <2>1. /\ a \o b \in Seq(Tasks) /\ Len(a \o b) = Len(a) + Len(b)
        /\ \A j \in 1 .. Len(a) + Len(b) :
             (a \o b)[j] = IF j <= Len(a) THEN a[j] ELSE b[j - Len(a)]
    BY ONLY <1>2, <1>3, ConcatProperties
  <2>2. Len(a) = i - 1 /\ Len(a) + Len(b) = Len(ts) - 1
    BY <1>1, <1>2, <1>3
  <2> QED
    BY ONLY <2>1, <2>2
<1>6. ASSUME NEW j \in 1 .. Len(ts) - 1
      PROVE  /\ (a \o b)[j] = ts[IF j < i THEN j ELSE j + 1]
             /\ (IF j < i THEN j ELSE j + 1) \in 1 .. Len(ts)
  <2>1. CASE j <= i - 1
    <3>1. j \in 1 .. i - 1 /\ j \in 1 .. Len(ts)
      BY <1>1, <2>1
    <3>2. (a \o b)[j] = ts[j]
      BY <1>2, <1>5, <2>1, <3>1
    <3> QED
      BY <1>1, <2>1, <3>1, <3>2
  <2>2. CASE ~(j <= i - 1)
    <3>1. /\ j - (i - 1) \in 1 .. Len(ts) - i
          /\ i + (j - (i - 1)) = j + 1 /\ j + 1 \in 1 .. Len(ts)
      BY <1>1, <2>2
    <3>2. (a \o b)[j] = ts[j + 1]
      BY <1>3, <1>5, <2>2, <3>1
    <3> QED
      BY <1>1, <2>2, <3>1, <3>2
  <2> QED
    BY <2>1, <2>2
<1>7. DOMAIN (a \o b) = 1 .. Len(ts) - 1 /\ DOMAIN ts = 1 .. Len(ts)
  BY <1>1, <1>5
<1>8. \A j \in 1 .. Len(ts) - 1 : \E k \in DOMAIN ts : (a \o b)[j] = ts[k]
  BY <1>6, <1>7
<1> QED
  BY <1>4, <1>5, <1>6, <1>7, <1>8

\* A loop that is woken has its timer set for all the tasks it serves; the timers of
\* the others stay as they are.
LEMMA WokenFacts ==
  ASSUME NEW ts \in Seq(Tasks), NEW loops, NEW subsumed, NEW owned,
         timer \in [Queues -> Times \cup {Never}]
  PROVE  /\ Woken(loops, ts, subsumed, owned) \in [Queues -> Times \cup {Never}]
         /\ \A q \in Queues \ loops : Woken(loops, ts, subsumed, owned)[q] = timer[q]
         /\ \A q \in Queues \cap loops, i \in DOMAIN ts :
              ts[i].queue \in Served(q, subsumed, owned) =>
                /\ Woken(loops, ts, subsumed, owned)[q] # Never
                /\ Woken(loops, ts, subsumed, owned)[q] <= ts[i].time
<1> DEFINE W == Woken(loops, ts, subsumed, owned)
           Top(q) == CHOOSE i \in DOMAIN ts : IsTop(ts, Served(q, subsumed, owned), i)
<1>0. \A i \in DOMAIN ts : ts[i] \in Tasks
  OBVIOUS
<1>1. \A i \in DOMAIN ts : ts[i].time \in Times /\ ts[i].time \in Nat
  BY <1>0, QueuesAssumption DEF Tasks
<1>2. ASSUME NEW q \in Queues, HasPending(ts, Served(q, subsumed, owned))
      PROVE  Top(q) \in DOMAIN ts /\ IsTop(ts, Served(q, subsumed, owned), Top(q))
  BY <1>2, TopExists
<1>3. /\ DOMAIN W = Queues
      /\ \A q \in Queues : W[q] = IF q \in loops /\ HasPending(ts, Served(q, subsumed, owned))
                                 THEN ts[Top(q)].time ELSE timer[q]
  BY DEF Woken
<1>4. W = [q \in Queues |-> W[q]]
  BY DEF Woken
<1> HIDE DEF W, Top
<1>5. ASSUME NEW q \in Queues
      PROVE  W[q] \in Times \cup {Never}
  BY <1>1, <1>2, <1>3
<1>6. W \in [Queues -> Times \cup {Never}]
  BY <1>4, <1>5
<1>7. ASSUME NEW q \in Queues \cap loops, NEW i \in DOMAIN ts,
             ts[i].queue \in Served(q, subsumed, owned)
      PROVE  W[q] # Never /\ W[q] <= ts[i].time
  <2>1. HasPending(ts, Served(q, subsumed, owned))
    BY <1>7 DEF HasPending
  <2>2. W[q] = ts[Top(q)].time /\ ts[Top(q)].time \in Nat
    BY <1>1, <1>2, <1>3, <2>1
  <2>3. \/ ts[Top(q)].time < ts[i].time
        \/ ts[Top(q)].time = ts[i].time /\ Top(q) <= i
    BY <1>2, <1>7, <2>1 DEF IsTop
  <2> QED
    BY <1>1, <2>2, <2>3 DEF Never
<1>8. \A q \in Queues \ loops : W[q] = timer[q]
  BY <1>3
<1> QED
  BY <1>6, <1>7, <1>8 DEF W
-----------------------------------------------------------------------------
(* The inductive invariant: WokenInTime needs the types of tasks and timers, *)
(* and for a new task that the queue's owner is the one loop that serves it. *)

QueuesInv == QueuesTypeOK /\ OneOfThreeStates /\ WokenInTime

\* Initially no queue is merged and no task waits.
LEMMA InvInit == QueuesInit => QueuesInv
<1> SUFFICES ASSUME QueuesInit PROVE QueuesInv
  OBVIOUS
<1>1. tasks \in Seq(Tasks)
  BY DEF QueuesInit
<1>2. QueuesTypeOK
  BY <1>1 DEF QueuesInit, QueuesTypeOK
<1>3. OneOfThreeStates
  BY QueuesAssumption DEF QueuesInit, OneOfThreeStates
<1>4. WokenInTime
  BY DEF QueuesInit, WokenInTime
<1> QED
  BY <1>2, <1>3, <1>4 DEF QueuesInv

\* A step that sets the timers of some loops keeps WokenInTime if every loop that it
\* leaves asleep serves no task which it did not serve before.
LEMMA WakesKeep ==
  ASSUME QueuesTypeOK, WokenInTime, tasks' \in Seq(Tasks), NEW loops,
         timer' = Woken(loops, tasks', subsumedBy', ownerOf'),
         \A q \in Queues \ loops : ~flushing'[q] =>
           /\ ~flushing[q]
           /\ \A i \in DOMAIN tasks' :
                tasks'[i].queue \in Served(q, subsumedBy', ownerOf') =>
                  \E k \in DOMAIN tasks :
                    tasks'[i] = tasks[k] /\ tasks[k].queue \in Served(q, subsumedBy, ownerOf)
  PROVE  WokenInTime'
<1> SUFFICES ASSUME NEW q \in Queues, ~flushing'[q], NEW i \in DOMAIN tasks',
                    tasks'[i].queue \in Served(q, subsumedBy', ownerOf')
             PROVE  timer'[q] # Never /\ timer'[q] <= tasks'[i].time
  BY DEF WokenInTime, Served
<1>1. timer \in [Queues -> Times \cup {Never}]
  BY DEF QueuesTypeOK
<1>2. CASE q \in loops
  BY <1>1, <1>2, WokenFacts
<1>3. CASE q \notin loops
  <2>1. timer'[q] = timer[q]
    BY <1>1, <1>3, WokenFacts
  <2>2. PICK k \in DOMAIN tasks :
          tasks'[i] = tasks[k] /\ tasks[k].queue \in Served(q, subsumedBy, ownerOf)
    BY <1>3
  <2>3. ~flushing[q]
    BY <1>3
  <2> QED
    BY <2>1, <2>2, <2>3 DEF WokenInTime
<1> QED
  BY <1>2, <1>3

\* Registering a task, for a queue that is merged or not.
LEMMA RegisterTaskKeeps ==
  ASSUME QueuesInv, NEW q \in Queues, NEW time \in Times, NEW work \in Work,
         RegisterTask(q, time, work)
  PROVE  QueuesInv'
<1> DEFINE task == [queue |-> q, time |-> time, work |-> work]
           loop == IF subsumedBy[q] = Unmerged THEN q ELSE subsumedBy[q]
<1>1. /\ tasks' = Append(tasks, task)
      /\ timer' = Woken({loop}, tasks', subsumedBy', ownerOf')
      /\ UNCHANGED <<subsumedBy, ownerOf, flushing, now>>
  BY DEF RegisterTask
<1>2. QueuesTypeOK /\ OneOfThreeStates /\ WokenInTime
  BY DEF QueuesInv
<1>3. task \in Tasks /\ tasks \in Seq(Tasks)
  BY <1>2 DEF Tasks, QueuesTypeOK
<1> HIDE DEF loop
<1>4. /\ tasks' \in Seq(Tasks)
      /\ DOMAIN tasks' = 1 .. Len(tasks) + 1 /\ DOMAIN tasks = 1 .. Len(tasks)
      /\ \A i \in DOMAIN tasks' : IF i \in DOMAIN tasks THEN tasks'[i] = tasks[i] ELSE tasks'[i] = task
  BY <1>1, <1>3
<1>5. timer' \in [Queues -> Times \cup {Never}]
  BY <1>1, <1>2, <1>4, WokenFacts DEF QueuesTypeOK
<1>6. QueuesTypeOK'
  BY <1>1, <1>2, <1>4, <1>5 DEF QueuesTypeOK
<1>7. OneOfThreeStates'
  BY <1>1, <1>2 DEF OneOfThreeStates
<1>8. ASSUME NEW r \in Queues \ {loop}
      PROVE  q \notin Served(r, subsumedBy, ownerOf)
  BY <1>2, <1>8, QueuesAssumption DEF loop, Served, OneOfThreeStates, QueuesTypeOK
<1>9. ASSUME NEW r \in Queues \ {loop}, NEW i \in DOMAIN tasks',
             tasks'[i].queue \in Served(r, subsumedBy', ownerOf')
      PROVE  \E k \in DOMAIN tasks :
               tasks'[i] = tasks[k] /\ tasks[k].queue \in Served(r, subsumedBy, ownerOf)
  <2>1. Served(r, subsumedBy', ownerOf') = Served(r, subsumedBy, ownerOf)
    BY <1>1
  <2>2. tasks'[i] # task
    BY <1>8, <1>9, <2>1
  <2> QED
    BY <1>4, <1>9, <2>1, <2>2
<1>10. WokenInTime'
  BY <1>1, <1>2, <1>4, <1>9, WakesKeep
<1> QED
  BY <1>6, <1>7, <1>10 DEF QueuesInv

\* The timer of a loop fires.
LEMMA OnEventFiredKeeps ==
  ASSUME QueuesInv, NEW q \in Queues, OnEventFired(q)
  PROVE  QueuesInv'
<1>1. QueuesTypeOK'
  BY DEF QueuesInv, OnEventFired, QueuesTypeOK
<1>2. OneOfThreeStates'
  BY DEF QueuesInv, OnEventFired, OneOfThreeStates
<1>3. WokenInTime'
  <2> SUFFICES ASSUME NEW r \in Queues, ~flushing'[r], NEW i \in DOMAIN tasks,
                      tasks[i].queue \in Served(r, subsumedBy, ownerOf)
               PROVE  timer'[r] # Never /\ timer'[r] <= tasks[i].time
    BY DEF WokenInTime, OnEventFired, Served
  <2>1. r # q
    BY DEF OnEventFired, QueuesInv, QueuesTypeOK
  <2>2. timer'[r] = timer[r] /\ ~flushing[r]
    BY <2>1 DEF OnEventFired, QueuesInv, QueuesTypeOK
  <2> QED
    BY <2>2 DEF QueuesInv, WokenInTime
<1> QED
  BY <1>1, <1>2, <1>3 DEF QueuesInv

\* A loop takes its next task, from its own queue or one it has subsumed.
LEMMA GetNextTaskToRunKeeps ==
  ASSUME QueuesInv, NEW q \in Queues, NEW i \in DOMAIN tasks, GetNextTaskToRun(q, i)
  PROVE  QueuesInv'
<1>1. /\ tasks \in Seq(Tasks) /\ tasks' = RemoveAt(tasks, i)
      /\ timer' = [timer EXCEPT ![q] = tasks[i].time]
      /\ UNCHANGED <<subsumedBy, ownerOf, flushing, now>>
  BY DEF GetNextTaskToRun, QueuesInv, QueuesTypeOK
<1>2. /\ tasks' \in Seq(Tasks)
      /\ \A j \in DOMAIN tasks' : \E k \in DOMAIN tasks : tasks'[j] = tasks[k]
  BY <1>1, RemoveAtFacts
<1>3. tasks[i] \in Tasks
  BY <1>1
<1>4. QueuesTypeOK'
  BY <1>1, <1>2, <1>3 DEF QueuesInv, QueuesTypeOK, Tasks
<1>5. OneOfThreeStates'
  BY <1>1 DEF QueuesInv, OneOfThreeStates
<1>6. WokenInTime'
  <2> SUFFICES ASSUME NEW r \in Queues, ~flushing'[r], NEW j \in DOMAIN tasks',
                      tasks'[j].queue \in Served(r, subsumedBy', ownerOf')
               PROVE  timer'[r] # Never /\ timer'[r] <= tasks'[j].time
    BY DEF WokenInTime, Served
  <2>1. r # q
    BY <1>1 DEF GetNextTaskToRun
  <2>2. timer'[r] = timer[r]
    BY <1>1, <2>1 DEF QueuesInv, QueuesTypeOK
  <2>3. PICK k \in DOMAIN tasks : tasks'[j] = tasks[k]
    BY <1>2
  <2>4. tasks[k].queue \in Served(r, subsumedBy, ownerOf)
    BY <1>1, <2>3
  <2> QED
    BY <1>1, <2>2, <2>3, <2>4 DEF QueuesInv, WokenInTime
<1> QED
  BY <1>4, <1>5, <1>6 DEF QueuesInv

\* A loop falls asleep.
LEMMA EndFlushKeeps ==
  ASSUME QueuesInv, NEW q \in Queues, EndFlush(q)
  PROVE  QueuesInv'
<1>1. /\ timer' = Woken({q}, tasks', subsumedBy', ownerOf')
      /\ flushing' = [flushing EXCEPT ![q] = FALSE]
      /\ UNCHANGED <<tasks, subsumedBy, ownerOf, now>>
  BY DEF EndFlush
<1>2. QueuesTypeOK /\ OneOfThreeStates /\ WokenInTime
  BY DEF QueuesInv
<1>3. timer' \in [Queues -> Times \cup {Never}] /\ tasks' \in Seq(Tasks)
  BY <1>1, <1>2, WokenFacts DEF QueuesTypeOK
<1>4. QueuesTypeOK'
  BY <1>1, <1>2, <1>3 DEF QueuesTypeOK
<1>5. OneOfThreeStates'
  BY <1>1, <1>2 DEF OneOfThreeStates
<1>6. \A r \in Queues \ {q} : ~flushing'[r] =>
        /\ ~flushing[r]
        /\ \A i \in DOMAIN tasks' :
             tasks'[i].queue \in Served(r, subsumedBy', ownerOf') =>
               \E k \in DOMAIN tasks :
                 tasks'[i] = tasks[k] /\ tasks[k].queue \in Served(r, subsumedBy, ownerOf)
  BY <1>1, <1>2 DEF QueuesTypeOK
<1>7. WokenInTime'
  BY <1>1, <1>2, <1>3, <1>6, WakesKeep
<1> QED
  BY <1>4, <1>5, <1>7 DEF QueuesInv

\* Merging: only the owner serves more than before.
LEMMA MergeKeeps ==
  ASSUME QueuesInv, NEW owner \in Queues, NEW subsumed \in Queues, Merge(owner, subsumed)
  PROVE  QueuesInv'
<1>1. /\ timer' = Woken({owner}, tasks', subsumedBy', ownerOf')
      /\ ownerOf' = [ownerOf EXCEPT ![owner] = @ \cup {subsumed}]
      /\ subsumedBy' = [subsumedBy EXCEPT ![subsumed] = owner]
      /\ UNCHANGED <<tasks, flushing, now>>
  BY DEF Merge
<1>2. QueuesTypeOK /\ OneOfThreeStates /\ WokenInTime /\ CanMerge(owner, subsumed)
  BY DEF QueuesInv, Merge
<1>3. timer' \in [Queues -> Times \cup {Never}] /\ tasks' \in Seq(Tasks)
  BY <1>1, <1>2, WokenFacts DEF QueuesTypeOK
<1>4. QueuesTypeOK'
  BY <1>1, <1>2, <1>3 DEF QueuesTypeOK
<1>5. OneOfThreeStates'
  BY <1>1, <1>2, QueuesAssumption DEF OneOfThreeStates, CanMerge, QueuesTypeOK
<1>6. ASSUME NEW r \in Queues \ {owner}
      PROVE  Served(r, subsumedBy', ownerOf') \subseteq Served(r, subsumedBy, ownerOf)
  BY <1>1, <1>2, <1>6, QueuesAssumption DEF Served, QueuesTypeOK
<1>7. \A r \in Queues \ {owner} : ~flushing'[r] =>
        /\ ~flushing[r]
        /\ \A i \in DOMAIN tasks' :
             tasks'[i].queue \in Served(r, subsumedBy', ownerOf') =>
               \E k \in DOMAIN tasks :
                 tasks'[i] = tasks[k] /\ tasks[k].queue \in Served(r, subsumedBy, ownerOf)
  BY <1>1, <1>6
<1>8. WokenInTime'
  BY <1>1, <1>2, <1>3, <1>7, WakesKeep
<1> QED
  BY <1>4, <1>5, <1>8 DEF QueuesInv

\* Un-merging: only the queue set free is served by a loop that did not serve it.
LEMMA UnmergeKeeps ==
  ASSUME QueuesInv, NEW owner \in Queues, NEW subsumed \in Queues, Unmerge(owner, subsumed)
  PROVE  QueuesInv'
<1>1. /\ timer' = Woken({owner, subsumed}, tasks', subsumedBy', ownerOf')
      /\ ownerOf' = [ownerOf EXCEPT ![owner] = @ \ {subsumed}]
      /\ subsumedBy' = [subsumedBy EXCEPT ![subsumed] = Unmerged]
      /\ UNCHANGED <<tasks, flushing, now>>
  BY DEF Unmerge
<1>2. QueuesTypeOK /\ OneOfThreeStates /\ WokenInTime
      /\ subsumedBy[owner] = Unmerged /\ subsumed \in ownerOf[owner]
  BY DEF QueuesInv, Unmerge
<1>3. timer' \in [Queues -> Times \cup {Never}] /\ tasks' \in Seq(Tasks)
  BY <1>1, <1>2, WokenFacts DEF QueuesTypeOK
<1>4. QueuesTypeOK'
  BY <1>1, <1>2, <1>3 DEF QueuesTypeOK
<1>5. OneOfThreeStates'
  BY <1>1, <1>2, QueuesAssumption DEF OneOfThreeStates, QueuesTypeOK
<1>6. ASSUME NEW r \in Queues \ {owner, subsumed}
      PROVE  Served(r, subsumedBy', ownerOf') \subseteq Served(r, subsumedBy, ownerOf)
  BY <1>1, <1>2, <1>6 DEF Served, QueuesTypeOK
<1>7. \A r \in Queues \ {owner, subsumed} : ~flushing'[r] =>
        /\ ~flushing[r]
        /\ \A i \in DOMAIN tasks' :
             tasks'[i].queue \in Served(r, subsumedBy', ownerOf') =>
               \E k \in DOMAIN tasks :
                 tasks'[i] = tasks[k] /\ tasks[k].queue \in Served(r, subsumedBy, ownerOf)
  BY <1>1, <1>6
<1>8. WokenInTime'
  BY <1>1, <1>2, <1>3, <1>7, WakesKeep
<1> QED
  BY <1>4, <1>5, <1>8 DEF QueuesInv

-----------------------------------------------------------------------------
\* Every operation keeps the invariant.
LEMMA InvNext == QueuesInv /\ [QueuesNext]_queuesVars => QueuesInv'
<1> SUFFICES ASSUME QueuesInv, [QueuesNext]_queuesVars PROVE QueuesInv'
  OBVIOUS
<1>1. ASSUME NEW q \in Queues, NEW time \in Times, NEW work \in Work,
             RegisterTask(q, time, work)
      PROVE  QueuesInv'
  BY <1>1, RegisterTaskKeeps
<1>2. ASSUME NEW q \in Queues, OnEventFired(q) \/ EndFlush(q)
      PROVE  QueuesInv'
  BY <1>2, OnEventFiredKeeps, EndFlushKeeps
<1>3. ASSUME NEW q \in Queues, NEW i \in DOMAIN tasks, GetNextTaskToRun(q, i)
      PROVE  QueuesInv'
  BY <1>3, GetNextTaskToRunKeeps
<1>4. ASSUME NEW p \in Queues, NEW q \in Queues, Merge(p, q) \/ Unmerge(p, q)
      PROVE  QueuesInv'
  BY <1>4, MergeKeeps, UnmergeKeeps
<1>5. CASE Tick
  <2>1. UNCHANGED <<tasks, subsumedBy, ownerOf, timer, flushing>> /\ now' = now + 1
    BY <1>5 DEF Tick
  <2>2. QueuesTypeOK'
    BY <2>1 DEF QueuesInv, QueuesTypeOK
  <2>3. OneOfThreeStates' /\ WokenInTime'
    BY <2>1 DEF QueuesInv, OneOfThreeStates, WokenInTime, Served
  <2> QED
    BY <2>2, <2>3 DEF QueuesInv
<1>6. CASE UNCHANGED queuesVars
  BY <1>6 DEF queuesVars, QueuesInv, QueuesTypeOK, OneOfThreeStates, WokenInTime, Served
<1> QED
  BY <1>1, <1>2, <1>3, <1>4, <1>5, <1>6 DEF QueuesNext

\* In every reachable state a queue owns others, is subsumed by one or is
\* independent, as message_loop_task_queues.h has it.
THEOREM AlwaysOneOfThreeStates == QueuesSpec => []OneOfThreeStates
<1>1. QueuesInv => OneOfThreeStates
  BY DEF QueuesInv
<1> QED
  BY InvInit, InvNext, <1>1, PTL DEF QueuesSpec

\* No loop sleeps past a task it has to run, whatever was merged and un-merged.
THEOREM AlwaysWokenInTime == QueuesSpec => []WokenInTime
<1>1. QueuesInv => WokenInTime
  BY DEF QueuesInv
<1> QED
  BY InvInit, InvNext, <1>1, PTL DEF QueuesSpec

\* Every queue is served by exactly one loop: no task is run by two loops or by none.
THEOREM AlwaysOneLoop == QueuesSpec => []OneLoopPerQueue
<1>1. QueuesInv => OneLoopPerQueue
  <2> SUFFICES ASSUME QueuesInv, NEW q \in Queues
               PROVE  \E p \in Queues :
                        \A r \in Queues : q \in Served(r, subsumedBy, ownerOf) <=> r = p
    BY DEF OneLoopPerQueue
  <2>1. QueuesTypeOK /\ OneOfThreeStates
    BY DEF QueuesInv
  <2>2. CASE subsumedBy[q] = Unmerged
    <3>1. \A r \in Queues : q \in Served(r, subsumedBy, ownerOf) <=> r = q
      BY <2>1, <2>2, QueuesAssumption DEF Served, OneOfThreeStates, QueuesTypeOK
    <3> QED
      BY <3>1
  <2>3. CASE subsumedBy[q] # Unmerged
    <3>1. subsumedBy[q] \in Queues /\ subsumedBy[subsumedBy[q]] = Unmerged
      BY <2>1, <2>3 DEF OneOfThreeStates, QueuesTypeOK
    <3>2. \A r \in Queues : q \in Served(r, subsumedBy, ownerOf) <=> r = subsumedBy[q]
      BY <2>1, <2>3, <3>1 DEF Served, OneOfThreeStates, QueuesTypeOK
    <3> QED
      BY <3>1, <3>2
  <2> QED
    BY <2>2, <2>3
<1> QED
  BY InvInit, InvNext, <1>1, PTL DEF QueuesSpec

-----------------------------------------------------------------------------
(* ThreadMerging: the engines. *)

MergingInv == QueuesInv /\ TypeOK /\ MergedIffLeased

\* Initially nothing is merged and nothing leased.
LEMMA MergingInit == Init => MergingInv
<1> SUFFICES ASSUME Init PROVE MergingInv
  OBVIOUS
<1>1. QueuesInv
  BY InvInit DEF Init
<1>2. TypeOK
  <2>1. QueuesTypeOK /\ Absent \in Absent .. Lease
    BY <1>1, MergingAssumption DEF QueuesInv, Absent
  <2>2. frames \in [Engines -> Seq(BOOLEAN)] /\ lease \in [Engines -> Absent .. Lease]
    BY <2>1 DEF Init
  <2> QED
    BY <2>1, <2>2 DEF Init, TypeOK
<1>3. ~Owns /\ ~IsMerged
  BY MergingAssumption DEF Init, QueuesInit, Owns, IsMerged, IsAllLeaseTermsZero, Absent
<1> QED
  BY <1>1, <1>2, <1>3 DEF MergingInv, MergedIffLeased

-----------------------------------------------------------------------------
(* The queues: every action does one of their operations or none. *)

\* A task for the raster queue.
LEMMA PostRasterKeeps ==
  ASSUME QueuesInv, NEW work \in {"setup", "draw", "teardown"}, NEW e \in Engines,
         PostRaster(work, e)
  PROVE  QueuesInv' /\ UNCHANGED ownerOf
<1>1. "raster" \in Queues /\ 0 \in Times /\ <<work, e>> \in Work
  BY MergingAssumption
<1> QED
  BY <1>1, RegisterTaskKeeps DEF PostRaster, RegisterTask

\* Merging makes the platform queue the owner; un-merging ends that.
LEMMA MergeFacts ==
  ASSUME QueuesInv
  PROVE  /\ Merge("platform", "raster") => QueuesInv' /\ Owns'
         /\ Unmerge("platform", "raster") => QueuesInv' /\ ~Owns'
<1>1. "platform" \in Queues /\ "raster" \in Queues /\ ownerOf \in [Queues -> SUBSET Queues]
  BY MergingAssumption DEF QueuesInv, QueuesTypeOK
<1>2. Merge("platform", "raster") => QueuesInv' /\ Owns'
  BY <1>1, MergeKeeps DEF Merge, Owns
<1>3. Unmerge("platform", "raster") => QueuesInv' /\ ~Owns'
  BY <1>1, UnmergeKeeps DEF Unmerge, Owns
<1> QED
  BY <1>2, <1>3

\* Nothing happens to the queues.
LEMMA QueuesStutter ==
  ASSUME QueuesInv, UNCHANGED queuesVars
  PROVE  QueuesInv' /\ UNCHANGED ownerOf
BY InvNext DEF queuesVars

-----------------------------------------------------------------------------
(* The lease book. *)

\* Leases change while some lease is held, and the queues are un-merged when the last
\* one goes.
LEMMA UnMergeKeeps ==
  ASSUME MergingInv, ~aborted, IsMerged, NEW leases, UnMergeIfUnleased(leases)
  PROVE  /\ QueuesInv' /\ MergedIffLeased'
         /\ lease' = leases /\ aborted' \in BOOLEAN
<1>1. Owns
  BY DEF MergingInv, MergedIffLeased
<1>2. lease' = leases /\ aborted \in BOOLEAN
  BY DEF UnMergeIfUnleased, MergingInv, TypeOK
<1>3. CASE ~IsAllLeaseTermsZero(leases)
  <2>1. UNCHANGED queuesVars /\ UNCHANGED aborted
    BY <1>3 DEF UnMergeIfUnleased
  <2>2. QueuesInv' /\ UNCHANGED ownerOf
    BY <2>1, QueuesStutter DEF MergingInv
  <2>3. Owns' /\ IsMerged'
    BY <1>1, <1>2, <1>3, <2>2 DEF Owns, IsMerged, IsAllLeaseTermsZero
  <2> QED
    BY <1>2, <2>1, <2>2, <2>3 DEF MergedIffLeased
<1>4. CASE IsAllLeaseTermsZero(leases)
  <2>1. Unmerge("platform", "raster") /\ UNCHANGED aborted
    BY <1>1, <1>4 DEF UnMergeIfUnleased
  <2>2. QueuesInv' /\ ~Owns'
    BY <2>1, MergeFacts DEF MergingInv
  <2>3. ~IsMerged'
    BY <1>2, <1>4 DEF IsMerged, IsAllLeaseTermsZero
  <2> QED
    BY <1>2, <2>1, <2>2, <2>3 DEF MergedIffLeased
<1> QED
  BY <1>3, <1>4

\* A frame uses up one of the caller's lease.
LEMMA DecrementKeeps ==
  ASSUME MergingInv, ~aborted, IsMerged, NEW e \in Engines, DecrementLease(e)
  PROVE  /\ QueuesInv' /\ MergedIffLeased'
         /\ lease' \in [Engines -> Absent .. Lease] /\ aborted' \in BOOLEAN
<1>1. lease \in [Engines -> Absent .. Lease] /\ Lease \in Nat
  BY MergingAssumption DEF MergingInv, TypeOK
<1>2. CASE lease[e] = 0
  <2>1. UNCHANGED queuesVars /\ UNCHANGED lease /\ aborted' = TRUE
    BY <1>2 DEF DecrementLease
  <2>2. QueuesInv'
    BY <2>1, QueuesStutter DEF MergingInv
  <2> QED
    BY <1>1, <2>1, <2>2 DEF MergedIffLeased
<1>3. CASE lease[e] # 0
  <2> DEFINE leases == [lease EXCEPT ![e] = IF @ = Absent THEN Absent ELSE @ - 1]
  <2>1. UnMergeIfUnleased(leases)
    BY <1>3 DEF DecrementLease
  <2>2. leases \in [Engines -> Absent .. Lease]
    BY <1>1, <1>3 DEF Absent
  <2> HIDE DEF leases
  <2> QED
    BY <2>1, <2>2, UnMergeKeeps
<1> QED
  BY <1>2, <1>3

\* The teardown of an engine gives up its lease.
LEMMA TearDownKeeps ==
  ASSUME MergingInv, ~aborted, NEW e \in Engines, TearDown(e)
  PROVE  /\ QueuesInv' /\ MergedIffLeased'
         /\ lease' \in [Engines -> Absent .. Lease] /\ aborted' \in BOOLEAN
         /\ enabled' \in BOOLEAN /\ surface' \subseteq merger'
         /\ UNCHANGED <<merger, frames, embedded>>
<1>1. lease \in [Engines -> Absent .. Lease] /\ Lease \in Nat /\ aborted \in BOOLEAN
      /\ enabled \in BOOLEAN /\ surface \subseteq merger
  BY MergingAssumption DEF MergingInv, TypeOK
<1>2. enabled' \in BOOLEAN /\ surface' \subseteq merger' /\ UNCHANGED <<merger, frames, embedded>>
  BY <1>1 DEF TearDown
<1>3. CASE e \in merger /\ IsMerged
  <2> DEFINE leases == [lease EXCEPT ![e] = Absent]
  <2>1. UnMergeIfUnleased(leases)
    BY <1>3 DEF TearDown
  <2>2. leases \in [Engines -> Absent .. Lease]
    BY <1>1 DEF Absent
  <2> HIDE DEF leases
  <2> QED
    BY <1>2, <1>3, <2>1, <2>2, UnMergeKeeps
<1>4. CASE ~(e \in merger /\ IsMerged)
  <2>1. UNCHANGED queuesVars /\ UNCHANGED lease /\ UNCHANGED aborted
    BY <1>4 DEF TearDown
  <2>2. QueuesInv' /\ UNCHANGED ownerOf
    BY <2>1, QueuesStutter DEF MergingInv
  <2>3. MergedIffLeased'
    BY <2>1, <2>2 DEF MergingInv, MergedIffLeased, Owns, IsMerged, IsAllLeaseTermsZero
  <2> QED
    BY <1>1, <1>2, <2>1, <2>2, <2>3
<1> QED
  BY <1>3, <1>4
-----------------------------------------------------------------------------
(* The threads. *)

Steps == {"begin", "consume", "preroll", "merge", "decrement", "post", "signal",
          "posting", "waiting"}

\* A thread that runs something runs it for an engine, and may go on to any step or end.
LEMMA RunningFacts ==
  ASSUME TypeOK, NEW t \in Queues,
         thread[t].work \in {"setup", "draw", "teardown", "creating", "destroying"}
  PROVE  /\ thread[t] \in Busy /\ thread[t].engine \in Engines
         /\ thread[t].frame \in BOOLEAN
         /\ \A step \in Steps : Goto(t, step) => thread' \in [Queues -> Busy \cup {Free}]
         /\ Finish(t) => thread' \in [Queues -> Busy \cup {Free}]
<1>1. thread \in [Queues -> Busy \cup {Free}]
  BY DEF TypeOK
<1>2. thread[t] \in Busy
  BY <1>1 DEF Free
<1>3. thread[t].engine \in Engines /\ thread[t].frame \in BOOLEAN
  BY <1>2 DEF Busy
<1>4. ASSUME NEW step \in Steps, Goto(t, step)
      PROVE  thread' \in [Queues -> Busy \cup {Free}]
  <2>1. [thread[t] EXCEPT !.step = step] \in Busy
    BY <1>2 DEF Busy, Steps
  <2>2. thread' = [thread EXCEPT ![t] = [thread[t] EXCEPT !.step = step]]
    BY <1>4 DEF Goto
  <2> QED
    BY <1>1, <2>1, <2>2
<1>5. Finish(t) => thread' \in [Queues -> Busy \cup {Free}]
  BY <1>1 DEF Finish
<1> QED
  BY <1>2, <1>3, <1>4, <1>5

\* What a step has to show when it leaves the lease book alone.
LEMMA SameBook ==
  ASSUME MergingInv, QueuesInv', UNCHANGED ownerOf, UNCHANGED <<lease, aborted>>,
         enabled' \in BOOLEAN, merger' \subseteq Engines, surface' \subseteq merger',
         frames' \in [Engines -> Seq(BOOLEAN)], embedded' \in [Engines -> BOOLEAN],
         view' \in [Engines -> {"gone", "creating", "created", "destroying"}],
         thread' \in [Queues -> Busy \cup {Free}], lost' \subseteq Engines
  PROVE  MergingInv'
<1>1. TypeOK'
  BY DEF MergingInv, TypeOK, QueuesInv
<1>2. MergedIffLeased'
  BY DEF MergingInv, MergedIffLeased, Owns, IsMerged, IsAllLeaseTermsZero
<1> QED
  BY <1>1, <1>2 DEF MergingInv

\* The steps of a loop around its tasks.
LEMMA LoopKeeps ==
  ASSUME MergingInv, NEW t \in Queues, Wake(t) \/ RunTask(t) \/ Sleep(t)
  PROVE  MergingInv'
<1>1. QueuesInv /\ TypeOK
  BY DEF MergingInv
<1>2. CASE Wake(t)
  <2>1. QueuesInv' /\ UNCHANGED ownerOf
    BY <1>1, <1>2, OnEventFiredKeeps DEF Wake, OnEventFired
  <2> QED
    BY <1>1, <1>2, <2>1, SameBook DEF Wake, mergerVars, rasterVars, TypeOK
<1>3. CASE Sleep(t)
  <2>1. QueuesInv' /\ UNCHANGED ownerOf
    BY <1>1, <1>3, EndFlushKeeps DEF Sleep, EndFlush
  <2> QED
    BY <1>1, <1>3, <2>1, SameBook DEF Sleep, mergerVars, rasterVars, TypeOK
<1>4. CASE RunTask(t)
  <2>1. PICK i \in DOMAIN tasks :
          /\ GetNextTaskToRun(t, i)
          /\ thread' = [thread EXCEPT ![t] =
               [Free EXCEPT !.work = tasks[i].work[1], !.engine = tasks[i].work[2],
                            !.step = "begin"]]
    BY <1>4 DEF RunTask
  <2>2. QueuesInv' /\ UNCHANGED ownerOf
    BY <1>1, <2>1, GetNextTaskToRunKeeps DEF GetNextTaskToRun
  <2>3. tasks[i] \in Tasks
    BY <1>1 DEF QueuesInv, QueuesTypeOK
  <2>4. tasks[i].work \in {"setup", "draw", "teardown"} \X Engines
    BY <2>3, MergingAssumption DEF Tasks
  <2>5. [Free EXCEPT !.work = tasks[i].work[1], !.engine = tasks[i].work[2],
                     !.step = "begin"] \in Busy
    BY <2>4 DEF Free, Busy
  <2>6. thread' \in [Queues -> Busy \cup {Free}]
    BY <1>1, <2>1, <2>5 DEF TypeOK
  <2> QED
    BY <1>1, <1>4, <2>2, <2>6, SameBook DEF RunTask, mergerVars, rasterVars, TypeOK
<1> QED
  BY <1>2, <1>3, <1>4

\* A frame of the UI thread.
LEMMA CommitFrameKeeps ==
  ASSUME MergingInv, NEW e \in Engines, CommitFrame(e)
  PROVE  MergingInv'
<1>1. QueuesInv /\ TypeOK
  BY DEF MergingInv
<1>2. QueuesInv' /\ UNCHANGED ownerOf
  BY <1>1, PostRasterKeeps, QueuesStutter DEF CommitFrame
<1>3. frames' \in [Engines -> Seq(BOOLEAN)]
  <2>1. PICK views \in BOOLEAN : frames' = [frames EXCEPT ![e] = Append(@, views)]
    BY DEF CommitFrame
  <2> QED
    BY <1>1, <2>1 DEF TypeOK
<1> QED
  BY <1>1, <1>2, <1>3, SameBook DEF CommitFrame, mergerVars, TypeOK
-----------------------------------------------------------------------------
(* Draw. *)

\* The steps of a Draw that end it or only go on.
LEMMA DrawGoesOn ==
  ASSUME MergingInv, NEW t \in Queues,
         Yield(t) \/ BeginDraw(t) \/ ConsumeNothing(t) \/ Consume(t)
  PROVE  MergingInv'
<1>1. QueuesInv /\ TypeOK
  BY DEF MergingInv
<1>2. thread[t].work = "draw"
  BY DEF Yield, BeginDraw, ConsumeNothing, Consume, Running
<1>3. QueuesInv' /\ UNCHANGED ownerOf
  BY <1>1, QueuesStutter DEF Yield, BeginDraw, ConsumeNothing, Consume
<1>4. CASE Yield(t)
  BY <1>1, <1>2, <1>3, <1>4, RunningFacts, SameBook DEF Yield, mergerVars, rasterVars, TypeOK
<1>5. CASE BeginDraw(t)
  BY <1>1, <1>2, <1>3, <1>5, RunningFacts, SameBook DEF BeginDraw, mergerVars, rasterVars, TypeOK, Steps
<1>6. CASE ConsumeNothing(t)
  BY <1>1, <1>2, <1>3, <1>6, RunningFacts, SameBook DEF ConsumeNothing, mergerVars, rasterVars, TypeOK
<1>7. CASE Consume(t)
  <2> DEFINE e == thread[t].engine
  <2>1. thread[t] \in Busy /\ e \in Engines /\ frames[e] \in Seq(BOOLEAN) /\ frames[e] # <<>>
    BY <1>1, <1>2, <1>7, RunningFacts DEF Consume, TypeOK
  <2>2. Tail(frames[e]) \in Seq(BOOLEAN) /\ Head(frames[e]) \in BOOLEAN
    BY <2>1, HeadTailProperties, Zenon
  <2> DEFINE more == Len(frames[e]) > 1
  <2>3. PICK step \in {"preroll", "decrement", "post"} :
          thread' = [thread EXCEPT ![t].step = step, ![t].frame = Head(frames[e]),
                                   ![t].more = more]
    BY <1>7 DEF Consume
  <2>4. more \in BOOLEAN
    OBVIOUS
  <2> HIDE DEF more
  <2>5. [thread[t] EXCEPT !.step = step, !.frame = Head(frames[e]), !.more = more] \in Busy
    BY <2>1, <2>2, <2>3, <2>4 DEF Busy
  <2>6. thread' \in [Queues -> Busy \cup {Free}]
    BY <1>1, <2>3, <2>5 DEF TypeOK
  <2>7. frames' \in [Engines -> Seq(BOOLEAN)]
    BY <1>1, <1>7, <2>1, <2>2 DEF Consume, TypeOK
  <2> QED
    BY <1>1, <1>3, <1>7, <2>6, <2>7, SameBook DEF Consume, mergerVars, TypeOK
<1> QED
  BY <1>4, <1>5, <1>6, <1>7

\* A frame with platform views renews the lease only while the threads are merged.
LEMMA PrerollKeeps ==
  ASSUME MergingInv, NEW t \in Queues, Preroll(t) \/ PrerollUnmerged(t)
  PROVE  MergingInv'
<1> DEFINE e == thread[t].engine
<1>1. QueuesInv /\ TypeOK /\ MergedIffLeased
  BY DEF MergingInv
<1>2. thread[t].work = "draw"
  BY DEF Preroll, PrerollUnmerged, Running
<1>3. thread[t] \in Busy /\ e \in Engines /\ thread[t].frame \in BOOLEAN
  BY <1>1, <1>2, RunningFacts
<1>4. QueuesInv' /\ UNCHANGED ownerOf
  BY <1>1, QueuesStutter DEF Preroll, PrerollUnmerged
<1>5. CASE Preroll(t)
  <2>1. embedded' \in [Engines -> BOOLEAN]
    BY <1>1, <1>3, <1>5 DEF Preroll, TypeOK
  <2>2. [thread[t] EXCEPT !.step = "decrement",
                          !.resubmit = thread[t].frame /\ ~embedded[e]] \in Busy
    BY <1>1, <1>3 DEF Busy, TypeOK
  <2>3. thread' \in [Queues -> Busy \cup {Free}]
    BY <1>1, <1>5, <2>2 DEF Preroll, TypeOK
  <2>4. CASE thread[t].frame /\ enabled
    <3>1. lease' = [lease EXCEPT ![e] = Lease] /\ IsMerged /\ UNCHANGED aborted
      BY <1>5, <2>4 DEF Preroll
    <3>2. lease' \in [Engines -> Absent .. Lease] /\ IsMerged'
      BY <1>1, <1>3, <3>1, MergingAssumption DEF TypeOK, IsMerged, IsAllLeaseTermsZero, Absent
    <3>3. MergedIffLeased'
      BY <1>1, <1>4, <3>1, <3>2 DEF MergedIffLeased, Owns
    <3>4. TypeOK'
      BY <1>1, <1>4, <1>5, <2>1, <2>3, <3>2 DEF Preroll, TypeOK, QueuesInv
    <3> QED
      BY <1>4, <3>3, <3>4 DEF MergingInv
  <2>5. CASE ~(thread[t].frame /\ enabled)
    <3>1. UNCHANGED <<lease, aborted>>
      BY <1>5, <2>5 DEF Preroll
    <3> QED
      BY <1>1, <1>4, <1>5, <2>1, <2>3, <3>1, SameBook DEF Preroll, TypeOK
  <2> QED
    BY <2>4, <2>5
<1>6. CASE PrerollUnmerged(t)
  <2>1. embedded' \in [Engines -> BOOLEAN]
    BY <1>1, <1>3, <1>6 DEF PrerollUnmerged, TypeOK
  <2>2. [thread[t] EXCEPT !.step = IF enabled THEN "merge" ELSE "decrement",
                          !.resubmit = TRUE] \in Busy
    BY <1>3 DEF Busy
  <2>3. thread' \in [Queues -> Busy \cup {Free}]
    BY <1>1, <1>6, <2>2 DEF PrerollUnmerged, TypeOK
  <2> QED
    BY <1>1, <1>4, <1>6, <2>1, <2>3, SameBook DEF PrerollUnmerged, mergerVars, TypeOK
<1> QED
  BY <1>5, <1>6

\* The merge takes the first lease, unless another thread has merged since the check.
LEMMA MergeWithLeaseKeeps ==
  ASSUME MergingInv, NEW t \in Queues, MergeWithLease(t)
  PROVE  MergingInv'
<1> DEFINE e == thread[t].engine
<1>1. QueuesInv /\ TypeOK /\ MergedIffLeased
  BY DEF MergingInv
<1>2. thread[t].work = "draw" /\ Goto(t, "decrement")
  BY DEF MergeWithLease, Running
<1>3. e \in Engines /\ thread' \in [Queues -> Busy \cup {Free}]
  BY <1>1, <1>2, RunningFacts DEF Steps
<1>4. CASE IsMerged
  <2>1. UNCHANGED queuesVars /\ UNCHANGED <<lease, aborted>>
    BY <1>4 DEF MergeWithLease
  <2>2. QueuesInv' /\ UNCHANGED ownerOf
    BY <1>1, <2>1, QueuesStutter
  <2> QED
    BY <1>1, <1>3, <2>1, <2>2, SameBook DEF MergeWithLease, rasterVars, TypeOK
<1>5. CASE Merge("platform", "raster") /\ lease' = [lease EXCEPT ![e] = Lease] /\ UNCHANGED aborted
  <2>1. QueuesInv' /\ Owns'
    BY <1>1, <1>5, MergeFacts
  <2>2. lease' \in [Engines -> Absent .. Lease] /\ IsMerged'
    BY <1>1, <1>3, <1>5, MergingAssumption DEF TypeOK, IsMerged, IsAllLeaseTermsZero, Absent
  <2>3. TypeOK'
    BY <1>1, <1>3, <1>5, <2>1, <2>2 DEF MergeWithLease, rasterVars, TypeOK, QueuesInv
  <2> QED
    BY <2>1, <2>2, <2>3 DEF MergingInv, MergedIffLeased
<1>6. CASE aborted' = TRUE /\ UNCHANGED queuesVars /\ UNCHANGED lease
  <2>1. QueuesInv'
    BY <1>1, <1>6, QueuesStutter
  <2>2. TypeOK'
    BY <1>1, <1>3, <1>6, <2>1 DEF MergeWithLease, rasterVars, TypeOK, QueuesInv
  <2> QED
    BY <1>6, <2>1, <2>2 DEF MergingInv, MergedIffLeased
<1> QED
  BY <1>4, <1>5, <1>6 DEF MergeWithLease

\* The end of DoDraw.
LEMMA DecrementStepKeeps ==
  ASSUME MergingInv, NEW t \in Queues, Decrement(t)
  PROVE  MergingInv'
<1> DEFINE e == thread[t].engine
           unmerged == IsMerged /\ enabled /\ IsAllLeaseTermsZero(lease')
<1>1. QueuesInv /\ TypeOK /\ MergedIffLeased /\ ~aborted
  BY DEF MergingInv, Decrement
<1>2. thread[t].work = "draw"
  BY DEF Decrement, Running
<1>3. thread[t] \in Busy /\ e \in Engines
  BY <1>1, <1>2, RunningFacts
<1>4. thread' = [thread EXCEPT ![t] = [thread[t] EXCEPT !.step = "post", !.unmerged = unmerged]]
  BY DEF Decrement
<1>5. unmerged \in BOOLEAN
  BY DEF IsMerged, IsAllLeaseTermsZero
<1> HIDE DEF unmerged
<1>6. [thread[t] EXCEPT !.step = "post", !.unmerged = unmerged] \in Busy
  BY <1>3, <1>5 DEF Busy
<1>7. thread' \in [Queues -> Busy \cup {Free}]
  BY <1>1, <1>4, <1>6 DEF TypeOK
<1>8. lost' \subseteq Engines
  <2>1. \A u \in Queues : Running(u, "draw", "begin") => thread[u].engine \in Engines
    BY <1>1, RunningFacts DEF Running
  <2> QED
    BY <1>1, <2>1 DEF Decrement, TypeOK
<1>9. CASE IsMerged /\ enabled
  <2>1. DecrementLease(e)
    BY <1>9 DEF Decrement
  <2>2. /\ QueuesInv' /\ MergedIffLeased'
        /\ lease' \in [Engines -> Absent .. Lease] /\ aborted' \in BOOLEAN
    BY <1>1, <1>3, <1>9, <2>1, DecrementKeeps
  <2>3. TypeOK'
    BY <1>1, <1>7, <1>8, <2>2 DEF Decrement, rasterVars, TypeOK, QueuesInv
  <2> QED
    BY <2>2, <2>3 DEF MergingInv
<1>10. CASE ~(IsMerged /\ enabled)
  <2>1. UNCHANGED queuesVars /\ UNCHANGED <<lease, aborted>>
    BY <1>10 DEF Decrement
  <2>2. QueuesInv' /\ UNCHANGED ownerOf
    BY <1>1, <2>1, QueuesStutter
  <2> QED
    BY <1>1, <1>7, <1>8, <2>1, <2>2, SameBook DEF Decrement, rasterVars, TypeOK
<1> QED
  BY <1>9, <1>10

\* A frame put back in an empty pipeline, and the Draw that Draw posts.
LEMMA EndDrawKeeps ==
  ASSUME MergingInv, NEW t \in Queues, EndDraw(t)
  PROVE  MergingInv'
<1> DEFINE e == thread[t].engine
<1>1. QueuesInv /\ TypeOK
  BY DEF MergingInv
<1>2. thread[t].work = "draw" /\ Finish(t)
  BY DEF EndDraw, Running
<1>3. /\ e \in Engines /\ thread[t].frame \in BOOLEAN
      /\ thread' \in [Queues -> Busy \cup {Free}]
  BY <1>1, <1>2, RunningFacts
<1>4. <<thread[t].frame>> \in Seq(BOOLEAN)
  BY <1>3
<1>5. frames' \in [Engines -> Seq(BOOLEAN)]
  BY <1>1, <1>3, <1>4 DEF EndDraw, TypeOK
<1>6. lost' \subseteq Engines
  BY <1>1, <1>3 DEF EndDraw, TypeOK
<1>7. PostRaster("draw", e) \/ UNCHANGED queuesVars
  BY DEF EndDraw
<1>8. QueuesInv' /\ UNCHANGED ownerOf
  BY <1>1, <1>3, <1>7, PostRasterKeeps, QueuesStutter
<1> QED
  BY <1>1, <1>3, <1>5, <1>6, <1>8, SameBook DEF EndDraw, mergerVars, TypeOK

-----------------------------------------------------------------------------
(* The calls of the platform thread. *)

\* The calls begin.
LEMMA PlatformCallKeeps ==
  ASSUME MergingInv, NEW e \in Engines,
         OnPlatformViewCreated(e) \/ OnPlatformViewDestroyed(e)
  PROVE  MergingInv'
<1>1. QueuesInv /\ TypeOK /\ "platform" \in Queues
  BY MergingAssumption DEF MergingInv
<1>2. PICK to \in {"creating", "destroying"}, from \in {"gone", "created"} : PlatformCall(e, from, to)
  BY DEF OnPlatformViewCreated, OnPlatformViewDestroyed
<1>3. QueuesInv' /\ UNCHANGED ownerOf
  BY <1>1, <1>2, QueuesStutter DEF PlatformCall
<1>4. [Free EXCEPT !.work = to, !.engine = e, !.step = "begin"] \in Busy
  BY DEF Free, Busy
<1>5. thread' \in [Queues -> Busy \cup {Free}]
  BY <1>1, <1>2, <1>4 DEF PlatformCall, TypeOK
<1>6. view' \in [Engines -> {"gone", "creating", "created", "destroying"}]
  BY <1>1, <1>2 DEF PlatformCall, TypeOK
<1>7. enabled' \in BOOLEAN
  BY <1>1, <1>2 DEF PlatformCall, Disable, TypeOK
<1> QED
  BY <1>1, <1>2, <1>3, <1>5, <1>6, <1>7, SameBook DEF PlatformCall, rasterVars, TypeOK

\* The rest of OnPlatformViewCreated.
LEMMA CreationKeeps ==
  ASSUME MergingInv, PostSetup \/ SetupPosted \/ SetupHere
  PROVE  MergingInv'
<1> DEFINE e == thread["platform"].engine
<1>1. QueuesInv /\ TypeOK /\ "platform" \in Queues
  BY MergingAssumption DEF MergingInv
<1>2. thread["platform"].work = "creating"
  BY DEF PostSetup, SetupPosted, SetupHere, Running
<1>3. e \in Engines
  BY <1>1, <1>2, RunningFacts
<1>4. thread' \in [Queues -> Busy \cup {Free}]
  BY <1>1, <1>2, RunningFacts DEF PostSetup, SetupPosted, SetupHere, Steps
<1>5. CASE PostSetup
  <2>1. QueuesInv' /\ UNCHANGED ownerOf
    BY <1>1, <1>5, QueuesStutter DEF PostSetup
  <2> QED
    BY <1>1, <1>4, <1>5, <2>1, SameBook DEF PostSetup, mergerVars, rasterVars, TypeOK
<1>6. CASE SetupPosted
  <2>1. QueuesInv' /\ UNCHANGED ownerOf
    BY <1>1, <1>3, <1>6, PostRasterKeeps DEF SetupPosted
  <2> QED
    BY <1>1, <1>3, <1>4, <1>6, <2>1, SameBook DEF SetupPosted, mergerVars, rasterVars, TypeOK
<1>7. CASE SetupHere
  <2>1. QueuesInv' /\ UNCHANGED ownerOf
    BY <1>1, <1>7, QueuesStutter DEF SetupHere
  <2>2. enabled' \in BOOLEAN /\ merger' \subseteq Engines /\ surface' \subseteq merger'
    BY <1>1, <1>3, <1>7 DEF SetupHere, SetUp, TypeOK
  <2> QED
    BY <1>1, <1>3, <1>4, <1>7, <2>1, <2>2, SameBook DEF SetupHere, SetUp, TypeOK
<1> QED
  BY <1>5, <1>6, <1>7

\* A set-up that was posted.
LEMMA RunSetupKeeps ==
  ASSUME MergingInv, NEW t \in Queues, RunSetup(t)
  PROVE  MergingInv'
<1>1. QueuesInv /\ TypeOK
  BY DEF MergingInv
<1>2. thread[t].work = "setup" /\ Finish(t) /\ SetUp(thread[t].engine)
  BY DEF RunSetup, Running
<1>3. thread[t].engine \in Engines /\ thread' \in [Queues -> Busy \cup {Free}]
  BY <1>1, <1>2, RunningFacts
<1>4. QueuesInv' /\ UNCHANGED ownerOf
  BY <1>1, QueuesStutter DEF RunSetup
<1>5. enabled' \in BOOLEAN /\ merger' \subseteq Engines /\ surface' \subseteq merger'
  BY <1>1, <1>2, <1>3 DEF SetUp, TypeOK
<1> QED
  BY <1>1, <1>2, <1>3, <1>4, <1>5, SameBook DEF RunSetup, SetUp, TypeOK

\* The rest of OnPlatformViewDestroyed, and the teardown.
LEMMA DestructionKeeps ==
  ASSUME MergingInv, NEW t \in Queues,
         PostTeardown \/ TeardownHere \/ RunTeardown(t) \/ Signal(t)
  PROVE  MergingInv'
<1>1. QueuesInv /\ TypeOK /\ "platform" \in Queues
  BY MergingAssumption DEF MergingInv
<1>2. CASE PostTeardown
  <2>1. thread["platform"].work = "destroying" /\ Goto("platform", "waiting")
    BY <1>2 DEF PostTeardown, Running
  <2>2. thread["platform"].engine \in Engines /\ thread' \in [Queues -> Busy \cup {Free}]
    BY <1>1, <2>1, RunningFacts DEF Steps
  <2>3. QueuesInv' /\ UNCHANGED ownerOf
    BY <1>1, <1>2, <2>2, PostRasterKeeps DEF PostTeardown
  <2> QED
    BY <1>1, <1>2, <2>2, <2>3, SameBook DEF PostTeardown, mergerVars, rasterVars, TypeOK
<1>3. CASE TeardownHere
  <2> DEFINE e == thread["platform"].engine
  <2>1. thread["platform"].work = "destroying" /\ Finish("platform") /\ TearDown(e) /\ ~aborted
    BY <1>3 DEF TeardownHere, Running
  <2>2. e \in Engines /\ thread' \in [Queues -> Busy \cup {Free}]
    BY <1>1, <2>1, RunningFacts
  <2>3. /\ QueuesInv' /\ MergedIffLeased'
        /\ lease' \in [Engines -> Absent .. Lease] /\ aborted' \in BOOLEAN
        /\ enabled' \in BOOLEAN /\ surface' \subseteq merger'
        /\ UNCHANGED <<merger, frames, embedded>>
    BY <2>1, <2>2, TearDownKeeps
  <2>4. TypeOK'
    BY <1>1, <1>3, <2>2, <2>3 DEF TeardownHere, TypeOK, QueuesInv
  <2> QED
    BY <2>3, <2>4 DEF MergingInv
<1>4. CASE RunTeardown(t)
  <2> DEFINE e == thread[t].engine
  <2>1. thread[t].work = "teardown" /\ Goto(t, "signal") /\ TearDown(e) /\ ~aborted
    BY <1>4 DEF RunTeardown, Running
  <2>2. e \in Engines /\ thread' \in [Queues -> Busy \cup {Free}]
    BY <1>1, <2>1, RunningFacts DEF Steps
  <2>3. /\ QueuesInv' /\ MergedIffLeased'
        /\ lease' \in [Engines -> Absent .. Lease] /\ aborted' \in BOOLEAN
        /\ enabled' \in BOOLEAN /\ surface' \subseteq merger'
        /\ UNCHANGED <<merger, frames, embedded>>
    BY <2>1, <2>2, TearDownKeeps
  <2>4. TypeOK'
    BY <1>1, <1>4, <2>2, <2>3 DEF RunTeardown, TypeOK, QueuesInv
  <2> QED
    BY <2>3, <2>4 DEF MergingInv
<1>5. CASE Signal(t)
  <2>1. QueuesInv' /\ UNCHANGED ownerOf
    BY <1>1, <1>5, QueuesStutter DEF Signal
  <2>2. thread' \in [Queues -> Busy \cup {Free}]
    BY <1>1, <1>5 DEF Signal, TypeOK
  <2> QED
    BY <1>1, <1>5, <2>1, <2>2, SameBook DEF Signal, mergerVars, rasterVars, TypeOK
<1> QED
  BY <1>2, <1>3, <1>4, <1>5

-----------------------------------------------------------------------------
\* Every step keeps the invariant.
LEMMA MergingNext == MergingInv /\ [Next]_vars => MergingInv'
<1> SUFFICES ASSUME MergingInv, [Next]_vars PROVE MergingInv'
  OBVIOUS
<1>1. ASSUME NEW t \in Queues, Step(t)
      PROVE  MergingInv'
  <2>1. CASE Wake(t) \/ RunTask(t) \/ Sleep(t)
    BY <2>1, LoopKeeps
  <2>2. CASE Draw(t)
    BY <2>2, DrawGoesOn, PrerollKeeps, MergeWithLeaseKeeps, DecrementStepKeeps, EndDrawKeeps
       DEF Draw
  <2>3. CASE RunSetup(t)
    BY <2>3, RunSetupKeeps
  <2>4. CASE PostTeardown \/ TeardownHere \/ RunTeardown(t) \/ Signal(t)
    BY <2>4, DestructionKeeps
  <2>5. CASE PostSetup \/ SetupPosted \/ SetupHere
    BY <2>5, CreationKeeps
  <2> QED
    BY <1>1, <2>1, <2>2, <2>3, <2>4, <2>5 DEF Step
<1>2. ASSUME NEW e \in Engines,
             CommitFrame(e) \/ OnPlatformViewCreated(e) \/ OnPlatformViewDestroyed(e)
      PROVE  MergingInv'
  BY <1>2, CommitFrameKeeps, PlatformCallKeeps
<1>3. CASE UNCHANGED vars
  <2>1. QueuesInv' /\ UNCHANGED ownerOf
    BY <1>3, QueuesStutter DEF vars, MergingInv
  <2> QED
    BY <1>3, <2>1, SameBook DEF vars, mergerVars, rasterVars, MergingInv, TypeOK
<1> QED
  BY <1>1, <1>2, <1>3 DEF Next

\* The queues are merged exactly while an engine of the group holds a lease, for every
\* number of engines and whatever their Draws, set-ups and teardowns do.
THEOREM AlwaysMergedIffLeased == Spec => []MergedIffLeased
<1>1. MergingInv => MergedIffLeased
  BY DEF MergingInv
<1> QED
  BY MergingInit, MergingNext, <1>1, PTL DEF Spec

\* Both loops are woken for every raster task in time, wherever the merges leave it.
THEOREM RasterTasksWokenInTime == Spec => []WokenInTime
<1>1. MergingInv => WokenInTime
  BY DEF MergingInv, QueuesInv
<1> QED
  BY MergingInit, MergingNext, <1>1, PTL DEF Spec

-----------------------------------------------------------------------------
(* Who draws, and where. *)

\* Every task is for the raster queue.
RasterQueueOnly == \A i \in DOMAIN tasks : tasks[i].queue = "raster"

\* The platform thread draws only while the queues are merged, and never merges them.
PlatformDrawsMerged ==
  /\ PastCheck("platform") => IsMerged
  /\ thread["platform"].step # "merge"

\* While they are merged, the raster thread at most ends the Draw that merged them.
RasterEndsDraw ==
  IsMerged => \/ thread["raster"] = Free
              \/ /\ thread["raster"].work = "draw"
                 /\ thread["raster"].step \in {"decrement", "post"}

\* An engine about to get a lease has its surface.
LeaseForSurface ==
  \A t \in Queues : thread[t].work = "draw" /\ thread[t].step \in {"preroll", "merge"}
                      => thread[t].engine \in surface

\* A teardown runs on the raster thread while the platform thread waits for it, and
\* there is no second one.
IsTeardown(i) == tasks[i].work[1] = "teardown"
OneTeardown ==
  /\ thread["platform"].work # "teardown"
  /\ \A i \in DOMAIN tasks : IsTeardown(i) => Waiting /\ thread["raster"].work # "teardown"
  /\ \A i, j \in DOMAIN tasks : IsTeardown(i) /\ IsTeardown(j) => i = j
  /\ thread["raster"].work = "teardown" => Waiting

DrawInv == PlatformDrawsMerged /\ RasterEndsDraw /\ LeaseForSurface /\ LeaseNeedsSurface
TasksInv == RasterQueueOnly /\ OneTeardown

\* A thread that goes on or ends leaves the other one alone.
LEMMA Moves ==
  ASSUME TypeOK, NEW t \in Queues,
         thread[t].work \in {"setup", "draw", "teardown", "creating", "destroying"}
  PROVE  /\ \A step \in Steps : Goto(t, step) =>
              /\ thread'[t] = [thread[t] EXCEPT !.step = step]
              /\ \A u \in Queues \ {t} : thread'[u] = thread[u]
         /\ Finish(t) => /\ thread'[t] = Free
                         /\ \A u \in Queues \ {t} : thread'[u] = thread[u]
BY DEF Goto, Finish, TypeOK

\* The loop that runs raster tasks is the platform one exactly while it owns them.
LEMMA ServesRaster ==
  ASSUME QueuesInv, NEW t \in Queues, "raster" \in Served(t, subsumedBy, ownerOf)
  PROVE  Owns <=> t = "platform"
<1>1. subsumedBy[t] = Unmerged /\ ("raster" = t \/ "raster" \in ownerOf[t])
  BY DEF Served
<1>2. t \in {"platform", "raster"} /\ Unmerged # "platform" /\ "platform" \in Queues
  BY MergingAssumption, QueuesAssumption
<1>3. Owns <=> subsumedBy["raster"] = "platform"
  BY <1>2, MergingAssumption DEF Owns, QueuesInv, OneOfThreeStates
<1>4. CASE t = "platform"
  BY <1>1, <1>4 DEF Owns
<1>5. CASE t = "raster"
  BY <1>1, <1>2, <1>3, <1>5
<1> QED
  BY <1>2, <1>4, <1>5

\* The loop's own steps and the UI thread's.
LEMMA LoopDraws ==
  ASSUME MergingInv, TasksInv, DrawInv, NEW t \in Queues, Wake(t) \/ RunTask(t) \/ Sleep(t)
  PROVE  DrawInv'
<1>1. QueuesInv /\ TypeOK /\ MergedIffLeased
  BY DEF MergingInv
<1>2. UNCHANGED <<lease, merger, surface>> /\ ~aborted
  BY DEF Wake, RunTask, Sleep, mergerVars, rasterVars
<1>3. CASE Wake(t) \/ Sleep(t)
  <2>1. UNCHANGED thread
    BY <1>3 DEF Wake, Sleep
  <2> QED
    BY <1>2, <2>1 DEF DrawInv, PlatformDrawsMerged, RasterEndsDraw, LeaseForSurface, LeaseNeedsSurface,
      PastCheck, IsMerged, IsAllLeaseTermsZero
<1>4. CASE RunTask(t)
  <2>1. PICK i \in DOMAIN tasks :
          /\ GetNextTaskToRun(t, i)
          /\ thread' = [thread EXCEPT ![t] =
               [Free EXCEPT !.work = tasks[i].work[1], !.engine = tasks[i].work[2],
                            !.step = "begin"]]
    BY <1>4 DEF RunTask
  <2>2. "raster" \in Served(t, subsumedBy, ownerOf)
    BY <2>1 DEF GetNextTaskToRun, IsTop, TasksInv, RasterQueueOnly
  <2>3. IsMerged <=> t = "platform"
    BY <1>1, <1>2, <2>2, ServesRaster DEF MergedIffLeased
  <2>4. thread[t] = Free /\ thread \in [Queues -> Busy \cup {Free}]
    BY <1>1, <1>4 DEF RunTask, TypeOK
  <2>5. thread'[t].step = "begin" /\ \A u \in Queues \ {t} : thread'[u] = thread[u]
    BY <2>1, <2>4 DEF Free
  <2> QED
    BY <1>2, <2>3, <2>4, <2>5, MergingAssumption DEF DrawInv, PlatformDrawsMerged, RasterEndsDraw,
      LeaseForSurface, LeaseNeedsSurface, PastCheck, IsMerged, IsAllLeaseTermsZero
<1> QED
  BY <1>3, <1>4

\* A step that leaves the book, the surfaces and the threads alone.
LEMMA SameDraws ==
  ASSUME DrawInv, UNCHANGED <<lease, merger, surface, thread>>
  PROVE  DrawInv'
BY DEF DrawInv, PlatformDrawsMerged, RasterEndsDraw, LeaseForSurface, LeaseNeedsSurface,
       PastCheck, IsMerged, IsAllLeaseTermsZero

\* The steps of a Draw before the end of DoDraw.
LEMMA DrawDraws ==
  ASSUME MergingInv, DrawInv, NEW t \in Queues,
         Yield(t) \/ BeginDraw(t) \/ ConsumeNothing(t) \/ Consume(t) \/ EndDraw(t)
  PROVE  DrawInv'
<1>1. QueuesInv /\ TypeOK /\ MergedIffLeased
  BY DEF MergingInv
<1>2. thread[t].work = "draw" /\ UNCHANGED <<lease, merger, surface>>
  BY DEF Yield, BeginDraw, ConsumeNothing, Consume, EndDraw, Running, mergerVars, rasterVars
<1>3. IsMerged' = IsMerged
  BY <1>2 DEF IsMerged, IsAllLeaseTermsZero
<1>4. thread \in [Queues -> Busy \cup {Free}] /\ thread[t] \in Busy
  BY <1>1, <1>2, RunningFacts DEF TypeOK
<1>5. CASE Yield(t) \/ ConsumeNothing(t) \/ EndDraw(t)
  <2>1. thread'[t] = Free /\ \A u \in Queues \ {t} : thread'[u] = thread[u]
    BY <1>1, <1>2, <1>5, Moves DEF Yield, ConsumeNothing, EndDraw
  <2> QED
    BY <1>2, <1>3, <2>1, MergingAssumption
       DEF DrawInv, PlatformDrawsMerged, RasterEndsDraw, LeaseForSurface, LeaseNeedsSurface, PastCheck, Free
<1>6. CASE BeginDraw(t)
  <2>1. thread'[t] = [thread[t] EXCEPT !.step = "consume"] /\ \A u \in Queues \ {t} : thread'[u] = thread[u]
    BY <1>1, <1>2, <1>6, Moves DEF BeginDraw, Steps
  <2>2. thread'[t].step = "consume" /\ t = "platform" => IsMerged
    BY <1>2, <1>4, <1>6, <2>1 DEF BeginDraw, OnRasterizingThread, DrawInv, PlatformDrawsMerged, PastCheck, Running, Busy
  <2>3. t = "raster" => ~IsMerged
    BY <1>2, <1>6 DEF BeginDraw, Running, DrawInv, RasterEndsDraw, Free
  <2>4. /\ thread'[t].step = "consume"
        /\ \A u \in Queues \ {t} : thread'[u] = thread[u]
    BY <1>4, <2>1 DEF Busy
  <2>5. t = "platform" => IsMerged
    BY <2>2, <2>4
  <2> QED
    <3>1. PlatformDrawsMerged'
      BY <1>2, <1>3, <2>4, <2>5, MergingAssumption DEF DrawInv, PlatformDrawsMerged, PastCheck
    <3>2. RasterEndsDraw'
      BY <1>3, <2>3, <2>4, MergingAssumption DEF DrawInv, RasterEndsDraw
    <3>3. LeaseForSurface' /\ LeaseNeedsSurface'
      BY <1>2, <2>4 DEF DrawInv, LeaseForSurface, LeaseNeedsSurface
    <3> QED
      BY <3>1, <3>2, <3>3 DEF DrawInv
<1>7. CASE Consume(t)
  <2> DEFINE e == thread[t].engine
  <2>0. PICK step \in {"preroll", "decrement", "post"} : \E frame, more :
          /\ thread' = [thread EXCEPT ![t].step = step, ![t].frame = frame, ![t].more = more]
          /\ step \in {"preroll", "decrement"} => e \in surface
    BY <1>7 DEF Consume
  <2>1. PICK frame, more :
          /\ thread' = [thread EXCEPT ![t].step = step, ![t].frame = frame, ![t].more = more]
          /\ step \in {"preroll", "decrement"} => e \in surface
    BY <2>0
  <2>2. thread' = [thread EXCEPT ![t] = [thread[t] EXCEPT !.step = step, !.frame = frame, !.more = more]]
    BY <2>1
  <2>3. /\ thread'[t].step = step /\ thread'[t].engine = e /\ thread'[t].work = "draw"
        /\ \A u \in Queues \ {t} : thread'[u] = thread[u]
    BY <1>2, <1>4, <2>2 DEF Busy
  <2>4. PastCheck(t) /\ t = "platform" => IsMerged
    BY <1>2, <1>7 DEF DrawInv, PlatformDrawsMerged, Consume, PastCheck, Running
  <2>5. thread[t].work = "draw" /\ thread[t].step = "consume"
    BY <1>7 DEF Consume, Running
  <2>6. t = "raster" => ~IsMerged
    BY <2>5 DEF DrawInv, RasterEndsDraw, Free
  <2>7. PlatformDrawsMerged'
    BY <1>2, <1>3, <2>3, <2>4, <2>5, MergingAssumption DEF DrawInv, PlatformDrawsMerged, PastCheck
  <2>8. RasterEndsDraw'
    BY <1>3, <2>3, <2>6, MergingAssumption DEF DrawInv, RasterEndsDraw
  <2>9. thread'[t].step \in {"preroll", "merge"} => thread'[t].engine \in surface
    BY <2>1, <2>3
  <2>10. LeaseForSurface'
    BY <1>2, <2>3, <2>9 DEF DrawInv, LeaseForSurface
  <2>11. LeaseNeedsSurface'
    BY <1>2 DEF DrawInv, LeaseNeedsSurface
  <2> QED
    BY <2>7, <2>8, <2>10, <2>11 DEF DrawInv
<1> QED
  BY <1>5, <1>6, <1>7

\* Only a frame drawn to a surface renews the lease of its engine.
LEMMA PrerollDraws ==
  ASSUME MergingInv, DrawInv, NEW t \in Queues, Preroll(t) \/ PrerollUnmerged(t)
  PROVE  DrawInv'
<1> DEFINE e == thread[t].engine
<1>1. QueuesInv /\ TypeOK
  BY DEF MergingInv
<1>2. thread[t].work = "draw" /\ thread[t].step = "preroll" /\ UNCHANGED <<merger, surface>>
  BY DEF Preroll, PrerollUnmerged, Running
<1>3. /\ thread \in [Queues -> Busy \cup {Free}] /\ thread[t] \in Busy
      /\ lease \in [Engines -> Absent .. Lease] /\ e \in Engines
  BY <1>1, <1>2, RunningFacts DEF TypeOK
<1>4. e \in surface /\ (t = "platform" => IsMerged) /\ (t = "raster" => ~IsMerged)
  BY <1>2 DEF DrawInv, LeaseForSurface, PlatformDrawsMerged, RasterEndsDraw, PastCheck, Free
<1>5. CASE Preroll(t)
  <2>1. PICK back : thread' = [thread EXCEPT ![t] = [thread[t] EXCEPT !.step = "decrement", !.resubmit = back]]
    BY <1>5 DEF Preroll
  <2>2. /\ thread'[t].step = "decrement" /\ thread'[t].work = "draw"
        /\ \A u \in Queues \ {t} : thread'[u] = thread[u]
    BY <1>2, <1>3, <2>1 DEF Busy
  <2>3. lease' = lease \/ (IsMerged /\ lease' = [lease EXCEPT ![e] = Lease])
    BY <1>5 DEF Preroll
  <2>4. IsMerged' = IsMerged
    BY <1>3, <2>3, MergingAssumption DEF IsMerged, IsAllLeaseTermsZero
  <2>5. LeaseNeedsSurface'
    BY <1>2, <1>3, <1>4, <2>3 DEF LeaseNeedsSurface, DrawInv
  <2> QED
    BY <1>2, <2>2, <2>4, <2>5, MergingAssumption
       DEF DrawInv, PlatformDrawsMerged, RasterEndsDraw, LeaseForSurface, PastCheck
<1>6. CASE PrerollUnmerged(t)
  <2>1. t = "raster" /\ ~IsMerged /\ UNCHANGED lease
    BY <1>4, <1>6, MergingAssumption DEF PrerollUnmerged, mergerVars
  <2>2. PICK step \in {"merge", "decrement"} :
          thread' = [thread EXCEPT ![t] = [thread[t] EXCEPT !.step = step, !.resubmit = TRUE]]
    BY <1>6 DEF PrerollUnmerged
  <2>3. /\ thread'[t].engine = e
        /\ \A u \in Queues \ {t} : thread'[u] = thread[u]
    BY <1>3, <2>2 DEF Busy
  <2>4. ~IsMerged'
    BY <2>1 DEF IsMerged, IsAllLeaseTermsZero
  <2> QED
    BY <1>2, <1>4, <2>1, <2>3, <2>4, MergingAssumption
       DEF DrawInv, PlatformDrawsMerged, RasterEndsDraw, LeaseForSurface, LeaseNeedsSurface, PastCheck
<1> QED
  BY <1>5, <1>6

\* The first lease and the end of one.
LEMMA LeaseDraws ==
  ASSUME MergingInv, DrawInv, NEW t \in Queues, MergeWithLease(t) \/ Decrement(t)
  PROVE  DrawInv'
<1> DEFINE e == thread[t].engine
<1>1. QueuesInv /\ TypeOK
  BY DEF MergingInv
<1>2. thread[t].work = "draw" /\ UNCHANGED <<merger, surface>>
  BY DEF MergeWithLease, Decrement, Running, rasterVars
<1>3. /\ thread \in [Queues -> Busy \cup {Free}] /\ thread[t] \in Busy
      /\ lease \in [Engines -> Absent .. Lease] /\ e \in Engines
  BY <1>1, <1>2, RunningFacts DEF TypeOK
<1>4. CASE MergeWithLease(t)
  <2>1. e \in surface /\ t = "raster" /\ thread[t].step = "merge"
    BY <1>2, <1>4, MergingAssumption
       DEF MergeWithLease, Running, DrawInv, LeaseForSurface, PlatformDrawsMerged
  <2>2. ~IsMerged
    BY <2>1 DEF DrawInv, RasterEndsDraw, Free
  <2>3. thread' = [thread EXCEPT ![t] = [thread[t] EXCEPT !.step = "decrement"]]
    BY <1>4 DEF MergeWithLease, Goto
  <2>4. /\ thread'["raster"].step = "decrement" /\ thread'["raster"].work = "draw"
        /\ thread'["platform"] = thread["platform"]
    BY <1>2, <1>3, <2>1, <2>3, MergingAssumption DEF Busy
  <2>5. lease' = [lease EXCEPT ![e] = Lease] \/ lease' = lease
    BY <1>4 DEF MergeWithLease
  <2>6. LeaseNeedsSurface'
    BY <1>2, <1>3, <2>1, <2>5 DEF LeaseNeedsSurface, DrawInv
  <2>7. ~PastCheck("platform") /\ UNCHANGED merger /\ thread["platform"].step # "merge"
    BY <1>2, <2>2 DEF DrawInv, PlatformDrawsMerged
  <2>8. PlatformDrawsMerged'
    BY <2>4, <2>7 DEF PlatformDrawsMerged, PastCheck
  <2>9. RasterEndsDraw'
    BY <2>4 DEF RasterEndsDraw
  <2>10. LeaseForSurface'
    BY <1>2, <2>4, MergingAssumption DEF LeaseForSurface, DrawInv
  <2> QED
    BY <2>6, <2>8, <2>9, <2>10 DEF DrawInv
<1>5. CASE Decrement(t)
  <2>1. thread[t].step = "decrement"
    BY <1>5 DEF Decrement, Running
  <2>2. PICK unmerged :
          thread' = [thread EXCEPT ![t] = [thread[t] EXCEPT !.step = "post", !.unmerged = unmerged]]
    BY <1>5 DEF Decrement
  <2>3. /\ thread'[t].step = "post" /\ thread'[t].work = "draw"
        /\ \A u \in Queues \ {t} : thread'[u] = thread[u]
    BY <1>2, <1>3, <2>2 DEF Busy
  <2>4. \/ lease' = lease
        \/ /\ IsMerged /\ enabled
           /\ lease' = [lease EXCEPT ![e] = IF @ = Absent THEN Absent ELSE @ - 1]
    BY <1>5 DEF Decrement, DecrementLease, UnMergeIfUnleased
  <2>5. \A d \in Engines : lease'[d] <= lease[d]
    BY <1>3, <2>4, MergingAssumption DEF Absent
  <2>6. \A d \in Engines : lease[d] \in Int /\ lease'[d] \in Int
    BY <1>3, <2>4, MergingAssumption DEF Absent
  <2>7. IsMerged' => IsMerged
    BY <2>5, <2>6 DEF IsMerged, IsAllLeaseTermsZero
  <2>8. LeaseNeedsSurface'
    BY <1>2, <2>5, <2>6 DEF LeaseNeedsSurface, DrawInv
  <2>9. LeaseForSurface'
    BY <1>2, <2>3 DEF LeaseForSurface, DrawInv
  <2>10. RasterEndsDraw'
    BY <2>3, <2>7, MergingAssumption DEF RasterEndsDraw, DrawInv
  <2>11. IsMerged /\ ~IsMerged' => \A u \in Queues : ~PastCheck(u)
    <3>1. ASSUME IsMerged, ~IsMerged' PROVE NoOverrun
      <4>1. enabled /\ IsAllLeaseTermsZero(lease')
        BY <2>4, <3>1 DEF IsMerged, IsAllLeaseTermsZero
      <4> QED
        BY <1>5, <3>1, <4>1 DEF Decrement
    <3> QED
      BY <3>1 DEF NoOverrun
  <2>12. PlatformDrawsMerged'
    BY <1>2, <2>1, <2>3, <2>11, MergingAssumption DEF PlatformDrawsMerged, PastCheck, DrawInv
  <2> QED
    BY <2>8, <2>9, <2>10, <2>12 DEF DrawInv
<1> QED
  BY <1>4, <1>5

\* A call of the platform thread begins or is over, and the set-ups.
LEMMA SetUpDraws ==
  ASSUME MergingInv, DrawInv, NEW t \in Queues,
         \/ \E e \in Engines : OnPlatformViewCreated(e) \/ OnPlatformViewDestroyed(e)
         \/ PostSetup \/ SetupPosted \/ SetupHere \/ PostTeardown \/ RunSetup(t)
  PROVE  DrawInv'
<1>1. QueuesInv /\ TypeOK /\ "platform" \in Queues
  BY MergingAssumption DEF MergingInv
<1>2. /\ UNCHANGED lease /\ merger \subseteq merger' /\ surface \subseteq surface'
  BY DEF OnPlatformViewCreated, OnPlatformViewDestroyed, PlatformCall, PostSetup, SetupPosted,
         SetupHere, PostTeardown, RunSetup, SetUp, mergerVars, rasterVars
<1>3. IsMerged' = IsMerged
  BY <1>2 DEF IsMerged, IsAllLeaseTermsZero
<1>4. LeaseNeedsSurface'
  BY <1>2 DEF DrawInv, LeaseNeedsSurface
<1>5. thread \in [Queues -> Busy \cup {Free}]
  BY <1>1 DEF TypeOK
<1>6. ASSUME NEW u \in Queues, thread'[u].work # "draw", thread'[u].step # "merge",
             u = "raster" => thread'[u] = Free,
             \A v \in Queues \ {u} : thread'[v] = thread[v]
      PROVE  DrawInv'
  <2>1. PlatformDrawsMerged'
    BY <1>2, <1>3, <1>6, MergingAssumption DEF DrawInv, PlatformDrawsMerged, PastCheck
  <2>2. RasterEndsDraw'
    BY <1>3, <1>6, MergingAssumption DEF DrawInv, RasterEndsDraw
  <2>3. LeaseForSurface'
    BY <1>2, <1>6 DEF DrawInv, LeaseForSurface
  <2> QED
    BY <1>4, <2>1, <2>2, <2>3 DEF DrawInv
<1>7. CASE \E e \in Engines : OnPlatformViewCreated(e) \/ OnPlatformViewDestroyed(e)
  <2>1. PICK e \in Engines, to \in {"creating", "destroying"} :
          thread' = [thread EXCEPT !["platform"] =
                       [Free EXCEPT !.work = to, !.engine = e, !.step = "begin"]]
    BY <1>7 DEF OnPlatformViewCreated, OnPlatformViewDestroyed, PlatformCall
  <2>2. /\ thread'["platform"].work # "draw" /\ thread'["platform"].step # "merge"
        /\ \A v \in Queues \ {"platform"} : thread'[v] = thread[v]
    BY <1>1, <1>5, <2>1 DEF Free
  <2> QED
    BY <1>1, <1>6, <2>2
<1>8. CASE PostSetup \/ PostTeardown
  <2>1. /\ thread["platform"].work \in {"creating", "destroying"}
        /\ Goto("platform", "posting") \/ Goto("platform", "waiting")
    BY <1>8 DEF PostSetup, PostTeardown, Running
  <2>2. PICK step \in {"posting", "waiting"} : Goto("platform", step)
    BY <2>1
  <2>3. thread["platform"] \in Busy
    BY <1>1, <2>1, RunningFacts
  <2>4. /\ thread'["platform"] = [thread["platform"] EXCEPT !.step = step]
        /\ \A v \in Queues \ {"platform"} : thread'[v] = thread[v]
    BY <1>1, <2>1, <2>2, Moves DEF Steps
  <2>5. thread'["platform"].work # "draw" /\ thread'["platform"].step # "merge"
    BY <2>1, <2>3, <2>4 DEF Busy
  <2> QED
    BY <1>1, <1>6, <2>4, <2>5
<1>9. CASE SetupPosted \/ SetupHere
  <2>1. thread["platform"].work = "creating" /\ Finish("platform")
    BY <1>9 DEF SetupPosted, SetupHere, Running
  <2>2. thread'["platform"] = Free /\ \A v \in Queues \ {"platform"} : thread'[v] = thread[v]
    BY <1>1, <2>1, Moves
  <2> QED
    BY <1>1, <1>6, <2>2 DEF Free
<1>10. CASE RunSetup(t)
  <2>1. thread[t].work = "setup" /\ Finish(t)
    BY <1>10 DEF RunSetup, Running
  <2>2. thread'[t] = Free /\ \A v \in Queues \ {t} : thread'[v] = thread[v]
    BY <1>1, <2>1, Moves
  <2> QED
    BY <1>6, <2>2 DEF Free
<1> QED
  BY <1>7, <1>8, <1>9, <1>10

\* A teardown takes the lease of its engine with the surface, while no Draw that could
\* renew it is under way.
LEMMA TearDownDraws ==
  ASSUME MergingInv, TasksInv, DrawInv, NEW t \in Queues,
         TeardownHere \/ RunTeardown(t) \/ Signal(t)
  PROVE  DrawInv'
<1>1. QueuesInv /\ TypeOK /\ MergedIffLeased /\ "platform" \in Queues /\ ~aborted
  BY MergingAssumption DEF MergingInv, TeardownHere, RunTeardown, Signal
<1>2. thread \in [Queues -> Busy \cup {Free}] /\ lease \in [Engines -> Absent .. Lease]
  BY <1>1 DEF TypeOK
<1>3. ASSUME NEW e \in Engines, TearDown(e)
      PROVE  /\ IsMerged' => IsMerged
             /\ LeaseNeedsSurface'
             /\ UNCHANGED merger /\ surface' = surface \ {e}
  <2>1. UNCHANGED merger /\ surface' = surface \ {e}
    BY <1>3 DEF TearDown
  <2>2. CASE e \in merger /\ IsMerged
    <3>1. lease' = [lease EXCEPT ![e] = Absent]
      BY <1>3, <2>2 DEF TearDown, UnMergeIfUnleased
    <3>2. LeaseNeedsSurface'
      BY <1>2, <2>1, <3>1 DEF DrawInv, LeaseNeedsSurface, Absent
    <3> QED
      BY <2>1, <2>2, <3>2
  <2>3. CASE ~(e \in merger /\ IsMerged)
    <3>1. lease' = lease
      BY <1>3, <2>3 DEF TearDown
    <3>2. ~(lease[e] > 0)
      <4>1. CASE e \notin merger
        BY <1>1, <4>1 DEF DrawInv, LeaseNeedsSurface, TypeOK
      <4>2. CASE ~IsMerged
        BY <1>2, <4>2 DEF IsMerged, IsAllLeaseTermsZero, Absent
      <4> QED
        BY <2>3, <4>1, <4>2
    <3>3. LeaseNeedsSurface'
      BY <2>1, <3>1, <3>2 DEF DrawInv, LeaseNeedsSurface
    <3> QED
      BY <2>1, <3>1, <3>3 DEF IsMerged, IsAllLeaseTermsZero
  <2> QED
    BY <2>2, <2>3
<1>4. CASE TeardownHere
  <2>1. /\ thread["platform"].work = "destroying" /\ Finish("platform")
        /\ TearDown(thread["platform"].engine) /\ Owns
    BY <1>4 DEF TeardownHere, Running, RunsRasterTasks
  <2>2. /\ thread'["platform"] = Free /\ \A v \in Queues \ {"platform"} : thread'[v] = thread[v]
        /\ thread["platform"].engine \in Engines
    BY <1>1, <2>1, Moves, RunningFacts
  <2>3. /\ thread'["raster"] = thread["raster"]
        /\ \/ thread["raster"] = Free
           \/ /\ thread["raster"].work = "draw"
              /\ thread["raster"].step \in {"decrement", "post"}
    BY <1>1, <2>1, <2>2, MergingAssumption DEF MergedIffLeased, DrawInv, RasterEndsDraw
  <2>4. PlatformDrawsMerged' /\ RasterEndsDraw'
    BY <2>2, <2>3 DEF PlatformDrawsMerged, RasterEndsDraw, PastCheck, Free
  <2>5. LeaseForSurface'
    BY <2>2, <2>3, MergingAssumption DEF LeaseForSurface, Free
  <2> QED
    BY <1>3, <2>1, <2>2, <2>4, <2>5 DEF DrawInv
<1>5. ASSUME t = "raster", thread["platform"].work = "destroying",
             thread'["raster"].work # "draw", thread'["raster"] # Free => ~IsMerged',
             thread'["platform"].work # "draw", thread'["platform"].step # "merge"
      PROVE  PlatformDrawsMerged' /\ RasterEndsDraw' /\ LeaseForSurface'
  BY <1>5, MergingAssumption DEF PlatformDrawsMerged, RasterEndsDraw, LeaseForSurface, PastCheck
<1>6. CASE RunTeardown(t)
  <2>1. thread[t].work = "teardown" /\ Goto(t, "signal") /\ TearDown(thread[t].engine)
    BY <1>6 DEF RunTeardown, Running
  <2>2. t = "raster" /\ Running("platform", "destroying", "waiting")
    BY <2>1, MergingAssumption DEF TasksInv, OneTeardown, Waiting
  <2>3. thread[t].engine \in Engines /\ thread[t] \in Busy
    BY <1>1, <2>1, RunningFacts
  <2>4. thread'["raster"] = [thread["raster"] EXCEPT !.step = "signal"] /\ thread'["platform"] = thread["platform"]
    BY <1>1, <2>1, <2>2, Moves DEF Steps
  <2>5. thread'["raster"].work # "draw"
    BY <2>1, <2>2, <2>3, <2>4 DEF Busy
  <2>6. ~IsMerged
    BY <2>1, <2>2 DEF DrawInv, RasterEndsDraw, Free
  <2> QED
    BY <1>3, <1>5, <2>1, <2>2, <2>3, <2>4, <2>5, <2>6 DEF DrawInv, Running
<1>7. CASE Signal(t)
  <2>1. /\ thread[t].work = "teardown" /\ thread' = [thread EXCEPT ![t] = Free, !["platform"] = Free]
        /\ UNCHANGED <<lease, surface>>
    BY <1>7 DEF Signal, Running, mergerVars, rasterVars
  <2>2. t = "raster" /\ Running("platform", "destroying", "waiting")
    BY <2>1, MergingAssumption DEF TasksInv, OneTeardown, Waiting
  <2>3. thread'["raster"] = Free /\ thread'["platform"] = Free
    BY <1>1, <1>2, <2>1, <2>2
  <2>4. LeaseNeedsSurface'
    BY <2>1 DEF DrawInv, LeaseNeedsSurface
  <2>5. Free.work # "draw" /\ Free.step # "merge"
    BY DEF Free
  <2> QED
    BY <1>5, <2>2, <2>3, <2>4, <2>5 DEF DrawInv, Running
<1> QED
  BY <1>4, <1>6, <1>7

-----------------------------------------------------------------------------
(* The raster queue and its one teardown. *)

\* What the raster queue holds after a task is posted to it.
LEMMA PostedTask ==
  ASSUME QueuesInv, NEW work, NEW e, PostRaster(work, e)
  PROVE  /\ Len(tasks) \in Nat /\ DOMAIN tasks = 1 .. Len(tasks)
         /\ DOMAIN tasks' = 1 .. Len(tasks) + 1
         /\ \A i \in DOMAIN tasks : tasks'[i] = tasks[i]
         /\ tasks'[Len(tasks) + 1].queue = "raster"
         /\ tasks'[Len(tasks) + 1].work = <<work, e>>
<1> DEFINE task == [queue |-> "raster", time |-> 0, work |-> <<work, e>>]
<1>1. tasks \in Seq(Tasks) /\ tasks' = Append(tasks, task)
  BY DEF QueuesInv, QueuesTypeOK, PostRaster, RegisterTask
<1>2. task.queue = "raster" /\ task.work = <<work, e>>
  OBVIOUS
<1> HIDE DEF task
<1>3. Len(tasks) \in Nat /\ DOMAIN tasks = 1 .. Len(tasks)
  BY <1>1
<1>4. /\ DOMAIN tasks' = 1 .. Len(tasks) + 1
      /\ \A i \in DOMAIN tasks : tasks'[i] = tasks[i]
      /\ tasks'[Len(tasks) + 1] = task
  BY <1>1
<1> QED
  BY <1>2, <1>3, <1>4

\* A step that posts no teardown and starts none.
LEMMA NoNewTeardown ==
  ASSUME QueuesInv, TasksInv, NEW t \in Queues,
         \/ tasks' = tasks
         \/ \E work \in {"setup", "draw"}, e \in Engines : PostRaster(work, e),
         thread'[t].work = "teardown" => thread[t].work = "teardown",
         t = "platform" /\ Waiting => Waiting',
         \A u \in Queues \ {t} : thread'[u] = thread[u]
  PROVE  TasksInv'
<1>1. /\ thread'["platform"].work # "teardown" /\ (Waiting => Waiting')
      /\ thread'["raster"].work = "teardown" => thread["raster"].work = "teardown"
  BY MergingAssumption DEF TasksInv, OneTeardown, Waiting, Running
<1>2. CASE tasks' = tasks
  BY <1>1, <1>2 DEF TasksInv, RasterQueueOnly, OneTeardown, IsTeardown
<1>3. CASE \E work \in {"setup", "draw"}, e \in Engines : PostRaster(work, e)
  <2>1. PICK work \in {"setup", "draw"}, e \in Engines : PostRaster(work, e)
    BY <1>3
  <2>2. tasks'[Len(tasks) + 1].work[1] # "teardown" /\ tasks'[Len(tasks) + 1].queue = "raster"
    BY <2>1, PostedTask
  <2>3. /\ Len(tasks) \in Nat /\ DOMAIN tasks = 1 .. Len(tasks)
        /\ DOMAIN tasks' = 1 .. Len(tasks) + 1
        /\ \A i \in DOMAIN tasks : tasks'[i] = tasks[i]
    BY <2>1, PostedTask
  <2>4. \A i \in DOMAIN tasks' : i = Len(tasks) + 1 \/ i \in DOMAIN tasks
    BY <2>3
  <2>5. RasterQueueOnly'
    BY <2>2, <2>3, <2>4 DEF TasksInv, RasterQueueOnly
  <2>6. \A i \in DOMAIN tasks' : IsTeardown(i)' => i \in DOMAIN tasks /\ IsTeardown(i)
    BY <2>2, <2>3, <2>4 DEF IsTeardown
  <2>7. OneTeardown'
    BY <1>1, <2>6 DEF TasksInv, OneTeardown
  <2> QED
    BY <2>5, <2>7 DEF TasksInv
<1> QED
  BY <1>2, <1>3

\* A task that starts leaves the tasks of the queue as they were, but for itself.
LEMMA RunTaskTeardowns ==
  ASSUME MergingInv, TasksInv, NEW t \in Queues, RunTask(t)
  PROVE  TasksInv'
<1>1. QueuesInv /\ TypeOK /\ tasks \in Seq(Tasks)
  BY DEF MergingInv, QueuesInv, QueuesTypeOK
<1>2. PICK i \in DOMAIN tasks :
        /\ GetNextTaskToRun(t, i)
        /\ thread' = [thread EXCEPT ![t] =
             [Free EXCEPT !.work = tasks[i].work[1], !.engine = tasks[i].work[2],
                          !.step = "begin"]]
  BY DEF RunTask
<1> DEFINE From(j) == IF j < i THEN j ELSE j + 1
<1>3. tasks' = RemoveAt(tasks, i)
  BY <1>2 DEF GetNextTaskToRun
<1>4. DOMAIN tasks' = 1 .. Len(tasks) - 1 /\ \A j \in 1 .. Len(tasks) - 1 : tasks'[j] = tasks[From(j)]
  BY <1>1, <1>3, RemoveAtFacts
<1>5. Len(tasks) \in Nat /\ DOMAIN tasks = 1 .. Len(tasks) /\ i \in 1 .. Len(tasks)
  BY <1>1, <1>2
<1>6. \A j \in DOMAIN tasks' : From(j) \in DOMAIN tasks /\ From(j) # i
  BY <1>4, <1>5
<1>7. \A j, k \in DOMAIN tasks' : From(j) = From(k) => j = k
  BY <1>4, <1>5
<1> HIDE DEF From
<1>8. RasterQueueOnly'
  BY <1>4, <1>6 DEF TasksInv, RasterQueueOnly
<1>9. \A j \in DOMAIN tasks' : IsTeardown(j)' = IsTeardown(From(j))
  BY <1>4 DEF IsTeardown
<1>10. thread[t] = Free /\ thread \in [Queues -> Busy \cup {Free}]
  BY <1>1 DEF RunTask, TypeOK
<1>11. /\ thread'[t].work = tasks[i].work[1] /\ thread'[t].step = "begin"
       /\ \A u \in Queues \ {t} : thread'[u] = thread[u]
  BY <1>2, <1>10 DEF Free
<1>12. t = "platform" => ~Waiting
  BY <1>10 DEF Free, Waiting, Running
<1>13. OneTeardown'
  <2>1. CASE IsTeardown(i)
    <3>1. t = "raster" /\ Waiting
      BY <1>12, <2>1, MergingAssumption DEF TasksInv, OneTeardown
    <3>2. thread'["platform"] = thread["platform"] /\ Waiting'
      BY <1>11, <3>1, MergingAssumption DEF Waiting, Running
    <3>3. \A j \in DOMAIN tasks' : ~IsTeardown(j)'
      BY <1>6, <1>9, <2>1 DEF TasksInv, OneTeardown
    <3> QED
      BY <3>1, <3>2, <3>3 DEF TasksInv, OneTeardown
  <2>2. CASE ~IsTeardown(i)
    <3>1. thread'[t].work # "teardown"
      BY <1>11, <2>2 DEF IsTeardown
    <3>2. Waiting => Waiting'
      BY <1>11, <1>12, MergingAssumption DEF Waiting, Running
    <3>3. /\ thread'["platform"].work # "teardown"
          /\ thread'["raster"].work = "teardown" => thread["raster"].work = "teardown"
      BY <1>11, <3>1, MergingAssumption DEF TasksInv, OneTeardown
    <3>4. \A j \in DOMAIN tasks' : IsTeardown(j)' =>
            From(j) \in DOMAIN tasks /\ IsTeardown(From(j))
      BY <1>6, <1>9
    <3>5. \A j \in DOMAIN tasks' : IsTeardown(j)' => Waiting' /\ thread'["raster"].work # "teardown"
      BY <3>2, <3>3, <3>4 DEF TasksInv, OneTeardown
    <3>6. \A j, k \in DOMAIN tasks' : IsTeardown(j)' /\ IsTeardown(k)' => j = k
      BY <1>7, <3>4 DEF TasksInv, OneTeardown
    <3> QED
      BY <3>2, <3>3, <3>5, <3>6 DEF TasksInv, OneTeardown
  <2> QED
    BY <2>1, <2>2
<1> QED
  BY <1>8, <1>13 DEF TasksInv

\* PostTeardown posts the one teardown and waits for it.
LEMMA PostTeardownTeardowns ==
  ASSUME MergingInv, TasksInv, PostTeardown
  PROVE  TasksInv'
<1> DEFINE e == thread["platform"].engine
<1>1. QueuesInv /\ TypeOK /\ "platform" \in Queues /\ PostRaster("teardown", e)
  BY MergingAssumption DEF MergingInv, PostTeardown
<1>2. /\ Len(tasks) \in Nat /\ DOMAIN tasks = 1 .. Len(tasks)
      /\ DOMAIN tasks' = 1 .. Len(tasks) + 1
      /\ \A i \in DOMAIN tasks : tasks'[i] = tasks[i]
      /\ tasks'[Len(tasks) + 1].queue = "raster"
  BY <1>1, PostedTask
<1>3. /\ thread["platform"].work = "destroying" /\ thread["platform"].step = "begin"
      /\ Goto("platform", "waiting")
  BY DEF PostTeardown, Running
<1>4. thread["platform"] \in Busy
  BY <1>1, <1>3, RunningFacts
<1>5. /\ thread'["platform"] = [thread["platform"] EXCEPT !.step = "waiting"]
      /\ \A u \in Queues \ {"platform"} : thread'[u] = thread[u]
  BY <1>1, <1>3, Moves DEF Steps
<1>6. /\ thread'["platform"].work = "destroying" /\ Waiting'
      /\ thread'["raster"] = thread["raster"]
  BY <1>3, <1>4, <1>5, MergingAssumption DEF Busy, Waiting, Running
<1>7. /\ \A i \in DOMAIN tasks : ~IsTeardown(i)
      /\ thread["raster"].work # "teardown"
  BY <1>3 DEF TasksInv, OneTeardown, Waiting, Running
<1>8. \A i \in DOMAIN tasks' : i \in DOMAIN tasks \/ i = Len(tasks) + 1
  BY <1>2
<1>9. RasterQueueOnly'
  BY <1>2, <1>8 DEF TasksInv, RasterQueueOnly
<1>10. \A i \in DOMAIN tasks' : IsTeardown(i)' => i = Len(tasks) + 1
  BY <1>2, <1>7, <1>8 DEF IsTeardown
<1>11. OneTeardown'
  BY <1>6, <1>7, <1>10 DEF OneTeardown
<1> QED
  BY <1>9, <1>11 DEF TasksInv

\* Operations of the queues that keep the tasks.
LEMMA SameTasks ==
  /\ UNCHANGED queuesVars => tasks' = tasks
  /\ \A t \in Queues : OnEventFired(t) \/ EndFlush(t) => tasks' = tasks
  /\ Merge("platform", "raster") \/ Unmerge("platform", "raster") => tasks' = tasks
  /\ \A leases : UnMergeIfUnleased(leases) => tasks' = tasks
  /\ \A e \in Engines : DecrementLease(e) \/ TearDown(e) => tasks' = tasks
BY DEF queuesVars, OnEventFired, EndFlush, Merge, Unmerge, UnMergeIfUnleased, DecrementLease, TearDown

\* The steps of a Draw post at most a Draw.
LEMMA DrawTasks ==
  ASSUME MergingInv, NEW t \in Queues, Draw(t)
  PROVE  /\ thread[t].work = "draw" /\ thread'[t].work \in {"draw", "none"}
         /\ \A u \in Queues \ {t} : thread'[u] = thread[u]
         /\ tasks' = tasks \/ PostRaster("draw", thread[t].engine)
<1>1. QueuesInv /\ TypeOK
  BY DEF MergingInv
<1>2. thread[t].work = "draw"
  BY DEF Draw, Yield, BeginDraw, ConsumeNothing, Consume, Preroll, PrerollUnmerged,
         MergeWithLease, Decrement, EndDraw, Running
<1>3. thread \in [Queues -> Busy \cup {Free}] /\ thread[t] \in Busy /\ thread[t].engine \in Engines
  BY <1>1, <1>2, RunningFacts DEF TypeOK
<1>4. tasks' = tasks \/ PostRaster("draw", thread[t].engine)
  BY <1>3, SameTasks
     DEF Draw, Yield, BeginDraw, ConsumeNothing, Consume, Preroll, PrerollUnmerged,
         MergeWithLease, Decrement, EndDraw
<1>5. CASE Yield(t) \/ ConsumeNothing(t) \/ EndDraw(t)
  <2>1. Finish(t)
    BY <1>5 DEF Yield, ConsumeNothing, EndDraw
  <2>2. thread'[t] = Free /\ \A u \in Queues \ {t} : thread'[u] = thread[u]
    BY <1>1, <1>2, <2>1, Moves
  <2> QED
    BY <1>2, <1>4, <2>2 DEF Free
<1>6. CASE BeginDraw(t) \/ MergeWithLease(t)
  <2>1. PICK step \in {"consume", "decrement"} : Goto(t, step)
    BY <1>6 DEF BeginDraw, MergeWithLease
  <2>2. /\ thread'[t] = [thread[t] EXCEPT !.step = step]
        /\ \A u \in Queues \ {t} : thread'[u] = thread[u]
    BY <1>1, <1>2, <2>1, Moves DEF Steps
  <2> QED
    BY <1>2, <1>3, <1>4, <2>2 DEF Busy
<1>7. CASE Consume(t) \/ Preroll(t) \/ PrerollUnmerged(t) \/ Decrement(t)
  <2>1. PICK new : /\ new.work = "draw"
                   /\ thread' = [thread EXCEPT ![t] = new]
    <3>1. CASE Consume(t)
      <4> DEFINE frame == Head(frames[thread[t].engine])
                 more == Len(frames[thread[t].engine]) > 1
      <4>1. PICK step \in {"preroll", "decrement", "post"} :
              thread' = [thread EXCEPT ![t].step = step, ![t].frame = frame, ![t].more = more]
        BY <3>1 DEF Consume
      <4> DEFINE new == [thread[t] EXCEPT !.step = step, !.frame = frame, !.more = more]
      <4>2. new.work = "draw" /\ thread' = [thread EXCEPT ![t] = new]
        BY <1>2, <1>3, <4>1 DEF Busy
      <4> QED
        BY <4>2
    <3>2. CASE Preroll(t)
      <4> DEFINE new == [thread[t] EXCEPT !.step = "decrement",
                           !.resubmit = thread[t].frame /\ ~embedded[thread[t].engine]]
      <4>1. new.work = "draw" /\ thread' = [thread EXCEPT ![t] = new]
        BY <1>2, <1>3, <3>2 DEF Preroll, Busy
      <4> QED
        BY <4>1
    <3>3. CASE PrerollUnmerged(t)
      <4> DEFINE new == [thread[t] EXCEPT !.step = IF enabled THEN "merge" ELSE "decrement",
                                          !.resubmit = TRUE]
      <4>1. new.work = "draw" /\ thread' = [thread EXCEPT ![t] = new]
        BY <1>2, <1>3, <3>3 DEF PrerollUnmerged, Busy
      <4> QED
        BY <4>1
    <3>4. CASE Decrement(t)
      <4> DEFINE new == [thread[t] EXCEPT !.step = "post",
                           !.unmerged = IsMerged /\ enabled /\ IsAllLeaseTermsZero(lease')]
      <4>1. new.work = "draw" /\ thread' = [thread EXCEPT ![t] = new]
        BY <1>2, <1>3, <3>4 DEF Decrement, Busy
      <4> QED
        BY <4>1
    <3> QED
      BY <1>7, <3>1, <3>2, <3>3, <3>4
  <2> QED
    BY <1>2, <1>3, <1>4, <2>1
<1> QED
  BY <1>5, <1>6, <1>7 DEF Draw

\* The platform thread waits for one teardown at a time, whatever is queued.
LEMMA TasksNext ==
  ASSUME MergingInv, TasksInv, [Next]_vars
  PROVE  TasksInv'
<1>1. QueuesInv /\ TypeOK /\ "platform" \in Queues /\ thread \in [Queues -> Busy \cup {Free}]
  BY MergingAssumption DEF MergingInv, TypeOK
<1>2. ASSUME NEW t \in Queues, Step(t)
      PROVE  TasksInv'
  <2>1. CASE Wake(t) \/ Sleep(t)
    <3>1. tasks' = tasks /\ thread' = thread
      BY <2>1, SameTasks DEF Wake, Sleep
    <3> QED
      BY <1>1, <3>1, NoNewTeardown DEF Waiting, Running
  <2>2. CASE RunTask(t)
    BY <2>2, RunTaskTeardowns
  <2>3. CASE Draw(t)
    <3>1. t = "platform" => ~Waiting
      BY <2>3, DrawTasks DEF Waiting, Running
    <3>2. thread[t].engine \in Engines
      BY <1>1, <2>3, DrawTasks, RunningFacts
    <3> QED
      BY <1>1, <2>3, <3>1, <3>2, DrawTasks, NoNewTeardown
  <2>4. CASE RunSetup(t)
    <3>1. thread[t].work = "setup" /\ Finish(t) /\ tasks' = tasks
      BY <2>4, SameTasks DEF RunSetup, Running
    <3>2. thread'[t] = Free /\ \A u \in Queues \ {t} : thread'[u] = thread[u]
      BY <1>1, <3>1, Moves
    <3>3. t = "platform" => ~Waiting
      BY <3>1 DEF Waiting, Running
    <3> QED
      BY <1>1, <3>1, <3>2, <3>3, NoNewTeardown DEF Free
  <2>5. CASE RunTeardown(t)
    <3>1. thread[t].work = "teardown" /\ Goto(t, "signal") /\ TearDown(thread[t].engine)
      BY <2>5 DEF RunTeardown, Running
    <3>2. thread[t].engine \in Engines /\ tasks' = tasks
      BY <1>1, <3>1, RunningFacts, SameTasks
    <3>3. \A u \in Queues \ {t} : thread'[u] = thread[u]
      BY <1>1, <3>1, Moves DEF Steps
    <3>4. t = "platform" => ~Waiting
      BY <3>1 DEF Waiting, Running
    <3> QED
      BY <1>1, <3>1, <3>2, <3>3, <3>4, NoNewTeardown
  <2>6. CASE Signal(t)
    <3>1. /\ thread[t].work = "teardown" /\ thread' = [thread EXCEPT ![t] = Free, !["platform"] = Free]
          /\ tasks' = tasks
      BY <2>6, SameTasks DEF Signal, Running
    <3>2. t = "raster" /\ \A i \in DOMAIN tasks : ~IsTeardown(i)
      BY <3>1, MergingAssumption DEF TasksInv, OneTeardown
    <3>3. thread'["raster"] = Free /\ thread'["platform"] = Free
      BY <1>1, <3>1, <3>2
    <3> QED
      BY <3>1, <3>2, <3>3 DEF TasksInv, RasterQueueOnly, OneTeardown, IsTeardown, Free
  <2>7. CASE t = "platform" /\ PostSetup
    <3>1. thread[t].work = "creating" /\ Goto(t, "posting") /\ tasks' = tasks
      BY <2>7, SameTasks DEF PostSetup, Running
    <3>2. /\ thread'[t] = [thread[t] EXCEPT !.step = "posting"] /\ thread[t] \in Busy
          /\ \A u \in Queues \ {t} : thread'[u] = thread[u]
      BY <1>1, <3>1, Moves, RunningFacts DEF Steps
    <3>3. thread'[t].work = "creating" /\ ~Waiting
      BY <2>7, <3>1, <3>2 DEF Busy, Waiting, Running
    <3> QED
      BY <1>1, <3>1, <3>2, <3>3, NoNewTeardown
  <2>8. CASE t = "platform" /\ (SetupPosted \/ SetupHere \/ TeardownHere)
    <3>1. /\ thread[t].work \in {"creating", "destroying"} /\ thread[t].step # "waiting" /\ Finish(t)
      BY <2>8 DEF SetupPosted, SetupHere, TeardownHere, Running
    <3>2. /\ thread'[t] = Free /\ \A u \in Queues \ {t} : thread'[u] = thread[u]
          /\ thread[t].engine \in Engines
      BY <1>1, <3>1, Moves, RunningFacts
    <3>3. tasks' = tasks \/ PostRaster("setup", thread[t].engine)
      BY <2>8, <3>2, SameTasks DEF SetupPosted, SetupHere, TeardownHere
    <3>4. ~Waiting
      BY <2>8, <3>1 DEF Waiting, Running
    <3> QED
      BY <1>1, <3>2, <3>3, <3>4, NoNewTeardown DEF Free
  <2>9. CASE PostTeardown
    BY <2>9, PostTeardownTeardowns
  <2> QED
    BY <1>2, <2>1, <2>2, <2>3, <2>4, <2>5, <2>6, <2>7, <2>8, <2>9 DEF Step
<1>3. ASSUME NEW e \in Engines, CommitFrame(e)
      PROVE  TasksInv'
  <2>1. thread' = thread /\ (tasks' = tasks \/ PostRaster("draw", e))
    BY <1>3, SameTasks DEF CommitFrame
  <2> QED
    BY <1>1, <2>1, NoNewTeardown DEF Waiting, Running
<1>4. ASSUME NEW e \in Engines, OnPlatformViewCreated(e) \/ OnPlatformViewDestroyed(e)
      PROVE  TasksInv'
  <2>1. PICK to \in {"creating", "destroying"} :
          /\ thread["platform"] = Free /\ tasks' = tasks
          /\ thread' = [thread EXCEPT !["platform"] =
               [Free EXCEPT !.work = to, !.engine = e, !.step = "begin"]]
    BY <1>4, SameTasks DEF OnPlatformViewCreated, OnPlatformViewDestroyed, PlatformCall
  <2>2. thread'["platform"].work = to /\ \A u \in Queues \ {"platform"} : thread'[u] = thread[u]
    BY <1>1, <2>1 DEF Free
  <2>3. ~Waiting
    BY <2>1 DEF Waiting, Running, Free
  <2> QED
    BY <1>1, <2>1, <2>2, <2>3, NoNewTeardown
<1>5. CASE UNCHANGED vars
  <2>1. tasks' = tasks /\ thread' = thread
    BY <1>5, SameTasks DEF vars
  <2> QED
    BY <1>1, <2>1, NoNewTeardown DEF Waiting, Running
<1> QED
  BY <1>2, <1>3, <1>4, <1>5 DEF Next

-----------------------------------------------------------------------------
(* The frames and their Draws. *)

\* A thread that will draw the frames of an engine or post a Draw for them.
Responsible(t, e) ==
  /\ thread[t].engine = e /\ thread[t].work = "draw"
  /\ \/ thread[t].step = "begin" /\ OnRasterizingThread(t, e)
     \/ thread[t].step = "consume"
     \/ thread[t].step \in {"preroll", "merge", "decrement", "post"} /\ thread[t].more
     \/ thread[t].step = "post" /\ thread[t].unmerged

DrawQueued(e) == \E i \in DOMAIN tasks : tasks[i].work = <<"draw", e>>
HasDraw(e) == DrawQueued(e) \/ \E t \in Queues : Responsible(t, e)
FramesInv == \A e \in Engines \ lost : frames[e] # <<>> => HasDraw(e)

\* A Draw that has not begun and will not yield is on the thread the raster tasks run on.
LEMMA BeginsOnRasterizer ==
  ASSUME DrawInv, NEW t \in Queues, NEW e, Responsible(t, e), thread[t].step = "begin"
  PROVE  IsMerged = (t = "platform")
<1>1. OnRasterizingThread(t, e) /\ thread[t].work = "draw" /\ thread[t].engine = e
  BY DEF Responsible
<1>2. CASE e \notin merger /\ t = "platform"
  BY <1>1, <1>2 DEF DrawInv, PlatformDrawsMerged, PastCheck, IsMerged
<1>3. CASE t # "platform"
  <2>1. t = "raster"
    BY <1>3, MergingAssumption
  <2>2. ~IsMerged
    BY <1>1, <2>1 DEF DrawInv, RasterEndsDraw, Free
  <2> QED
    BY <1>3, <2>2 DEF IsMerged
<1> QED
  BY <1>1, <1>2, <1>3 DEF OnRasterizingThread

\* Queued Draws stay queued, but for the one that starts.
LEMMA QueuedStays ==
  ASSUME QueuesInv
  PROVE  /\ tasks' = tasks => \A e : DrawQueued(e) => DrawQueued(e)'
         /\ \A work, d : PostRaster(work, d) => \A e : DrawQueued(e) => DrawQueued(e)'
         /\ \A d : PostRaster("draw", d) => DrawQueued(d)'
<1>1. tasks' = tasks => \A e : DrawQueued(e) => DrawQueued(e)'
  BY DEF DrawQueued
<1>2. ASSUME NEW work, NEW d, PostRaster(work, d)
      PROVE  /\ \A e : DrawQueued(e) => DrawQueued(e)'
             /\ work = "draw" => DrawQueued(d)'
  <2>1. /\ Len(tasks) \in Nat /\ DOMAIN tasks = 1 .. Len(tasks)
        /\ DOMAIN tasks' = 1 .. Len(tasks) + 1
        /\ \A i \in DOMAIN tasks : tasks'[i] = tasks[i]
        /\ tasks'[Len(tasks) + 1].work = <<work, d>>
    BY <1>2, PostedTask
  <2>2. DOMAIN tasks \subseteq DOMAIN tasks' /\ Len(tasks) + 1 \in DOMAIN tasks'
    BY <2>1
  <2> QED
    BY <2>1, <2>2 DEF DrawQueued
<1> QED
  BY <1>1, <1>2

\* A responsible thread stays so while the queues are merged or not as they were.
LEMMA ResponsibleStays ==
  ASSUME DrawInv, NEW u \in Queues, NEW e, Responsible(u, e), thread'[u] = thread[u],
         thread[u].step = "begin" => IsMerged' = IsMerged
  PROVE  Responsible(u, e)'
<1>1. CASE thread[u].step = "begin"
  <2>1. IsMerged = (u = "platform")
    BY <1>1, BeginsOnRasterizer
  <2>2. IsMerged' = (u = "platform")
    BY <1>1, <2>1
  <2>3. OnRasterizingThread(u, e)'
    BY <2>2 DEF OnRasterizingThread
  <2> QED
    BY <1>1, <2>3 DEF Responsible
<1>2. CASE thread[u].step # "begin"
  BY <1>2 DEF Responsible
<1> QED
  BY <1>1, <1>2

\* A step of a thread that does not draw.
LEMMA OtherWork ==
  ASSUME QueuesInv, DrawInv, FramesInv, NEW t \in Queues, thread[t].work # "draw",
         \A u \in Queues \ {t} : thread[u].work = "draw" =>
           /\ thread'[u] = thread[u]
           /\ thread[u].step = "begin" => IsMerged' = IsMerged,
         UNCHANGED <<frames, lost>>,
         tasks' = tasks \/ \E work, e : PostRaster(work, e)
  PROVE  FramesInv'
<1> SUFFICES ASSUME NEW e \in Engines \ lost, frames[e] # <<>>
             PROVE  HasDraw(e)'
  BY DEF FramesInv
<1>1. CASE DrawQueued(e)
  BY <1>1, QueuedStays DEF HasDraw
<1>2. CASE \E u \in Queues : Responsible(u, e)
  <2>1. PICK u \in Queues : Responsible(u, e)
    BY <1>2
  <2>2. u \in Queues \ {t} /\ thread[u].work = "draw"
    BY <2>1 DEF Responsible
  <2>3. Responsible(u, e)'
    BY <2>1, <2>2, ResponsibleStays
  <2> QED
    BY <2>3 DEF HasDraw
<1> QED
  BY <1>1, <1>2 DEF FramesInv, HasDraw

\* A Draw of one engine leaves the frames of the others to whom they were left.
LEMMA OtherEngines ==
  ASSUME QueuesInv, FramesInv, NEW t \in Queues, NEW e \in Engines, thread[t].engine = e,
         \A u \in Queues \ {t}, d \in Engines \ lost' :
           Responsible(u, d) => Responsible(u, d)',
         \A d \in Engines \ {e} : frames'[d] = frames[d] /\ (d \in lost => d \in lost'),
         tasks' = tasks \/ PostRaster("draw", e),
         e \notin lost' /\ frames'[e] # <<>> => HasDraw(e)'
  PROVE  FramesInv'
<1> SUFFICES ASSUME NEW d \in Engines \ lost', frames'[d] # <<>>, d # e
             PROVE  HasDraw(d)'
  BY DEF FramesInv
<1>1. d \in Engines \ lost /\ frames[d] # <<>>
  OBVIOUS
<1>2. CASE DrawQueued(d)
  BY <1>2, QueuedStays DEF HasDraw
<1>3. CASE \E u \in Queues : Responsible(u, d)
  <2>1. PICK u \in Queues : Responsible(u, d)
    BY <1>3
  <2>2. u \in Queues \ {t}
    BY <2>1 DEF Responsible
  <2>3. Responsible(u, d)'
    BY <2>1, <2>2
  <2> QED
    BY <2>3 DEF HasDraw
<1> QED
  BY <1>1, <1>2, <1>3 DEF FramesInv, HasDraw

\* The frames of an engine whose Draw ends or goes on stay with the others responsible.
LEMMA SameEngine ==
  ASSUME QueuesInv, FramesInv, NEW t \in Queues, NEW e \in Engines \ lost, frames[e] # <<>>,
         \A u \in Queues \ {t} : Responsible(u, e) => Responsible(u, e)',
         Responsible(t, e) => Responsible(t, e)',
         tasks' = tasks \/ PostRaster("draw", e)
  PROVE  HasDraw(e)'
<1>1. HasDraw(e)
  BY DEF FramesInv
<1>2. DrawQueued(e) => DrawQueued(e)'
  BY QueuedStays
<1> QED
  BY <1>1, <1>2 DEF HasDraw

\* The steps of a Draw that leave the lease book alone.
LEMMA DrawFrames ==
  ASSUME MergingInv, DrawInv, FramesInv, NEW t \in Queues,
         \/ Yield(t) \/ BeginDraw(t) \/ ConsumeNothing(t) \/ Consume(t) \/ PrerollUnmerged(t)
         \/ EndDraw(t)
  PROVE  FramesInv'
<1>1. QueuesInv /\ TypeOK
  BY DEF MergingInv
<1>2. Draw(t) /\ UNCHANGED <<lease, merger>>
  BY DEF Draw, Yield, BeginDraw, ConsumeNothing, Consume, PrerollUnmerged, EndDraw, mergerVars, rasterVars
<1>0. thread[t].work = "draw" /\ thread[t].engine \in Engines
  BY <1>1, <1>2, DrawTasks, RunningFacts
<1>e. PICK e \in Engines : thread[t].engine = e
  BY <1>0
<1> USE <1>e
<1>3. /\ thread[t].work = "draw" /\ \A u \in Queues \ {t} : thread'[u] = thread[u]
      /\ tasks' = tasks \/ PostRaster("draw", e)
  BY <1>2, DrawTasks
<1>4. thread \in [Queues -> Busy \cup {Free}] /\ thread[t] \in Busy /\ e \in Engines
  BY <1>1, <1>3, RunningFacts DEF TypeOK
<1>5. IsMerged' = IsMerged
  BY <1>2 DEF IsMerged, IsAllLeaseTermsZero
<1>6. \A u \in Queues \ {t}, d \in Engines : Responsible(u, d) => Responsible(u, d)'
  BY <1>3, <1>5, ResponsibleStays
<1>7. \A d \in Engines \ {e} : frames'[d] = frames[d] /\ (d \in lost => d \in lost')
  BY <1>1, <1>4 DEF Yield, BeginDraw, ConsumeNothing, Consume, PrerollUnmerged, EndDraw, rasterVars, TypeOK
<1>8. ASSUME e \notin lost', frames'[e] # <<>>
      PROVE  HasDraw(e)'
  <2>1. CASE Yield(t)
    <3>1. ~Responsible(t, e) /\ e \notin lost /\ frames[e] # <<>>
      BY <1>8, <2>1 DEF Yield, Responsible, Running, rasterVars
    <3> QED
      BY <1>1, <1>3, <1>4, <1>6, <3>1, SameEngine
  <2>2. CASE BeginDraw(t)
    <3>1. thread' = [thread EXCEPT ![t] = [thread[t] EXCEPT !.step = "consume"]]
      BY <2>2 DEF BeginDraw, Goto
    <3>2. thread'[t].step = "consume" /\ thread'[t].work = "draw" /\ thread'[t].engine = e
      BY <1>3, <1>4, <3>1 DEF Busy
    <3> QED
      BY <3>2 DEF HasDraw, Responsible
  <2>3. CASE ConsumeNothing(t)
    BY <1>8, <2>3 DEF ConsumeNothing, rasterVars
  <2>4. CASE Consume(t)
    <3> DEFINE frame == Head(frames[e])
               more == Len(frames[e]) > 1
    <3>1. PICK step \in {"preroll", "decrement", "post"} :
            thread' = [thread EXCEPT ![t].step = step, ![t].frame = frame, ![t].more = more]
      BY <2>4 DEF Consume
    <3>2. frames[e] \in Seq(BOOLEAN) /\ frames[e] # <<>> /\ frames' = [frames EXCEPT ![e] = Tail(@)]
      BY <1>1, <1>4, <2>4 DEF Consume, TypeOK
    <3>3. frames'[e] = Tail(frames[e])
      BY <1>1, <1>4, <3>2 DEF TypeOK
    <3>4. more
      <4> DEFINE q == frames[e]
      <4>1. q \in Seq(BOOLEAN) /\ q # <<>> /\ Tail(q) # <<>>
        BY <1>8, <3>2, <3>3
      <4> HIDE DEF q
      <4>2. Len(q) > 1
        BY <4>1
      <4> QED
        BY <4>2 DEF q
    <3> HIDE DEF frame, more
    <3>5. /\ thread'[t].step = step /\ thread'[t].work = "draw" /\ thread'[t].engine = e
          /\ thread'[t].more = more
      BY <1>3, <1>4, <3>1 DEF Busy
    <3>6. step = "preroll" \/ step = "decrement" \/ step = "post"
      BY <3>1
    <3> QED
      BY <3>4, <3>5, <3>6 DEF HasDraw, Responsible
  <2>5. CASE PrerollUnmerged(t)
    <3>1. PICK step \in {"merge", "decrement"} :
            thread' = [thread EXCEPT ![t] = [thread[t] EXCEPT !.step = step, !.resubmit = TRUE]]
      BY <2>5 DEF PrerollUnmerged
    <3>2. /\ thread'[t].step = step /\ thread'[t].work = "draw" /\ thread'[t].engine = e
          /\ thread'[t].more = thread[t].more
      BY <1>3, <1>4, <3>1 DEF Busy
    <3>5. thread[t].step = "preroll" /\ (step = "merge" \/ step = "decrement")
      BY <2>5, <3>1 DEF PrerollUnmerged, Running
    <3>3. Responsible(t, e) => Responsible(t, e)'
      BY <3>2, <3>5 DEF Responsible
    <3>4. e \notin lost /\ frames[e] # <<>>
      BY <1>8, <2>5 DEF PrerollUnmerged
    <3> QED
      BY <1>1, <1>3, <1>4, <1>6, <3>3, <3>4, SameEngine
  <2>6. CASE EndDraw(t)
    <3>1. CASE PostRaster("draw", e)
      BY <1>1, <3>1, QueuedStays DEF HasDraw
    <3>2. CASE ~PostRaster("draw", e)
      <4>1. /\ ~thread[t].more /\ thread[t].step = "post"
            /\ lost' = IF thread[t].unmerged THEN lost \cup {e} ELSE lost
            /\ frames' = frames
        BY <2>6, <3>2 DEF EndDraw, Running
      <4>2. ~thread[t].unmerged /\ e \notin lost
        BY <1>4, <1>8, <4>1
      <4>3. ~Responsible(t, e)
        BY <4>1, <4>2 DEF Responsible
      <4> QED
        BY <1>1, <1>3, <1>4, <1>6, <1>8, <4>1, <4>2, <4>3, SameEngine
    <3> QED
      BY <3>1, <3>2
  <2> QED
    BY <2>1, <2>2, <2>3, <2>4, <2>5, <2>6
<1> QED
  BY <1>1, <1>3, <1>4, <1>6, <1>7, <1>8, OtherEngines

\* The steps of a Draw on the lease book: the Draw that un-merges takes over for its
\* engine, and the others whose Draw will yield have lost theirs.
LEMMA LeaseFrames ==
  ASSUME MergingInv, DrawInv, FramesInv, NEW t \in Queues,
         Preroll(t) \/ MergeWithLease(t) \/ Decrement(t)
  PROVE  FramesInv'
<1>1. QueuesInv /\ TypeOK
  BY DEF MergingInv
<1>2. Draw(t) /\ UNCHANGED <<merger, frames>> /\ tasks' = tasks /\ lost \subseteq lost'
  <2>0. thread[t].work = "draw"
    BY DEF Preroll, MergeWithLease, Decrement, Running
  <2>1. thread[t].engine \in Engines
    BY <1>1, <2>0, RunningFacts
  <2>2. Draw(t) /\ UNCHANGED <<merger, frames>>
    BY DEF Draw, Preroll, MergeWithLease, Decrement, mergerVars, rasterVars
  <2>3. tasks' = tasks
    BY <2>1, SameTasks DEF Preroll, MergeWithLease, Decrement
  <2>4. lost \subseteq lost'
    BY DEF Preroll, MergeWithLease, Decrement
  <2> QED
    BY <2>2, <2>3, <2>4
<1>3. thread[t].work = "draw" /\ \A u \in Queues \ {t} : thread'[u] = thread[u]
  BY <1>2, DrawTasks
<1>0. thread[t].engine \in Engines
  BY <1>1, <1>3, RunningFacts
<1>e. PICK e \in Engines : thread[t].engine = e
  BY <1>0
<1> USE <1>e
<1>4. /\ thread \in [Queues -> Busy \cup {Free}] /\ thread[t] \in Busy /\ e \in Engines
      /\ lease \in [Engines -> Absent .. Lease]
  BY <1>1, <1>3, RunningFacts DEF TypeOK
<1>5. CASE Preroll(t) \/ MergeWithLease(t)
  <2>1. UNCHANGED lost
    BY <1>5 DEF Preroll, MergeWithLease
  <2>2. IsMerged => IsMerged'
    <3>1. lease' = lease \/ lease' = [lease EXCEPT ![e] = Lease]
      BY <1>5 DEF Preroll, MergeWithLease
    <3> QED
      BY <1>4, <3>1, MergingAssumption DEF IsMerged, IsAllLeaseTermsZero
  <2>3. t = "platform" => IsMerged' = IsMerged
    BY <1>5, <1>3, <2>2 DEF Preroll, MergeWithLease, Running, DrawInv, PlatformDrawsMerged, PastCheck, IsMerged
  <2>4. ASSUME NEW u \in Queues \ {t}, NEW d \in Engines, Responsible(u, d)
        PROVE  Responsible(u, d)'
    <3>1. thread[u].step = "begin" => IsMerged' = IsMerged
      <4>1. CASE u = "platform" /\ thread[u].step = "begin"
        <5>1. IsMerged
          BY <2>4, <4>1, BeginsOnRasterizer
        <5> QED
          BY <2>2, <5>1 DEF IsMerged
      <4>2. CASE u # "platform"
        BY <2>3, <4>2, MergingAssumption
      <4> QED
        BY <4>1, <4>2
    <3> QED
      BY <1>3, <2>4, <3>1, ResponsibleStays
  <2>5. thread[t].step \in {"preroll", "merge"}
    BY <1>5 DEF Preroll, MergeWithLease, Running
  <2>6. /\ thread'[t].step = "decrement" /\ thread'[t].work = "draw" /\ thread'[t].engine = e
        /\ thread'[t].more = thread[t].more
    <3>1. CASE Preroll(t)
      <4> DEFINE back == thread[t].frame /\ ~embedded[e]
      <4>1. thread' = [thread EXCEPT ![t] = [thread[t] EXCEPT !.step = "decrement", !.resubmit = back]]
        BY <3>1 DEF Preroll
      <4> HIDE DEF back
      <4> QED
        BY <1>3, <1>4, <4>1 DEF Busy
    <3>2. CASE MergeWithLease(t)
      <4>1. thread' = [thread EXCEPT ![t] = [thread[t] EXCEPT !.step = "decrement"]]
        BY <3>2 DEF MergeWithLease, Goto
      <4> QED
        BY <1>3, <1>4, <4>1 DEF Busy
    <3> QED
      BY <1>5, <3>1, <3>2
  <2>7. Responsible(t, e) => Responsible(t, e)'
    BY <2>5, <2>6 DEF Responsible
  <2>8. e \notin lost' /\ frames'[e] # <<>> => HasDraw(e)'
    BY <1>1, <1>2, <1>4, <2>1, <2>4, <2>7, SameEngine
  <2> QED
    BY <1>1, <1>2, <1>4, <2>1, <2>4, <2>8, OtherEngines
<1>6. CASE Decrement(t)
  <2> DEFINE unmerged == IsMerged /\ enabled /\ IsAllLeaseTermsZero(lease')
  <2>1. thread' = [thread EXCEPT ![t] = [thread[t] EXCEPT !.step = "post", !.unmerged = unmerged]]
    BY <1>6 DEF Decrement
  <2>2. /\ thread'[t].step = "post" /\ thread'[t].work = "draw" /\ thread'[t].engine = e
        /\ thread'[t].more = thread[t].more /\ thread'[t].unmerged = unmerged
        /\ thread[t].step = "decrement"
    <3>1. thread[t].step = "decrement"
      BY <1>6 DEF Decrement, Running
    <3> HIDE DEF unmerged
    <3>2. /\ thread'[t].step = "post" /\ thread'[t].work = "draw" /\ thread'[t].engine = e
          /\ thread'[t].more = thread[t].more /\ thread'[t].unmerged = unmerged
      BY <1>3, <1>4, <2>1 DEF Busy
    <3> QED
      BY <3>1, <3>2
  <2>3. CASE unmerged
    <3>1. lost' = lost \cup {thread[u].engine : u \in
                    {u \in Queues: Running(u, "draw", "begin") /\ thread[u].engine # e}}
      BY <1>6, <2>3 DEF Decrement
    <3>2. Responsible(t, e)'
      BY <2>2, <2>3 DEF Responsible
    <3>3. HasDraw(e)'
      BY <3>2 DEF HasDraw
    <3>4. ASSUME NEW u \in Queues \ {t}, NEW d \in Engines \ lost', d # e, Responsible(u, d)
          PROVE  Responsible(u, d)'
      <4>1. thread[u].step # "begin"
        BY <3>1, <3>4 DEF Responsible, Running
      <4> QED
        BY <1>3, <3>4, <4>1, ResponsibleStays
    <3> SUFFICES ASSUME NEW d \in Engines \ lost', frames'[d] # <<>>, d # e
                 PROVE  HasDraw(d)'
      BY <3>3 DEF FramesInv
    <3>5. HasDraw(d)
      BY <1>2 DEF FramesInv
    <3>6. CASE DrawQueued(d)
      BY <1>1, <1>2, <3>6, QueuedStays DEF HasDraw
    <3>7. CASE \E u \in Queues : Responsible(u, d)
      <4>1. PICK u \in Queues : Responsible(u, d)
        BY <3>7
      <4>2. u # t
        BY <4>1 DEF Responsible
      <4> QED
        BY <3>4, <4>1, <4>2 DEF HasDraw
    <3> QED
      BY <3>5, <3>6, <3>7 DEF HasDraw
  <2>4. CASE ~unmerged
    <3>1. lost' = lost
      BY <1>6, <2>4 DEF Decrement
    <3>2. IsMerged' = IsMerged
      <4>1. CASE IsMerged /\ enabled
        BY <2>4, <4>1 DEF IsMerged
      <4>2. CASE ~(IsMerged /\ enabled)
        <5>1. lease' = lease
          BY <1>6, <4>2 DEF Decrement
        <5> QED
          BY <5>1 DEF IsMerged, IsAllLeaseTermsZero
      <4> QED
        BY <4>1, <4>2
    <3>3. \A u \in Queues \ {t}, d \in Engines : Responsible(u, d) => Responsible(u, d)'
      BY <1>3, <3>2, ResponsibleStays
    <3>4. Responsible(t, e) => Responsible(t, e)'
      BY <2>2 DEF Responsible
    <3>5. e \notin lost' /\ frames'[e] # <<>> => HasDraw(e)'
      BY <1>1, <1>2, <1>4, <3>1, <3>3, <3>4, SameEngine
    <3> QED
      BY <1>1, <1>2, <1>4, <3>1, <3>3, <3>5, OtherEngines
  <2> QED
    BY <2>3, <2>4
<1> QED
  BY <1>5, <1>6

\* A Draw that starts takes over from its task.
LEMMA RunTaskFrames ==
  ASSUME MergingInv, TasksInv, DrawInv, FramesInv, NEW t \in Queues, RunTask(t)
  PROVE  FramesInv'
<1>1. QueuesInv /\ TypeOK /\ MergedIffLeased /\ tasks \in Seq(Tasks) /\ ~aborted
  BY DEF MergingInv, QueuesInv, QueuesTypeOK, RunTask
<1>2. PICK i \in DOMAIN tasks :
        /\ GetNextTaskToRun(t, i)
        /\ thread' = [thread EXCEPT ![t] =
             [Free EXCEPT !.work = tasks[i].work[1], !.engine = tasks[i].work[2],
                          !.step = "begin"]]
  BY DEF RunTask
<1>3. thread[t] = Free /\ thread \in [Queues -> Busy \cup {Free}]
  BY <1>1 DEF RunTask, TypeOK
<1>4. /\ thread'[t].work = tasks[i].work[1] /\ thread'[t].engine = tasks[i].work[2]
      /\ thread'[t].step = "begin"
      /\ \A u \in Queues \ {t} : thread'[u] = thread[u]
  BY <1>2, <1>3 DEF Free
<1>5. UNCHANGED <<lease, merger, frames, lost>>
  BY DEF RunTask, mergerVars, rasterVars
<1>6. IsMerged' = IsMerged
  BY <1>5 DEF IsMerged, IsAllLeaseTermsZero
<1>7. IsMerged = (t = "platform")
  <2>1. "raster" \in Served(t, subsumedBy, ownerOf)
    BY <1>2 DEF GetNextTaskToRun, IsTop, TasksInv, RasterQueueOnly
  <2> QED
    BY <1>1, <2>1, ServesRaster DEF MergedIffLeased, IsMerged
<1>8. SUFFICES ASSUME NEW e \in Engines \ lost, frames[e] # <<>>
               PROVE  HasDraw(e)'
  BY <1>5 DEF FramesInv
<1>9. CASE \E u \in Queues : Responsible(u, e)
  <2>1. PICK u \in Queues : Responsible(u, e)
    BY <1>9
  <2>2. u \in Queues \ {t}
    BY <1>3, <2>1 DEF Responsible, Free
  <2>3. Responsible(u, e)'
    BY <1>4, <1>6, <2>1, <2>2, ResponsibleStays
  <2> QED
    BY <2>3 DEF HasDraw
<1>10. CASE DrawQueued(e)
  <2>1. PICK j \in DOMAIN tasks : tasks[j].work = <<"draw", e>>
    BY <1>10 DEF DrawQueued
  <2>2. CASE j = i
    <3>1. thread'[t].work = "draw" /\ thread'[t].engine = e
      BY <1>4, <2>1, <2>2
    <3>2. OnRasterizingThread(t, e)'
      BY <1>6, <1>7 DEF OnRasterizingThread
    <3> QED
      BY <1>4, <3>1, <3>2 DEF HasDraw, Responsible
  <2>3. CASE j # i
    <3> DEFINE k == IF j < i THEN j ELSE j - 1
    <3>1. tasks' = RemoveAt(tasks, i)
      BY <1>2 DEF GetNextTaskToRun
    <3>2. /\ DOMAIN tasks' = 1 .. Len(tasks) - 1
          /\ \A n \in 1 .. Len(tasks) - 1 : tasks'[n] = tasks[IF n < i THEN n ELSE n + 1]
      BY <1>1, <3>1, RemoveAtFacts
    <3>3. Len(tasks) \in Nat /\ i \in 1 .. Len(tasks) /\ j \in 1 .. Len(tasks)
      BY <1>1
    <3>4. k \in 1 .. Len(tasks) - 1 /\ (IF k < i THEN k ELSE k + 1) = j
      BY <2>3, <3>3
    <3> HIDE DEF k
    <3>5. k \in DOMAIN tasks' /\ tasks'[k] = tasks[j]
      BY <3>2, <3>4
    <3> QED
      BY <2>1, <3>5 DEF HasDraw, DrawQueued
  <2> QED
    BY <2>2, <2>3
<1> QED
  BY <1>8, <1>9, <1>10 DEF FramesInv, HasDraw

\* The first frame of a pipeline comes with its Draw.
LEMMA CommitFrames ==
  ASSUME MergingInv, DrawInv, FramesInv, NEW d \in Engines, CommitFrame(d)
  PROVE  FramesInv'
<1>1. QueuesInv /\ TypeOK
  BY DEF MergingInv
<1>2. /\ UNCHANGED <<lease, merger, thread, lost>>
      /\ \A e \in Engines \ {d} : frames'[e] = frames[e]
  BY <1>1 DEF CommitFrame, mergerVars, TypeOK
<1>3. IsMerged' = IsMerged
  BY <1>2 DEF IsMerged, IsAllLeaseTermsZero
<1>4. \A u \in Queues : \A e : Responsible(u, e) => Responsible(u, e)'
  BY <1>2, <1>3, ResponsibleStays
<1>5. \A e : DrawQueued(e) => DrawQueued(e)'
  BY <1>1, QueuedStays, SameTasks DEF CommitFrame
<1>6. \A e : HasDraw(e) => HasDraw(e)'
  BY <1>4, <1>5 DEF HasDraw
<1>7. frames[d] = <<>> => HasDraw(d)'
  BY <1>1, QueuedStays DEF CommitFrame, HasDraw
<1> SUFFICES ASSUME NEW e \in Engines \ lost, frames'[e] # <<>>
             PROVE  HasDraw(e)'
  BY <1>2 DEF FramesInv
<1>8. CASE frames[e] = <<>>
  <2>1. e = d
    BY <1>2, <1>8
  <2> QED
    BY <1>7, <1>8, <2>1
<1> QED
  BY <1>6, <1>8 DEF FramesInv

\* No step but an un-merge leaves a frame without a Draw, and that one is recorded.
LEMMA FramesNext ==
  ASSUME MergingInv, TasksInv, DrawInv, FramesInv, [Next]_vars
  PROVE  FramesInv'
<1>1. QueuesInv /\ TypeOK /\ "platform" \in Queues /\ thread \in [Queues -> Busy \cup {Free}]
  BY MergingAssumption DEF MergingInv, TypeOK
<1>2. ASSUME NEW t \in Queues, Step(t)
      PROVE  FramesInv'
  <2>1. CASE Wake(t) \/ Sleep(t)
    <3>1. /\ tasks' = tasks /\ UNCHANGED <<thread, lease, frames, lost>>
          /\ thread[t].work # "draw"
      BY <2>1, SameTasks DEF Wake, Sleep, mergerVars, rasterVars, Free
    <3>2. IsMerged' = IsMerged
      BY <3>1 DEF IsMerged, IsAllLeaseTermsZero
    <3> QED
      BY <1>1, <3>1, <3>2, OtherWork
  <2>2. CASE RunTask(t)
    BY <2>2, RunTaskFrames
  <2>3. CASE Draw(t)
    BY <2>3, DrawFrames, LeaseFrames DEF Draw
  <2>4. CASE RunSetup(t)
    <3>1. thread[t].work = "setup" /\ Finish(t) /\ tasks' = tasks /\ UNCHANGED <<lease, frames, lost>>
      BY <2>4, SameTasks DEF RunSetup, SetUp, Running
    <3>2. \A u \in Queues \ {t} : thread'[u] = thread[u]
      BY <1>1, <3>1, Moves
    <3>3. IsMerged' = IsMerged
      BY <3>1 DEF IsMerged, IsAllLeaseTermsZero
    <3> QED
      BY <1>1, <3>1, <3>2, <3>3, OtherWork
  <2>5. CASE RunTeardown(t) \/ Signal(t)
    <3>1. thread[t].work = "teardown" /\ UNCHANGED <<frames, lost>>
      BY <2>5 DEF RunTeardown, TearDown, Signal, Running, rasterVars
    <3>2. t = "raster" /\ Waiting /\ thread[t].engine \in Engines
      BY <1>1, <3>1, RunningFacts, MergingAssumption DEF TasksInv, OneTeardown
    <3>3. \A u \in Queues \ {t} : thread[u].work # "draw"
      BY <3>2, MergingAssumption DEF Waiting, Running
    <3>4. tasks' = tasks
      BY <2>5, <3>2, SameTasks DEF RunTeardown, Signal
    <3> QED
      BY <1>1, <3>1, <3>3, <3>4, OtherWork
  <2>6. CASE t = "platform" /\ (PostSetup \/ SetupPosted \/ SetupHere \/ PostTeardown)
    <3>1. /\ thread[t].work \in {"creating", "destroying"}
          /\ Finish(t) \/ Goto(t, "posting") \/ Goto(t, "waiting")
          /\ UNCHANGED <<lease, frames, lost>>
      BY <2>6 DEF PostSetup, SetupPosted, SetupHere, SetUp, PostTeardown, Running, mergerVars, rasterVars
    <3>2. \A u \in Queues \ {t} : thread'[u] = thread[u]
      BY <1>1, <3>1, Moves DEF Steps
    <3>3. tasks' = tasks \/ \E work, e : PostRaster(work, e)
      BY <2>6, SameTasks DEF PostSetup, SetupPosted, SetupHere, PostTeardown
    <3>4. IsMerged' = IsMerged
      BY <3>1 DEF IsMerged, IsAllLeaseTermsZero
    <3> QED
      BY <1>1, <3>1, <3>2, <3>3, <3>4, OtherWork
  <2>7. CASE t = "platform" /\ TeardownHere
    <3>1. /\ thread[t].work = "destroying" /\ Finish(t) /\ Owns /\ ~aborted
          /\ TearDown(thread[t].engine) /\ UNCHANGED <<frames, lost>>
      BY <2>7 DEF TeardownHere, TearDown, Running, RunsRasterTasks
    <3>2. /\ \A u \in Queues \ {t} : thread'[u] = thread[u]
          /\ thread[t].engine \in Engines
      BY <1>1, <3>1, Moves, RunningFacts
    <3>3. tasks' = tasks
      BY <3>1, <3>2, SameTasks
    <3>4. \A u \in Queues \ {t} : ~(thread[u].work = "draw" /\ thread[u].step = "begin")
      BY <2>7, <3>1, MergingAssumption DEF MergingInv, MergedIffLeased, DrawInv, RasterEndsDraw, Free
    <3> QED
      BY <1>1, <3>1, <3>2, <3>3, <3>4, OtherWork
  <2> QED
    BY <1>2, <2>1, <2>2, <2>3, <2>4, <2>5, <2>6, <2>7 DEF Step
<1>3. ASSUME NEW e \in Engines, OnPlatformViewCreated(e) \/ OnPlatformViewDestroyed(e)
      PROVE  FramesInv'
  <2>1. PICK to \in {"creating", "destroying"} :
          /\ thread["platform"] = Free /\ tasks' = tasks
          /\ UNCHANGED <<lease, frames, lost>>
          /\ thread' = [thread EXCEPT !["platform"] =
               [Free EXCEPT !.work = to, !.engine = e, !.step = "begin"]]
    BY <1>3, SameTasks DEF OnPlatformViewCreated, OnPlatformViewDestroyed, PlatformCall, rasterVars
  <2>2. thread["platform"].work # "draw" /\ \A u \in Queues \ {"platform"} : thread'[u] = thread[u]
    BY <1>1, <2>1 DEF Free
  <2>3. IsMerged' = IsMerged
    BY <2>1 DEF IsMerged, IsAllLeaseTermsZero
  <2> QED
    BY <1>1, <2>1, <2>2, <2>3, OtherWork
<1>4. CASE UNCHANGED vars
  <2>1. tasks' = tasks /\ UNCHANGED <<lease, frames, thread, lost>>
    BY <1>4, SameTasks DEF vars, mergerVars, rasterVars
  <2>2. IsMerged' = IsMerged
    BY <2>1 DEF IsMerged, IsAllLeaseTermsZero
  <2>3. \A u \in Queues : \A e : Responsible(u, e) => Responsible(u, e)'
    BY <2>1, <2>2, ResponsibleStays
  <2>4. \A e : HasDraw(e) => HasDraw(e)'
    BY <1>1, <2>1, <2>3, QueuedStays DEF HasDraw
  <2> QED
    BY <2>1, <2>4 DEF FramesInv
<1> QED
  BY <1>2, <1>3, <1>4, CommitFrames DEF Next

-----------------------------------------------------------------------------
(* The two threads together. *)

ThreadsInv == MergingInv /\ TasksInv /\ DrawInv /\ FramesInv

\* Both threads are free at first, and nothing is queued or leased.
LEMMA ThreadsInit == Init => ThreadsInv
<1> SUFFICES ASSUME Init PROVE ThreadsInv
  OBVIOUS
<1>1. MergingInv
  BY MergingInit
<1>2. tasks = <<>> /\ "platform" \in Queues /\ "raster" \in Queues
  BY MergingAssumption DEF Init, QueuesInit
<1>3. \A t \in Queues : thread[t] = Free
  BY DEF Init
<1>4. TasksInv
  BY <1>2, <1>3 DEF TasksInv, RasterQueueOnly, OneTeardown, Free
<1>5. ~IsMerged /\ \A e \in Engines : ~(lease[e] > 0)
  BY DEF Init, IsMerged, IsAllLeaseTermsZero, Absent
<1>6. DrawInv
  BY <1>2, <1>3, <1>5 DEF DrawInv, PlatformDrawsMerged, RasterEndsDraw, LeaseForSurface,
                          LeaseNeedsSurface, PastCheck, Free
<1>7. FramesInv
  BY DEF Init, FramesInv
<1> QED
  BY <1>1, <1>4, <1>6, <1>7 DEF ThreadsInv

\* Every step keeps what is known of the threads, the tasks and the frames.
LEMMA ThreadsNext == ThreadsInv /\ [Next]_vars => ThreadsInv'
<1> SUFFICES ASSUME ThreadsInv, [Next]_vars PROVE ThreadsInv'
  OBVIOUS
<1>1. MergingInv /\ TasksInv /\ DrawInv /\ FramesInv
  BY DEF ThreadsInv
<1>2. MergingInv' /\ TasksInv' /\ FramesInv'
  BY <1>1, MergingNext, TasksNext, FramesNext
<1>3. DrawInv'
  <2>1. "platform" \in Queues
    BY MergingAssumption
  <2>2. ASSUME NEW t \in Queues, Step(t) PROVE DrawInv'
    <3>1. CASE Draw(t)
      BY <1>1, <3>1, DrawDraws, PrerollDraws, LeaseDraws DEF Draw
    <3>2. CASE TeardownHere \/ RunTeardown(t) \/ Signal(t)
      BY <1>1, <3>2, TearDownDraws
    <3>3. CASE Wake(t) \/ RunTask(t) \/ Sleep(t)
      BY <1>1, <3>3, LoopDraws
    <3>4. CASE PostSetup \/ SetupPosted \/ SetupHere \/ PostTeardown \/ RunSetup(t)
      BY <1>1, <3>4, SetUpDraws
    <3> QED
      BY <2>2, <3>1, <3>2, <3>3, <3>4 DEF Step
  <2>3. ASSUME NEW e \in Engines, OnPlatformViewCreated(e) \/ OnPlatformViewDestroyed(e)
        PROVE  DrawInv'
    BY <1>1, <2>1, <2>3, SetUpDraws
  <2>4. ASSUME NEW e \in Engines, CommitFrame(e) PROVE DrawInv'
    BY <1>1, <2>4, SameDraws DEF CommitFrame, mergerVars
  <2>5. CASE UNCHANGED vars
    BY <1>1, <2>5, SameDraws DEF vars, mergerVars, rasterVars
  <2> QED
    BY <2>2, <2>3, <2>4, <2>5 DEF Next
<1> QED
  BY <1>2, <1>3 DEF ThreadsInv

\* A lease goes with the surface it was taken for: a teardown ends both, and none can come
\* between the surface check of a Draw and the lease it takes.
THEOREM AlwaysLeaseNeedsSurface == Spec => []LeaseNeedsSurface
<1>1. ThreadsInv => LeaseNeedsSurface
  BY DEF ThreadsInv, DrawInv
<1> QED
  BY ThreadsInit, ThreadsNext, <1>1, PTL DEF Spec

\* The raster thread and the platform thread never draw at the same time, although a merge
\* or an un-merge may come between the check of a Draw and its drawing.
THEOREM AlwaysOneRasterizer == Spec => []OneRasterizer
<1>1. ThreadsInv => OneRasterizer
  BY DEF ThreadsInv, DrawInv, PlatformDrawsMerged, RasterEndsDraw, OneRasterizer, Drawing, PastCheck, Free
<1> QED
  BY ThreadsInit, ThreadsNext, <1>1, PTL DEF Spec

\* No frame is left in a pipeline without a Draw, whichever Draws yield, but for the
\* engines whose Draw after an un-merge the code leaves out.
THEOREM FramesAlwaysHaveDraw == Spec => []FramesHaveDraw
<1>1. ThreadsInv => FramesHaveDraw
  BY DEF ThreadsInv, FramesInv, HasDraw, DrawQueued, Responsible, FramesHaveDraw
<1> QED
  BY ThreadsInit, ThreadsNext, <1>1, PTL DEF Spec

\* The latch of OnPlatformViewDestroyed is for one teardown: no second one is queued or
\* running, and it runs on the raster thread while the platform thread waits.
THEOREM OneTeardownAtATime == Spec => []OneTeardown
<1>1. ThreadsInv => OneTeardown
  BY DEF ThreadsInv, TasksInv
<1> QED
  BY ThreadsInit, ThreadsNext, <1>1, PTL DEF Spec

\* The variables of ThreadMerging keep their types.
THEOREM MergingTypeCorrect == Spec => []TypeOK
<1>1. ThreadsInv => TypeOK
  BY DEF ThreadsInv, MergingInv
<1> QED
  BY ThreadsInit, ThreadsNext, <1>1, PTL DEF Spec
=============================================================================

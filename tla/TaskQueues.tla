----------------------------- MODULE TaskQueues -----------------------------
(***************************************************************************)
(* MessageLoopTaskQueues of the engine (fml/message_loop_task_queues.h):   *)
(* the task queues of all message loops, two of which may be merged, so    *)
(* that the loop of the owner also runs the tasks of the queue it has      *)
(* subsumed.  Every operation holds queue_mutex_ and is one step.  A loop  *)
(* sleeps until its timer fires; the queues set the timers.                *)
(***************************************************************************)
EXTENDS Integers, Sequences, SequencesExt

CONSTANTS
  Queues,    \* the task queues, each with its loop
  Times,     \* model bound: the target times of tasks
  Work,      \* what tasks do
  MaxTasks,  \* model bound: tasks waiting
  Unmerged   \* kUnmerged

ASSUME QueuesAssumption ==
  /\ Unmerged \notin Queues
  /\ Times \subseteq Nat
  /\ MaxTasks \in Nat

Never == -1  \* the time of a timer that is not armed

Tasks == [queue : Queues, time : Times, work : Work]

VARIABLES
  tasks,      \* the tasks of all queues in the order registered
  subsumedBy, \* subsumed_by
  ownerOf,    \* owner_of
  timer,      \* when the timer of a loop fires
  flushing,   \* the loop is in FlushTasks
  now         \* the clock

queuesVars == <<tasks, subsumedBy, ownerOf, timer, flushing, now>>

QueuesInit ==
  /\ tasks = <<>>
  /\ subsumedBy = [q \in Queues |-> Unmerged]
  /\ ownerOf = [q \in Queues |-> {}]
  /\ timer = [q \in Queues |-> Never]
  /\ flushing = [q \in Queues |-> FALSE]
  /\ now = 0

-----------------------------------------------------------------------------
(* What a loop sees.  Definitions whose comment starts with `Mutation' are   *)
(* plausible mistakes in the definition after them.                          *)

\* The queues whose tasks the loop of q runs, given who is subsumed by whom.
Served(q, subsumed, owned) ==
  IF subsumed[q] # Unmerged THEN {} ELSE {q} \cup owned[q]

\* The task at position i of ts is the one to run next among those of qs.
IsTop(ts, qs, i) ==
  /\ i \in DOMAIN ts
  /\ ts[i].queue \in qs
  /\ \A j \in DOMAIN ts: ts[j].queue \in qs =>
       ts[i].time < ts[j].time \/ (ts[i].time = ts[j].time /\ i <= j)

HasPending(ts, qs) == \E i \in DOMAIN ts: ts[i].queue \in qs

\* WakeUp(GetNextWakeTime) for every loop of `loops' with a pending task.
Woken(loops, ts, subsumed, owned) ==
  [q \in Queues |->
     IF q \in loops /\ HasPending(ts, Served(q, subsumed, owned))
     THEN ts[CHOOSE i \in DOMAIN ts: IsTop(ts, Served(q, subsumed, owned), i)].time
     ELSE timer[q]]

-----------------------------------------------------------------------------
(* The operations. *)

RegisterTask(q, time, work) ==
  /\ tasks' = Append(tasks, [queue |-> q, time |-> time, work |-> work])
  /\ timer' = Woken({IF subsumedBy[q] = Unmerged THEN q ELSE subsumedBy[q]},
                    tasks', subsumedBy, ownerOf)
  /\ UNCHANGED <<subsumedBy, ownerOf, flushing, now>>

\* The timer fires: it is drained before the tasks are flushed.
OnEventFired(q) ==
  /\ ~flushing[q]
  /\ timer[q] # Never /\ timer[q] <= now
  /\ timer' = [timer EXCEPT ![q] = Never]
  /\ flushing' = [flushing EXCEPT ![q] = TRUE]
  /\ UNCHANGED <<tasks, subsumedBy, ownerOf, now>>

\* GetNextTaskToRun with a task: the timer is set for it, expired as it is, and
\* never reset when it was the last one.  The time taken when the flush began is
\* left out: a task that became due since then is run in the flush it would have
\* been left for.
GetNextTaskToRun(q, i) ==
  /\ flushing[q]
  /\ IsTop(tasks, Served(q, subsumedBy, ownerOf), i)
  /\ tasks[i].time <= now
  /\ timer' = [timer EXCEPT ![q] = tasks[i].time]
  /\ tasks' = RemoveAt(tasks, i)
  /\ UNCHANGED <<subsumedBy, ownerOf, flushing, now>>

\* GetNextTaskToRun without one: nothing is pending or nothing is due.
EndFlush(q) ==
  /\ flushing[q]
  /\ \A i \in DOMAIN tasks:
       IsTop(tasks, Served(q, subsumedBy, ownerOf), i) => tasks[i].time > now
  /\ timer' = Woken({q}, tasks, subsumedBy, ownerOf)
  /\ flushing' = [flushing EXCEPT ![q] = FALSE]
  /\ UNCHANGED <<tasks, subsumedBy, ownerOf, now>>

\* Mutation: an owner may be subsumed.
CanMergeOwner(owner, subsumed) ==
  /\ owner # subsumed
  /\ subsumedBy[owner] = Unmerged
  /\ subsumedBy[subsumed] = Unmerged

\* The checks of Merge; a merge that exists already changes nothing.
CanMerge(owner, subsumed) ==
  /\ owner # subsumed
  /\ subsumedBy[owner] = Unmerged
  /\ ownerOf[subsumed] = {}
  /\ subsumedBy[subsumed] = Unmerged

Merge(owner, subsumed) ==
  /\ CanMerge(owner, subsumed)
  /\ ownerOf' = [ownerOf EXCEPT ![owner] = @ \cup {subsumed}]
  /\ subsumedBy' = [subsumedBy EXCEPT ![subsumed] = owner]
  /\ timer' = Woken({owner}, tasks, subsumedBy', ownerOf')
  /\ UNCHANGED <<tasks, flushing, now>>

\* Mutation: only the owner is woken.
UnmergeWakingOwner(owner, subsumed) ==
  /\ subsumedBy[owner] = Unmerged
  /\ subsumed \in ownerOf[owner]
  /\ ownerOf' = [ownerOf EXCEPT ![owner] = @ \ {subsumed}]
  /\ subsumedBy' = [subsumedBy EXCEPT ![subsumed] = Unmerged]
  /\ timer' = Woken({owner}, tasks, subsumedBy', ownerOf')
  /\ UNCHANGED <<tasks, flushing, now>>

Unmerge(owner, subsumed) ==
  /\ subsumedBy[owner] = Unmerged
  /\ subsumed \in ownerOf[owner]
  /\ ownerOf' = [ownerOf EXCEPT ![owner] = @ \ {subsumed}]
  /\ subsumedBy' = [subsumedBy EXCEPT ![subsumed] = Unmerged]
  /\ timer' = Woken({owner, subsumed}, tasks, subsumedBy', ownerOf')
  /\ UNCHANGED <<tasks, flushing, now>>

\* Time passes, as far as the latest target time.
Tick ==
  /\ \E t \in Times: now < t
  /\ now' = now + 1
  /\ UNCHANGED <<tasks, subsumedBy, ownerOf, timer, flushing>>

QueuesNext ==
  \/ /\ Len(tasks) < MaxTasks
     /\ \E q \in Queues, time \in Times, work \in Work: RegisterTask(q, time, work)
  \/ \E q \in Queues: OnEventFired(q) \/ EndFlush(q)
  \/ \E q \in Queues, i \in DOMAIN tasks: GetNextTaskToRun(q, i)
  \/ \E p, q \in Queues: Merge(p, q) \/ Unmerge(p, q)
  \/ Tick

QueuesSpec == QueuesInit /\ [][QueuesNext]_queuesVars

-----------------------------------------------------------------------------
(* Properties. *)

\* Type invariant: the values every variable may have.
QueuesTypeOK ==
  /\ tasks \in Seq(Tasks)
  /\ subsumedBy \in [Queues -> Queues \cup {Unmerged}]
  /\ ownerOf \in [Queues -> SUBSET Queues]
  /\ timer \in [Queues -> Times \cup {Never}]
  /\ flushing \in [Queues -> BOOLEAN]
  /\ now \in Nat

\* A queue owns others, is subsumed by one owner or is independent
\* (message_loop_task_queues.h): after any merges and unmerges, both records
\* of a merge agree and an owner is never subsumed.
OneOfThreeStates ==
  \A p, q \in Queues:
    /\ q \in ownerOf[p] <=> subsumedBy[q] = p
    /\ q \in ownerOf[p] => subsumedBy[p] = Unmerged

\* Every task is seen by exactly one loop, whatever is merged: none is run twice
\* and none by nobody.
OneLoopPerQueue ==
  \A q \in Queues: \E p \in Queues:
    \A r \in Queues: q \in Served(r, subsumedBy, ownerOf) <=> r = p

\* A loop that sleeps is woken for each of its tasks no later than the
\* task is due, through merges, unmerges and the timers they overwrite.
WokenInTime ==
  \A q \in Queues: ~flushing[q] =>
    \A i \in DOMAIN tasks:
      tasks[i].queue \in Served(q, subsumedBy, ownerOf)
        => timer[q] # Never /\ timer[q] <= tasks[i].time
=============================================================================

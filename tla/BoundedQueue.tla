---------------------------- MODULE BoundedQueue ----------------------------
(***************************************************************************)
(* What Pipeline<R> of the engine promises, whatever its semaphores and    *)
(* its lock do: a first-in first-out queue, filled through slots that are  *)
(* reserved beforehand, in which reserved slots, queued items and items in *)
(* use never exceed Depth.  FramePipeline implements it.                   *)
(***************************************************************************)
EXTENDS Integers, Sequences

CONSTANTS
  Depth,  \* slots in all, at least one
  Items   \* what can be queued

VARIABLES
  items,     \* queued, oldest first
  reserved,  \* slots handed out to producers and not filled yet
  busy       \* slots of items taken and still in use

queueVars == <<items, reserved, busy>>

Slots == Len(items) + reserved + busy

Init == items = <<>> /\ reserved = 0 /\ busy = 0

Reserve ==
  /\ Slots < Depth
  /\ reserved' = reserved + 1
  /\ UNCHANGED <<items, busy>>

GiveUp ==
  /\ reserved > 0
  /\ reserved' = reserved - 1
  /\ UNCHANGED <<items, busy>>

Put(x) ==
  /\ reserved > 0
  /\ reserved' = reserved - 1
  /\ items' = Append(items, x)
  /\ UNCHANGED busy

Take ==
  /\ items # <<>>
  /\ items' = Tail(items)
  /\ busy' = busy + 1
  /\ UNCHANGED reserved

Release ==
  /\ busy > 0
  /\ busy' = busy - 1
  /\ UNCHANGED <<items, reserved>>

Next == Reserve \/ GiveUp \/ Take \/ Release \/ \E x \in Items: Put(x)

Spec == Init /\ [][Next]_queueVars
=============================================================================

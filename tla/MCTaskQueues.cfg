\* Three queues merging in any order, tasks due now or later.
SPECIFICATION QueuesSpec
CONSTANTS
  p1 = p1
  q1 = q1
  r1 = r1
  Queues = {p1, q1, r1}
  Times = {0, 1}
  Work = {"task"}
  MaxTasks = 3
  Unmerged = "unmerged"
SYMMETRY AnyQueue
INVARIANTS
  OneOfThreeStates
  WokenInTime

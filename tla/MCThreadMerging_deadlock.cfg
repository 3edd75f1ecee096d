\* One engine whose surface is destroyed while its set-up is still queued.
SPECIFICATION Spec
CONSTANTS
  e1 = e1
  e2 = e2
  Queues = {"platform", "raster"}
  Times = {0}
  Work <- RasterWork
  MaxTasks = 1
  Unmerged = "unmerged"
  Engines = {e1}
  Viewers = {e1}
  Lease = 2
  Depth = 1
CHECK_DEADLOCK FALSE
INVARIANTS
  NoDeadlock

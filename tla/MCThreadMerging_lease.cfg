\* Two engines with platform views: the lease of one runs out before the other's.
SPECIFICATION Spec
CONSTANTS
  e1 = e1
  e2 = e2
  Queues = {"platform", "raster"}
  Times = {0}
  Work <- RasterWork
  MaxTasks = 1
  Unmerged = "unmerged"
  Engines = {e1, e2}
  Viewers = {e1, e2}
  Lease = 2
  Depth = 1
CHECK_DEADLOCK FALSE
INVARIANTS
  ChecksHold

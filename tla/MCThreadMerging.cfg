\* Two engines, one of them with platform views.  The program stops when a check
\* fails and when the platform thread waits for itself.
SPECIFICATION Spec
CONSTANTS
  e1 = e1
  e2 = e2
  Queues = {"platform", "raster"}
  Times = {0}
  Work <- RasterWork
  MaxTasks = 1
  Unmerged = "unmerged"
  Engines = {e1, e2}
  Viewers = {e1}
  Lease = 2
  Depth = 1
CHECK_DEADLOCK FALSE
INVARIANTS
  MergedIffLeased
  LeaseNeedsSurface
  
  FramesHaveDraw
PROPERTIES
  WaitEnds

\* Vsync and secondary callbacks, pointer packets and the Dart event loop, with
\* nothing rendered.
SPECIFICATION Spec
CONSTANTS
  v1 = v1
  v2 = v2
  Views = {v1}
  Sources = {"dart", "packet"}
  Depth = 2
  MaxFrames = 0
  MaxQueue = 3
  MaxLag = 0
  MaxRetries = 0
INVARIANTS
  OneVsyncRequest
  PausedPerVsync
  PaceIsComing
PROPERTY DartTasksRun

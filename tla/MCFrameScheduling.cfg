\* Frames and redraws: a pipeline of depth 2, two views, events and textures.
SPECIFICATION Spec
CONSTANTS
  v1 = v1
  v2 = v2
  Views = {v1, v2}
  Sources = {"dart", "texture"}
  Depth = 2
  MaxFrames = 2
  MaxQueue = 1
  MaxLag = 0
  MaxRetries = 1
INVARIANTS
  TokensAddUp
  OneRequestInFlight
  StrandedOnlyIfOvertaken
  DroppedForNewer
PROPERTIES
  ImplementsBoundedQueue
  DrawnInOrder
  

\* One transfer with a single-use consent, one with a reusable one.
SPECIFICATION Spec
CONSTANTS
  x1 = x1
  x2 = x2
  p1 = p1
  p2 = p2
  p3 = p3
  None = None
  Transfers = {x1, x2}
  SingleUse = {x1}
  ConsentIds = {p1, p2, p3}
  MaxRetries = 2
  MaxAttempts = 2
INVARIANTS
  PaidOncePerAttempt
  ConsentsBelongToTransfer
PROPERTY TransfersEnd

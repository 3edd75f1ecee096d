\* One service; no deadlock check: a disconnected bank has no requests to serve.
SPECIFICATION Spec
CONSTANTS
  t1 = t1
  t2 = t2
  c1 = c1
  c2 = c2
  i1 = i1
  i2 = i2
  i3 = i3
  None = None
  Tasks = {t1, t2}
  Clients = {c1, c2}
  ConsentIds = {i1, i2}
  MaxRetries = 2
  MaxAccounts = 1
  MaxServices = 1
  TokensExpire = TRUE
  FilesTear = FALSE
CHECK_DEADLOCK FALSE
SYMMETRY MCSymmetry
INVARIANTS
  ConsentsBelongToClient
  PostsBounded

  

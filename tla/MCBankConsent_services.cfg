\* A service is replaced, by /connect or by a restart; liveness, so no symmetry.
SPECIFICATION Spec
CONSTANTS
  t1 = t1
  t2 = t2
  c1 = c1
  c2 = c2
  i1 = i1
  i2 = i2
  i3 = i3
  None = None
  Tasks = {t1, t2}
  Clients = {c1}
  ConsentIds = {i1, i2}
  MaxRetries = 1
  MaxAccounts = 1
  MaxServices = 2
  TokensExpire = FALSE
  FilesTear = TRUE
CHECK_DEADLOCK FALSE
INVARIANT FileIsCache
 

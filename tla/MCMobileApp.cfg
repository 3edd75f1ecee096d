\* Two requests, loads, orders and transfers under way at a time.
SPECIFICATION Spec
CONSTANTS
  r1 = r1
  r2 = r2
  l1 = l1
  l2 = l2
  x1 = x1
  x2 = x2
  None = None
  Clients <- MCClients
  Banks <- MCBanks
  Requests = {r1, r2}
  Loads = {l1, l2}
  Transfers = {x1, x2}
  MaxOrders = 2
SYMMETRY MCSymmetry
INVARIANTS
  SpinnersHaveCause
  ShownWasSelected
  TransferForOwnClient

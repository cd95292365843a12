CONSTANTS
  Caller = {c1, c2}
  Depth = 2
  Leaf = {l1, l2}
  Mode = "QUEUE_AUTO"
  FreeQSize = 3
  LeafAbandons = TRUE
  InnerAbandons = FALSE
  Timeouts = TRUE
  MaxRequests = 4
SPECIFICATION Spec
INVARIANTS
  TypeOK
  PipesPartitioned
  RequestsConserved
  PendingHasCarrier
  WaitCoversRequests
CHECK_DEADLOCK FALSE

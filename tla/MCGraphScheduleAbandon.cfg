CONSTANTS
  Caller = {c1}
  Depth = 1
  Leaf = {l1, l2}
  Mode = "NORMAL"
  FreeQSize = 3
  LeafAbandons = TRUE
  InnerAbandons = FALSE
  Timeouts = FALSE
  MaxRequests = 4
SPECIFICATION Spec
PROPERTIES
  AbandonReported
CHECK_DEADLOCK FALSE

CONSTANTS
  Caller = {c1}
  Depth = 2
  Leaf = {l1, l2}
  Mode = "QUEUE_MANUAL"
  FreeQSize = 3
  LeafAbandons = FALSE
  InnerAbandons = TRUE
  Timeouts = TRUE
  MaxRequests = 4
SPECIFICATION FairSpec
PROPERTIES
  AbandonReported
  RequestsComplete
  WaitEnds
CHECK_DEADLOCK FALSE

CONSTANTS
  Node = {"A", "B", "C"}
  Target = {"T1", "T2", "T3"}
  Notified = {}
  TargetOf <- JoinTarget
  DataRefQ = {"in", "left", "right", "out"}
  GraphParam = {"in", "out"}
  Param <- JoinParam
  Param0 = "in"
  Ref = {"i1", "i2", "l1", "l2", "r1", "r2", "o1", "o2"}
  Buffers <- JoinBuffers
  App = {a1}
  Depth = 2
  FreeQSize = 2
  JobQueueSize = 4
  MaxBlocked = 2
  MaxRequests = 2
SPECIFICATION Spec
INVARIANTS
  RunsInOrder
CHECK_DEADLOCK FALSE

CONSTANTS
  Node = {"A", "B", "C"}
  Target = {"T1", "T2"}
  Notified = {"B"}
  TargetOf <- TriangleTarget
  DataRefQ = {"in", "mid", "aux", "right", "out"}
  GraphParam = {"in", "out"}
  Param <- TriangleParam
  Param0 = "in"
  Ref = {"i1", "i2", "m1", "m2", "x1", "r1", "r2", "o1"}
  Buffers <- TriangleBuffers
  App = {a1}
  Depth = 2
  FreeQSize = 2
  JobQueueSize = 4
  MaxBlocked = 2
  MaxRequests = 3
SPECIFICATION FairSpec
INVARIANTS
  TypeOK
  InputsIntact
  RefInOnePlace
  RunsInOrder
  CompletionExpected
  TriggeredOnce
PROPERTIES
  RequestsComplete
CHECK_DEADLOCK FALSE

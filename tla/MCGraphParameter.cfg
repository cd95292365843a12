CONSTANTS
  Ref = {r1, r2, r3}
  Task = {t1, t2}
  Dequeuer = {c1}
  MaxRefs = 2
  QueueDepth = 4
  Timeouts = TRUE
  HostDepth = 2
  EventDepth = 1
  MaxEnqueues = 4
SPECIFICATION FairSpec
INVARIANTS
  TypeOK
  EveryRefAccounted
  WakeUpUnderWay
  EventsBacked
PROPERTIES
  DoneRefDelivered
CHECK_DEADLOCK FALSE

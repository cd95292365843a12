CONSTANTS
  Waiter = {w1}
  Leaf = {l1, l2}
  Depth = 2
  FreeQSize = 2
  EventQueueSize = 7
  MaxTimeouts = 1
SPECIFICATION FairSpec
INVARIANTS
  TypeOK
  StoppedMeansStopped
  OneRound
  StarvedOnlyIfTaken
PROPERTIES
  KeepsStreaming
  CallsReturn
CHECK_DEADLOCK FALSE

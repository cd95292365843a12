CONSTANTS
  Thread = {t1, t2, t3}
  Data = {d1, d2}
  MaxEle = 2
  BlockOnGet = TRUE
  BlockOnPut = TRUE
  NoData = none
SPECIFICATION Spec
INVARIANTS
  NoLostWakeup
PROPERTIES
  ImplementsQueue
CHECK_DEADLOCK FALSE

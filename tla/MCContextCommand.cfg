CONSTANTS
  Caller = {c1, c2, c3}
  Timed = {c1, c2}
  CmdObj = {o1, o2}
  SendFailures = TRUE
  AckFailures = TRUE
  MaxCalls = 4
SPECIFICATION FairSpec
INVARIANTS
  TypeOK
  ObjectAccounted
  FreeIsQuiet
  AnswerIsOwn
PROPERTIES
  CallsEnd
CHECK_DEADLOCK FALSE

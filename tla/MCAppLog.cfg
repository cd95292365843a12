CONSTANTS
  NumCpus = 3
  Master = 1
  MemSize = 5
  TextLen = {1}
  Logger = {0}
  MaxLines = 3
SPECIFICATION FairSpec
INVARIANTS
  TypeOK
  PrintedInOrder
  SyncIsBarrier
PROPERTIES
  SyncEnds
  LinesPrinted

CONSTANTS
  NumCpus = 2
  Master = 1
  MemSize = 5
  TextLen = {1, 2}
  Logger = {0}
  MaxLines = 3
SPECIFICATION Spec
INVARIANTS
  PrintsAll

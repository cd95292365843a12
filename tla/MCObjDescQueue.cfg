CONSTANTS
  ObjDesc = {d1, d2}
  Node = {n1, n2}
  Invalid = Invalid
  MAX_DEPTH = 3
  MAX_BLOCKED_NODES = 2
SPECIFICATION Spec
INVARIANTS
  RingConsistent
PROPERTIES
  ImplementsFifo

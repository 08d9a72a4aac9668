CONSTANTS
  Document = {A, B}
  Node = {n1, n2, n3}
  Page = {p1, p2, p3}
  PageSize = 4
  StringSize = {1, 3}
  Nil = Nil

SPECIFICATION CarefulSpec
SYMMETRY Symmetry
CHECK_DEADLOCK FALSE

INVARIANTS
  NodesOnOwnPages
  MemoryInv

PROPERTIES
  DocumentsMoveWhole

CONSTANTS
  Document = {A, B}
  Node = {n1, n2, n3, n4, n5, n6}
  Name = {v, w}
  Nil = Nil
  MaxBefore = 3

SPECIFICATION Spec
CHECK_DEADLOCK FALSE

INVARIANTS
  LoopInvariant
  CopyIsExact

PROPERTIES
  CopyEnds

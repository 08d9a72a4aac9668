CONSTANTS
  Document = {d1}
  Fragment = {f1, f2}
  Element = {e1, e2}
  Misc = {m1}
  Text = {t1}
  Nil = Nil

SPECIFICATION CarefulSpec
SYMMETRY Symmetry
CHECK_DEADLOCK FALSE

INVARIANTS
  RootIsCached

PROPERTIES
  OrderIsKept
  OnlyRootsAreRefusedLate

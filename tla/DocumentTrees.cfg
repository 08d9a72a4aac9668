CONSTANTS
  Document = {d1, d2}
  Fragment = {f1}
  Element = {e1, e2, e3}
  Misc = {}
  Text = {}
  Nil = Nil

SPECIFICATION Spec
SYMMETRY Symmetry
CHECK_DEADLOCK FALSE

INVARIANTS
  ForestInv
  OnlySelfInsertionCycles

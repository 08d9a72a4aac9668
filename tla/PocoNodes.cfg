CONSTANTS
  Element = {e1}
  Leaf = {t1}
  Fragment = {f1}
  Attr = {a1, a2}
  Doc = Doc
  MaxHeld = 1
  MaxPooled = 1
  Nil = Nil

SPECIFICATION Spec
SYMMETRY Symmetry
CHECK_DEADLOCK FALSE

INVARIANTS
  CountingInv
  NothingDangles
  NothingLeaks

PROPERTIES
  EditingFreesNothing

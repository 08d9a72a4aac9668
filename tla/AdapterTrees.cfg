CONSTANTS
  Element = {e1, e2, e3, e4}
  Document = {d1, d2}
  Text = {t1}
  Name = {}
  InvalidName = {}
  Value = {v1}
  Absent = Absent
  Nil = Nil

SPECIFICATION Spec
SYMMETRY Symmetry
CHECK_DEADLOCK FALSE

INVARIANTS
  OneTextChild
  OnlySelfInsertionHangs
  OwnershipInv
  TreesLiveAndDieWhole
  OnlyDocumentsLeak

PROPERTIES
  ImplementsOwnership

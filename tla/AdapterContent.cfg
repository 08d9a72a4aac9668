CONSTANTS
  Element = {e1, e2, e3}
  Document = {d1}
  Text = {t1}
  Name = {1, 2}
  InvalidName = {2}
  Value = {v1}
  Absent = Absent
  Nil = Nil

SPECIFICATION Spec
SYMMETRY Symmetry
CHECK_DEADLOCK FALSE

PROPERTIES
  FailureChangesNothing
  StaleOnlyWhenSwallowed
  ChangesReachDocument

CONSTANTS
  Element = {e1, e2}
  Document = {d1}
  Text = {t1}
  Name = {}
  InvalidName = {}
  Value = {v1}
  Absent = Absent
  Nil = Nil

SPECIFICATION Spec
CHECK_DEADLOCK FALSE

INVARIANT DocumentsReleasedAtExit

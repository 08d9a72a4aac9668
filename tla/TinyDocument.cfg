CONSTANTS
  Element = {e1, e2}
  Declaration = {d1, d2}
  Comment = {}
  Text = {t1}
  Doc = Doc
  MaxDepth = 3
  MaxLost = 0
  Nil = Nil

SPECIFICATION Spec
CHECK_DEADLOCK FALSE

INVARIANTS
  UnlinkedIsExact
  NothingLost
  DeclarationsFirst
  DepthBounded

PROPERTIES
  CallsReturn
  FreedWithDocument

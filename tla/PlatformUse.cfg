SPECIFICATION Spec
CONSTANTS
  Client = {c1, c2}
  Adapter = xa
  Plugged = {m1}
  Default = {n1, n2, n3}
  Document = {d1, d2}
  Sizes = {s1}
  FactorySizes = s0
  MaxCalls = 2
  Nil = Nil
INVARIANT UsedWhenInitialized
CHECK_DEADLOCK FALSE

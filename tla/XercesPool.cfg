CONSTANTS
  Node = {n1, n2}
  Buffer = {b1, b2}
  Name = {v}
  Block = {k1, k2, k3, k4}
  Nil = Nil
  Length = {4, 16}
  MaxLength = 20
  BlockSize = {16, 40, 64}
  Alignment = 16
  PointerSize = 8
  TableSize = 40
  ElementSize = 32
  TextSize = 16
  MapSize = 16
  EntrySize = 16
  BufferSize = 16
  Slack = 3
  InitialHeapAllocSize = 64
  MaxHeapAllocSize = 128
  MaxSubAllocationSize = 32
  WordSize = 65536

SPECIFICATION Spec
CHECK_DEADLOCK FALSE
SYMMETRY Interchangeable

INVARIANTS
  PiecesInside
  PiecesApart
  BlocksListed
  OneUserEach
  TextsFit
  NodeStringsStay

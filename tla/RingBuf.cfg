CONSTANTS
  Byte = {a, b}
  Size = 3
SPECIFICATION Spec
INVARIANT PointersAgree
PROPERTY ImplementsFifo

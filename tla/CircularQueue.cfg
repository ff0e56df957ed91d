CONSTANTS
  Value = {v1, v2, v3}
  Capacity = 3
  Garbage = Garbage
SPECIFICATION Spec
INVARIANT IndicesAgree
PROPERTY ImplementsFifo

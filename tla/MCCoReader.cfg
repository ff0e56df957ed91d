SPECIFICATION Spec
CONSTANTS
  a = a
  b = b
  Byte = {a, b}
  Delimiter <- Delimiters
  ReadSize = {2, 5}
  Limit = {0, 2}
  InitialSize = 1
  MaximumSize = 6
  ReadBlockSize = 5
  MaxBytes = 5
CHECK_DEADLOCK FALSE
INVARIANTS HoldsTheStream InsideBuffer ViewIsNext UntilFindsFirst
PROPERTY CallEnds

SPECIFICATION Spec
CONSTANTS
  base = base
  left = left
  right = right
  top = top
  orphan = orphan
  Resource = {base, left, right, top}
  Request = {q1, q2}
  Deps <- Diamond
  Registered = {base, left, right, top}
  Async = {base, right}
  Failing = {base}
  QueueMayFill = FALSE
  None = None
CHECK_DEADLOCK FALSE
INVARIANT WaiterHasBuilder

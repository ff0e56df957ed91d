SPECIFICATION Spec
CONSTANTS
  base = base
  left = left
  right = right
  top = top
  orphan = orphan
  Resource = {base, left, right, top, orphan}
  Request = {q1, q2, q3}
  Deps <- DiamondAndOrphan
  Registered = {base, left, right, top}
  Async = {base, right}
  Failing = {base, left}
  QueueMayFill = TRUE
  None = None
CHECK_DEADLOCK FALSE
INVARIANTS ConstructedOnce DependenciesComeFirst AtRestWhenSettled
PROPERTY FetchSettles

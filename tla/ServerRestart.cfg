SPECIFICATION Spec
CONSTANTS
  Port = {p1, p2}
  Fd = {f1, f2}
  Ev = Ev
  None = None
  ThreadCloser = {}
  LoopCloser = {k1}
  AcceptMayFail = FALSE
  MaxArrivals = 1
  MaxRuns = 2
CHECK_DEADLOCK FALSE
INVARIANT BoundIsServed

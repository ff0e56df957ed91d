SPECIFICATION Spec
CONSTANTS
  Port = {p1, p2}
  Fd = {f1, f2}
  Ev = Ev
  None = None
  ThreadCloser = {t1}
  LoopCloser = {k1}
  AcceptMayFail = TRUE
  MaxArrivals = 1
  MaxRuns = 2
CHECK_DEADLOCK FALSE
INVARIANT AcceptsOnlyOpenSockets
PROPERTIES RunsUntilClosed ConnectionIsAccepted RunEndsWhenClosed

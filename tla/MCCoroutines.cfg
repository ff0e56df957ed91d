SPECIFICATION Spec
CONSTANTS
  Task = {t1, t2, t3}
  Consumer = t1
  Gen = Gen
  None = None
  Duration <- Durations
  MaxSteps = 5
  MaxTime = 2
CHECK_DEADLOCK FALSE
INVARIANT TimersBelongToSleepers
PROPERTIES AwaiterResumes NextSettles

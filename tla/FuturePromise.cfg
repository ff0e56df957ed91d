CONSTANTS
  Setter = {s1, s2}
  Consumer = {c1, c2}
  Returner = Returner
  World = {"loop", "threads"}
  None = None
SPECIFICATION Spec
INVARIANTS WrittenOnce ResumedOnce AwaitGetsTheResult NoLostWakeup
PROPERTY AwaiterIsResumed
CHECK_DEADLOCK FALSE

CONSTANTS
  Coro = {c1, c2, c3}
  Fd = {f1, f2}
  EventFd = EventFd
  QueueSize = 2
  EventBufferSize = 2
  None = None
SPECIFICATION Spec
INVARIANTS EventsHaveCallbacks ResumesOnlySuspended NoLostWakeup
PROPERTIES RunReturnsWhenDone QueuedIsResumed EpollNotStarved StopEndsRun

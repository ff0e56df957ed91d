CONSTANTS
  Coro = {c1, c2, c3, c4}
  Fd = {f1, f2}
  EventFd = EventFd
  QueueSize = 1
  EventBufferSize = 2
  None = None
SPECIFICATION SpecWithErrors
SYMMETRY CoroSymmetry
INVARIANTS WakeupIsScheduled

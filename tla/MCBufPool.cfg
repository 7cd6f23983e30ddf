SPECIFICATION Spec
CONSTANTS
  Procs = {p1, p2}
  NBPOOLS = 1
  NSEM = 1
  HEAP = 2
  NumBufs = {2}
INVARIANT SemaphoreCountsBuffers

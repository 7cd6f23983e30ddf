SPECIFICATION Spec
CONSTANTS
  NPROC = 4
  NSEM = 1
  QUANTUM = 1
  INITPRIO = 1
  Prios = {2}
  Delays = {}
  Waits = {}
  MAXKEY = 7
  Counts = {0, 2}
  MaxCount = 2
  Stacks = {1, 2, 3}
  Calls <- SyncCalls
VIEW LiveView
INVARIANTS TypeOK OneRuns DeferBalanced PriorityOrder

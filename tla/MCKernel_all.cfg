SPECIFICATION Spec
CONSTANTS
  NPROC = 4
  NSEM = 1
  QUANTUM = 1
  INITPRIO = 1
  Prios = {2}
  Delays = {2}
  Waits = {0, 1}
  MAXKEY = 7
  Counts = {0, 2}
  MaxCount = 2
  Stacks = {1, 2}
  Calls <- AllCalls
VIEW LiveView
INVARIANTS QueueMembership SemCount  NoLostMessage

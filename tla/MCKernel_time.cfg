SPECIFICATION FairSpec
CONSTANTS
  NPROC = 4
  NSEM = 1
  QUANTUM = 2
  INITPRIO = 1
  Prios = {1}
  Delays = {0, 2}
  Waits = {1}
  MAXKEY = 7
  Counts = {}
  MaxCount = 2
  Stacks = {1, 2, 3}
  Calls <- TimeCalls
INVARIANT ExactlyOnTime
PROPERTIES RoundRobin TimedWaitsEnd

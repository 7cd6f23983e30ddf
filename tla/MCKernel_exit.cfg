SPECIFICATION Spec
CONSTANTS
  NPROC = 4
  NSEM = 1
  QUANTUM = 1
  INITPRIO = 1
  Prios = {1, 2}
  Delays = {}
  Waits = {}
  MAXKEY = 7
  Counts = {}
  MaxCount = 2
  Stacks = {1, 2, 3}
  Calls <- ExitCalls
VIEW LiveView
INVARIANTS PrCount StackOwned XdoneMeansDone

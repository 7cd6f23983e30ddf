SPECIFICATION Spec
CONSTANTS
  NPROC = 4
  NSEM = 1
  MAXKEY = 7
  Prios = {1, 2}
  Delays = {0, 2}
VIEW LiveLinks
INVARIANTS TypeOK WellLinked
PROPERTY ImplementsLists

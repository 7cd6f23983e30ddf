\* Every process may block in ptsend(): nobody is obliged to receive.
SPECIFICATION FairSpec
CHECK_DEADLOCK FALSE
CONSTANTS
  Procs = {p1, p2, p3}
  NPORTS = 1
  NSEM = 6
  MAXMSGS = 2
  Counts = {1, 2, 3}
  MaxSeq = 5
INVARIANTS TypeOK NeverHalts Accounted NoOldMessages
PROPERTY ClearReleases

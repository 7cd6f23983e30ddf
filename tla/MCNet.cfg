\* A memory fault stops the system.
SPECIFICATION MCSpec
CHECK_DEADLOCK FALSE
CONSTANTS
  p1 = p1
  p2 = p2
  Procs = {p1, p2, netin, ipout}
  netin = netin
  ipout = ipout
  NullProc = null
  txRingSize = 3
  rxRingSize = 2
  Packets <- MCPackets
  Hosts = {"h1", "h2"}
  NBUF = 3
  ARP_SIZ = 1
  ARP_RETRY = 2
  UDP_SLOTS = 1
  UDP_QSIZ = 1
  IP_OQSIZ = 1
  DHCP_RETRY = 2
  MaxStrays = 1
  MaxInRx = 3
INVARIANTS TypeOK BuffersBalanced ArpHonest FramesAddressed  
SYMMETRY Symmetry

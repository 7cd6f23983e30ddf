\* A memory fault stops the system.
SPECIFICATION MCSpec
CHECK_DEADLOCK FALSE
CONSTANTS
  Procs = {p1, p2}
  NullProc = null
  TY_OBUFLEN = 2
  TY_IBUFLEN = 2
  UART_FIFO_LEN = 2
  UINT32 = 1024
  Texts <- MCTexts
  ReadCounts = {0, 1, 3}
  Ordinary = {"x"}
  MaxEcho = 0
  MaxTyped = 2
  MaxPhantoms = 1
INVARIANTS TypeOK Accounted  NeverStalls
PROPERTY WriterReturns

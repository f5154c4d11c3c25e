SPECIFICATION FairJtagSpec
CONSTANTS
  BufLen = 3
  FifoDepth = 1
  WriteThreshold = 0
  DefaultTimeout = 1
  IntMax = 3
  Ticks = TRUE
  Calls = {2}
  Printed = 4
  Typed = 3
  Leaves = TRUE
INVARIANTS NobodyStranded
PROPERTIES PrintingSpec TypingSpec AllShown PrintfReturns
CHECK_DEADLOCK FALSE

CONSTANTS
  Procs = {a, b, c}
  NULL = NULL
  Idle = idle
  InitProc = a
  Charge <- Charges
  MaxVruntime = 8
SPECIFICATION FairSpec
INVARIANTS TypeOK  TreeHoldsReady  KeyNotAhead
PROPERTIES StarvationFree 

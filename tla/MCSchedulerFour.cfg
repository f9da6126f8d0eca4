CONSTANTS
  Procs = {a, b, c, d}
  NULL = NULL
  Idle = idle
  InitProc = a
  Charge <- Charges
  MaxVruntime = 8
SPECIFICATION Spec
INVARIANT OperationsTerminate

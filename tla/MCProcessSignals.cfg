CONSTANTS
  Procs = {idle, init, a, b}
  NULL = NULL
  Idle = idle
  InitProc = init
  MAX_PROCESSES = 3
  Sigs = {2, 9}
  Handlers = {"SIG_IGN", "user"}
  Statuses = {0}
  FaultCodes = {139}
  WaitTargets <- MCTargets
SPECIFICATION Spec
SYMMETRY Symmetry
 
PROPERTY SigkillFinal

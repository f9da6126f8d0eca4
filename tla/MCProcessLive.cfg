CONSTANTS
  Procs = {idle, init, a, b}
  NULL = NULL
  Idle = idle
  InitProc = init
  MAX_PROCESSES = 4
  Sigs = {}
  Handlers = {"SIG_DFL"}
  Statuses = {0}
  FaultCodes = {139}
  WaitTargets <- MCTargets
SPECIFICATION FairSpec
PROPERTY WaitersReturn

CONSTANTS
  Procs = {idle, init, a, b}
  NULL = NULL
  Idle = idle
  InitProc = init
  MAX_PROCESSES = 4
  Sigs = {9}
  Handlers = {"SIG_DFL"}
  Statuses = {0}
  FaultCodes = {139}
  WaitTargets <- MCTargets
SPECIFICATION Spec
SYMMETRY Symmetry
INVARIANTS TypeOK QueueHoldsReady OneRunning TableConsistent ChildrenLinked NoLostWakeup ExecTargetStays
PROPERTY ZombiesStayDead

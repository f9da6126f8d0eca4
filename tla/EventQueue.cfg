CONSTANTS
  Events = {"press", "release"}
  EVENT_QUEUE_SIZE = 3
SPECIFICATION FairSpec
INVARIANTS TypeOK IndicesAgree NoHaltWithEvent
PROPERTIES WaitReturns ImplementsFifo

SPECIFICATION Spec
CONSTANTS
  Keys <- ArrowKeys
  MaxKeys = 2
  Programs = {p, q}
  EVENT_QUEUE_SIZE = 1
  EVT_SIZE = 1
  KBD_SIZE = 8
  INPUT_LINE_MAX = 3
INVARIANTS BlockingReadsBlock
CHECK_DEADLOCK FALSE

SPECIFICATION Spec
CONSTANTS
  Keys <- ArrowKeys
  MaxKeys = 3
  Programs = {}
  EVENT_QUEUE_SIZE = 1
  EVT_SIZE = 3
  KBD_SIZE = 12
  INPUT_LINE_MAX = 3
PROPERTIES NothingReplayed
CHECK_DEADLOCK FALSE

SPECIFICATION Spec
CONSTANTS
  Keys <- EditingKeys
  MaxKeys = 4
  Programs = {}
  EVENT_QUEUE_SIZE = 1
  EVT_SIZE = 1
  KBD_SIZE = 16
  INPUT_LINE_MAX = 4
INVARIANTS TypeOK LineOK 
  
CHECK_DEADLOCK FALSE

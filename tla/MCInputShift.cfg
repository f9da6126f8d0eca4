SPECIFICATION FairSpec
CONSTANTS
  Keys <- ShiftKeys
  MaxKeys = 3
  Programs = {p}
  EVENT_QUEUE_SIZE = 1
  EVT_SIZE = 2
  KBD_SIZE = 6
  INPUT_LINE_MAX = 3
INVARIANTS DecoderInSync ShiftAgrees
 
CHECK_DEADLOCK FALSE

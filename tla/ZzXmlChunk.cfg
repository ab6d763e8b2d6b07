SPECIFICATION Spec
CONSTANTS
  YAJL_MAX_DEPTH = 6
  MaxLen = 4
CHECK_DEADLOCK FALSE
INVARIANTS
  OffsetInBuffer

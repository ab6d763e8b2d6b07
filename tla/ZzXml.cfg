SPECIFICATION Spec
CONSTANTS
  YAJL_MAX_DEPTH = 6
  MaxLen = 7
\* A failed assertion ends the process.
CHECK_DEADLOCK FALSE
INVARIANTS
  TypeOK
  
  InvalidIsReported
  StacksAgree
  AssertionsHold
  OneMessagePerDocument
  MessagesTile

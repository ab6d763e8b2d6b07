SPECIFICATION Spec
CONSTANTS
  Threads = {t1, t2}
  Arrays = {a1, a2}
  MaxMsgs = 2
  NULL = NULL
INVARIANTS
  ReturnsQueued

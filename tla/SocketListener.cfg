SPECIFICATION FairSpec
CONSTANTS
  Listeners = {l1}
  Conns = {c1, c2}
  THREADS = 2
  Response = TRUE
  NULL = NULL
CHECK_DEADLOCK FALSE
INVARIANTS
  TypeOK
  NothingOutlivesListener
  NoWakeUpIsLost
PROPERTIES
  QueuedIsServed
  JoinReturns

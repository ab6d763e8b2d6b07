SPECIFICATION FairSpec
CONSTANTS
  Listeners = {l1, l2}
  Conns = {c1}
  THREADS = 1
  Response = FALSE
  NULL = NULL
CHECK_DEADLOCK FALSE
PROPERTIES
  PresentListenerServes

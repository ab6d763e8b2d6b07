SPECIFICATION FairSpec
CONSTANTS
  Ports = {p1, p2}
  MaxSessions = 1
  MaxOutq = 1
  MaxEdits = 2
  NULL = NULL
  Invalid = Invalid
CHECK_DEADLOCK FALSE
INVARIANTS
  TypeOK
  SessionsComeFirst
  ListenersMatch
  ResponsesOutliveRequests
  NothingUndelivered
PROPERTIES
  ShutdownEnds
  ReloadFollows

SPECIFICATION Spec
CONSTANTS
  ZLIB_CHUNK = 2
  MaxInflated = 4
  MaxChunks = 2
CHECK_DEADLOCK FALSE
INVARIANTS
  TypeOK
  AnswerTellsFailure
  NothingLeftInflated
  AnswerTextLives
  ReleasedUnlessRefused

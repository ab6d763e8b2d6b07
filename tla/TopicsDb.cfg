\* Two sessions that create, share, purge and give back two topics, with one
\* address more than the topics that can be in the table.  An entry is old one
\* tick after its use, and the clock has a tick left after the first purge.
CONSTANTS
  Sessions = {s1, s2}
  Names = {a, b}
  Handles = {h1, h2, h3}
  LiveTime = 0
  MaxTime = 2
  NULL = NULL
SPECIFICATION FairSpec
INVARIANTS
  TypeOK
  RefcntExact
  NoDangling
  OneEntryPerName
  LruMatchesTable
PROPERTIES
  ImplementsService
  LockIsReleased
  NothingLeaks
\* After topics_db_done() and the last free_zz_session() nothing happens.
CHECK_DEADLOCK FALSE

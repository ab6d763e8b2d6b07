\* Two requests at once, whose arrays can follow one another at an address, and
\* batches of up to three messages: any of them fail, also the first and the last
\* around one that librdkafka took.
SPECIFICATION FairSpec
CONSTANTS
  Threads = {t1, t2}
  Arrays = {a1, a2}
  MaxMsgs = 3
  NULL = NULL
INVARIANTS
  TypeOK
  CountExact
  NoUseAfterFree
PROPERTIES
  PayloadFreed

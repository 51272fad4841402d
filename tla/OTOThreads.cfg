\* main creates the threads, one allocation fails, no kernel id is used
\* twice.  A thread that waits for itself, or two for each other, spin for
\* ever.
SPECIFICATION FairSpec
CONSTANTS
  Main = main
  Slots = {s1, s2}
  Creators = {main}
  PidMax <- EnoughIds
  Calls = 4
  Fails = 1
INVARIANTS
  TypeOK
  CreatedIsFound
  NoNullPointer
PROPERTIES
  ReadsValueOrWindow
  ValueKept
  JoinReturns
  ImplementsThreads
CHECK_DEADLOCK FALSE

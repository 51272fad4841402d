\* Three threads of two rounds each, and two unlocks without a lock: one after
\* the other and of the free mutex from orderly clients, at any time and
\* overlapping each other and those of the holder from any.
SPECIFICATION FairSpec
CONSTANTS
  Threads = {t1, t2, t3}
  Rounds = 2
  Extras = 2
  Words <- Static
  LockAddr <- Lowest
INVARIANTS
  TypeOK
  SomebodyFrees
  NobodySleeps
  MutualExclusion
  WordTellsHolder
PROPERTIES
  Termination
  ImplementsLock
CHECK_DEADLOCK FALSE

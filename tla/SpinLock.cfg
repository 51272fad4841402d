\* Three threads of two rounds each, on a static (zeroed) lock.  No symmetry:
\* two of the properties are liveness properties.
SPECIFICATION FairSpec
CONSTANTS
  Threads = {t1, t2, t3}
  Rounds = 2
  Words <- Static
INVARIANTS
  TypeOK
  MutualExclusion
  FreshRead
PROPERTIES
  Termination
  ImplementsLock
CHECK_DEADLOCK FALSE

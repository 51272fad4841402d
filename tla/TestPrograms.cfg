\* Every test program on every library, one failing allocation.  The loops
\* that run 8 threads, or ten or more rounds, in the programs are cut to
\* numThreads and Turns; the others have their own lengths.
SPECIFICATION Spec
CONSTANTS
  Libraries <- AllLibraries
  numThreads = 3
  Turns = 2
  Fails = 1
INVARIANTS
  TypeOK
  PrintsTotal
  PrintsStatuses
  MainEndsLast
PROPERTIES
  Finishes

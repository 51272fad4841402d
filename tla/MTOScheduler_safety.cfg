\* Every call of the library, preempted anywhere outside the four windows,
\* once also inside the handler, and one failing allocation.
\* Symmetry is sound: neither property is a liveness property.
SPECIFICATION Spec
CONSTANTS
  Main = main
  Children = {c1, c2}
  Nobody = nobody
  Clients <- Anything
  Calls = 3
  Fails = 1
  Depth = 2
  TickAt <- QuietTicks
SYMMETRY Symmetry
INVARIANTS
  TypeOK
  TimerOffInside
  ContextsIntact
  RunsAsCurrent
  PreemptionKept
  SignalOnlyWhereSent
  CrashesOnly
PROPERTIES
  ImplementsThreads
  ImplementsRoundRobin

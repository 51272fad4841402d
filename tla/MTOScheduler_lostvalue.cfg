\* The timer may also go off between clearing the struct and setitimer,
\* and where it is then armed.
SPECIFICATION Spec
CONSTANTS
  Main = main
  Children = {c1, c2}
  Nobody = nobody
  Clients <- Exiting
  Calls = 3
  Fails = 0
  Depth = 1
  TickAt = {"user", "set", "setret"}
INVARIANTS
  ExitSetsValue

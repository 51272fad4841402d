\* The timer may also go off between arming it and setcontext.
SPECIFICATION Spec
CONSTANTS
  Main = main
  Children = {c1, c2}
  Nobody = nobody
  Clients <- Returning
  Calls = 2
  Fails = 0
  Depth = 2
  TickAt = {"user", "sSwitch"}
INVARIANTS
  SavesOwnContext

\* thread_kill of a thread that is not in the ready queue.
SPECIFICATION Spec
CONSTANTS
  Main = main
  Children = {c1, c2}
  Nobody = nobody
  Clients <- Killing
  Calls = 2
  Fails = 0
  Depth = 1
  TickAt = {"user"}
INVARIANTS
  NeverCrashes

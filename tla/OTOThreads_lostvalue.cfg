\* One thread, which ends before thread_create has put it in the queue.
SPECIFICATION Spec
CONSTANTS
  Main = main
  Slots = {s1}
  Creators = {main}
  PidMax <- EnoughIds
  Calls = 1
  Fails = 0
INVARIANTS
  ExitSetsValue
CHECK_DEADLOCK FALSE

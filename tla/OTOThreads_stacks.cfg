\* Two threads create a thread each.
SPECIFICATION Spec
CONSTANTS
  Main = main
  Slots = {s1, s2, s3}
  Creators = {main, s1}
  PidMax <- EnoughIds
  Calls = 3
  Fails = 0
INVARIANTS
  OwnStack
CHECK_DEADLOCK FALSE

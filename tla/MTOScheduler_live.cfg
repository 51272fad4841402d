\* Liveness of the queue, of thread_join and of the signals: with joins, kills
\* and ends of threads mixed in three calls, with any number of joins, and with
\* any number of kills. The timer goes off in the program and in thread_join's
\* loop.
SPECIFICATION FairSpec
CONSTANTS
  Main = main
  Children = {c1, c2}
  Nobody = nobody
  Clients <- LongRunning
  Calls = 3
  Fails = 0
  Depth = 1
  TickAt = {"user", "wait"}
PROPERTIES
  ReadyRuns
  JoinReturns
  SignalDelivered

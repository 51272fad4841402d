--------------------------- MODULE MCMTOScheduler ---------------------------
(* MTOScheduler for TLC.                                                   *)
EXTENDS MTOScheduler, TLC

(* Outside the four windows.  The last label of the handler is left out    *)
(* too: there everything is as it is at sOn, since timer is "on" at both.  *)
QuietTicks == Quiet \ {"sReturn"}

(* A program that makes the calls ops, a bounded number of those in        *)
(* counted.                                                                *)
Client(ops, counted) == [ops |-> ops, counted |-> counted]

Anything == {Client(AllOps, AllOps)}
Returning == {Client({"create", "return"}, AllOps)}
Exiting == {Client({"create", "exit", "return"}, AllOps)}
Killing == {Client({"create", "kill", "return"}, AllOps)}

(* Joins, kills and ends of threads mix in a few calls, or there is any    *)
(* number of joins, or of kills.                                           *)
LongRunning ==
  {Client({"create", "join", "exit", "return", "kill"}, AllOps),
   Client({"create", "join", "exit", "return"}, {}),
   Client({"create", "kill"}, {})}

Symmetry == Permutations(Children)
=============================================================================

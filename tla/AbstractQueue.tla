--------------------------- MODULE AbstractQueue ----------------------------
(***************************************************************************)
(* What a client of queue.c may rely on: a sequence of threads with an     *)
(* answer to its last call.                                                *)
(***************************************************************************)
EXTENDS ThreadQueue

CONSTANTS Threads, None

VARIABLES
  line,    \* the threads in the queue
  answer   \* the last call's result: a thread, or None

Init == line = <<>> /\ answer = None

Put(x) == line' = Enqueue(line, x) /\ answer' = None

Take ==
  \/ line # <<>> /\ answer' = Head(line) /\ line' = Tail(line)
  \/ line = <<>> /\ answer' = None /\ UNCHANGED line

Find(x) ==
  /\ answer' = IF Contains(line, x) THEN x ELSE None
  /\ UNCHANGED line

Promote(x) ==
  \/ Contains(line, x) /\ answer' = x /\ line' = MakeHead(line, x)
  \/ ~Contains(line, x) /\ answer' = None /\ UNCHANGED line

Next == Take \/ \E x \in Threads : Put(x) \/ Find(x) \/ Promote(x)

Spec == Init /\ [][Next]_<<line, answer>>
=============================================================================

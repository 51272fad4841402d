--------------------------- MODULE AbstractThreads ---------------------------
(***************************************************************************)
(* What thread.h promises of threads: a created thread runs until it ends, *)
(* leaving a value, and thread_join waits for that and gets the value.  A  *)
(* thread that was not created is unknown, and none can join itself.       *)
(***************************************************************************)

CONSTANTS
  Threads,
  Main,     \* the thread that runs main()
  Nobody,   \* stands for no thread
  Values,   \* what a thread may leave behind
  NULL      \* the value of one that has left none

VARIABLES
  phase,  \* of each thread: "unborn", "live" or "ended"
  value,  \* what it has left
  join    \* its last thread_join: the thread it is about, and the answer

NoJoin == [of |-> Nobody, code |-> "none", val |-> NULL]
Waits(j) == join[j].of # Nobody /\ join[j].code = "none"

Init ==
  /\ phase = [t \in Threads |-> IF t = Main THEN "live" ELSE "unborn"]
  /\ value = [t \in Threads |-> NULL]
  /\ join = [t \in Threads |-> NoJoin]

Create(t) ==
  /\ phase[t] = "unborn"
  /\ phase' = [phase EXCEPT ![t] = "live"]
  /\ UNCHANGED <<value, join>>

(* A thread in thread_join does not end.                                   *)
End(t, v) ==
  /\ phase[t] = "live"
  /\ ~Waits(t)
  /\ phase' = [phase EXCEPT ![t] = "ended"]
  /\ value' = [value EXCEPT ![t] = v]
  /\ join' = [join EXCEPT ![t] = NoJoin]

Ask(j, t) ==
  /\ ~Waits(j)
  /\ join' = [join EXCEPT ![j] = [of |-> t, code |-> "none", val |-> NULL]]
  /\ UNCHANGED <<phase, value>>

Reply(j, code, val) ==
  /\ join' = [join EXCEPT ![j].code = code, ![j].val = val]
  /\ UNCHANGED <<phase, value>>

Answer(j) ==
  LET t == join[j].of IN
  /\ Waits(j)
  /\ \/ phase[t] = "ended" /\ Reply(j, "ok", value[t])
     \/ phase[t] = "unborn" /\ Reply(j, "ESRCH", NULL)
     \/ t = j /\ Reply(j, "EDEADLK", NULL)

(* The answer of a library that may lose the value.                        *)
AnswerLost(j) ==
  /\ Waits(j)
  /\ phase[join[j].of] = "ended"
  /\ \E v \in Values : Reply(j, "ok", v)

Forget(j) ==
  /\ ~Waits(j)
  /\ join' = [join EXCEPT ![j] = NoJoin]
  /\ UNCHANGED <<phase, value>>

Next ==
  \/ \E t \in Threads : Create(t) \/ \E v \in Values : End(t, v)
  \/ \E j, t \in Threads : Ask(j, t)
  \/ \E j \in Threads : Answer(j) \/ Forget(j)

vars == <<phase, value, join>>

(* The stutter is written out: TLC tries it before it tries the disjuncts  *)
(* of Next on a step that does not concern them.                           *)
Spec == Init /\ [][UNCHANGED vars \/ Next]_vars

LossyNext == Next \/ \E j \in Threads : AnswerLost(j)
LossySpec == Init /\ [][UNCHANGED vars \/ LossyNext]_vars
=============================================================================

---------------------------- MODULE AbstractLock ----------------------------
(***************************************************************************)
(* What thread.h promises of a lock, spin lock or mutex: a thread that     *)
(* asked for the lock waits until nobody has it, then has it alone until   *)
(* it gives it back.                                                       *)
(***************************************************************************)

CONSTANT Threads

VARIABLE phase  \* of each thread: "out", "waiting" for the lock, or "in"

In == {t \in Threads : phase[t] = "in"}

Init == phase = [t \in Threads |-> "out"]

Request(t) ==
  /\ phase[t] = "out"
  /\ phase' = [phase EXCEPT ![t] = "waiting"]

Acquire(t) ==
  /\ phase[t] = "waiting"
  /\ In = {}
  /\ phase' = [phase EXCEPT ![t] = "in"]

Release(t) ==
  /\ phase[t] = "in"
  /\ phase' = [phase EXCEPT ![t] = "out"]

Next == \E t \in Threads : Request(t) \/ Acquire(t) \/ Release(t)

Spec == Init /\ [][Next]_phase

(* A free lock that is wanted is eventually taken, and a taken one is      *)
(* eventually given back.                                                  *)
Fairness == /\ WF_phase(\E t \in Threads : Acquire(t))
            /\ WF_phase(\E t \in Threads : Release(t))

FairSpec == Spec /\ Fairness
=============================================================================

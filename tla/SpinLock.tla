------------------------------ MODULE SpinLock ------------------------------
(***************************************************************************)
(* The spin lock (initlock, thread_lock, thread_unlock), the same code in  *)
(* thread.c and mtothread.c, under the clients of test11.c: main           *)
(* initialises one static lock and starts threads that each take it Rounds *)
(* times and increment a shared counter inside.                            *)
(*                                                                         *)
(* One step is one access to memory that another thread can see.  Memory   *)
(* is sequentially consistent: both sides of the lock word are atomic      *)
(* built-ins.                                                              *)
(***************************************************************************)
EXTENDS Integers

CONSTANTS
  Threads,  \* the threads main creates
  Rounds,   \* lock/unlock rounds of each thread (10 in test11.c)
  Words     \* what the lock's memory may hold when main calls initlock

ASSUME RoundsAssumption == Rounds \in Nat
ASSUME WordsAssumption == Words \subseteq Int

VARIABLES
  value,  \* threadlock.value, a signed 32-bit word
  main,   \* main is before "initlock" or has the threads "running"
  pc,     \* where each thread is
  round,  \* rounds each thread has finished: the loop variable j
  glob,   \* the shared counter
  seen    \* the value of glob each thread has loaded

vars == <<value, main, pc, round, glob, seen>>

(* xchg on the low byte of the word: __atomic_test_and_set is a byte       *)
(* operation whatever the type of the word.                                *)
LowByte(w) == w % 256

(* Variants whose name has a suffix carry a bug that the properties find;  *)
(* no specification uses one.                                              *)
SetLowByte_TestOnly(w) == w
SetLowByte(w) == w - LowByte(w) + 1

Init ==
  /\ value \in Words
  /\ main = "initlock"
  /\ pc = [t \in Threads |-> "idle"]
  /\ round = [t \in Threads |-> 0]
  /\ glob = 0
  /\ seen = [t \in Threads |-> 0]

(* initlock overwrites its own parameter with fresh memory and zeroes      *)
(* that: the caller's lock keeps its word.                                 *)
InitLock ==
  /\ main = "initlock"
  /\ main' = "running"
  /\ UNCHANGED <<value, pc, round, glob, seen>>

(* The body of threadFunc: another round of the loop calls thread_lock.    *)
MoreRounds_OneTooMany(t) == round[t] <= Rounds
MoreRounds(t) == round[t] < Rounds

CallLock(t) ==
  /\ main = "running"
  /\ pc[t] = "idle"
  /\ MoreRounds(t)
  /\ pc' = [pc EXCEPT ![t] = "lock"]
  /\ UNCHANGED <<value, main, round, glob, seen>>

(* One turn of the while loop of thread_lock.                              *)
TestAndSet(t) ==
  /\ pc[t] = "lock"
  /\ value' = SetLowByte(value)
  /\ pc' = [pc EXCEPT ![t] = IF LowByte(value) = 0 THEN "load" ELSE "lock"]
  /\ UNCHANGED <<main, round, glob, seen>>

(* glob++ is a load and a store.                                           *)
Load(t) ==
  /\ pc[t] = "load"
  /\ seen' = [seen EXCEPT ![t] = glob]
  /\ pc' = [pc EXCEPT ![t] = "store"]
  /\ UNCHANGED <<value, main, round, glob>>

Store(t) ==
  /\ pc[t] = "store"
  /\ glob' = seen[t] + 1
  /\ pc' = [pc EXCEPT ![t] = "unlock"]
  /\ UNCHANGED <<value, main, round, seen>>

(* thread_unlock, and the end of the round.                                *)
Unlocked_StaysSet == 1
Unlocked == 0

Unlock(t) ==
  /\ pc[t] = "unlock"
  /\ value' = Unlocked
  /\ pc' = [pc EXCEPT ![t] = "idle"]
  /\ round' = [round EXCEPT ![t] = @ + 1]
  /\ UNCHANGED <<main, glob, seen>>

ThreadStep(t) ==
  CallLock(t) \/ TestAndSet(t) \/ Load(t) \/ Store(t) \/ Unlock(t)

Next == InitLock \/ \E t \in Threads : ThreadStep(t)

Spec == Init /\ [][Next]_vars

(* Every thread keeps getting the processor: in thread.c each is a kernel  *)
(* thread, in mtothread.c the SIGALRM scheduler is a round robin.          *)
Fairness == WF_vars(InitLock) /\ \A t \in Threads : WF_vars(ThreadStep(t))

FairSpec == Spec /\ Fairness

-----------------------------------------------------------------------------

Inside == {"load", "store", "unlock"}

TypeOK ==
  /\ value \in Int
  /\ main \in {"initlock", "running"}
  /\ pc \in [Threads -> {"idle", "lock"} \cup Inside]
  /\ round \in [Threads -> 0..Rounds]
  /\ glob \in Int
  /\ seen \in [Threads -> Int]

(* At most one thread is between thread_lock and thread_unlock, although   *)
(* testing and setting the word races in every spinning thread.            *)
MutualExclusion ==
  \A t, u \in Threads : pc[t] \in Inside /\ pc[u] \in Inside => t = u

(* No increment of test11.c is lost: the counter a thread has loaded is    *)
(* still the counter when it stores.                                       *)
FreshRead == \A t \in Threads : pc[t] = "store" => seen[t] = glob

(* Each thread finishes its rounds, however the threads contend: a release *)
(* is never missed by a spinning thread.                                   *)
Termination == <>(\A t \in Threads : pc[t] = "idle" /\ round[t] = Rounds)

-----------------------------------------------------------------------------

(* The spin lock implements the abstract lock.                             *)
Phase ==
  [t \in Threads |-> IF pc[t] \in Inside THEN "in"
                     ELSE IF pc[t] = "lock" THEN "waiting" ELSE "out"]

Lock == INSTANCE AbstractLock WITH phase <- Phase

ImplementsLock == Lock!FairSpec
=============================================================================

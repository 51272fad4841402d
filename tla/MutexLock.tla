----------------------------- MODULE MutexLock ------------------------------
(***************************************************************************)
(* The mutex (initmutexlock, thread_mutex_lock, thread_mutex_unlock), the  *)
(* same code in mtothread.c and thread.c, under clients that lock and      *)
(* unlock it Rounds times (test5.c) and may, at most Extras times in all,  *)
(* unlock it without having locked it.  Any clients may do so at any time; *)
(* orderly ones only when the word is 0: while the mutex is free and no    *)
(* other unlock is between its two writes.  (The clients in the repository *)
(* never do: for them Extras is 0.)                                        *)
(*                                                                         *)
(* The futex system call is modelled from its manual: FUTEX_WAIT puts the  *)
(* caller to sleep if its address argument is that of a word holding the   *)
(* expected value, FUTEX_WAKE wakes one sleeper of that word, and either   *)
(* returns at once with an error when the address is not that of a word.   *)
(***************************************************************************)
EXTENDS Integers

CONSTANTS
  Threads,   \* the threads main creates
  Rounds,    \* lock/unlock rounds of each thread
  Extras,    \* bound on the unlocks by threads that do not have the mutex
  Words,     \* what the lock's memory may hold when main calls initmutexlock
  LockAddr   \* the address of the lock word

ASSUME RoundsAssumption == Rounds \in Nat
ASSUME ExtrasAssumption == Extras \in Nat

(* No user mapping starts below vm.mmap_min_addr, 64 KiB by default.       *)
ASSUME AddrAssumption == LockAddr \in Int /\ LockAddr >= 65536

VARIABLES
  clients, \* "orderly" or "any"
  value,   \* threadmutexlock.value, an int
  main,    \* main is before "initmutexlock" or has the threads "running"
  pc,      \* where each thread is
  round,   \* rounds each thread has finished
  extras   \* unlocks so far by threads that did not have the mutex

vars == <<clients, value, main, pc, round, extras>>

(* xchg on the low byte of the word, as in the spin lock.                  *)
LowByte(w) == w % 256

(* Variants whose name has a suffix carry a bug that the properties find;  *)
(* no specification uses one.                                              *)
SetLowByte_TestOnly(w) == w
SetLowByte_Adds(w) == w + 1
SetLowByte(w) == w - LowByte(w) + 1

Init ==
  /\ clients \in {"orderly", "any"}
  /\ value \in Words
  /\ main = "initmutexlock"
  /\ pc = [t \in Threads |-> "idle"]
  /\ round = [t \in Threads |-> 0]
  /\ extras = 0

(* initmutexlock zeroes memory of its own, not the caller's lock.          *)
InitMutexLock ==
  /\ main = "initmutexlock"
  /\ main' = "running"
  /\ UNCHANGED <<clients, value, pc, round, extras>>

CallLock(t) ==
  /\ main = "running"
  /\ pc[t] = "idle"
  /\ round[t] < Rounds
  /\ pc' = [pc EXCEPT ![t] = "test"]
  /\ UNCHANGED <<clients, value, main, round, extras>>

(* The condition of the while loop of thread_mutex_lock.                   *)
TestAndSet(t) ==
  /\ pc[t] = "test"
  /\ value' = SetLowByte(value)
  /\ pc' = [pc EXCEPT ![t] = IF LowByte(value) = 0 THEN "in" ELSE "futex"]
  /\ UNCHANGED <<clients, main, round, extras>>

(* The address both futex calls pass: the lock's value, not its address.   *)
(* The variant passes what the comments mean.                              *)
FutexArg_Address == LockAddr
FutexArg == value

Asleep == {t \in Threads : pc[t] = "asleep"}

(* The body of the loop: FUTEX_WAIT for a change from the value 1.         *)
FutexWait(t) ==
  /\ pc[t] = "futex"
  /\ pc' = [pc EXCEPT ![t] = IF FutexArg = LockAddr /\ value = 1
                             THEN "asleep" ELSE "test"]
  /\ UNCHANGED <<clients, value, main, round, extras>>

(* thread_mutex_unlock: a thread that finds 1 returns, any other goes on   *)
(* to store 0.  Each thread does so at most once before somebody stores 0, *)
(* so that the word stays far from the smallest int.                       *)
AfterFetchSub_Returns(w) == "idle"
AfterFetchSub(w) == IF w = 1 THEN "idle" ELSE "reset"

AtomicFetchSub(t) ==
  /\ value' = value - 1
  /\ pc' = [pc EXCEPT ![t] = AfterFetchSub(value)]

(* The caller has done its work and unlocks the mutex.                     *)
FetchSub(t) ==
  /\ pc[t] = "in"
  /\ AtomicFetchSub(t)
  /\ round' = [round EXCEPT ![t] = @ + 1]
  /\ UNCHANGED <<clients, main, extras>>

(* The same call from a thread that does not have the mutex: it is free,   *)
(* or another thread has it or is unlocking it.                            *)
ExtraFetchSub(t) ==
  /\ main = "running"
  /\ pc[t] = "idle"
  /\ extras < Extras
  /\ clients = "orderly" => value = 0
  /\ AtomicFetchSub(t)
  /\ extras' = extras + 1
  /\ UNCHANGED <<clients, main, round>>

(* The value was not 1: store 0 ...                                        *)
Reset(t) ==
  /\ pc[t] = "reset"
  /\ value' = 0
  /\ pc' = [pc EXCEPT ![t] = "wake"]
  /\ UNCHANGED <<clients, main, round, extras>>

(* ... and FUTEX_WAKE one sleeper.                                         *)
FutexWake(t) ==
  /\ pc[t] = "wake"
  /\ \E woken \in IF FutexArg = LockAddr /\ Asleep # {}
                  THEN {{u} : u \in Asleep} ELSE {{}} :
       pc' = [u \in Threads |-> IF u = t THEN "idle"
                                ELSE IF u \in woken THEN "test" ELSE pc[u]]
  /\ UNCHANGED <<clients, value, main, round, extras>>

ThreadStep(t) ==
  \/ CallLock(t) \/ TestAndSet(t) \/ FutexWait(t)
  \/ FetchSub(t) \/ Reset(t) \/ FutexWake(t)

Next ==
  \/ InitMutexLock
  \/ \E t \in Threads : ThreadStep(t) \/ ExtraFetchSub(t)

Spec == Init /\ [][Next]_vars

(* Every thread keeps getting the processor; no thread has to make the     *)
(* extra call.                                                             *)
Fairness == WF_vars(InitMutexLock) /\ \A t \in Threads : WF_vars(ThreadStep(t))

FairSpec == Spec /\ Fairness

-----------------------------------------------------------------------------

TypeOK ==
  /\ clients \in {"orderly", "any"}
  /\ value \in Int /\ value =< 1
  /\ main \in {"initmutexlock", "running"}
  /\ pc \in [Threads -> {"idle", "test", "futex", "asleep", "in", "reset", "wake"}]
  /\ round \in [Threads -> 0..Rounds]
  /\ extras \in 0..Extras

(* Whoever unlocks the mutex, and whenever: a word that tells others to    *)
(* wait is never left behind.  While it is 1 a thread has the mutex, and   *)
(* while it is negative a thread is about to store 0.                      *)
SomebodyFrees ==
  /\ value = 1 => \E t \in Threads : pc[t] = "in"
  /\ value < 0 => \E t \in Threads : pc[t] = "reset"

(* With orderly clients at most one thread has the mutex, also while an    *)
(* unlock of the free mutex is between its atomic_fetch_sub and its plain  *)
(* store of 0.                                                             *)
MutualExclusion ==
  clients = "orderly" =>
    \A t, u \in Threads : (pc[t] = "in" /\ pc[u] = "in" => t = u)

(* With orderly clients the word is 1 exactly while a thread has the mutex *)
(* and 0 exactly while the mutex is free, except during an unlock of the   *)
(* free mutex: its store of 0 does not release a lock taken in between,    *)
(* because none can be.                                                    *)
WordTellsHolder ==
  clients = "orderly" =>
    \/ \E t \in Threads : pc[t] = "reset"
    \/ /\ value \in {0, 1}
       /\ value = 1 <=> \E t \in Threads : pc[t] = "in"

(* No thread ever sleeps in futex, although a comment says that it blocks  *)
(* the thread (mtothread.c:41): the kernel never finds the lock's word at  *)
(* the address it is given.  A sleeper would sleep on, because an unlock   *)
(* that finds the value 1 wakes nobody.                                    *)
NobodySleeps == Asleep = {}

(* Every thread finishes its rounds, whoever else unlocks the mutex.       *)
(* unlock wakes nobody on its usual path, which is harmless only because   *)
(* lock never puts a thread to sleep.                                      *)
Termination == <>(\A t \in Threads : pc[t] = "idle" /\ round[t] = Rounds)

-----------------------------------------------------------------------------

(* With orderly clients the mutex implements the abstract lock; the reset  *)
(* and the wake-up of an unlock happen outside.  Of other clients nothing  *)
(* is said: for them the abstract lock is one that nobody asks for.        *)
Phase ==
  [t \in Threads |-> IF clients = "any" THEN "out"
                     ELSE IF pc[t] = "in" THEN "in"
                     ELSE IF pc[t] \in {"test", "futex", "asleep"}
                          THEN "waiting" ELSE "out"]

Lock == INSTANCE AbstractLock WITH phase <- Phase

ImplementsLock == Lock!FairSpec
=============================================================================

--------------------------- MODULE SpinLockProofs ---------------------------
(***************************************************************************)
(* The spin lock for any set of threads and any number of rounds: it is    *)
(* well-typed whatever the lock's memory held, and if that was zeroed it   *)
(* excludes, loses no increment and implements the abstract lock.          *)
(***************************************************************************)
EXTENDS SpinLock, TLAPS

(* A thread that has called thread_lock is in one of its rounds.           *)
InRound == \A t \in Threads : pc[t] # "idle" => round[t] < Rounds

TInv == TypeOK /\ InRound

(* TInv holds at first, before main has called anything.                   *)
LEMMA TypeInit == Init => TInv
  BY RoundsAssumption, WordsAssumption DEF Init, TInv, TypeOK, InRound

(* Every step of main or of a thread keeps TInv.                           *)
LEMMA TypeStep == TInv /\ [Next]_vars => TInv'
<1> SUFFICES ASSUME TInv, [Next]_vars PROVE TInv'
  OBVIOUS
<1> USE RoundsAssumption DEF TInv, TypeOK, InRound, Inside
<1>1. CASE InitLock
  BY <1>1 DEF InitLock
<1>2. ASSUME NEW t \in Threads, CallLock(t) PROVE TInv'
  BY <1>2 DEF CallLock, MoreRounds
<1>3. ASSUME NEW t \in Threads, TestAndSet(t) PROVE TInv'
  <2>1. SetLowByte(value) \in Int
    BY DEF SetLowByte, LowByte
  <2> QED
    BY <1>3, <2>1 DEF TestAndSet
<1>4. ASSUME NEW t \in Threads, Load(t) PROVE TInv'
  BY <1>4 DEF Load
<1>5. ASSUME NEW t \in Threads, Store(t) PROVE TInv'
  BY <1>5 DEF Store
<1>6. ASSUME NEW t \in Threads, Unlock(t) PROVE TInv'
  BY <1>6 DEF Unlock, Unlocked
<1>7. CASE UNCHANGED vars
  BY <1>7 DEF vars
<1> QED
  BY <1>1, <1>2, <1>3, <1>4, <1>5, <1>6, <1>7 DEF Next, ThreadStep

(* Type correctness of the spin lock and its clients.                      *)
THEOREM TypeCorrect == Spec => []TypeOK
<1>1. TInv => TypeOK
  BY DEF TInv
<1> QED
  BY <1>1, TypeInit, TypeStep, PTL DEF Spec

-----------------------------------------------------------------------------

(* The lock word is 0 or 1, and 0 only while no thread is inside.  A       *)
(* thread_lock that finds the low byte clear finds the word 0, and makes   *)
(* it 1 in the same step.                                                  *)
WordTellsHolder ==
  /\ value \in {0, 1}
  /\ \A t \in Threads : pc[t] \in Inside => value = 1

LInv == TInv /\ WordTellsHolder /\ MutualExclusion /\ FreshRead

(* What the byte operation does to the two values the word ever has.       *)
LEMMA Bytes ==
  /\ LowByte(0) = 0 /\ LowByte(1) = 1
  /\ SetLowByte(0) = 1 /\ SetLowByte(1) = 1
  BY DEF LowByte, SetLowByte

(* LInv holds at first if the lock's memory is zero.                       *)
LEMMA LockInit == ASSUME Words = {0} PROVE Init => LInv
  BY TypeInit DEF Init, LInv, WordTellsHolder, MutualExclusion, FreshRead, Inside

(* Every step keeps LInv.                                                  *)
LEMMA LockStep == LInv /\ [Next]_vars => LInv'
<1> SUFFICES ASSUME LInv, [Next]_vars PROVE LInv'
  OBVIOUS
<1>0. TInv'
  BY TypeStep DEF LInv
<1> USE <1>0 DEF LInv, TInv, TypeOK, WordTellsHolder, MutualExclusion,
                 FreshRead, Inside
<1>1. CASE InitLock
  BY <1>1 DEF InitLock
<1>2. ASSUME NEW t \in Threads, CallLock(t) PROVE LInv'
  BY <1>2 DEF CallLock, MoreRounds
<1>3. ASSUME NEW t \in Threads, TestAndSet(t) PROVE LInv'
  <2>1. CASE value = 0
    <3>1. value' = 1 /\ pc' = [pc EXCEPT ![t] = "load"]
      BY <1>3, <2>1, Bytes DEF TestAndSet
    <3>2. \A u \in Threads : pc[u] \notin Inside
      BY <2>1
    <3> QED
      BY <1>3, <3>1, <3>2 DEF TestAndSet
  <2>2. CASE value = 1
    <3>0. LowByte(value) # 0 /\ SetLowByte(value) = 1
      BY <2>2, Bytes
    <3>1. value' = 1 /\ pc' = [pc EXCEPT ![t] = "lock"]
      BY <1>3, <3>0 DEF TestAndSet
    <3> QED
      BY <1>3, <3>1 DEF TestAndSet
  <2> QED
    BY <2>1, <2>2
<1>4. ASSUME NEW t \in Threads, Load(t) PROVE LInv'
  BY <1>4 DEF Load
<1>5. ASSUME NEW t \in Threads, Store(t) PROVE LInv'
  BY <1>5 DEF Store
<1>6. ASSUME NEW t \in Threads, Unlock(t) PROVE LInv'
  BY <1>6 DEF Unlock, Unlocked
<1>7. CASE UNCHANGED vars
  BY <1>7 DEF vars
<1> QED
  BY <1>1, <1>2, <1>3, <1>4, <1>5, <1>6, <1>7 DEF Next, ThreadStep

(* On zeroed memory at most one thread is between thread_lock and          *)
(* thread_unlock.                                                          *)
THEOREM Exclusion == ASSUME Words = {0} PROVE Spec => []MutualExclusion
<1>1. LInv => MutualExclusion
  BY DEF LInv
<1> QED
  BY <1>1, LockInit, LockStep, PTL DEF Spec

(* The counter a thread is about to store is the counter it has loaded.    *)
THEOREM NoStaleRead == ASSUME Words = {0} PROVE Spec => []FreshRead
<1>1. LInv => FreshRead
  BY DEF LInv
<1> QED
  BY <1>1, LockInit, LockStep, PTL DEF Spec

-----------------------------------------------------------------------------

(* The initial state maps to that of the abstract lock.                    *)
LEMMA RefinesInit == Init => Lock!Init
  BY DEF Init, Lock!Init, Phase, Inside

(* A step of the spin lock is a step of the abstract lock, or leaves the   *)
(* phase of every thread as it is.                                         *)
LEMMA RefinesStep == LInv /\ [Next]_vars => [Lock!Next]_Phase
<1> SUFFICES ASSUME LInv, [Next]_vars PROVE [Lock!Next]_Phase
  OBVIOUS
<1> USE DEF LInv, TInv, TypeOK, WordTellsHolder, Phase, Inside
<1>1. CASE InitLock
  BY <1>1 DEF InitLock
<1>2. ASSUME NEW t \in Threads, CallLock(t) PROVE Lock!Request(t)
  BY <1>2 DEF CallLock, MoreRounds, Lock!Request
<1>3. ASSUME NEW t \in Threads, TestAndSet(t)
      PROVE  Lock!Acquire(t) \/ UNCHANGED Phase
  <2>1. CASE value = 0
    <3>1. pc' = [pc EXCEPT ![t] = "load"] /\ pc[t] = "lock"
      BY <1>3, <2>1, Bytes DEF TestAndSet
    <3>2. Lock!In = {}
      BY <2>1 DEF Lock!In
    <3> QED
      BY <3>1, <3>2 DEF Lock!Acquire
  <2>2. CASE value = 1
    BY <1>3, <2>2, Bytes DEF TestAndSet
  <2> QED
    BY <2>1, <2>2
<1>4. ASSUME NEW t \in Threads, Load(t) \/ Store(t) PROVE UNCHANGED Phase
  BY <1>4 DEF Load, Store
<1>5. ASSUME NEW t \in Threads, Unlock(t) PROVE Lock!Release(t)
  BY <1>5 DEF Unlock, Unlocked, Lock!Release
<1>6. CASE UNCHANGED vars
  BY <1>6 DEF vars
<1> QED
  BY <1>1, <1>2, <1>3, <1>4, <1>5, <1>6 DEF Next, ThreadStep, Lock!Next

(* On zeroed memory the spin lock implements the abstract lock's safety    *)
(* part.                                                                   *)
THEOREM Refinement == ASSUME Words = {0} PROVE Spec => Lock!Spec
<1> QED
  BY RefinesInit, RefinesStep, LockInit, LockStep, PTL DEF Spec, Lock!Spec
=============================================================================

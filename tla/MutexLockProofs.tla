-------------------------- MODULE MutexLockProofs ---------------------------
(***************************************************************************)
(* The mutex on zeroed memory, for any set of threads and any number of    *)
(* rounds and of unlocks by threads that do not have it: first for clients *)
(* that unlock it at any time, then for orderly ones.                      *)
(***************************************************************************)
EXTENDS MutexLock, TLAPS

(* What the byte operation does to the word.                               *)
LEMMA ByteOfFree == LowByte(0) = 0 /\ SetLowByte(0) = 1
  BY DEF LowByte, SetLowByte

LEMMA ByteOfHeld == LowByte(1) = 1 /\ SetLowByte(1) = 1
  BY DEF LowByte, SetLowByte

LEMMA ByteOfNegative ==
  ASSUME NEW w \in Int, w < 0
  PROVE  SetLowByte(w) \in Int /\ SetLowByte(w) < 0
  BY DEF LowByte, SetLowByte

LEMMA ByteOfReset == LowByte(-1) = 255 /\ LowByte(-255) = 1
<1>1. -1 = 256 * (-1) + 255 /\ -255 = 256 * (-1) + 1
  OBVIOUS
<1>2. \A r \in 0..255 : (256 * (-1) + r) % 256 = r
  OBVIOUS
<1> QED
  BY <1>1, <1>2 DEF LowByte

-----------------------------------------------------------------------------
(* All clients.                                                            *)

(* A thread that has called thread_mutex_lock is in one of its rounds.     *)
InRound ==
  \A t \in Threads : pc[t] \in {"test", "futex", "asleep", "in"} => round[t] < Rounds

IInv == TypeOK /\ InRound /\ SomebodyFrees /\ NobodySleeps

(* The invariant holds when main begins.                                   *)
LEMMA InvInit == ASSUME Words = {0} PROVE Init => IInv
  BY RoundsAssumption, ExtrasAssumption
  DEF Init, IInv, TypeOK, InRound, SomebodyFrees, NobodySleeps, Asleep

(* An atomic_fetch_sub never leaves 1, and a negative word only if the     *)
(* caller is about to store 0.                                             *)
LEMMA FetchSubStep ==
  ASSUME TypeOK, NEW t \in Threads, AtomicFetchSub(t)
  PROVE  /\ value' \in Int /\ value' =< 0
         /\ value' < 0 => pc'[t] = "reset"
  BY DEF TypeOK, AtomicFetchSub, AfterFetchSub

(* Every step of main or of a thread keeps the invariant.                  *)
LEMMA InvStep == IInv /\ [Next]_vars => IInv'
<1> SUFFICES ASSUME IInv, [Next]_vars PROVE IInv'
  OBVIOUS
<1> USE RoundsAssumption, ExtrasAssumption
    DEF IInv, TypeOK, InRound, SomebodyFrees, NobodySleeps, Asleep
<1>1. CASE InitMutexLock
  BY <1>1 DEF InitMutexLock
<1>2. ASSUME NEW t \in Threads, CallLock(t) PROVE IInv'
  BY <1>2 DEF CallLock
<1>3. ASSUME NEW t \in Threads, TestAndSet(t) PROVE IInv'
  <2>1. CASE value = 0
    <3>1. value' = 1 /\ pc' = [pc EXCEPT ![t] = "in"]
      BY <1>3, <2>1, ByteOfFree DEF TestAndSet
    <3> QED
      BY <1>3, <3>1 DEF TestAndSet
  <2>2. CASE value = 1
    <3>1. value' = 1 /\ pc' = [pc EXCEPT ![t] = "futex"] /\ pc[t] = "test"
      <4>1. value' = SetLowByte(1) /\ pc[t] = "test"
        BY <1>3, <2>2 DEF TestAndSet
      <4>2. LowByte(value) # 0
        BY <2>2, ByteOfHeld
      <4> QED
        BY <1>3, <4>1, <4>2, ByteOfHeld DEF TestAndSet
    <3>2. PICK u \in Threads : pc[u] = "in"
      BY <2>2
    <3>3. pc'[u] = "in"
      BY <3>1, <3>2
    <3> QED
      BY <1>3, <2>2, <3>1, <3>3 DEF TestAndSet
  <2>3. CASE value < 0
    <3>1. value' \in Int /\ value' < 0
      BY <1>3, <2>3, ByteOfNegative DEF TestAndSet
    <3>2. PICK p \in {"in", "futex"} : pc' = [pc EXCEPT ![t] = p]
      BY <1>3 DEF TestAndSet
    <3> QED
      BY <1>3, <2>3, <3>1, <3>2 DEF TestAndSet
  <2> QED
    BY <2>1, <2>2, <2>3
<1>4. ASSUME NEW t \in Threads, FutexWait(t) PROVE IInv'
  <2>1. FutexArg # LockAddr
    BY AddrAssumption DEF FutexArg
  <2>2. pc' = [pc EXCEPT ![t] = "test"]
    BY <1>4, <2>1 DEF FutexWait
  <2> QED
    BY <1>4, <2>2 DEF FutexWait
<1>5. ASSUME NEW t \in Threads, FetchSub(t) PROVE IInv'
  <2>1. AtomicFetchSub(t) /\ UNCHANGED <<clients, main, extras>>
    BY <1>5 DEF FetchSub
  <2>2. value' \in Int /\ value' =< 0 /\ (value' < 0 => pc'[t] = "reset")
    BY <2>1, FetchSubStep
  <2>3. PICK p \in {"idle", "reset"} : pc' = [pc EXCEPT ![t] = p]
    BY <2>1 DEF AtomicFetchSub, AfterFetchSub
  <2>4. round' \in [Threads -> 0..Rounds]
        /\ \A u \in Threads : u # t => round'[u] = round[u]
    BY <1>5 DEF FetchSub
  <2>5. TypeOK'
    <3>1. clients' = clients /\ main' = main /\ extras' = extras
      BY <2>1
    <3>2. pc' \in [Threads -> {"idle", "test", "futex", "asleep", "in",
                               "reset", "wake"}]
      BY <2>3
    <3> QED
      BY <2>2, <2>4, <3>1, <3>2
  <2>6. InRound'
    BY <2>3, <2>4
  <2> QED
    BY <2>2, <2>3, <2>5, <2>6
<1>6. ASSUME NEW t \in Threads, ExtraFetchSub(t) PROVE IInv'
  <2>1. AtomicFetchSub(t) /\ UNCHANGED <<clients, main, round>>
        /\ extras' \in 0..Extras
    BY <1>6 DEF ExtraFetchSub
  <2>2. value' \in Int /\ value' =< 0 /\ (value' < 0 => pc'[t] = "reset")
    BY <2>1, FetchSubStep
  <2>3. PICK p \in {"idle", "reset"} : pc' = [pc EXCEPT ![t] = p]
    BY <2>1 DEF AtomicFetchSub, AfterFetchSub
  <2> QED
    BY <2>1, <2>2, <2>3
<1>7. ASSUME NEW t \in Threads, Reset(t) PROVE IInv'
  BY <1>7 DEF Reset
<1>8. ASSUME NEW t \in Threads, FutexWake(t) PROVE IInv'
  <2>1. pc' = [u \in Threads |-> IF u = t THEN "idle" ELSE pc[u]]
    BY <1>8 DEF FutexWake
  <2> QED
    BY <1>8, <2>1 DEF FutexWake
<1>9. CASE UNCHANGED vars
  BY <1>9 DEF vars
<1> QED
  BY <1>1, <1>2, <1>3, <1>4, <1>5, <1>6, <1>7, <1>8, <1>9 DEF Next, ThreadStep

(* The invariant is an invariant.                                          *)
LEMMA Invariant == ASSUME Words = {0} PROVE Spec => []IInv
  BY InvInit, InvStep, PTL DEF Spec

(* Type correctness, with any clients; in particular the word never        *)
(* exceeds 1.                                                              *)
THEOREM TypeCorrect == ASSUME Words = {0} PROVE Spec => []TypeOK
<1>1. IInv => TypeOK
  BY DEF IInv
<1> QED
  BY <1>1, Invariant, PTL

(* With any clients, a word that tells others to wait is never left        *)
(* behind.                                                                 *)
THEOREM NeverAbandoned == ASSUME Words = {0} PROVE Spec => []SomebodyFrees
<1>1. IInv => SomebodyFrees
  BY DEF IInv
<1> QED
  BY <1>1, Invariant, PTL

(* With any clients, no thread sleeps in futex, whatever the address of    *)
(* the lock.                                                               *)
THEOREM Sleepless == ASSUME Words = {0} PROVE Spec => []NobodySleeps
<1>1. IInv => NobodySleeps
  BY DEF IInv
<1> QED
  BY <1>1, Invariant, PTL

-----------------------------------------------------------------------------
(* Orderly clients.                                                        *)

Held == \E t \in Threads : pc[t] = "in"
Resetting == \E t \in Threads : pc[t] = "reset"

(* The word tells the holder, and while an unlock of the free mutex has    *)
(* the word negative nobody else is in the lock or in such an unlock.      *)
OneOwner ==
  /\ value \in {0, 1, -1, -255}
  /\ Held <=> value = 1
  /\ Resetting <=> value \in {-1, -255}
  /\ \A t, u \in Threads :
       pc[t] \in {"in", "reset"} /\ pc[u] \in {"in", "reset"} => t = u

OInv == IInv /\ (clients = "orderly" => OneOwner)

(* The test-and-set on the values the word has with orderly clients.       *)
LEMMA Bytes ==
  ASSUME NEW w \in {0, 1, -1, -255}
  PROVE  /\ LowByte(w) = 0 <=> w = 0
         /\ SetLowByte(w) = IF w \in {0, 1} THEN 1 ELSE -255
  BY ByteOfFree, ByteOfHeld, ByteOfReset DEF SetLowByte

LEMMA OrderlyInit == ASSUME Words = {0} PROVE Init => OInv
<1>1. Init => OneOwner
  BY DEF Init, OneOwner, Held, Resetting
<1> QED
  BY <1>1, InvInit DEF OInv

(* Every step keeps the mutex with one owner.                              *)
LEMMA OrderlyStep == OInv /\ [Next]_vars => OInv'
<1>0. clients' = clients \/ ~[Next]_vars
  BY DEF Next, ThreadStep, vars, InitMutexLock, CallLock, TestAndSet, FutexWait,
         FetchSub, ExtraFetchSub, Reset, FutexWake
<1> SUFFICES ASSUME OInv, [Next]_vars, clients = "orderly" PROVE OneOwner'
  BY <1>0, InvStep DEF OInv
<1> USE DEF OInv, IInv, TypeOK, OneOwner, Held, Resetting
<1>1. CASE InitMutexLock
  BY <1>1 DEF InitMutexLock
<1>2. ASSUME NEW t \in Threads, CallLock(t) PROVE OneOwner'
  BY <1>2 DEF CallLock
<1>3. ASSUME NEW t \in Threads, TestAndSet(t) PROVE OneOwner'
  <2>1. CASE value = 0
    <3>1. value' = 1 /\ pc' = [pc EXCEPT ![t] = "in"]
      BY <1>3, <2>1, Bytes DEF TestAndSet
    <3>2. \A u \in Threads : pc[u] \notin {"in", "reset"}
      BY <2>1
    <3> QED
      BY <1>3, <3>1, <3>2 DEF TestAndSet
  <2>2. CASE value # 0
    <3>1. LowByte(value) # 0
      BY <2>2, Bytes
    <3>2. pc' = [pc EXCEPT ![t] = "futex"]
      BY <1>3, <3>1 DEF TestAndSet
    <3>3. value' = IF value = 1 THEN 1 ELSE -255
      BY <1>3, <2>2, Bytes DEF TestAndSet
    <3> QED
      BY <1>3, <2>2, <3>2, <3>3 DEF TestAndSet
  <2> QED
    BY <2>1, <2>2
<1>4. ASSUME NEW t \in Threads, FutexWait(t) PROVE OneOwner'
  <2>1. PICK p \in {"asleep", "test"} : pc' = [pc EXCEPT ![t] = p]
    BY <1>4 DEF FutexWait
  <2> QED
    BY <1>4, <2>1 DEF FutexWait
<1>5. ASSUME NEW t \in Threads, FetchSub(t) PROVE OneOwner'
  <2>1. value = 1
    BY <1>5 DEF FetchSub
  <2>2. value' = 0 /\ pc' = [pc EXCEPT ![t] = "idle"]
    BY <1>5, <2>1 DEF FetchSub, AtomicFetchSub, AfterFetchSub
  <2> QED
    BY <1>5, <2>1, <2>2 DEF FetchSub
<1>6. ASSUME NEW t \in Threads, ExtraFetchSub(t) PROVE OneOwner'
  <2>1. value' = -1 /\ pc' = [pc EXCEPT ![t] = "reset"]
    BY <1>6 DEF ExtraFetchSub, AtomicFetchSub, AfterFetchSub
  <2>2. \A u \in Threads : pc[u] \notin {"in", "reset"}
    BY <1>6 DEF ExtraFetchSub
  <2> QED
    BY <2>1, <2>2
<1>7. ASSUME NEW t \in Threads, Reset(t) PROVE OneOwner'
  <2>1. \A u \in Threads \ {t} : pc[u] \notin {"in", "reset"}
    BY <1>7 DEF Reset
  <2> QED
    BY <1>7, <2>1 DEF Reset
<1>8. ASSUME NEW t \in Threads, FutexWake(t) PROVE OneOwner'
  <2>1. pc' = [u \in Threads |-> IF u = t THEN "idle" ELSE pc[u]]
    BY <1>8 DEF FutexWake, NobodySleeps
  <2> QED
    BY <1>8, <2>1 DEF FutexWake
<1>9. CASE UNCHANGED vars
  BY <1>9 DEF vars
<1> QED
  BY <1>1, <1>2, <1>3, <1>4, <1>5, <1>6, <1>7, <1>8, <1>9
  DEF Next, ThreadStep

(* The invariant is an invariant.                                          *)
LEMMA OrderlyInvariant == ASSUME Words = {0} PROVE Spec => []OInv
  BY OrderlyInit, OrderlyStep, PTL DEF Spec

(* With orderly clients at most one thread has the mutex, whatever unlocks *)
(* of the free mutex come in between.                                      *)
THEOREM Exclusion == ASSUME Words = {0} PROVE Spec => []MutualExclusion
<1>1. OInv => MutualExclusion
  BY DEF OInv, OneOwner, MutualExclusion
<1> QED
  BY <1>1, OrderlyInvariant, PTL

(* With orderly clients the word is 1 exactly while the mutex is held.     *)
THEOREM WordCorrect == ASSUME Words = {0} PROVE Spec => []WordTellsHolder
<1>1. OInv => WordTellsHolder
  BY DEF OInv, OneOwner, Held, Resetting, WordTellsHolder
<1> QED
  BY <1>1, OrderlyInvariant, PTL

-----------------------------------------------------------------------------

(* The initial state maps to that of the abstract lock.                    *)
LEMMA RefinesInit == Init => Lock!Init
  BY DEF Init, Lock!Init, Phase

(* A step of the mutex is a step of the abstract lock or changes nothing   *)
(* of it.                                                                  *)
LEMMA RefinesStep == OInv /\ [Next]_vars => [Lock!Next]_Phase
<1>0. clients' = clients \/ ~[Next]_vars
  BY DEF Next, ThreadStep, vars, InitMutexLock, CallLock, TestAndSet, FutexWait,
         FetchSub, ExtraFetchSub, Reset, FutexWake
<1>x. ASSUME [Next]_vars, clients = "any" PROVE UNCHANGED Phase
  BY <1>0, <1>x DEF Phase
<1> SUFFICES ASSUME OInv, [Next]_vars, clients = "orderly" PROVE [Lock!Next]_Phase
  BY <1>x DEF OInv, IInv, TypeOK
<1> USE DEF OInv, IInv, TypeOK, OneOwner, NobodySleeps, Asleep, Held, Resetting, Phase
<1>1. CASE InitMutexLock
  BY <1>1 DEF InitMutexLock
<1>2. ASSUME NEW t \in Threads, CallLock(t) PROVE Lock!Request(t)
  BY <1>2 DEF CallLock, Lock!Request
<1>3. ASSUME NEW t \in Threads, TestAndSet(t)
      PROVE  Lock!Acquire(t) \/ UNCHANGED Phase
  <2>1. CASE value = 0
    <3>1. pc' = [pc EXCEPT ![t] = "in"] /\ pc[t] = "test" /\ clients' = clients
      BY <1>3, <2>1, Bytes DEF TestAndSet
    <3>2. Lock!In = {}
      BY <2>1 DEF Lock!In
    <3> QED
      BY <3>1, <3>2 DEF Lock!Acquire
  <2>2. CASE value # 0
    <3>1. LowByte(value) # 0
      BY <2>2, Bytes
    <3> QED
      BY <1>3, <3>1 DEF TestAndSet
  <2> QED
    BY <2>1, <2>2
<1>4. ASSUME NEW t \in Threads, FutexWait(t) PROVE UNCHANGED Phase
  BY <1>4 DEF FutexWait
<1>5. ASSUME NEW t \in Threads, FetchSub(t) PROVE Lock!Release(t)
  <2>1. pc[t] = "in" /\ pc' = [pc EXCEPT ![t] = "idle"] /\ clients' = clients
    BY <1>5 DEF FetchSub, AtomicFetchSub, AfterFetchSub
  <2> QED
    BY <2>1 DEF Lock!Release
<1>6. ASSUME NEW t \in Threads, ExtraFetchSub(t) \/ Reset(t) PROVE UNCHANGED Phase
  <2>1. PICK p \in {"idle", "reset", "wake"} : pc' = [pc EXCEPT ![t] = p]
    BY <1>6 DEF ExtraFetchSub, AtomicFetchSub, AfterFetchSub, Reset
  <2>2. pc[t] \in {"idle", "reset"} /\ clients' = clients
    BY <1>6 DEF ExtraFetchSub, Reset
  <2> QED
    BY <2>1, <2>2
<1>7. ASSUME NEW t \in Threads, FutexWake(t) PROVE UNCHANGED Phase
  <2>1. pc' = [u \in Threads |-> IF u = t THEN "idle" ELSE pc[u]]
    BY <1>7 DEF FutexWake
  <2> QED
    BY <1>7, <2>1 DEF FutexWake
<1>8. CASE UNCHANGED vars
  BY <1>8 DEF vars
<1> QED
  BY <1>1, <1>2, <1>3, <1>4, <1>5, <1>6, <1>7, <1>8
  DEF Next, ThreadStep, Lock!Next

(* With orderly clients the mutex implements the abstract lock's safety    *)
(* part.                                                                   *)
THEOREM Refinement == ASSUME Words = {0} PROVE Spec => Lock!Spec
  BY RefinesInit, RefinesStep, OrderlyInvariant, PTL DEF Spec, Lock!Spec
=============================================================================

-------------------------- MODULE OTOThreadsProofs --------------------------
(***************************************************************************)
(* The one-to-one library for any threads and bounds: types, stacks and    *)
(* return values for any creators, then, where only main creates threads   *)
(* and no kernel id comes round again, the list with the searches that run *)
(* through it while enqueue stores, and what thread_join answers.          *)
(*                                                                         *)
(* The first invariants say what a thread in the middle of a call holds on *)
(* to: the thread_s in its hands has been allocated, the thread that clone *)
(* is about to start does not run yet, and whoever is about to store a     *)
(* return value is the only one.  Then kernel ids (DInv), the list as far  *)
(* as enqueue has stored it (LInv), what a thread's place in a call says   *)
(* of the call (CInv), and how far a thread has got with its end (EInv).   *)
(***************************************************************************)
EXTENDS OTOThreads, ListWalkProofs

Labels ==
  {"user", "unborn", "alloc", "clone", "setid", "enqTest", "enqHead", "enqLink",
   "enqTail", "joinFind", "joinTest", "joinSpin", "joinRead", "kill",
   "exitFind", "exitTest", "exitSet", "end", "dead"}

(* Where a thread has a thread_s in its hands, and where one for argument. *)
Creating == {"clone", "setid", "enqTest", "enqHead", "enqLink", "enqTail"}
Joiners == {"joinTest", "joinSpin", "joinRead"}
Exiting == {"exitTest", "exitSet"}
Holding == Creating \cup Joiners \cup Exiting

(* Type correctness and what is in a thread's hands: past malloc and past  *)
(* a search that found something it is a thread_s, clone has a stack that  *)
(* was mmapped, and thread_join and thread_kill were given a thread.       *)
TInv ==
  /\ TypeOK
  /\ pc \in [Actors -> Labels]
  /\ \A a \in Actors :
       /\ pc[a] \in Holding => slot[a] \in Slots
       /\ pc[a] = "clone" => stackTop \in Slots
       /\ pc[a] \in Joiners \cup {"joinFind", "kill"} => call[a].arg \in Slots

-----------------------------------------------------------------------------

(* The kernel id clone hands out is one that no thread has (the counter    *)
(* goes on from the last one and wraps at pid_max).                        *)
LEMMA FreshIsFree ==
  ASSUME Free # {}
  PROVE  FreshId \in Free /\ FreshId \in 1..PidMax
<1>1. Free \subseteq 1..PidMax
  BY DEF Free
<1> DEFINE after == {i \in Free : i > last}
           from == IF after # {} THEN after ELSE Free
<1>2. from \subseteq Free /\ from # {}
  OBVIOUS
<1>3. from \in SUBSET Nat
  <2> HIDE DEF from
  <2> QED
    BY <1>1, <1>2, BoundsAssumption
<1>4. \E i \in from : \A j \in from : i <= j
  <2> HIDE DEF from
  <2> QED
    BY <1>2, <1>3, Least
<1>5. FreshId = CHOOSE i \in from : \A j \in from : i <= j
  BY DEF FreshId
<1>6. FreshId \in from
  <2> HIDE DEF from
  <2> QED
    BY <1>4, <1>5
<1> QED
  BY <1>1, <1>2, <1>6

(* The types hold when main is about to run.                               *)
LEMMA TypeInit == Init => TInv
<1> USE ActorsAssumption, BoundsAssumption
<1> QED
  BY DEF Init, TInv, TypeOK, Actors, Labels, NoCall, NoResult, Creating,
       Joiners,
         Exiting, Holding

(* Every step of every thread keeps the types: in thread_join and          *)
(* setretval because the loop over the queue stops at a thread_s or is     *)
(* told from the case that it finds none.                                  *)
LEMMA TypeStep == TInv /\ [Next]_vars => TInv'
<1> SUFFICES ASSUME TInv, [Next]_vars PROVE TInv'
  OBVIOUS
<1> USE ActorsAssumption, BoundsAssumption
<1> USE DEF Actors, Labels, Creating, Joiners, Exiting, Holding, At, Goto
<1>0. TypeOK /\ pc \in [Actors -> Labels]
  BY DEF TInv
<1>1. ASSUME MainReturns PROVE TInv'
  BY <1>1 DEF TInv, TypeOK, MainReturns, fields, list, kernel, history
<1>2. ASSUME NEW a \in Actors, CallCreate(a) PROVE TInv'
  BY <1>2 DEF TInv, TypeOK, CallCreate, StartCall, NoResult, fields, list,
       kernel, history
<1>3. ASSUME NEW a \in Actors, NEW s \in Slots, CallJoin(a, s) PROVE TInv'
  BY <1>3 DEF TInv, TypeOK, CallJoin, StartCall, NoResult, fields, list,
       kernel, history
<1>4. ASSUME NEW a \in Actors, NEW s \in Slots, CallKill(a, s) PROVE TInv'
  BY <1>4 DEF TInv, TypeOK, CallKill, StartCall, NoResult, fields, list,
       kernel, history
<1>5. ASSUME NEW s \in Slots, CallExit(s) PROVE TInv'
  BY <1>5 DEF TInv, TypeOK, CallExit, StartCall, NoResult, First, fields,
       list, kernel, history
<1>6. ASSUME NEW s \in Slots, ReturnFromRoutine(s) PROVE TInv'
  BY <1>6
       DEF TInv, TypeOK, ReturnFromRoutine, First, fields, list, kernel,
       history
<1>7. ASSUME NEW a \in Actors, NEW s \in Slots, Alloc(a, s) PROVE TInv'
  BY <1>7
       DEF TInv, TypeOK, Alloc, Unborn, fields, list, kernel, history
<1>8. ASSUME NEW a \in Actors, AllocFails(a) PROVE TInv'
  BY <1>8 DEF TInv, TypeOK, AllocFails, Reply, fields, list, kernel, history
<1>9. ASSUME NEW a \in Actors, Clone(a) PROVE TInv'
  BY <1>9, FreshIsFree
       DEF TInv, TypeOK, Clone, SetTid, fields, list, kernel, history
<1>10. ASSUME NEW a \in Actors, SetId(a) PROVE TInv'
  BY <1>10 DEF TInv, TypeOK, SetId, fields, list, kernel, history
<1>11. ASSUME NEW a \in Actors, EnqTest(a) PROVE TInv'
  BY <1>11 DEF TInv, TypeOK, EnqTest, fields, list, kernel, history
<1>12. ASSUME NEW a \in Actors, EnqHead(a) PROVE TInv'
  BY <1>12 DEF TInv, TypeOK, EnqHead, fields, list, kernel, history
<1>13. ASSUME NEW a \in Actors, EnqLink(a) PROVE TInv'
  BY <1>13 DEF TInv, TypeOK, EnqLink, fields, list, kernel, history
<1>14. ASSUME NEW a \in Actors, EnqTail(a) PROVE TInv'
  BY <1>14
       DEF TInv, TypeOK, EnqTail, NewTail, Reply, fields, list, kernel, history
<1>15. ASSUME NEW a \in Actors, JoinFind(a) PROVE TInv'
  <2> DEFINE id == t_id[call[a].arg]
  <2>1. /\ pc[a] = "joinFind"
        /\ UNCHANGED <<fields, list, stackTop, kernel, new, call, history>>
    BY <1>15 DEF JoinFind
  <2>2. CASE Finds(id)
    <3>1. Searched(id) \in Slots
      BY <2>2 DEF Finds, Hits
    <3>2. /\ slot' = [slot EXCEPT ![a] = Searched(id)] /\ result' = result
          /\ pc' = [pc EXCEPT ![a] = "joinTest"]
      BY <1>15, <2>2 DEF JoinFind
    <3> QED
      BY <2>1, <3>1, <3>2 DEF TInv, TypeOK, fields, list, kernel, history
  <2>3. CASE ~Finds(id)
    <3>1. /\ result' = [result EXCEPT ![a] = [code |-> "ESRCH", val |-> NULL]]
          /\ slot' = slot
          /\ pc' = [pc EXCEPT ![a] = "user"]
      BY <1>15, <2>3 DEF JoinFind, Reply
    <3> QED
      BY <2>1, <3>1 DEF TInv, TypeOK, fields, list, kernel, history
  <2> QED
    BY <2>2, <2>3
<1>16. ASSUME NEW a \in Actors, JoinTest(a) PROVE TInv'
  BY <1>16 DEF TInv, TypeOK, JoinTest, fields, list, kernel, history
<1>17. ASSUME NEW a \in Actors, JoinSpin(a) PROVE TInv'
  BY <1>17 DEF TInv, TypeOK, JoinSpin, fields, list, kernel, history
<1>18. ASSUME NEW a \in Actors, JoinRead(a) PROVE TInv'
  BY <1>18
       DEF TInv, TypeOK, JoinRead, Reply, Retval, fields, list, kernel, history
<1>19. ASSUME NEW a \in Actors, Kill(a) PROVE TInv'
  BY <1>19
       DEF TInv, TypeOK, Kill, Reply, KillCode, fields, list, kernel, history
<1>20. ASSUME NEW a \in Actors, Crash(a) PROVE TInv'
  BY <1>20 DEF TInv, TypeOK, Crash, fields, list, kernel, history
<1>21. ASSUME NEW s \in Slots, ExitFind(s) PROVE TInv'
  <2>1. /\ pc[s] = "exitFind"
        /\ UNCHANGED <<fields, list, stackTop, kernel, new, call, result, calls,
                       fails, known, final>>
    BY <1>21 DEF ExitFind
  <2>2. CASE Finds(tid[s])
    <3>1. Searched(tid[s]) \in Slots
      BY <2>2 DEF Finds, Hits
    <3>2. /\ slot' = [slot EXCEPT ![s] = Searched(tid[s])] /\ missed' = missed
          /\ pc' = [pc EXCEPT ![s] = "exitTest"]
      BY <1>21, <2>2 DEF ExitFind
    <3> QED
      BY <2>1, <3>1, <3>2 DEF TInv, TypeOK, fields, list, kernel
  <2>3. CASE ~Finds(tid[s])
    <3>1. /\ slot' = slot /\ missed' = missed \cup {s}
          /\ pc' = [pc EXCEPT ![s] = After(s)]
      BY <1>21, <2>3 DEF ExitFind
    <3>2. After(s) \in {"end", "user"}
      BY DEF After
    <3> QED
      BY <2>1, <3>1, <3>2 DEF TInv, TypeOK, fields, list, kernel
  <2> QED
    BY <2>2, <2>3
<1>22. ASSUME NEW s \in Slots, ExitTest(s) PROVE TInv'
  <2>1. /\ pc[s] = "exitTest"
        /\ UNCHANGED <<t_id, ret, waittid, list, stackTop, kernel, slot, new,
                       call, result, history>>
    BY <1>22 DEF ExitTest
  <2>2. CASE FirstExit(slot[s])
    <3>1. /\ state' = [state EXCEPT ![slot[s]] = "EXITED"]
          /\ pc' = [pc EXCEPT ![s] = "exitSet"]
      BY <1>22, <2>2 DEF ExitTest
    <3> QED
      BY <2>1, <3>1 DEF TInv, TypeOK, list, kernel, history
  <2>3. CASE ~FirstExit(slot[s])
    <3>1. state' = state /\ pc' = [pc EXCEPT ![s] = After(s)]
      BY <1>22, <2>3 DEF ExitTest
    <3>2. After(s) \in {"end", "user"}
      BY DEF After
    <3> QED
      BY <2>1, <3>1, <3>2 DEF TInv, TypeOK, list, kernel, history
  <2> QED
    BY <2>2, <2>3
<1>23. ASSUME NEW s \in Slots, ExitSet(s) PROVE TInv'
  BY <1>23 DEF TInv, TypeOK, ExitSet, After, fields, list, kernel, history
<1>24. ASSUME NEW s \in Slots, End(s) PROVE TInv'
  BY <1>24 DEF TInv, TypeOK, End, ClearTid, fields, list, kernel, history
<1>25. CASE UNCHANGED vars
  BY <1>25 DEF TInv, TypeOK, vars, fields, list, kernel, history
<1> QED
  BY <1>1, <1>2, <1>3, <1>4, <1>5, <1>6, <1>7, <1>8, <1>9, <1>10, <1>11,
       <1>12, <1>13, <1>14, <1>15, <1>16, <1>17, <1>18, <1>19, <1>20, <1>21,
       <1>22, <1>23, <1>24, <1>25
       DEF Next, Over, Program, Library, Create, Join, Exit

(* The variables of thread.c keep their types, for any threads, creators   *)
(* and bounds, in every program that calls the library.                    *)
THEOREM TypeCorrect == Spec => [](TInv /\ TypeOK)
<1>1. TInv => TypeOK
  BY DEF TInv
<1> QED
  BY <1>1, TypeInit, TypeStep, PTL DEF Spec

-----------------------------------------------------------------------------
(* Stacks.                                                                 *)

(* Only one thread creates threads.                                        *)
OneCreator == \A a, b \in Creators : a = b

(* Each thread has its own stack, and the global stackTop, which           *)
(* thread_create writes before clone and reads in its call, is still the   *)
(* one mmapped for the thread_s of that call.                              *)
SInv ==
  /\ \A a \in Actors : stack[a] = a
  /\ \A a \in Actors :
       /\ pc[a] \in Creating \cup {"alloc"} => a \in Creators
       /\ pc[a] = "clone" => stackTop = slot[a]

(* At first nobody is between malloc and clone.                            *)
LEMMA StackInit == Init => SInv
  BY ActorsAssumption DEF Init, SInv, Actors, Creating

(* With one creating thread no other thread_create comes between the store *)
(* into stackTop and the clone that reads it.                              *)
LEMMA StackStep == OneCreator /\ TInv /\ SInv /\ [Next]_vars => SInv'
<1> SUFFICES ASSUME OneCreator, TInv, SInv, [Next]_vars PROVE SInv'
  OBVIOUS
<1> USE DEF Actors, Labels, Creating, Joiners, Exiting, Holding, At, Goto
<1>0. TypeOK /\ pc \in [Actors -> Labels]
  BY DEF TInv
<1>1. ASSUME MainReturns PROVE SInv'
  BY <1>0, <1>1, ActorsAssumption
       DEF TInv, TypeOK, SInv, MainReturns, fields, list, kernel, history
<1>2. ASSUME NEW a \in Actors, CallCreate(a) PROVE SInv'
  BY <1>0, <1>2, ActorsAssumption DEF TInv, TypeOK, SInv, CallCreate,
       StartCall, fields, list, kernel, history
<1>3. ASSUME NEW a \in Actors, NEW s \in Slots, CallJoin(a, s) PROVE SInv'
  BY <1>0, <1>3, ActorsAssumption
       DEF TInv, TypeOK, SInv, CallJoin, StartCall, fields, list, kernel,
       history
<1>4. ASSUME NEW a \in Actors, NEW s \in Slots, CallKill(a, s) PROVE SInv'
  BY <1>0, <1>4, ActorsAssumption
       DEF TInv, TypeOK, SInv, CallKill, StartCall, fields, list, kernel,
       history
<1>5. ASSUME NEW s \in Slots, CallExit(s) PROVE SInv'
  BY <1>0, <1>5, ActorsAssumption
       DEF TInv, TypeOK, SInv, CallExit, StartCall, fields, list, kernel,
       history
<1>6. ASSUME NEW s \in Slots, ReturnFromRoutine(s) PROVE SInv'
  BY <1>0, <1>6, ActorsAssumption
       DEF TInv, TypeOK, SInv, ReturnFromRoutine, fields, list, kernel, history
<1>7. ASSUME NEW a \in Actors, NEW s \in Slots, Alloc(a, s) PROVE SInv'
  BY <1>0, <1>7, ActorsAssumption DEF TInv, TypeOK, SInv, Alloc,
       OneCreator, fields, list, kernel, history
<1>8. ASSUME NEW a \in Actors, AllocFails(a) PROVE SInv'
  BY <1>0, <1>8, ActorsAssumption
       DEF TInv, TypeOK, SInv, AllocFails, Reply, fields, list, kernel, history
<1>9. ASSUME NEW a \in Actors, Clone(a) PROVE SInv'
  BY <1>0, <1>9, ActorsAssumption
       DEF TInv, TypeOK, SInv, Clone, fields, list, kernel, history
<1>10. ASSUME NEW a \in Actors, SetId(a) PROVE SInv'
  BY <1>0, <1>10, ActorsAssumption
       DEF TInv, TypeOK, SInv, SetId, fields, list, kernel, history
<1>11. ASSUME NEW a \in Actors, EnqTest(a) PROVE SInv'
  BY <1>0, <1>11, ActorsAssumption
       DEF TInv, TypeOK, SInv, EnqTest, fields, list, kernel, history
<1>12. ASSUME NEW a \in Actors, EnqHead(a) PROVE SInv'
  BY <1>0, <1>12, ActorsAssumption
       DEF TInv, TypeOK, SInv, EnqHead, fields, list, kernel, history
<1>13. ASSUME NEW a \in Actors, EnqLink(a) PROVE SInv'
  BY <1>0, <1>13, ActorsAssumption
       DEF TInv, TypeOK, SInv, EnqLink, fields, list, kernel, history
<1>14. ASSUME NEW a \in Actors, EnqTail(a) PROVE SInv'
  BY <1>0, <1>14, ActorsAssumption
       DEF TInv, TypeOK, SInv, EnqTail, Reply, fields, list, kernel, history
<1>15. ASSUME NEW a \in Actors, JoinFind(a) PROVE SInv'
  BY <1>0, <1>15, ActorsAssumption
       DEF TInv, TypeOK, SInv, JoinFind, Reply, fields, list, kernel, history
<1>16. ASSUME NEW a \in Actors, JoinTest(a) PROVE SInv'
  BY <1>0, <1>16, ActorsAssumption
       DEF TInv, TypeOK, SInv, JoinTest, fields, list, kernel, history
<1>17. ASSUME NEW a \in Actors, JoinSpin(a) PROVE SInv'
  BY <1>0, <1>17, ActorsAssumption
       DEF TInv, TypeOK, SInv, JoinSpin, fields, list, kernel, history
<1>18. ASSUME NEW a \in Actors, JoinRead(a) PROVE SInv'
  BY <1>0, <1>18, ActorsAssumption
       DEF TInv, TypeOK, SInv, JoinRead, Reply, fields, list, kernel, history
<1>19. ASSUME NEW a \in Actors, Kill(a) PROVE SInv'
  BY <1>0, <1>19, ActorsAssumption
       DEF TInv, TypeOK, SInv, Kill, Reply, fields, list, kernel, history
<1>20. ASSUME NEW a \in Actors, Crash(a) PROVE SInv'
  BY <1>0, <1>20, ActorsAssumption
       DEF TInv, TypeOK, SInv, Crash, fields, list, kernel, history
<1>21. ASSUME NEW s \in Slots, ExitFind(s) PROVE SInv'
  BY <1>0, <1>21, ActorsAssumption
       DEF TInv, TypeOK, SInv, ExitFind, After, fields, list, kernel, history
<1>22. ASSUME NEW s \in Slots, ExitTest(s) PROVE SInv'
  BY <1>0, <1>22, ActorsAssumption
       DEF TInv, TypeOK, SInv, ExitTest, After, fields, list, kernel, history
<1>23. ASSUME NEW s \in Slots, ExitSet(s) PROVE SInv'
  BY <1>0, <1>23, ActorsAssumption
       DEF TInv, TypeOK, SInv, ExitSet, After, fields, list, kernel, history
<1>24. ASSUME NEW s \in Slots, End(s) PROVE SInv'
  BY <1>0, <1>24, ActorsAssumption
       DEF TInv, TypeOK, SInv, End, fields, list, kernel, history
<1>25. CASE UNCHANGED vars
  BY <1>25 DEF SInv, vars, fields, list, kernel, history
<1> QED
  BY <1>1, <1>2, <1>3, <1>4, <1>5, <1>6, <1>7, <1>8, <1>9, <1>10, <1>11,
       <1>12, <1>13, <1>14, <1>15, <1>16, <1>17, <1>18, <1>19, <1>20, <1>21,
       <1>22, <1>23, <1>24, <1>25
       DEF Next, Over, Program, Library, Create, Join, Exit

(* No two running threads share a stack as long as one thread makes all    *)
(* calls to thread_create; with two of them they may (run oto_stacks).     *)
THEOREM StacksOwn == ASSUME OneCreator PROVE Spec => []OwnStack
<1>1. Init => TInv /\ SInv
  BY TypeInit, StackInit
<1>2. TInv /\ SInv /\ [Next]_vars => (TInv /\ SInv)'
  BY TypeStep, StackStep
<1>3. TInv /\ SInv => OwnStack
  BY DEF SInv, OwnStack, Running
<1> QED
  BY <1>1, <1>2, <1>3, PTL DEF Spec

-----------------------------------------------------------------------------
(* Return values.                                                          *)

(* What makes a store of a return value the only one: a thread about to    *)
(* store has turned the state of that thread_s from RUNNING to EXITED, and *)
(* nobody else has; ids that searches look for are never 0, which is what  *)
(* an uninitialised t_id has, so that no search finds a thread_s before    *)
(* its thread_create has allocated it.                                     *)
VInv ==
  /\ \A a \in Actors :
       /\ pc[a] \notin {"unborn", "dead"} => tid[a] # 0
       /\ pc[a] = "clone" => pc[slot[a]] = "unborn"
       /\ pc[a] = "setid" => new[a] # 0
       /\ pc[a] \in Creating \ {"clone", "setid"} => t_id[slot[a]] # 0
       /\ pc[a] \in {"joinFind", "kill"} => call[a].arg \in known
       /\ pc[a] \in Holding => state[slot[a]] # "UNBORN"
       /\ pc[a] = "exitSet" => state[slot[a]] = "EXITED" /\ ret[slot[a]] = NULL
  /\ \A a, b \in Actors :
       /\ pc[a] \in {"clone", "exitSet"}
       /\ pc[b] = pc[a] /\ slot[a] = slot[b]
       => a = b
  /\ \A s \in Slots :
       /\ state[s] = "UNBORN" => t_id[s] = 0 /\ pc[s] = "unborn"
       /\ state[s] # "EXITED" => ret[s] = NULL
       /\ s \in known => t_id[s] # 0

(* At first there are no return values and only main runs.                 *)
LEMMA ValueInit == Init => VInv
  BY ActorsAssumption
       DEF Init, VInv, Actors, Creating, Joiners, Exiting, Holding

(* Every step keeps the owner of each store: clone starts a thread that    *)
(* did not run, and setretval goes on to its store only from a state that  *)
(* is not EXITED, whichever thread_s the search found.                     *)
LEMMA ValueStep == TInv /\ VInv /\ [Next]_vars => VInv'
<1> SUFFICES ASSUME TInv, VInv, [Next]_vars PROVE VInv'
  OBVIOUS
<1> USE DEF Actors, Labels, Creating, Joiners, Exiting, Holding, At, Goto
<1>0. TypeOK /\ pc \in [Actors -> Labels]
  BY DEF TInv
<1>1. ASSUME MainReturns PROVE VInv'
  BY <1>0, <1>1, ActorsAssumption
       DEF TInv, TypeOK, VInv, MainReturns, fields, list, kernel, history
<1>2. ASSUME NEW a \in Actors, CallCreate(a) PROVE VInv'
  BY <1>0, <1>2, ActorsAssumption DEF TInv, TypeOK, VInv, CallCreate,
       StartCall, fields, list, kernel, history
<1>3. ASSUME NEW a \in Actors, NEW s \in Slots, CallJoin(a, s) PROVE VInv'
  BY <1>0, <1>3, ActorsAssumption
       DEF TInv, TypeOK, VInv, CallJoin, StartCall, fields, list, kernel,
       history
<1>4. ASSUME NEW a \in Actors, NEW s \in Slots, CallKill(a, s) PROVE VInv'
  BY <1>0, <1>4, ActorsAssumption
       DEF TInv, TypeOK, VInv, CallKill, StartCall, fields, list, kernel,
       history
<1>5. ASSUME NEW s \in Slots, CallExit(s) PROVE VInv'
  BY <1>0, <1>5, ActorsAssumption
       DEF TInv, TypeOK, VInv, CallExit, StartCall, fields, list, kernel,
       history
<1>6. ASSUME NEW s \in Slots, ReturnFromRoutine(s) PROVE VInv'
  BY <1>0, <1>6, ActorsAssumption
       DEF TInv, TypeOK, VInv, ReturnFromRoutine, fields, list, kernel, history
<1>7. ASSUME NEW a \in Actors, NEW s \in Slots, Alloc(a, s) PROVE VInv'
  <2>1. /\ state[s] = "UNBORN" /\ pc[a] = "alloc"
        /\ state' = [state EXCEPT ![s] = "RUNNING"]
        /\ slot' = [slot EXCEPT ![a] = s]
        /\ pc' = [pc EXCEPT ![a] = "clone"]
    BY <1>7 DEF Alloc, Unborn
  <2>2. UNCHANGED <<t_id, ret, tid, new, call, known>>
    BY <1>7 DEF Alloc, kernel, history
  <2>3. pc[s] = "unborn" /\ s \in Actors /\ a # s
    BY <2>1, ActorsAssumption DEF VInv
  <2>4. \A b \in Actors : pc'[b] = IF b = a THEN "clone" ELSE pc[b]
    BY <2>1 DEF TInv, TypeOK
  <2>5. \A b \in Actors : slot'[b] = IF b = a THEN s ELSE slot[b]
    BY <2>1 DEF TInv, TypeOK
  <2>6. \A u \in Slots : state'[u] = IF u = s THEN "RUNNING" ELSE state[u]
    BY <2>1 DEF TInv, TypeOK
  <2>7. \A b \in Actors \ {a} : slot[b] = s => pc[b] \notin Holding
    BY <2>1 DEF VInv
  <2> QED
    BY <1>0, <2>1, <2>2, <2>3, <2>4, <2>5, <2>6, <2>7 DEF VInv
<1>8. ASSUME NEW a \in Actors, AllocFails(a) PROVE VInv'
  BY <1>0, <1>8, ActorsAssumption
       DEF TInv, TypeOK, VInv, AllocFails, Reply, fields, list, kernel, history
<1>9. ASSUME NEW a \in Actors, Clone(a) PROVE VInv'
  <2> DEFINE s == slot[a]
  <2>1. FreshId \in 1..PidMax /\ FreshId # 0
    BY <1>9, FreshIsFree, BoundsAssumption DEF Clone
  <2>2. s \in Slots /\ pc[a] = "clone" /\ pc[s] = "unborn" /\ s # a
    BY <1>9 DEF Clone, TInv, VInv
  <2>3. /\ pc' = [pc EXCEPT ![a] = "setid", ![s] = "user"]
        /\ new' = [new EXCEPT ![a] = FreshId]
        /\ tid' = [tid EXCEPT ![s] = FreshId]
        /\ UNCHANGED <<state, t_id, ret, slot, call, known>>
    BY <1>9 DEF Clone, history
  <2>4. a \in Actors /\ s \in Actors /\ \A b \in Actors :
          /\ pc'[b] = IF b = s THEN "user" ELSE IF b = a THEN "setid" ELSE pc[b]
          /\ new'[b] = IF b = a THEN FreshId ELSE new[b]
          /\ tid'[b] = IF b = s THEN FreshId ELSE tid[b]
    BY <1>0, <2>2, <2>3 DEF TypeOK
  <2> HIDE DEF s
  <2>5. \A b \in Actors : pc[b] = "clone" /\ b # a => slot[b] # s
    BY <2>2 DEF VInv, s
  <2>6. ASSUME NEW b \in Actors
        PROVE  /\ pc'[b] \notin {"unborn", "dead"} => tid'[b] # 0
               /\ pc'[b] = "clone" => pc'[slot[b]] = "unborn"
               /\ pc'[b] = "setid" => new'[b] # 0
    BY <2>1, <2>2, <2>4, <2>5 DEF VInv, TInv
  <2>7. ASSUME NEW b \in Actors
        PROVE  /\ pc'[b] \in Creating \ {"clone", "setid"} => t_id[slot[b]] # 0
               /\ pc'[b] \in {"joinFind", "kill"} => call[b].arg \in known
               /\ pc'[b] \in Holding => state[slot[b]] # "UNBORN"
               /\ pc'[b] = "exitSet" =>
                    state[slot[b]] = "EXITED" /\ ret[slot[b]] = NULL
    BY <2>2, <2>4 DEF VInv
  <2>8. \A b, c \in Actors :
          /\ pc'[b] \in {"clone", "exitSet"}
          /\ pc'[c] = pc'[b] /\ slot[b] = slot[c]
          => b = c
    BY <2>4 DEF VInv
  <2>9. ASSUME NEW u \in Slots
        PROVE  /\ state[u] = "UNBORN" => t_id[u] = 0 /\ pc'[u] = "unborn"
               /\ state[u] # "EXITED" => ret[u] = NULL
               /\ u \in known => t_id[u] # 0
    BY <2>2, <2>4 DEF VInv, s
  <2>10. UNCHANGED <<state, t_id, ret, slot, call, known>>
    BY <2>3
  <2> QED
    BY <2>6, <2>7, <2>8, <2>9, <2>10 DEF VInv
<1>10. ASSUME NEW a \in Actors, SetId(a) PROVE VInv'
  BY <1>0, <1>10, ActorsAssumption
       DEF TInv, TypeOK, VInv, SetId, fields, list, kernel, history
<1>11. ASSUME NEW a \in Actors, EnqTest(a) PROVE VInv'
  BY <1>0, <1>11, ActorsAssumption
       DEF TInv, TypeOK, VInv, EnqTest, fields, list, kernel, history
<1>12. ASSUME NEW a \in Actors, EnqHead(a) PROVE VInv'
  BY <1>0, <1>12, ActorsAssumption
       DEF TInv, TypeOK, VInv, EnqHead, fields, list, kernel, history
<1>13. ASSUME NEW a \in Actors, EnqLink(a) PROVE VInv'
  BY <1>0, <1>13, ActorsAssumption
       DEF TInv, TypeOK, VInv, EnqLink, fields, list, kernel, history
<1>14. ASSUME NEW a \in Actors, EnqTail(a) PROVE VInv'
  BY <1>0, <1>14, ActorsAssumption
       DEF TInv, TypeOK, VInv, EnqTail, Reply, fields, list, kernel, history
<1>15. ASSUME NEW a \in Actors, JoinFind(a) PROVE VInv'
  <2> DEFINE id == t_id[call[a].arg]
  <2>1. /\ pc[a] = "joinFind" /\ id # 0
        /\ UNCHANGED <<state, t_id, ret, tid, new, call, known>>
    BY <1>15 DEF JoinFind, TInv, VInv, fields, kernel, history
  <2>2. CASE Finds(id)
    <3>1. Searched(id) \in Slots /\ state[Searched(id)] # "UNBORN"
      BY <2>1, <2>2 DEF Finds, Hits, VInv
    <3>2. /\ slot' = [slot EXCEPT ![a] = Searched(id)]
          /\ pc' = [pc EXCEPT ![a] = "joinTest"]
      BY <1>15, <2>2 DEF JoinFind
    <3> QED
      BY <1>0, <2>1, <3>1, <3>2 DEF TypeOK, VInv
  <2>3. CASE ~Finds(id)
    <3>1. slot' = slot /\ pc' = [pc EXCEPT ![a] = "user"]
      BY <1>15, <2>3 DEF JoinFind, Reply
    <3> QED
      BY SMTT(30), <1>0, <2>1, <3>1 DEF TypeOK, VInv
  <2> QED
    BY <2>2, <2>3
<1>16. ASSUME NEW a \in Actors, JoinTest(a) PROVE VInv'
  BY <1>0, <1>16, ActorsAssumption
       DEF TInv, TypeOK, VInv, JoinTest, fields, list, kernel, history
<1>17. ASSUME NEW a \in Actors, JoinSpin(a) PROVE VInv'
  BY <1>0, <1>17, ActorsAssumption
       DEF TInv, TypeOK, VInv, JoinSpin, fields, list, kernel, history
<1>18. ASSUME NEW a \in Actors, JoinRead(a) PROVE VInv'
  BY <1>0, <1>18, ActorsAssumption
       DEF TInv, TypeOK, VInv, JoinRead, Reply, fields, list, kernel, history
<1>19. ASSUME NEW a \in Actors, Kill(a) PROVE VInv'
  BY <1>0, <1>19, ActorsAssumption
       DEF TInv, TypeOK, VInv, Kill, Reply, fields, list, kernel, history
<1>20. ASSUME NEW a \in Actors, Crash(a) PROVE VInv'
  BY <1>0, <1>20, ActorsAssumption
       DEF TInv, TypeOK, VInv, Crash, fields, list, kernel, history
<1>21. ASSUME NEW s \in Slots, ExitFind(s) PROVE VInv'
  <2>1. /\ pc[s] = "exitFind" /\ tid[s] # 0
        /\ UNCHANGED <<state, t_id, ret, tid, new, call, known>>
    BY <1>21 DEF ExitFind, VInv, fields, kernel
  <2>2. CASE Finds(tid[s])
    <3>1. Searched(tid[s]) \in Slots /\ state[Searched(tid[s])] # "UNBORN"
      BY <2>1, <2>2 DEF Finds, Hits, VInv
    <3>2. /\ slot' = [slot EXCEPT ![s] = Searched(tid[s])]
          /\ pc' = [pc EXCEPT ![s] = "exitTest"]
      BY <1>21, <2>2 DEF ExitFind
    <3> QED
      BY <1>0, <2>1, <3>1, <3>2 DEF TypeOK, VInv
  <2>3. CASE ~Finds(tid[s])
    <3>1. After(s) \in {"end", "user"}
      BY DEF After
    <3>2. slot' = slot /\ pc' = [pc EXCEPT ![s] = After(s)]
      BY <1>21, <2>3 DEF ExitFind
    <3> QED
      BY <1>0, <2>1, <3>1, <3>2 DEF TypeOK, VInv
  <2> QED
    BY <2>2, <2>3
<1>22. ASSUME NEW s \in Slots, ExitTest(s) PROVE VInv'
  BY <1>0, <1>22, ActorsAssumption DEF TInv, TypeOK, VInv, ExitTest, After,
       FirstExit, fields, list, kernel, history
<1>23. ASSUME NEW s \in Slots, ExitSet(s) PROVE VInv'
  BY <1>0, <1>23, ActorsAssumption
       DEF TInv, TypeOK, VInv, ExitSet, After, fields, list, kernel, history
<1>24. ASSUME NEW s \in Slots, End(s) PROVE VInv'
  BY <1>0, <1>24, ActorsAssumption
       DEF TInv, TypeOK, VInv, End, fields, list, kernel, history
<1>25. CASE UNCHANGED vars
  BY <1>25 DEF VInv, vars, fields, list, kernel, history
<1> QED
  BY <1>1, <1>2, <1>3, <1>4, <1>5, <1>6, <1>7, <1>8, <1>9, <1>10, <1>11,
       <1>12, <1>13, <1>14, <1>15, <1>16, <1>17, <1>18, <1>19, <1>20, <1>21,
       <1>22, <1>23, <1>24, <1>25
       DEF Next, Over, Program, Library, Create, Join, Exit

(* Only ExitSet stores a return value, and there was none before.          *)
LEMMA Stored == TInv /\ VInv /\ [Next]_vars =>
                  \A s \in Slots : ret[s] # NULL => ret'[s] = ret[s]
<1> SUFFICES ASSUME TInv, VInv, [Next]_vars, NEW s \in Slots, ret[s] # NULL
             PROVE  ret'[s] = ret[s]
  OBVIOUS
<1>1. CASE \E t \in Slots : ExitSet(t)
  <2>1. PICK t \in Slots : ExitSet(t)
    BY <1>1
  <2>2. pc[t] = "exitSet" /\ ret[slot[t]] = NULL
    BY <2>1 DEF ExitSet, At, VInv, Actors
  <2> QED
    BY <2>1, <2>2 DEF ExitSet, TInv, TypeOK
<1>2. CASE ~\E t \in Slots : ExitSet(t)
  <2>1. UNCHANGED ret
    BY <1>2 DEF Next, Over, Program, Library, Create, Join, Exit, Crash,
         MainReturns, CallCreate, CallJoin, CallKill, CallExit, StartCall,
         ReturnFromRoutine, Alloc, AllocFails, Clone, SetId, EnqTest, EnqHead,
         EnqLink, EnqTail, JoinFind, JoinTest, JoinSpin, JoinRead, Kill,
         ExitFind, ExitTest, End, vars, fields
  <2> QED
    BY <2>1
<1> QED
  BY <1>1, <1>2

(* setretval stores into a thread_s once: a return value that has been set *)
(* is never changed, however often the thread calls thread_exit and        *)
(* whichever threads race with it.                                         *)
THEOREM ValuesKept == Spec => ValueKept
<1>1. Init => TInv /\ VInv
  BY TypeInit, ValueInit
<1>2. TInv /\ VInv /\ [Next]_vars => (TInv /\ VInv)'
  BY TypeStep, ValueStep
<1>3. TInv /\ VInv /\ [Next]_vars =>
        [\A s \in Slots : ret[s] # NULL => ret'[s] = ret[s]]_vars
  BY Stored
<1> QED
  BY <1>1, <1>2, <1>3, PTL DEF Spec, ValueKept

-----------------------------------------------------------------------------
(* The searches of the queue.                                              *)

(* Only main creates threads, and there is a kernel id for every thread.   *)
MainCreates == Creators \subseteq {Main}
EnoughIds == PidMax > Cardinality(Slots)

Base == TInv /\ SInv /\ VInv

(* Of the steps only those of thread_create are about ids and the list ... *)
Aside ==
  /\ UNCHANGED <<t_id, head, tail, next, known, last, new>>
  /\ \A a \in Actors : tid'[a] \in {0, tid[a]}
  /\ \A a \in Actors : pc'[a] = "unborn" <=> pc[a] = "unborn"
  /\ pc'[Main] \in Creating => pc'[Main] = pc[Main] /\ slot'[Main] = slot[Main]
  /\ pc[Main] \in Creating => pc'[Main] = pc[Main]

(* ... and those main makes.                                               *)
CreateStep ==
  \/ \E s \in Slots : Alloc(Main, s)
  \/ Clone(Main) \/ SetId(Main)
  \/ EnqTest(Main) \/ EnqHead(Main) \/ EnqLink(Main) \/ EnqTail(Main)

(* A step of one thread from a place that is no part of thread_create.     *)
LEMMA OneMoves ==
  ASSUME TInv, NEW a \in Actors, NEW l, pc' = [pc EXCEPT ![a] = l],
         pc[a] \notin Creating \cup {"unborn"}, l \notin Creating \cup {"unborn"},
         UNCHANGED <<t_id, head, tail, next, known, last, new>>,
         \A b \in Actors : tid'[b] \in {0, tid[b]},
         \A b \in Actors : b # a => slot'[b] = slot[b]
  PROVE  Aside
<1>1. Main \in Actors /\ \A b \in Actors : pc'[b] = IF b = a THEN l ELSE pc[b]
  BY DEF TInv, Actors
<1> QED
  BY <1>1 DEF Aside

LEMMA Sides == MainCreates /\ Base /\ [Next]_vars => Aside \/ CreateStep
<1> SUFFICES ASSUME MainCreates, Base, [Next]_vars PROVE Aside \/ CreateStep
  OBVIOUS
<1> USE DEF At, Goto
<1>0. TInv /\ Main \in Actors /\ Slots \subseteq Actors
  BY DEF Base, Actors
<1>a. \A a \in Actors : pc[a] \in Creating => a = Main
  BY DEF Base, SInv, MainCreates
<1>1. ASSUME MainReturns \/ UNCHANGED vars \/ \E a \in Actors : Crash(a) PROVE Aside
  <2>1. UNCHANGED <<t_id, head, tail, next, known, last, new, tid, pc, slot>>
    BY <1>1 DEF MainReturns, Crash, vars, fields, list, kernel, history
  <2> QED
    BY <2>1 DEF Aside
<1>2. ASSUME NEW a \in Actors, CallCreate(a) PROVE Aside
  BY <1>0, <1>2, OneMoves DEF Creating, CallCreate, StartCall, fields, list, kernel
<1>3. ASSUME NEW a \in Actors, NEW s \in Slots, CallJoin(a, s) \/ CallKill(a, s)
      PROVE  Aside
  BY <1>0, <1>3, OneMoves DEF Creating, CallJoin, CallKill, StartCall, fields, list, kernel
<1>4. ASSUME NEW s \in Slots, CallExit(s) PROVE Aside
  BY <1>0, <1>4, OneMoves DEF Creating, CallExit, StartCall, fields, list, kernel
<1>5. ASSUME NEW s \in Slots, ReturnFromRoutine(s) PROVE Aside
  BY <1>0, <1>5, OneMoves DEF Creating, ReturnFromRoutine, fields, list, kernel
<1>6. ASSUME NEW a \in Actors, AllocFails(a) PROVE Aside
  BY <1>0, <1>6, OneMoves DEF Creating, AllocFails, Reply, fields, kernel
<1>7. ASSUME NEW a \in Actors, JoinFind(a) PROVE Aside
  <2>1. \E l \in {"joinTest", "user"} : pc' = [pc EXCEPT ![a] = l]
    BY <1>7 DEF JoinFind, Reply
  <2>2. \A b \in Actors : b # a => slot'[b] = slot[b]
    BY <1>0, <1>7 DEF JoinFind, TInv, TypeOK
  <2>3. /\ pc[a] = "joinFind"
        /\ UNCHANGED <<t_id, head, tail, next, known, last, new, tid>>
    BY <1>7 DEF JoinFind, fields, list, kernel, history
  <2> QED
    BY <1>0, <2>1, <2>2, <2>3, OneMoves DEF Creating
<1>8. ASSUME NEW a \in Actors, JoinTest(a) \/ JoinSpin(a) \/ JoinRead(a) \/ Kill(a)
      PROVE  Aside
  <2>1. \E l \in {"joinRead", "joinSpin", "user"} : pc' = [pc EXCEPT ![a] = l]
    BY <1>8 DEF JoinTest, JoinSpin, JoinRead, Kill, Reply
  <2>2. /\ pc[a] \in {"joinTest", "joinSpin", "joinRead", "kill"}
        /\ UNCHANGED <<t_id, head, tail, next, known, last, new, tid, slot>>
    BY <1>8 DEF JoinTest, JoinSpin, JoinRead, Kill, fields, list, kernel, history
  <2> QED
    BY <1>0, <2>1, <2>2, OneMoves DEF Creating
<1>9. ASSUME NEW s \in Slots, ExitFind(s) PROVE Aside
  <2>1. \E l \in {"exitTest", "user", "end"} : pc' = [pc EXCEPT ![s] = l]
    BY <1>9 DEF ExitFind, After
  <2>2. \A b \in Actors : b # s => slot'[b] = slot[b]
    BY <1>0, <1>9 DEF ExitFind, TInv, TypeOK
  <2>3. /\ pc[s] = "exitFind"
        /\ UNCHANGED <<t_id, head, tail, next, known, last, new, tid>>
    BY <1>9 DEF ExitFind, fields, list, kernel
  <2> QED
    BY <1>0, <2>1, <2>2, <2>3, OneMoves DEF Creating
<1>10. ASSUME NEW s \in Slots, ExitTest(s) \/ ExitSet(s) PROVE Aside
  <2>1. \E l \in {"exitSet", "user", "end"} : pc' = [pc EXCEPT ![s] = l]
    BY <1>10 DEF ExitTest, ExitSet, After
  <2>2. /\ pc[s] \in {"exitTest", "exitSet"}
        /\ UNCHANGED <<t_id, head, tail, next, known, last, new, tid, slot>>
    BY <1>10 DEF ExitTest, ExitSet, list, kernel, history
  <2> QED
    BY <1>0, <2>1, <2>2, OneMoves DEF Creating
<1>11. ASSUME NEW s \in Slots, End(s) PROVE Aside
  <2>1. /\ pc[s] = "end" /\ pc' = [pc EXCEPT ![s] = "dead"]
        /\ UNCHANGED <<t_id, head, tail, next, known, last, new, slot>>
    BY <1>11 DEF End, list, history
  <2>2. \A b \in Actors : tid'[b] \in {0, tid[b]}
    BY <1>0, <1>11 DEF End, TInv, TypeOK
  <2> QED
    BY <1>0, <2>1, <2>2, OneMoves DEF Creating
<1>12. ASSUME NEW a \in Actors, NEW s \in Slots, Alloc(a, s) PROVE CreateStep
  <2>1. pc[a] \in Creating \cup {"alloc"}
    BY <1>12 DEF Alloc, Creating
  <2>2. a = Main
    BY <2>1 DEF Base, SInv, MainCreates
  <2> QED
    BY <1>12, <2>2 DEF CreateStep
<1>13. ASSUME NEW a \in Actors,
              \/ Clone(a) \/ SetId(a)
              \/ EnqTest(a) \/ EnqHead(a) \/ EnqLink(a) \/ EnqTail(a)
       PROVE  CreateStep
  <2>1. pc[a] \in Creating \cup {"alloc"}
    BY <1>13 DEF Clone, SetId, EnqTest, EnqHead, EnqLink, EnqTail, Creating
  <2>2. a = Main
    BY <2>1 DEF Base, SInv, MainCreates
  <2> QED
    BY <1>13, <2>2 DEF CreateStep
<1> QED
  BY <1>1, <1>2, <1>3, <1>4, <1>5, <1>6, <1>7, <1>8, <1>9, <1>10, <1>11, <1>12, <1>13
     DEF Next, Over, Program, Library, Create, Join, Exit

-----------------------------------------------------------------------------
(* Kernel ids.                                                             *)

(* The threads that clone has started.                                     *)
Started == {s \in Slots : pc[s] # "unborn"}

(* No kernel id has been used twice, and a t_id is the id of its thread.   *)
DInv ==
  /\ last = Cardinality(Started) + 1
  /\ \A a \in Actors : tid[a] <= last
  /\ \A s \in Slots : t_id[s] <= last
  /\ \A a, b \in Actors : tid[a] # 0 /\ tid[a] = tid[b] => a = b
  /\ \A s, u \in Slots : t_id[s] # 0 /\ t_id[s] = t_id[u] => s = u
  /\ \A a \in Actors, u \in Slots : tid[a] # 0 /\ tid[a] = t_id[u] => a = u
  /\ \A s \in Started :
       \/ pc[Main] = "setid" /\ slot[Main] = s
       \/ t_id[s] # 0 /\ tid[s] \in {0, t_id[s]}
  /\ pc[Main] \in {"clone", "setid"} => t_id[slot[Main]] = 0
  /\ pc[Main] = "setid" =>
       /\ new[Main] <= last
       /\ \A u \in Slots : t_id[u] # new[Main]
       /\ \A b \in Actors : tid[b] = new[Main] => b = slot[Main]
       /\ tid[slot[Main]] \in {0, new[Main]}

(* Before the first thread_create main has the only id.                    *)
LEMMA IdInit == Init => DInv
<1> SUFFICES ASSUME Init PROVE DInv
  OBVIOUS
<1>1. /\ tid = [a \in Actors |-> IF a = Main THEN 1 ELSE 0]
      /\ t_id = [s \in Slots |-> 0] /\ last = 1
      /\ pc = [a \in Actors |-> IF a = Main THEN "user" ELSE "unborn"]
  BY DEF Init
<1>2. Main \in Actors /\ Main \notin Slots /\ Slots \subseteq Actors
  BY ActorsAssumption DEF Actors
<1>3. Started = {}
  BY <1>1, <1>2 DEF Started
<1>4. last = Cardinality(Started) + 1
  BY <1>1, <1>3, FS_EmptySet
<1>5. \A a \in Actors : tid[a] <= last
  BY <1>1
<1>6. \A s \in Slots : t_id[s] = 0
  BY <1>1
<1>7. pc[Main] = "user" /\ \A a \in Actors : tid[a] # 0 => a = Main
  BY <1>1, <1>2
<1> QED
  BY <1>1, <1>3, <1>4, <1>5, <1>6, <1>7 DEF DInv

(* clone hands out the next id.                                            *)
LEMMA NextId ==
  ASSUME EnoughIds, TInv, VInv, DInv, NEW a \in Actors, pc[a] = "clone"
  PROVE  FreshId = last + 1 /\ last \in Nat
<1>1. slot[a] \in Slots /\ pc[slot[a]] = "unborn"
  BY DEF TInv, VInv, Holding, Creating
<1>2. Started \subseteq Slots /\ Started # Slots
  BY <1>1 DEF Started
<1>3. /\ Cardinality(Started) < Cardinality(Slots)
      /\ Cardinality(Started) \in Nat /\ Cardinality(Slots) \in Nat
  <2>1. IsFiniteSet(Started) /\ Cardinality(Started) <= Cardinality(Slots)
        /\ (Cardinality(Slots) = Cardinality(Started) => Slots = Started)
    BY <1>2, FS_Subset, BoundsAssumption
  <2>2. Cardinality(Started) \in Nat /\ Cardinality(Slots) \in Nat
    BY <2>1, FS_CardinalityType, BoundsAssumption
  <2> QED
    BY <1>2, <2>1, <2>2
<1>4. last \in Nat /\ last + 1 \in 1..PidMax
  BY <1>3, BoundsAssumption DEF DInv, EnoughIds
<1>5. last + 1 \in Free
  <2>1. \A b \in Actors : tid[b] \in Nat /\ tid[b] <= last
    BY BoundsAssumption DEF TInv, TypeOK, DInv
  <2> QED
    BY <1>4, <2>1 DEF Free
<1> DEFINE after == {i \in Free : i > last}
<1>6. last + 1 \in after
  BY <1>4, <1>5
<1>7. \A i \in after : i \in Nat /\ last + 1 <= i
  BY <1>4, BoundsAssumption DEF Free
<1>8. FreshId = CHOOSE i \in after : \A j \in after : i <= j
  BY <1>6 DEF FreshId
<1> HIDE DEF after
<1>9. ASSUME NEW i \in after, \A j \in after : i <= j PROVE i = last + 1
  BY <1>4, <1>6, <1>7, <1>9
<1>10. \A j \in after : last + 1 <= j
  BY <1>7
<1> QED
  BY <1>4, <1>6, <1>8, <1>9, <1>10

(* Ids stay as they are, or are given back.                                *)
LEMMA IdsKept ==
  ASSUME DInv, UNCHANGED <<t_id, last, new>>,
         \A a \in Actors : tid'[a] \in {0, tid[a]},
         \A s \in Slots : pc'[s] = "unborn" <=> pc[s] = "unborn",
         pc'[Main] \in {"clone", "setid"} =>
           t_id[slot'[Main]] = 0 /\ (pc'[Main] = "setid" => slot'[Main] = slot[Main]),
         pc'[Main] = "setid" <=> pc[Main] = "setid",
         TInv, TInv'
  PROVE  DInv'
<1>1. Started' = Started
  BY DEF Started
<1>2. Slots \subseteq Actors /\ Main \in Actors
  BY DEF Actors
<1>3. \A a \in Actors : tid'[a] <= last
  <2>1. 0 <= last /\ \A a \in Actors : tid[a] <= last
    BY BoundsAssumption DEF DInv, TInv, TypeOK
  <2> QED
    BY <2>1
<1>4. \A a \in Actors : tid'[a] # 0 => tid'[a] = tid[a]
  OBVIOUS
<1>5. \A a, b \in Actors : tid'[a] # 0 /\ tid'[a] = tid'[b] => a = b
  BY <1>4 DEF DInv
<1>6. \A a \in Actors, u \in Slots : tid'[a] # 0 /\ tid'[a] = t_id[u] => a = u
  BY <1>4 DEF DInv
<1>7. ASSUME NEW s \in Started
      PROVE  \/ pc'[Main] = "setid" /\ slot'[Main] = s
             \/ t_id[s] # 0 /\ tid'[s] \in {0, t_id[s]}
  <2>1. s \in Actors
    BY <1>2 DEF Started
  <2> QED
    BY <1>7, <1>4, <2>1 DEF DInv
<1>8. ASSUME pc'[Main] = "setid"
      PROVE  /\ new[Main] <= last
             /\ \A u \in Slots : t_id[u] # new[Main]
             /\ \A b \in Actors : tid'[b] = new[Main] => b = slot'[Main]
             /\ tid'[slot'[Main]] \in {0, new[Main]}
  <2>1. pc[Main] = "setid" /\ slot'[Main] = slot[Main] /\ slot[Main] \in Actors
    BY <1>2, <1>8 DEF TInv, Holding, Creating
  <2>2. t_id[slot[Main]] = 0 /\ slot[Main] \in Slots
    BY <1>2, <2>1 DEF DInv, TInv, Holding, Creating
  <2>3. new[Main] # 0
    BY <2>1, <2>2 DEF DInv
  <2> QED
    BY <2>1, <2>3, <1>4 DEF DInv
<1>9. (\A s \in Slots : t_id[s] <= last) /\ \A s, u \in Slots : t_id[s] # 0 /\ t_id[s] = t_id[u] => s = u
  BY DEF DInv
<1>10. last = Cardinality(Started) + 1
  BY DEF DInv
<1> QED
  BY <1>1, <1>3, <1>5, <1>6, <1>7, <1>8, <1>9, <1>10 DEF DInv

(* clone: the new thread has the next id, which nobody has or had.         *)
LEMMA IdCloned ==
  ASSUME EnoughIds, Base, DInv, Clone(Main)
  PROVE  DInv'
<1> DEFINE s == slot[Main]
           id == FreshId
<1>1. Slots \subseteq Actors /\ Main \in Actors /\ Main \notin Slots /\ TypeOK
      /\ pc \in [Actors -> Labels]
  BY ActorsAssumption DEF Actors, Base, TInv
<1>2. pc[Main] = "clone" /\ s \in Slots /\ pc[s] = "unborn" /\ t_id[s] = 0
  BY <1>1 DEF Clone, At, Base, TInv, VInv, Holding, Creating, DInv
<1>3. id = last + 1 /\ last \in Nat
  BY <1>1, <1>2, NextId DEF Base
<1>4. /\ new' = [new EXCEPT ![Main] = id] /\ last' = id /\ tid' = [tid EXCEPT ![s] = id]
      /\ pc' = [pc EXCEPT ![Main] = "setid", ![s] = "user"]
      /\ t_id' = t_id /\ slot' = slot
  BY DEF Clone
<1> HIDE DEF s, id
<1>5. /\ pc'[Main] = "setid" /\ new'[Main] = id /\ tid'[s] = id
      /\ \A a \in Actors : a # s => tid'[a] = tid[a]
      /\ \A u \in Slots : pc'[u] = IF u = s THEN "user" ELSE pc[u]
  BY <1>1, <1>2, <1>4 DEF TypeOK
<1>6. /\ \A a \in Actors : tid[a] \in Nat /\ tid[a] <= last
      /\ \A u \in Slots : t_id[u] \in Nat /\ t_id[u] <= last
  BY <1>1, BoundsAssumption DEF TypeOK, DInv
<1>7. Started' = Started \cup {s} /\ s \notin Started
  BY <1>2, <1>5 DEF Started
<1>8. last' = Cardinality(Started') + 1
  <2>1. IsFiniteSet(Started)
    BY FS_Subset, BoundsAssumption DEF Started
  <2>2. Cardinality(Started') = Cardinality(Started) + 1
    BY <1>7, <2>1, FS_AddElement
  <2> QED
    BY <1>3, <1>4, <2>2 DEF DInv
<1>9. /\ \A a \in Actors : tid'[a] <= last'
      /\ \A u \in Slots : t_id[u] <= last'
  BY <1>1, <1>2, <1>3, <1>4, <1>5, <1>6
<1>10. /\ \A a \in Actors : tid[a] # id
       /\ \A u \in Slots : t_id[u] # id
  BY <1>3, <1>6
<1>11. \A a, b \in Actors : tid'[a] # 0 /\ tid'[a] = tid'[b] => a = b
  BY <1>5, <1>10 DEF DInv
<1>12. \A a \in Actors, u \in Slots : tid'[a] # 0 /\ tid'[a] = t_id[u] => a = u
  BY <1>5, <1>10 DEF DInv
<1>13. ASSUME NEW u \in Started, u # s PROVE t_id[u] # 0 /\ tid'[u] \in {0, t_id[u]}
  BY <1>1, <1>2, <1>5, <1>13 DEF DInv, Started
<1>14. \A b \in Actors : tid'[b] = id => b = s
  BY <1>5, <1>10
<1>15. \A u, v \in Slots : t_id[u] # 0 /\ t_id[u] = t_id[v] => u = v
  BY DEF DInv
<1> QED
  BY <1>2, <1>3, <1>4, <1>5, <1>7, <1>8, <1>9, <1>10, <1>11, <1>12, <1>13, <1>14, <1>15 DEF DInv, s

(* thread_create stores it.                                                *)
LEMMA IdStored ==
  ASSUME Base, DInv, SetId(Main)
  PROVE  DInv'
<1> DEFINE s == slot[Main]
           id == new[Main]
<1>1. Slots \subseteq Actors /\ Main \in Actors /\ Main \notin Slots /\ TypeOK
      /\ pc \in [Actors -> Labels]
  BY ActorsAssumption DEF Actors, Base, TInv
<1>2. pc[Main] = "setid" /\ s \in Slots /\ t_id[s] = 0 /\ id # 0
  BY <1>1 DEF SetId, At, Base, TInv, VInv, Holding, Creating, DInv
<1>3. /\ t_id' = [t_id EXCEPT ![s] = id] /\ pc' = [pc EXCEPT ![Main] = "enqTest"]
      /\ UNCHANGED <<tid, last, new, slot>>
  BY DEF SetId, Goto, kernel
<1>4. /\ id <= last
      /\ \A u \in Slots : t_id[u] # id
      /\ \A b \in Actors : tid[b] = id => b = s
      /\ tid[s] \in {0, id}
  BY <1>2 DEF DInv
<1> HIDE DEF s, id
<1>5. /\ pc'[Main] = "enqTest"
      /\ \A u \in Slots : pc'[u] = pc[u]
      /\ \A u \in Slots : t_id'[u] = IF u = s THEN id ELSE t_id[u]
  BY <1>1, <1>2, <1>3 DEF TypeOK
<1>6. Started' = Started
  BY <1>5 DEF Started
<1>7. \A u \in Slots : t_id'[u] <= last
  BY <1>4, <1>5 DEF DInv
<1>8. \A u, v \in Slots : t_id'[u] # 0 /\ t_id'[u] = t_id'[v] => u = v
  BY <1>4, <1>5 DEF DInv
<1>9. \A a \in Actors, u \in Slots : tid[a] # 0 /\ tid[a] = t_id'[u] => a = u
  BY <1>4, <1>5 DEF DInv
<1>10. \A u \in Started : t_id'[u] # 0 /\ tid[u] \in {0, t_id'[u]}
  BY <1>2, <1>4, <1>5 DEF DInv, Started, s
<1>11. last = Cardinality(Started) + 1 /\ (\A a \in Actors : tid[a] <= last)
       /\ \A a, b \in Actors : tid[a] # 0 /\ tid[a] = tid[b] => a = b
  BY DEF DInv
<1> QED
  BY <1>3, <1>5, <1>6, <1>7, <1>8, <1>9, <1>10, <1>11 DEF DInv

(* While there are as many kernel ids as threads none is used twice.       *)
LEMMA IdStep == EnoughIds /\ MainCreates /\ Base /\ DInv /\ [Next]_vars => DInv'
<1> SUFFICES ASSUME EnoughIds, MainCreates, Base, DInv, [Next]_vars PROVE DInv'
  OBVIOUS
<1>1. /\ TInv /\ TInv' /\ Main \in Actors /\ Main \notin Slots /\ TypeOK
      /\ pc \in [Actors -> Labels] /\ Slots \subseteq Actors
  BY TypeStep, ActorsAssumption DEF Base, Actors, TInv
<1>2. CASE Aside
  <2>1. pc'[Main] \in {"clone", "setid"} => pc'[Main] = pc[Main] /\ slot'[Main] = slot[Main]
    BY <1>2 DEF Aside, Creating
  <2>2. pc[Main] = "setid" => pc'[Main] = "setid"
    BY <1>2 DEF Aside, Creating
  <2> QED
    BY <1>1, <1>2, <2>1, <2>2, IdsKept DEF Aside, DInv
<1>3. ASSUME NEW s \in Slots, Alloc(Main, s) PROVE DInv'
  <2>1. /\ pc' = [pc EXCEPT ![Main] = "clone"] /\ slot' = [slot EXCEPT ![Main] = s]
        /\ UNCHANGED <<tid, t_id, last, new>> /\ pc[Main] = "alloc" /\ state[s] = "UNBORN"
    BY <1>3 DEF Alloc, At, Goto, kernel, Unborn
  <2>2. t_id[s] = 0
    BY <2>1 DEF Base, VInv
  <2>3. pc'[Main] = "clone" /\ slot'[Main] = s /\ \A u \in Slots : pc'[u] = pc[u]
    BY <1>1, <2>1 DEF TypeOK
  <2> QED
    BY <1>1, <2>1, <2>2, <2>3, IdsKept
<1>4. ASSUME EnqTest(Main) \/ EnqHead(Main) \/ EnqLink(Main) \/ EnqTail(Main) PROVE DInv'
  <2>1. /\ \E l \in {"enqHead", "enqLink", "enqTail", "user"} : pc' = [pc EXCEPT ![Main] = l]
        /\ pc[Main] \in {"enqTest", "enqHead", "enqLink", "enqTail"}
        /\ UNCHANGED <<tid, t_id, last, new>>
    BY <1>4 DEF EnqTest, EnqHead, EnqLink, EnqTail, At, Goto, Reply, fields, kernel
  <2>2. /\ pc'[Main] \notin {"clone", "setid"} /\ pc[Main] # "setid"
        /\ \A u \in Slots : pc'[u] = pc[u]
    BY <1>1, <2>1
  <2> QED
    BY <1>1, <2>1, <2>2, IdsKept
<1> QED
  BY <1>2, <1>3, <1>4, IdCloned, IdStored, Sides DEF CreateStep

-----------------------------------------------------------------------------
(* The list.                                                               *)

(* How many nodes enqueue is through with.                                 *)
Entered(L) == IF pc[Main] = "enqTail" THEN Len(L) - 1 ELSE Len(L)

(* The list has the nodes L: those of the threads whose thread_create has  *)
(* returned, up to tail, and the one that enqueue has linked in and not    *)
(* yet made the tail.  No other node points anywhere.                      *)
Linked(L) ==
  /\ Chain(L, head, next)
  /\ Entered(L) >= 0
  /\ tail = IF Entered(L) = 0 THEN NULL ELSE L[Entered(L)]
  /\ known = {L[i] : i \in 1..Entered(L)}
  /\ pc[Main] = "enqTail" => L[Len(L)] = slot[Main]
  /\ pc[Main] = "enqHead" => Len(L) = 0
  /\ pc[Main] = "enqLink" => Len(L) # 0
  /\ \A s \in Slots : (\A i \in 1..Len(L) : L[i] # s) => next[s] = NULL

(* A thread that main has started is in the list or about to be.           *)
LInv ==
  /\ \E L \in Seq(Slots) : Linked(L)
  /\ pc[Main] \in Creating => slot[Main] \notin known
  /\ pc[Main] \in Creating \ {"clone"} => slot[Main] \in Started
  /\ known \subseteq Started
  /\ \A s \in Started :
       s \in known \/ (pc[Main] \in Creating \ {"clone"} /\ s = slot[Main])

(* At first it is empty.                                                   *)
LEMMA ListInit == Init => LInv
<1> SUFFICES ASSUME Init PROVE LInv
  OBVIOUS
<1>1. /\ head = NULL /\ tail = NULL /\ next = [s \in Slots |-> NULL] /\ known = {}
      /\ pc = [a \in Actors |-> IF a = Main THEN "user" ELSE "unborn"]
  BY DEF Init
<1>2. Main \in Actors /\ Main \notin Slots /\ Slots \subseteq Actors
  BY ActorsAssumption DEF Actors
<1>3. pc[Main] = "user" /\ Started = {}
  BY <1>1, <1>2 DEF Started
<1>4. << >> \in Seq(Slots) /\ Len(<< >>) = 0
  OBVIOUS
<1> DEFINE L == << >>
<1>5. L \in Seq(Slots) /\ Len(L) = 0
  BY <1>4
<1> HIDE DEF L
<1>6. Linked(L)
  BY <1>1, <1>3, <1>5 DEF Linked, Entered, Chain
<1> QED
  BY <1>3, <1>5, <1>6, <1>1 DEF LInv, Creating

(* Steps that leave the list alone.                                        *)
LEMMA ListKept ==
  ASSUME NEW L \in Seq(Slots), Linked(L), UNCHANGED <<head, tail, next, known>>,
         pc[Main] # "enqTail", pc'[Main] # "enqTail",
         pc'[Main] = "enqHead" => Len(L) = 0,
         pc'[Main] = "enqLink" => Len(L) # 0
  PROVE  Linked(L)'
<1> QED
  BY DEF Linked, Entered

(* enqueue finds the list empty and makes its node the head ...            *)
LEMMA HeadStored ==
  ASSUME Base, LInv, NEW L \in Seq(Slots), Linked(L), EnqHead(Main),
         NEW s, s = slot[Main], NEW M, M = <<s>>
  PROVE  Linked(M)'
<1>1. /\ pc[Main] = "enqHead" /\ pc' = [pc EXCEPT ![Main] = "enqTail"] /\ head' = s
      /\ UNCHANGED <<tail, next, known, slot>>
  BY DEF EnqHead, At, Goto, history
<1>2. pc'[Main] = "enqTail" /\ s \in Slots /\ Len(L) = 0
  BY <1>1 DEF Base, TInv, Actors, Holding, Creating, Linked
<1>3. Len(M) = 1 /\ M[1] = s
  OBVIOUS
<1>4. next[s] = NULL /\ tail = NULL /\ known = {} /\ \A u \in Slots : next[u] = NULL
  BY <1>1, <1>2 DEF Linked, Entered
<1>5. Chain(M, head', next)
  BY <1>1, <1>3, <1>4 DEF Chain
<1>6. Entered(M)' = 0
  BY <1>2, <1>3 DEF Entered
<1>7. known' = {M[i] : i \in 1..Entered(M)'}
  BY <1>1, <1>4, <1>6
<1>8. M[Len(M)] = slot'[Main]
  BY <1>1, <1>3
<1>9. \A u \in Slots : next'[u] = NULL
  BY <1>1, <1>4
<1>10. tail' = NULL /\ Entered(M)' >= 0
  BY <1>1, <1>4, <1>6
<1> QED
  BY <1>1, <1>2, <1>5, <1>6, <1>7, <1>8, <1>9, <1>10 DEF Linked

(* ... or makes the last node point at its own ...                         *)
LEMMA LinkStored ==
  ASSUME Base, LInv, NEW L \in Seq(Slots), Linked(L), EnqLink(Main),
         NEW s, s = slot[Main], NEW M, M = Append(L, s)
  PROVE  Linked(M)'
<1> DEFINE n == Len(L)
<1>1. /\ pc[Main] = "enqLink" /\ pc' = [pc EXCEPT ![Main] = "enqTail"]
      /\ next' = [next EXCEPT ![tail] = s] /\ UNCHANGED <<head, tail, known, slot>>
  BY DEF EnqLink, At, Goto, history
<1>2. /\ pc'[Main] = "enqTail" /\ s \in Slots /\ n # 0 /\ n \in Nat /\ s \notin known
      /\ next \in [Slots -> Slots \cup {NULL}]
  <2>1. /\ pc'[Main] = "enqTail" /\ s \in Slots /\ n \in Nat
        /\ next \in [Slots -> Slots \cup {NULL}]
    BY <1>1 DEF Base, TInv, TypeOK, Actors, Holding, Creating
  <2>2. n # 0
    BY <1>1 DEF Linked
  <2>3. s \notin known
    BY <1>1 DEF LInv, Creating
  <2> QED
    BY <2>1, <2>2, <2>3
<1>3. Len(M) = n + 1 /\ M[n + 1] = s /\ \A i \in 1..n : M[i] = L[i] /\ L[i] \in Slots
  BY <1>2
<1>4. tail = L[n] /\ known = {L[i] : i \in 1..n} /\ tail \in Slots
  BY <1>1, <1>2 DEF Linked, Entered
<1>5. \A i \in 1..n : L[i] # s
  BY <1>2, <1>4
<1>6. next[s] = NULL
  BY <1>2, <1>5 DEF Linked, n
<1>7. \A u \in Slots : next'[u] = IF u = tail THEN s ELSE next[u]
  BY <1>1, <1>2
<1>8. s # tail /\ \A i \in 1..n : i # n => L[i] # tail
  BY <1>2, <1>4, <1>5 DEF Linked, Chain
<1>9. Chain(M, head', next')
  <2>1. head' = M[1] /\ Len(M) # 0
    BY <1>1, <1>2, <1>3 DEF Linked, Chain
  <2>2. ASSUME NEW i \in 1..Len(M)
        PROVE  next'[M[i]] = IF i = Len(M) THEN NULL ELSE M[i + 1]
    <3>1. CASE i = n + 1
      BY <1>2, <1>3, <1>6, <1>7, <1>8, <3>1
    <3>2. CASE i = n
      BY <1>2, <1>3, <1>4, <1>7, <3>2
    <3>3. CASE i \in 1..n - 1
      <4>1. M[i] = L[i] /\ M[i + 1] = L[i + 1] /\ L[i] # tail /\ L[i] \in Slots
        BY <1>2, <1>3, <1>8, <3>3
      <4>2. next[L[i]] = L[i + 1]
        BY <1>2, <3>3 DEF Linked, Chain
      <4> QED
        BY <1>2, <1>3, <1>7, <3>3, <4>1, <4>2
    <3> QED
      BY <1>2, <1>3, <3>1, <3>2, <3>3
  <2>3. \A i, j \in 1..n : L[i] = L[j] => i = j
    BY DEF Linked, Chain
  <2>4. \A i, j \in 1..Len(M) : M[i] = M[j] => i = j
    BY <1>2, <1>3, <1>5, <2>3
  <2> QED
    BY <2>1, <2>2, <2>4 DEF Chain
<1>10. ASSUME NEW u \in Slots, \A i \in 1..Len(M) : M[i] # u PROVE next'[u] = NULL
  <2>1. \A i \in 1..n : L[i] # u
    BY <1>2, <1>3, <1>10
  <2>2. u # tail
    BY <1>2, <1>4, <2>1
  <2>3. next[u] = NULL
    BY <2>1 DEF Linked
  <2> QED
    BY <1>7, <2>2, <2>3
<1>11. Len(M) - 1 = n /\ known = {M[i] : i \in 1..n} /\ tail = M[n] /\ n >= 0
  BY <1>2, <1>3, <1>4
<1>12. Entered(M)' = n
  BY <1>2, <1>11 DEF Entered
<1>13. known' = {M[i] : i \in 1..Entered(M)'}
  BY <1>1, <1>11, <1>12
<1>14. M[Len(M)] = slot'[Main] /\ Entered(M)' >= 0 /\ tail' = M[n] /\ n # 0
  BY <1>1, <1>2, <1>3, <1>11, <1>12
<1> HIDE DEF n
<1> QED
  BY <1>2, <1>9, <1>10, <1>12, <1>13, <1>14 DEF Linked

(* ... and then the tail.                                                  *)
LEMMA TailStored ==
  ASSUME Base, LInv, NEW L \in Seq(Slots), Linked(L), EnqTail(Main)
  PROVE  Linked(L)'
<1> DEFINE n == Len(L)
<1>1. /\ pc[Main] = "enqTail" /\ pc' = [pc EXCEPT ![Main] = "user"]
      /\ tail' = slot[Main] /\ known' = known \cup {slot[Main]} /\ UNCHANGED <<head, next, slot>>
  BY DEF EnqTail, At, Goto, Reply, NewTail
<1>2. pc'[Main] = "user" /\ n \in Nat /\ n >= 1 /\ L[n] = slot[Main]
  BY <1>1 DEF Base, TInv, Actors, Linked, Entered
<1>3. known = {L[i] : i \in 1..n - 1}
  BY <1>1 DEF Linked, Entered
<1>4. known' = {L[i] : i \in 1..n}
  BY <1>1, <1>2, <1>3
<1> QED
  BY <1>1, <1>2, <1>4 DEF Linked, Entered

(* The list and the threads in it, step by step.                           *)
LEMMA ListStep ==
  MainCreates /\ Base /\ LInv /\ [Next]_vars => LInv'
<1> SUFFICES ASSUME MainCreates, Base, LInv, [Next]_vars PROVE LInv'
  OBVIOUS
<1>1. /\ TypeOK /\ Main \in Actors /\ Main \notin Slots /\ Slots \subseteq Actors
      /\ pc \in [Actors -> Labels]
  BY ActorsAssumption DEF Base, Actors, TInv
<1>2. PICK L \in Seq(Slots) : Linked(L)
  BY DEF LInv
<1>3. /\ pc[Main] \in Creating => slot[Main] \in Slots /\ slot[Main] \notin known
      /\ pc[Main] \in Creating \ {"clone"} => slot[Main] \in Started
      /\ known \subseteq Started
      /\ \A s \in Started :
           s \in known \/ (pc[Main] \in Creating \ {"clone"} /\ s = slot[Main])
  BY <1>1 DEF LInv, Base, TInv, Holding
<1>4. CASE Aside
  <2>1. Started' = Started /\ known' = known
    BY <1>1, <1>4 DEF Aside, Started
  <2>2. /\ pc'[Main] \in Creating => pc'[Main] = pc[Main] /\ slot'[Main] = slot[Main]
        /\ pc[Main] \in Creating => pc'[Main] = pc[Main]
        /\ UNCHANGED <<head, tail, next, known>>
    BY <1>4 DEF Aside
  <2>3. Linked(L)'
    BY <1>2, <2>2 DEF Linked, Entered, Creating
  <2>4. pc[Main] \in Creating <=> pc'[Main] \in Creating
    BY <2>2
  <2>5. pc[Main] \in Creating \ {"clone"} <=> pc'[Main] \in Creating \ {"clone"}
    BY <2>2, <2>4
  <2>6. pc[Main] \in Creating => slot'[Main] = slot[Main]
    BY <2>2, <2>4
  <2> HIDE DEF Aside
  <2> QED
    BY <1>3, <2>1, <2>3, <2>4, <2>5, <2>6 DEF LInv
<1>5. ASSUME NEW s \in Slots, Alloc(Main, s) PROVE LInv'
  <2>1. /\ pc[Main] = "alloc" /\ pc' = [pc EXCEPT ![Main] = "clone"]
        /\ slot' = [slot EXCEPT ![Main] = s] /\ state[s] = "UNBORN"
        /\ UNCHANGED <<head, tail, next, known>>
    BY <1>5 DEF Alloc, At, Goto, Unborn, history
  <2>2. /\ pc'[Main] = "clone" /\ slot'[Main] = s /\ Started' = Started
    BY <1>1, <2>1 DEF TypeOK, Started
  <2>3. s \notin known
    BY <2>1 DEF Base, VInv
  <2>4. Linked(L)'
    BY <1>2, <2>1, <2>2, ListKept
  <2>5. Started \subseteq known
    BY <1>3, <2>1 DEF Creating
  <2> QED
    BY <1>3, <2>1, <2>2, <2>3, <2>4, <2>5 DEF LInv, Creating
<1>6. CASE Clone(Main)
  <2>1. /\ pc[Main] = "clone" /\ pc' = [pc EXCEPT ![Main] = "setid", ![slot[Main]] = "user"]
        /\ slot' = slot /\ UNCHANGED <<head, tail, next, known>>
    BY <1>6 DEF Clone, At, list, history
  <2>2. slot[Main] \in Slots
    BY <1>3, <2>1 DEF Creating
  <2>3. pc'[Main] = "setid" /\ Started' = Started \cup {slot[Main]}
    BY <1>1, <2>1, <2>2 DEF Started
  <2>4. Linked(L)'
    BY <1>2, <2>1, <2>3, ListKept
  <2>5. Started \subseteq known /\ slot[Main] \notin known
    BY <1>3, <2>1 DEF Creating
  <2> QED
    BY <1>3, <2>1, <2>3, <2>4, <2>5 DEF LInv, Creating
<1>7. ASSUME NEW l \in Creating \ {"clone"}, pc' = [pc EXCEPT ![Main] = l],
             pc[Main] \in Creating \ {"clone"}, slot' = slot, known' = known,
             NEW M \in Seq(Slots), Linked(M)'
      PROVE  LInv'
  <2>1. pc'[Main] = l /\ Started' = Started
    BY <1>1, <1>7 DEF Started
  <2> QED
    BY <1>3, <1>7, <2>1 DEF LInv
<1>8. CASE SetId(Main)
  <2>1. /\ pc[Main] = "setid" /\ pc' = [pc EXCEPT ![Main] = "enqTest"]
        /\ slot' = slot /\ UNCHANGED <<head, tail, next, known>>
    BY <1>8 DEF SetId, At, Goto, list, history
  <2>2. pc'[Main] = "enqTest"
    BY <1>1, <2>1
  <2>3. Linked(L)'
    BY <1>2, <2>1, <2>2, ListKept
  <2> QED
    BY <1>7, <2>1, <2>3 DEF Creating
<1>9. CASE EnqTest(Main)
  <2>1. /\ pc[Main] = "enqTest"
        /\ pc' = [pc EXCEPT ![Main] = IF head = NULL THEN "enqHead" ELSE "enqLink"]
        /\ slot' = slot /\ UNCHANGED <<head, tail, next, known>>
    BY <1>9 DEF EnqTest, At, Goto, list, history
  <2>2. head = NULL <=> Len(L) = 0
    BY <1>2, ActorsAssumption DEF Linked, Chain, Actors
  <2>3. CASE head = NULL
    <3>1. pc' = [pc EXCEPT ![Main] = "enqHead"] /\ pc'[Main] = "enqHead"
      BY <1>1, <2>1, <2>3
    <3>2. Linked(L)'
      BY <1>2, <2>1, <2>2, <2>3, <3>1, ListKept
    <3> QED
      BY <1>7, <2>1, <3>1, <3>2 DEF Creating
  <2>4. CASE head # NULL
    <3>1. pc' = [pc EXCEPT ![Main] = "enqLink"] /\ pc'[Main] = "enqLink"
      BY <1>1, <2>1, <2>4
    <3>2. Linked(L)'
      BY <1>2, <2>1, <2>2, <2>4, <3>1, ListKept
    <3> QED
      BY <1>7, <2>1, <3>1, <3>2 DEF Creating
  <2> QED
    BY <2>3, <2>4
<1>10. CASE EnqHead(Main)
  <2>1. /\ pc[Main] = "enqHead" /\ pc' = [pc EXCEPT ![Main] = "enqTail"]
        /\ slot' = slot /\ known' = known
    BY <1>10 DEF EnqHead, At, Goto, history
  <2>2. PICK s \in Slots : s = slot[Main]
    BY <1>3, <2>1 DEF Creating
  <2>3. PICK M \in Seq(Slots) : M = <<s>>
    <3>1. <<s>> \in Seq(Slots)
      OBVIOUS
    <3> QED
      BY <3>1
  <2>4. Linked(M)'
    BY <1>2, <1>10, <2>2, <2>3, HeadStored
  <2> QED
    BY <1>7, <2>1, <2>4 DEF Creating
<1>11. CASE EnqLink(Main)
  <2>1. /\ pc[Main] = "enqLink" /\ pc' = [pc EXCEPT ![Main] = "enqTail"]
        /\ slot' = slot /\ known' = known
    BY <1>11 DEF EnqLink, At, Goto, history
  <2>2. PICK s \in Slots : s = slot[Main]
    BY <1>3, <2>1 DEF Creating
  <2>3. PICK M \in Seq(Slots) : M = Append(L, s)
    <3>1. Append(L, s) \in Seq(Slots)
      OBVIOUS
    <3> QED
      BY <3>1
  <2>4. Linked(M)'
    BY <1>2, <1>11, <2>2, <2>3, LinkStored
  <2> QED
    BY <1>7, <2>1, <2>4 DEF Creating
<1>12. CASE EnqTail(Main)
  <2>1. /\ pc[Main] = "enqTail" /\ pc' = [pc EXCEPT ![Main] = "user"]
        /\ slot' = slot /\ known' = known \cup {slot[Main]}
    BY <1>12 DEF EnqTail, At, Goto, Reply
  <2>2. pc'[Main] = "user" /\ Started' = Started
    BY <1>1, <2>1 DEF Started
  <2>3. Linked(L)'
    BY <1>2, <1>12, TailStored
  <2>4. known' \subseteq Started /\ Started \subseteq known'
    BY <1>3, <2>1 DEF Creating
  <2> QED
    BY <2>2, <2>3, <2>4 DEF LInv, Creating
<1> QED
  BY <1>4, <1>5, <1>6, <1>8, <1>9, <1>10, <1>11, <1>12, Sides DEF CreateStep

-----------------------------------------------------------------------------
(* Searches.                                                               *)

SearchInv == Base /\ DInv /\ LInv

(* What the walk along the list needs to know of it.                       *)
LEMMA ListIs ==
  ASSUME SearchInv, NEW L \in Seq(Slots), Linked(L)
  PROVE  /\ Len(L) \in Nat /\ Chain(L, head, next) /\ NULL \notin Slots
         /\ next \in [Slots -> Slots \cup {NULL}]
         /\ \A i \in 1..Len(L) : L[i] \in Slots
         /\ Entered(L) \in 0..Len(L)
         /\ tail = IF Entered(L) = 0 THEN NULL ELSE L[Entered(L)]
<1>1. next \in [Slots -> Slots \cup {NULL}]
  BY DEF SearchInv, Base, TInv, TypeOK
<1>2. Len(L) \in Nat /\ \A i \in 1..Len(L) : L[i] \in Slots
  OBVIOUS
<1>3. NULL \notin Slots
  BY ActorsAssumption DEF Actors
<1>4. Chain(L, head, next) /\ tail = IF Entered(L) = 0 THEN NULL ELSE L[Entered(L)]
  BY DEF Linked
<1>5. Entered(L) \in 0..Len(L)
  BY <1>2 DEF Linked, Entered
<1> QED
  BY <1>1, <1>2, <1>3, <1>4, <1>5

(* A search that meets a thread's node at i, before tail or at it, ends    *)
(* there: no other thread has its id.                                      *)
LEMMA FoundAt ==
  ASSUME SearchInv, NEW L \in Seq(Slots), Linked(L), NEW i \in 1..Len(L),
         t_id[L[i]] # 0, i <= Entered(L) \/ i = 1
  PROVE  Finds(t_id[L[i]]) /\ Searched(t_id[L[i]]) = L[i]
<1> DEFINE id == t_id[L[i]]
<1>1. /\ Len(L) \in Nat /\ Chain(L, head, next) /\ next \in [Slots -> Slots \cup {NULL}]
      /\ L[i] \in Slots /\ NULL \notin Slots /\ Entered(L) \in 0..Len(L)
      /\ tail = IF Entered(L) = 0 THEN NULL ELSE L[Entered(L)]
  BY ListIs
<1>2. Hits(id) = {L[i]}
  BY <1>1 DEF SearchInv, DInv, Hits
<1>3. ASSUME NEW j \in 1..i - 1 PROVE L[j] \notin Stops(tail, Hits(id))
  <2>1. j \in 1..Len(L) /\ L[j] # L[i] /\ L[j] \in Slots
    BY <1>1, <1>3 DEF Chain
  <2>2. CASE Entered(L) = 0
    <3>1. tail = NULL
      BY <1>1, <2>2
    <3> QED
      BY <1>1, <1>2, <2>1, <3>1 DEF Stops
  <2>3. CASE Entered(L) # 0
    <3>1. Entered(L) \in 1..Len(L) /\ tail = L[Entered(L)] /\ j < Entered(L)
      <4>1. i <= Entered(L)
        BY <1>1, <1>3
      <4> QED
        BY <1>1, <1>3, <2>3, <4>1
    <3>2. L[j] # tail
      BY <1>1, <2>1, <3>1 DEF Chain
    <3> QED
      BY <1>1, <1>2, <2>1, <3>2 DEF Stops
  <2> QED
    BY <2>2, <2>3
<1>4. L[i] \in Stops(tail, Hits(id))
  BY <1>2 DEF Stops
<1>5. Ends(head, tail, next, Hits(id)) = L[i]
  BY <1>1, <1>3, <1>4, EndsAt, BoundsAssumption
<1>6. head # NULL
  BY <1>1 DEF Chain
<1> QED
  BY <1>2, <1>5, <1>6 DEF Finds, Searched

(* A search for a thread whose thread_create has returned finds it.        *)
LEMMA KnownFound ==
  ASSUME SearchInv, NEW s \in known
  PROVE  Finds(t_id[s]) /\ Searched(t_id[s]) = s /\ s \in Slots
<1>1. PICK L \in Seq(Slots) : Linked(L)
  BY DEF SearchInv, LInv
<1>2. PICK i \in 1..Entered(L) : L[i] = s
  BY <1>1 DEF Linked
<1>3. i \in 1..Len(L) /\ i <= Entered(L)
  BY <1>2 DEF Entered
<1>4. s \in Slots /\ t_id[s] # 0
  BY DEF SearchInv, Base, TInv, TypeOK, VInv
<1> QED
  BY <1>1, <1>2, <1>3, <1>4, FoundAt

(* Nor does any search go past a tail that is set.                         *)
LEMMA EndsInList ==
  ASSUME SearchInv, NEW L \in Seq(Slots), Linked(L), Entered(L) # 0, NEW id
  PROVE  Searched(id) \in Slots
<1>1. /\ Len(L) \in Nat /\ Chain(L, head, next) /\ next \in [Slots -> Slots \cup {NULL}]
      /\ NULL \notin Slots
  BY ListIs
<1>2. Entered(L) \in 1..Len(L) /\ tail = L[Entered(L)]
  BY ListIs
<1>3. Hits(id) \in SUBSET Slots
  BY DEF Hits
<1>4. \E k \in 1..Entered(L) : Ends(head, L[Entered(L)], next, Hits(id)) = L[k]
  <2> DEFINE m == Entered(L)
             hits == Hits(id)
  <2>1. m \in 1..Len(L) /\ hits \in SUBSET Slots
    BY <1>2, <1>3
  <2> HIDE DEF m, hits
  <2>2. PICK k \in 1..m :
           /\ Ends(head, L[m], next, hits) = L[k]
           /\ k # 1 => Before(head, L[m], next, hits) = L[k - 1]
           /\ \A j \in 1..k - 1 : L[j] \notin hits
           /\ L[k] \in hits \/ k = m
    BY <1>1, <2>1, Search, BoundsAssumption
  <2> QED
    BY <2>2 DEF m, hits
<1>5. \A k \in 1..Entered(L) : L[k] \in Slots
  BY <1>1, <1>2
<1> QED
  BY <1>2, <1>4, <1>5 DEF Searched

(* A thread that calls thread_exit before main has entered it in the queue *)
(* finds a tail that is set, or an empty list, or itself.                  *)
LEMMA ExitSafe ==
  ASSUME SearchInv, NEW a \in Actors, pc[a] = "exitFind", head # NULL
  PROVE  Searched(tid[a]) # NULL
<1>1. PICK L \in Seq(Slots) : Linked(L)
  BY DEF SearchInv, LInv
<1>2. Len(L) \in Nat /\ Len(L) # 0 /\ NULL \notin Slots /\ \A i \in 1..Len(L) : L[i] \in Slots
  BY <1>1, ActorsAssumption DEF Linked, Chain, Actors
<1>3. CASE Entered(L) # 0
  BY <1>1, <1>2, <1>3, EndsInList
<1>4. CASE Entered(L) = 0
  <2>1. pc[Main] = "enqTail" /\ L[1] = slot[Main] /\ Len(L) = 1 /\ known = {}
    BY <1>1, <1>2, <1>4 DEF Linked, Entered
  <2>2. a \in Slots /\ a \in Started
    BY <2>1 DEF Actors, Started
  <2>3. a = L[1]
    BY <2>1, <2>2 DEF SearchInv, LInv
  <2>4. t_id[a] # 0 /\ tid[a] = t_id[a]
    BY <2>1, <2>2 DEF SearchInv, Base, VInv, DInv
  <2>5. Searched(tid[a]) = L[1]
    <3>1. 1 \in 1..Len(L) /\ t_id[L[1]] # 0
      BY <2>1, <2>3, <2>4
    <3>2. Searched(t_id[L[1]]) = L[1]
      BY <1>1, <3>1, FoundAt
    <3> QED
      BY <2>3, <2>4, <3>2
  <2> QED
    BY <1>2, <2>5
<1> QED
  BY <1>3, <1>4

(* The invariant of all of it.                                             *)
LEMMA SearchesInvariant ==
  ASSUME MainCreates, EnoughIds PROVE Spec => []SearchInv
<1>1. Init => SearchInv
  BY TypeInit, StackInit, ValueInit, IdInit, ListInit DEF SearchInv, Base
<1>2. SearchInv /\ [Next]_vars => SearchInv'
  <2>1. OneCreator
    BY DEF MainCreates, OneCreator
  <2> QED
    BY <2>1, TypeStep, StackStep, ValueStep, IdStep, ListStep DEF SearchInv, Base
<1> QED
  BY <1>1, <1>2, PTL DEF Spec

(* thread_join and thread_kill find every thread whose thread_create has   *)
(* returned, whatever enqueue has stored of the next one.                  *)
THEOREM CreatedFound ==
  ASSUME MainCreates, EnoughIds PROVE Spec => []CreatedIsFound
<1>1. SearchInv => CreatedIsFound
  BY KnownFound DEF CreatedIsFound
<1> QED
  BY <1>1, SearchesInvariant, PTL

(* Nobody follows a null pointer into the queue or out of it.              *)
THEOREM NothingNull ==
  ASSUME MainCreates, EnoughIds PROVE Spec => []NoNullPointer
<1>1. SearchInv => NoNullPointer
  <2> SUFFICES ASSUME SearchInv, queue = "up", NEW a \in Actors, NullPointer(a)
               PROVE  FALSE
    BY DEF NoNullPointer
  <2>1. CASE At(a, "enqLink") /\ tail = NULL
    <3>1. a = Main /\ pc[Main] = "enqLink"
      BY <2>1 DEF SearchInv, Base, SInv, MainCreates, At, Creating
    <3>2. PICK L \in Seq(Slots) : Linked(L)
      BY DEF SearchInv, LInv
    <3>3. Len(L) \in Nat /\ Len(L) # 0 /\ Entered(L) = Len(L)
      BY <3>1, <3>2 DEF Linked, Entered
    <3>4. tail = L[Len(L)] /\ L[Len(L)] \in Slots
      BY <3>2, <3>3 DEF Linked
    <3> QED
      BY <2>1, <3>4, ActorsAssumption DEF Actors
  <2>2. CASE (At(a, "joinFind") \/ At(a, "kill")) /\ Stumbles(t_id[call[a].arg])
    <3>1. call[a].arg \in known
      BY <2>2 DEF SearchInv, Base, VInv, At
    <3>2. Searched(t_id[call[a].arg]) \in Slots
      BY <3>1, KnownFound
    <3> QED
      BY <2>2, <3>2, ActorsAssumption DEF Stumbles, Actors
  <2>3. CASE At(a, "exitFind") /\ Stumbles(tid[a])
    BY <2>3, ExitSafe DEF At, Stumbles
  <2> QED
    BY <2>1, <2>2, <2>3 DEF NullPointer
<1> QED
  BY <1>1, SearchesInvariant, PTL

-----------------------------------------------------------------------------
(* Calls and what they answer.                                             *)

(* A thread in thread_join has a thread_s in its hands that is the one it  *)
(* was called for, and has no answer yet.                                  *)
CallFits(a) ==
  /\ pc[a] \in Joiners => slot[a] = call[a].arg
  /\ Joining(a) => call[a].arg \in known
  /\ Joining(a) <=> call[a].op = "join" /\ result[a].code = "none"
  /\ pc[a] \in Creating \cup {"alloc"} => call[a].op = "create"
  /\ pc[a] = "kill" => call[a].op = "kill"
  /\ pc[a] \in Exiting \cup {"exitFind"} => call[a].op \in {"exit", "return"}
  /\ pc[a] \in Exiting => slot[a] = a

CInv == \A a \in Actors : CallFits(a)

(* At first nobody is in a call.                                           *)
LEMMA CallInit == Init => CInv
<1> SUFFICES ASSUME Init, NEW a \in Actors PROVE CallFits(a)
  BY DEF CInv
<1>1. pc[a] \in {"user", "unborn"} /\ call[a].op = "none"
  BY DEF Init, NoCall
<1> QED
  BY <1>1 DEF CallFits, Joining, Joiners, Creating, Exiting

(* The step of one thread in its call.                                     *)
LEMMA OneCall ==
  ASSUME CInv, NEW a \in Actors, CallFits(a)', known \subseteq known',
         \A b \in Actors : b # a =>
           /\ pc'[b] = pc[b] /\ slot'[b] = slot[b]
           /\ call'[b] = call[b] /\ result'[b] = result[b]
  PROVE  CInv'
<1> SUFFICES ASSUME NEW b \in Actors PROVE CallFits(b)'
  BY DEF CInv
<1>1. CASE b = a
  BY <1>1
<1>2. CASE b # a
  <2>1. CallFits(b)
    BY DEF CInv
  <2> QED
    BY <1>2, <2>1 DEF CallFits, Joining
<1> QED
  BY <1>1, <1>2

(* What a search finds is the thread that was searched for, and a thread   *)
(* that looks for itself finds itself or nothing.                          *)
LEMMA CallStep == SearchInv /\ CInv /\ [Next]_vars => CInv'
<1> SUFFICES ASSUME SearchInv, CInv, [Next]_vars PROVE CInv'
  OBVIOUS
<1> USE DEF At, Goto, Joining, Joiners, Creating, Exiting
<1>0. /\ TInv /\ TypeOK /\ pc \in [Actors -> Labels] /\ Slots \subseteq Actors
  BY DEF SearchInv, Base, TInv, Actors
<1>1. ASSUME MainReturns \/ UNCHANGED vars \/ \E a \in Actors : Crash(a) PROVE CInv'
  <2>1. UNCHANGED <<known, pc, slot, call, result>>
    BY <1>1 DEF MainReturns, Crash, vars, history
  <2> QED
    BY <2>1 DEF CInv, CallFits
<1>2. ASSUME NEW a \in Actors, NEW op, NEW arg, NEW l, StartCall(a, op, arg, l),
             l \in {"alloc", "joinFind", "kill", "exitFind"},
             l = "joinFind" <=> op = "join", l = "joinFind" => arg \in known,
             l = "alloc" => op = "create", l = "kill" => op = "kill",
             l = "exitFind" => op = "exit"
      PROVE  CInv'
  <2>1. /\ pc' = [pc EXCEPT ![a] = l] /\ call' = [call EXCEPT ![a] = [op |-> op, arg |-> arg]]
        /\ result' = [result EXCEPT ![a] = NoResult] /\ slot' = slot /\ known' = known
    BY <1>2 DEF StartCall
  <2>2. /\ pc'[a] = l /\ call'[a].op = op /\ call'[a].arg = arg /\ result'[a].code = "none"
        /\ \A b \in Actors : b # a =>
             pc'[b] = pc[b] /\ slot'[b] = slot[b] /\ call'[b] = call[b] /\ result'[b] = result[b]
    BY <1>0, <2>1 DEF TypeOK, NoResult
  <2>3. CallFits(a)'
    BY <1>2, <2>1, <2>2 DEF CallFits
  <2> QED
    BY <2>1, <2>2, <2>3, OneCall
<1>3. ASSUME NEW s \in Slots, ReturnFromRoutine(s) PROVE CInv'
  <2>1. /\ pc' = [pc EXCEPT ![s] = "exitFind"]
        /\ call' = [call EXCEPT ![s] = [op |-> "return", arg |-> s]]
        /\ UNCHANGED <<result, slot, known>>
    BY <1>3 DEF ReturnFromRoutine
  <2>2. /\ pc'[s] = "exitFind" /\ call'[s].op = "return"
        /\ \A b \in Actors : b # s => pc'[b] = pc[b] /\ call'[b] = call[b]
    BY <1>0, <2>1 DEF TypeOK
  <2>3. CallFits(s)'
    BY <2>1, <2>2 DEF CallFits
  <2> QED
    BY <1>0, <2>1, <2>2, <2>3, OneCall
(* A step of a thread inside its call, which stays the same.               *)
<1>4. ASSUME NEW a \in Actors, NEW l \in Labels, pc' = [pc EXCEPT ![a] = l],
             pc[a] \notin {"user", "unborn", "dead"},
             call' = call, known \subseteq known',
             \A b \in Actors : b # a => slot'[b] = slot[b] /\ result'[b] = result[b],
             l \in Joiners => pc[a] \in Joiners \cup {"joinFind"} /\ slot'[a] = call[a].arg,
             l \in Exiting => pc[a] \in Exiting \cup {"exitFind"} /\ slot'[a] = a,
             l \in Creating => pc[a] \in Creating \cup {"alloc"},
             l \notin {"alloc", "kill", "joinFind", "exitFind"},
             result'[a] = result[a] \/ result'[a].code # "none",
             Joining(a) => (l \in Joiners <=> result'[a].code = "none")
      PROVE  CInv'
  <2>1. pc'[a] = l /\ \A b \in Actors : b # a => pc'[b] = pc[b]
    BY <1>0, <1>4
  <2>2. CallFits(a)
    BY DEF CInv
  <2>3. CallFits(a)'
    BY <1>4, <2>1, <2>2 DEF CallFits
  <2> QED
    BY <1>4, <2>1, <2>3, OneCall
<1>5. ASSUME NEW a \in Actors, JoinFind(a) PROVE CInv'
  <2>1. /\ pc[a] = "joinFind" /\ call' = call /\ known' = known
    BY <1>5 DEF JoinFind, history
  <2>2. call[a].arg \in known
    BY <2>1 DEF CInv, CallFits
  <2>3. Finds(t_id[call[a].arg]) /\ Searched(t_id[call[a].arg]) = call[a].arg
    BY <2>2, KnownFound
  <2>4. /\ slot' = [slot EXCEPT ![a] = call[a].arg] /\ result' = result
        /\ pc' = [pc EXCEPT ![a] = "joinTest"]
    BY <1>5, <2>3 DEF JoinFind
  <2>5. result[a].code = "none"
    BY <2>1 DEF CInv, CallFits
  <2> QED
    BY <1>0, <1>4, <2>1, <2>4, <2>5 DEF Labels, TypeOK
<1>6. ASSUME NEW a \in Actors, JoinTest(a) \/ JoinSpin(a) PROVE CInv'
  <2>1. /\ pc[a] \in {"joinTest", "joinSpin"} /\ UNCHANGED <<call, known, slot, result>>
        /\ \E l \in {"joinRead", "joinSpin"} : pc' = [pc EXCEPT ![a] = l]
    BY <1>6 DEF JoinTest, JoinSpin, history
  <2>2. result[a].code = "none" /\ slot[a] = call[a].arg
    BY <2>1 DEF CInv, CallFits
  <2> QED
    BY <1>4, <2>1, <2>2 DEF Labels
<1>7. ASSUME NEW a \in Actors, NEW code, NEW val, code # "none", Reply(a, code, val, "user"),
             UNCHANGED <<call, slot>>, known \subseteq known',
             pc[a] \notin {"user", "unborn", "dead"}
      PROVE  CInv'
  <2>1. /\ pc' = [pc EXCEPT ![a] = "user"]
        /\ result' = [result EXCEPT ![a] = [code |-> code, val |-> val]]
    BY <1>7 DEF Reply
  <2>2. /\ result'[a].code = code /\ \A b \in Actors : b # a => result'[b] = result[b]
    BY <1>0, <2>1 DEF TypeOK
  <2> QED
    BY <1>4, <1>7, <2>1, <2>2 DEF Labels
<1>8. ASSUME NEW a \in Actors, JoinRead(a) \/ Kill(a) \/ AllocFails(a) \/ EnqTail(a)
      PROVE  CInv'
  <2>1. /\ pc[a] \notin {"user", "unborn", "dead"} /\ UNCHANGED <<call, slot>>
        /\ known \subseteq known'
    BY <1>8 DEF JoinRead, Kill, AllocFails, EnqTail, history
  <2>2. \E code, val : code # "none" /\ Reply(a, code, val, "user")
    BY <1>8 DEF JoinRead, Kill, AllocFails, EnqTail, KillCode
  <2> QED
    BY <1>7, <2>1, <2>2
<1>9. ASSUME NEW s \in Slots, ExitFind(s) PROVE CInv'
  <2>1. pc[s] = "exitFind" /\ UNCHANGED <<call, known, result>>
    BY <1>9 DEF ExitFind
  <2>2. ~Joining(s)
    BY <2>1
  <2>3. CASE Finds(tid[s])
    <3>1. /\ slot' = [slot EXCEPT ![s] = Searched(tid[s])]
          /\ pc' = [pc EXCEPT ![s] = "exitTest"]
      BY <1>9, <2>3 DEF ExitFind
    <3>2. tid[s] # 0
      BY <1>0, <2>1 DEF SearchInv, Base, VInv
    <3>3. Searched(tid[s]) = s
      <4>1. Searched(tid[s]) \in Slots /\ t_id[Searched(tid[s])] = tid[s]
        BY <2>3 DEF Finds, Hits
      <4> QED
        BY <1>0, <3>2, <4>1 DEF SearchInv, DInv
    <3> QED
      BY <1>0, <1>4, <2>1, <2>2, <3>1, <3>3 DEF Labels, TypeOK
  <2>4. CASE ~Finds(tid[s])
    <3>1. slot' = slot /\ \E l \in {"end", "user"} : pc' = [pc EXCEPT ![s] = l]
      BY <1>9, <2>4 DEF ExitFind, After
    <3> QED
      BY <1>0, <1>4, <2>1, <2>2, <3>1 DEF Labels
  <2> QED
    BY <2>3, <2>4
<1>10. ASSUME NEW s \in Slots, ExitTest(s) \/ ExitSet(s) \/ End(s) PROVE CInv'
  <2>1. /\ pc[s] \in {"exitTest", "exitSet", "end"} /\ UNCHANGED <<call, known, result, slot>>
        /\ \E l \in {"exitSet", "end", "user", "dead"} :
             pc' = [pc EXCEPT ![s] = l] /\ (l = "exitSet" => pc[s] = "exitTest")
    BY <1>10 DEF ExitTest, ExitSet, End, After, history
  <2>2. ~Joining(s) /\ (pc[s] = "exitTest" => slot[s] = s)
    BY <1>0, <2>1 DEF CInv, CallFits
  <2> QED
    BY <1>0, <1>4, <2>1, <2>2 DEF Labels
<1>11. ASSUME NEW a \in Actors, NEW s \in Slots, Alloc(a, s) PROVE CInv'
  <2>1. /\ pc[a] = "alloc" /\ pc' = [pc EXCEPT ![a] = "clone"] /\ UNCHANGED <<call, known, result>>
        /\ \A b \in Actors : b # a => slot'[b] = slot[b]
    BY <1>0, <1>11 DEF Alloc, history, TypeOK
  <2> QED
    BY <1>4, <2>1 DEF Labels
<1>12. ASSUME NEW a \in Actors, SetId(a) \/ EnqTest(a) \/ EnqHead(a) \/ EnqLink(a) PROVE CInv'
  <2>1. /\ pc[a] \in {"setid", "enqTest", "enqHead", "enqLink"}
        /\ UNCHANGED <<call, known, result, slot>>
        /\ \E l \in {"enqTest", "enqHead", "enqLink", "enqTail"} : pc' = [pc EXCEPT ![a] = l]
    BY <1>12 DEF SetId, EnqTest, EnqHead, EnqLink, history
  <2> QED
    BY <1>4, <2>1 DEF Labels
<1>13. ASSUME NEW a \in Actors, Clone(a) PROVE CInv'
  <2>1. /\ pc[a] = "clone" /\ UNCHANGED <<call, known, result, slot>>
        /\ pc' = [pc EXCEPT ![a] = "setid", ![slot[a]] = "user"]
        /\ slot[a] \in Slots /\ pc[slot[a]] = "unborn"
    BY <1>0, <1>13 DEF Clone, history, SearchInv, Base, VInv, TInv, Holding
  <2> SUFFICES ASSUME NEW b \in Actors PROVE CallFits(b)'
    BY DEF CInv
  <2>2. CallFits(b)
    BY DEF CInv
  <2>3. pc'[b] = IF b = slot[a] THEN "user" ELSE IF b = a THEN "setid" ELSE pc[b]
    BY <1>0, <2>1
  <2> QED
    BY <2>1, <2>2, <2>3 DEF CallFits
<1>14. ASSUME NEW a \in Actors, CallCreate(a) PROVE CInv'
  <2>1. StartCall(a, "create", NULL, "alloc")
    BY <1>14 DEF CallCreate
  <2> QED
    BY <1>2, <2>1
<1>15. ASSUME NEW a \in Actors, NEW s \in Slots, CallJoin(a, s) \/ CallKill(a, s) PROVE CInv'
  <2>1. CASE CallJoin(a, s)
    <3>1. StartCall(a, "join", s, "joinFind") /\ s \in known
      BY <2>1 DEF CallJoin
    <3> QED
      BY <1>2, <3>1
  <2>2. CASE CallKill(a, s)
    <3>1. StartCall(a, "kill", s, "kill")
      BY <2>2 DEF CallKill
    <3> QED
      BY <1>2, <3>1
  <2> QED
    BY <1>15, <2>1, <2>2
<1>16. ASSUME NEW s \in Slots, CallExit(s) PROVE CInv'
  BY <1>0, <1>2, <1>16 DEF CallExit
<1> QED
  BY <1>1, <1>3, <1>5, <1>6, <1>8, <1>9, <1>10, <1>11, <1>12, <1>13, <1>14, <1>15, <1>16
     DEF Next, Over, Program, Library, Create, Join, Exit

-----------------------------------------------------------------------------
(* The values of threads that have ended.                                  *)

(* What thread_exit is about to store.                                     *)
Leaves(s) == IF call[s].op = "return" THEN "returned" ELSE "exited"

(* A thread that has left a value is about to turn its state to EXITED and *)
(* store the value, or about to store it, or has done so, unless it has    *)
(* not found itself.  The kernel clears waittid only once it has ended.    *)
Ended(s) ==
  /\ pc[s] \notin {"unborn", "dead"} => waittid[s] # 0
  /\ pc[s] = "unborn" => final[s] = NULL
  /\ pc[s] \in Exiting \cup {"exitFind", "end", "dead"} => final[s] # NULL
  /\ state[s] = "EXITED" => final[s] # NULL
  /\ final[s] # NULL =>
       \/ s \in missed
       \/ state[s] = "EXITED" /\ pc[s] # "exitSet" /\ ret[s] = final[s]
       \/ state[s] = "EXITED" /\ pc[s] = "exitSet" /\ final[s] = Leaves(s)
       \/ /\ state[s] # "EXITED" /\ pc[s] \in {"exitFind", "exitTest"}
          /\ final[s] = Leaves(s)

EInv ==
  /\ \A s \in Slots : Ended(s)
  /\ \A a \in Actors : pc[a] = "joinRead" => state[slot[a]] = "EXITED"

(* At first nobody has ended.                                              *)
LEMMA EndInit == Init => EInv
  BY ActorsAssumption DEF Init, EInv, Ended, Actors, Exiting

(* Where what Ended says depends on it.                                    *)
Leaving == {"unborn", "exitFind", "exitTest", "exitSet", "end", "dead"}

(* A step that is not about a thread's end.                                *)
LEMMA EndKept ==
  ASSUME EInv, UNCHANGED <<state, ret, waittid, final, missed>>,
         \A s \in Slots :
           \/ pc'[s] = pc[s] /\ (pc[s] \in Leaving => call'[s] = call[s])
           \/ pc[s] \notin Leaving /\ pc'[s] \notin Leaving,
         \A a \in Actors : pc'[a] = "joinRead" =>
           slot'[a] = slot[a] /\ (pc[a] = "joinRead" \/ state[slot[a]] = "EXITED")
  PROVE  EInv'
<1>1. ASSUME NEW s \in Slots PROVE Ended(s)'
  <2>1. Ended(s)
    BY DEF EInv
  <2>2. CASE pc'[s] = pc[s] /\ pc[s] \in Leaving
    <3>1. Leaves(s)' = Leaves(s)
      BY <2>2 DEF Leaves
    <3> QED
      BY <2>1, <2>2, <3>1 DEF Ended
  <2>3. CASE pc[s] \notin Leaving /\ pc'[s] \notin Leaving
    BY <2>1, <2>3 DEF Ended, Leaving, Exiting
  <2> QED
    BY <2>2, <2>3
<1>2. \A a \in Actors : pc'[a] = "joinRead" => state'[slot'[a]] = "EXITED"
  BY DEF EInv
<1> QED
  BY <1>1, <1>2 DEF EInv

(* A step of one thread towards its end.                                   *)
LEMMA OneEnds ==
  ASSUME EInv, NEW t \in Slots, Ended(t)',
         \A s \in Slots : s # t =>
           /\ pc'[s] = pc[s] /\ call'[s] = call[s] /\ state'[s] = state[s]
           /\ ret'[s] = ret[s] /\ waittid'[s] = waittid[s] /\ final'[s] = final[s]
           /\ (s \in missed => s \in missed'),
         \A s \in Slots : state[s] = "EXITED" => state'[s] = "EXITED",
         \A a \in Actors : pc'[a] = "joinRead" =>
           pc[a] = "joinRead" /\ slot'[a] = slot[a] /\ slot[a] \in Slots
  PROVE  EInv'
<1>1. ASSUME NEW s \in Slots, s # t PROVE Ended(s)'
  <2>1. Ended(s) /\ Leaves(s)' = Leaves(s)
    BY <1>1 DEF EInv, Leaves
  <2> QED
    BY <1>1, <2>1 DEF Ended
<1>2. \A a \in Actors : pc'[a] = "joinRead" => state'[slot'[a]] = "EXITED"
  BY DEF EInv
<1> QED
  BY <1>1, <1>2 DEF EInv

(* Every step keeps it.  thread_join sets a state to EXITED only when the  *)
(* kernel has cleared waittid, and then the thread has done so itself.     *)
LEMMA EndStep == SearchInv /\ CInv /\ EInv /\ [Next]_vars => EInv'
<1> SUFFICES ASSUME SearchInv, CInv, EInv, [Next]_vars PROVE EInv'
  OBVIOUS
<1> USE DEF At, Goto, Joiners, Exiting, Leaving
<1>0. /\ TInv /\ TypeOK /\ pc \in [Actors -> Labels] /\ Slots \subseteq Actors
      /\ NULL \notin Slots
  BY ActorsAssumption DEF SearchInv, Base, TInv, Actors
<1>1. ASSUME MainReturns \/ UNCHANGED vars \/ \E a \in Actors : Crash(a) PROVE EInv'
  <2>1. UNCHANGED <<state, ret, waittid, final, missed, pc, call, slot>>
    BY <1>1 DEF MainReturns, Crash, vars, fields, history
  <2> QED
    BY <2>1, EndKept DEF EInv
(* A step of one thread that is not on its way to its end.                 *)
<1>2. ASSUME NEW a \in Actors, NEW l, pc' = [pc EXCEPT ![a] = l],
             pc[a] \notin Leaving, l \notin Leaving,
             UNCHANGED <<state, ret, waittid, final, missed>>,
             \A b \in Actors : b # a => call'[b] = call[b] /\ slot'[b] = slot[b],
             l = "joinRead" => slot'[a] = slot[a] /\ state[slot[a]] = "EXITED"
      PROVE  EInv'
  <2>1. pc'[a] = l /\ \A b \in Actors : b # a => pc'[b] = pc[b]
    BY <1>0, <1>2
  <2> QED
    BY <1>0, <1>2, <2>1, EndKept
<1>3. ASSUME NEW a \in Actors, NEW op, NEW arg, NEW l, StartCall(a, op, arg, l),
             final' = final, l \notin Leaving \cup {"joinRead"}
      PROVE  EInv'
  <2>1. /\ pc[a] = "user" /\ pc' = [pc EXCEPT ![a] = l]
        /\ call' = [call EXCEPT ![a] = [op |-> op, arg |-> arg]]
        /\ UNCHANGED <<state, ret, waittid, missed, slot>>
    BY <1>3 DEF StartCall, fields
  <2>2. \A b \in Actors : b # a => call'[b] = call[b]
    BY <1>0, <2>1 DEF TypeOK
  <2> QED
    BY <1>2, <1>3, <2>1, <2>2
<1>4. ASSUME NEW a \in Actors, CallCreate(a) PROVE EInv'
  <2>1. StartCall(a, "create", NULL, "alloc") /\ final' = final
    BY <1>4 DEF CallCreate
  <2> QED
    BY <1>3, <2>1
<1>5. ASSUME NEW a \in Actors, NEW s \in Slots, CallJoin(a, s) PROVE EInv'
  <2>1. StartCall(a, "join", s, "joinFind") /\ final' = final
    BY <1>5 DEF CallJoin
  <2> QED
    BY <1>3, <2>1
<1>6. ASSUME NEW a \in Actors, NEW s \in Slots, CallKill(a, s) PROVE EInv'
  <2>1. StartCall(a, "kill", s, "kill") /\ final' = final
    BY <1>6 DEF CallKill
  <2> QED
    BY <1>3, <2>1
<1>7. ASSUME NEW a \in Actors, AllocFails(a) \/ Kill(a) \/ JoinRead(a) \/ EnqTail(a)
      PROVE  EInv'
  <2>1. /\ pc[a] \in {"alloc", "kill", "joinRead", "enqTail"} /\ pc' = [pc EXCEPT ![a] = "user"]
        /\ UNCHANGED <<state, ret, waittid, final, missed, call, slot>>
    BY <1>7 DEF AllocFails, Kill, JoinRead, EnqTail, Reply, fields, history
  <2> QED
    BY <1>2, <2>1
<1>8. ASSUME NEW a \in Actors, SetId(a) \/ EnqTest(a) \/ EnqHead(a) \/ EnqLink(a) PROVE EInv'
  <2>1. /\ pc[a] \in {"setid", "enqTest", "enqHead", "enqLink"}
        /\ UNCHANGED <<state, ret, waittid, final, missed, call, slot>>
        /\ \E l \in {"enqTest", "enqHead", "enqLink", "enqTail"} : pc' = [pc EXCEPT ![a] = l]
    BY <1>8 DEF SetId, EnqTest, EnqHead, EnqLink, fields, history
  <2> QED
    BY <1>2, <2>1
<1>9. ASSUME NEW a \in Actors, JoinFind(a) PROVE EInv'
  <2>1. /\ pc[a] = "joinFind" /\ UNCHANGED <<state, ret, waittid, final, missed, call>>
        /\ \E l \in {"joinTest", "user"} : pc' = [pc EXCEPT ![a] = l]
    BY <1>9 DEF JoinFind, Reply, fields, history
  <2>2. \A b \in Actors : b # a => slot'[b] = slot[b]
    BY <1>0, <1>9 DEF JoinFind, TypeOK
  <2> QED
    BY <1>2, <2>1, <2>2
<1>10. ASSUME NEW a \in Actors, JoinTest(a) PROVE EInv'
  <2>1. /\ pc[a] = "joinTest" /\ UNCHANGED <<state, ret, waittid, final, missed, call, slot>>
        /\ \E l \in {"joinRead", "joinSpin"} :
             pc' = [pc EXCEPT ![a] = l] /\ (l = "joinRead" => state[slot[a]] = "EXITED")
    BY <1>10 DEF JoinTest, fields, history
  <2> QED
    BY <1>2, <2>1
<1>11. ASSUME NEW a \in Actors, NEW s \in Slots, Alloc(a, s) PROVE EInv'
  <2>1. /\ pc[a] = "alloc" /\ pc' = [pc EXCEPT ![a] = "clone"] /\ state[s] = "UNBORN"
        /\ state' = [state EXCEPT ![s] = "RUNNING"]
        /\ UNCHANGED <<ret, waittid, final, missed, call>>
    BY <1>11 DEF Alloc, Unborn, history
  <2>2. /\ \A b \in Actors : b # a => slot'[b] = slot[b] /\ pc'[b] = pc[b]
        /\ pc'[a] = "clone"
    BY <1>0, <1>11 DEF Alloc, TypeOK
  <2>3. \A u \in Slots : state'[u] = "EXITED" <=> state[u] = "EXITED"
    BY <1>0, <2>1 DEF TypeOK
  <2>4. ASSUME NEW u \in Slots PROVE Ended(u)'
    <3>1. Ended(u) /\ Leaves(u)' = Leaves(u)
      BY <2>1 DEF EInv, Leaves
    <3> QED
      BY <1>0, <2>1, <2>2, <2>3, <3>1 DEF Ended
  <2>5. ASSUME NEW b \in Actors, pc'[b] = "joinRead" PROVE state'[slot'[b]] = "EXITED"
    <3>1. b # a /\ pc[b] = "joinRead" /\ slot'[b] = slot[b] /\ slot[b] \in Slots
      BY <1>0, <2>2, <2>5 DEF TInv, Holding
    <3> QED
      BY <2>3, <3>1 DEF EInv
  <2> QED
    BY <2>4, <2>5 DEF EInv
<1>12. ASSUME NEW a \in Actors, Clone(a) PROVE EInv'
  <2> DEFINE s == slot[a]
  <2>1. /\ pc[a] = "clone" /\ s \in Slots /\ pc[s] = "unborn" /\ FreshId \in 1..PidMax
        /\ pc' = [pc EXCEPT ![a] = "setid", ![s] = "user"]
        /\ waittid' = [waittid EXCEPT ![s] = FreshId]
        /\ UNCHANGED <<ret, state, final, missed, call, slot>>
    BY <1>0, <1>12, FreshIsFree
       DEF Clone, SetTid, history, SearchInv, Base, VInv, TInv, Holding, Creating
  <2>2. \A b \in Actors : pc'[b] = IF b = s THEN "user" ELSE IF b = a THEN "setid" ELSE pc[b]
    BY <1>0, <2>1
  <2>3. /\ waittid'[s] # 0 /\ \A u \in Slots : u # s => waittid'[u] = waittid[u]
    BY <1>0, <2>1, BoundsAssumption DEF TypeOK
  <2> HIDE DEF s
  <2>4. ASSUME NEW u \in Slots PROVE Ended(u)'
    <3>1. Ended(u) /\ Leaves(u)' = Leaves(u)
      BY <2>1 DEF EInv, Leaves
    <3> QED
      BY <1>0, <2>1, <2>2, <2>3, <3>1 DEF Ended
  <2>5. ASSUME NEW b \in Actors, pc'[b] = "joinRead" PROVE state'[slot'[b]] = "EXITED"
    BY <2>1, <2>2, <2>5 DEF EInv
  <2> QED
    BY <2>4, <2>5 DEF EInv
(* The steps of a thread that leaves.                                      *)
<1>13. ASSUME NEW s \in Slots, NEW l, pc[s] # "joinRead", pc' = [pc EXCEPT ![s] = l],
              l # "joinRead", UNCHANGED state,
              \A u \in Slots : u # s =>
                /\ call'[u] = call[u] /\ ret'[u] = ret[u] /\ waittid'[u] = waittid[u]
                /\ final'[u] = final[u] /\ (u \in missed => u \in missed'),
              \A a \in Actors : a # s => slot'[a] = slot[a],
              Ended(s)'
       PROVE  EInv'
  <2>1. pc'[s] = l /\ \A b \in Actors : b # s => pc'[b] = pc[b]
    BY <1>0, <1>13
  <2>2. \A a \in Actors : pc'[a] = "joinRead" =>
          pc[a] = "joinRead" /\ slot'[a] = slot[a] /\ slot[a] \in Slots
    BY <1>0, <1>13, <2>1 DEF TInv, Holding
  <2> QED
    BY <1>0, <1>13, <2>1, <2>2, OneEnds
<1>14. ASSUME NEW s \in Slots, CallExit(s) \/ ReturnFromRoutine(s) PROVE EInv'
  <2>1. PICK op \in {"exit", "return"}, v \in {"exited", "returned"} :
          /\ v = IF op = "return" THEN "returned" ELSE "exited"
          /\ call' = [call EXCEPT ![s] = [op |-> op, arg |-> s]]
          /\ final' = [final EXCEPT ![s] = IF @ = NULL THEN v ELSE @]
    <3>1. CASE CallExit(s)
      BY <3>1 DEF CallExit, StartCall, First
    <3>2. CASE ReturnFromRoutine(s)
      BY <3>2 DEF ReturnFromRoutine, First
    <3> QED
      BY <1>14, <3>1, <3>2
  <2>2. /\ pc[s] = "user" /\ pc' = [pc EXCEPT ![s] = "exitFind"]
        /\ UNCHANGED <<state, ret, waittid, missed, slot>>
    BY <1>14 DEF CallExit, StartCall, ReturnFromRoutine, fields
  <2>3. /\ Leaves(s)' = v /\ v # NULL /\ pc'[s] = "exitFind"
        /\ final'[s] = IF final[s] = NULL THEN v ELSE final[s]
        /\ \A u \in Slots : u # s => final'[u] = final[u] /\ call'[u] = call[u]
    <3>1. call'[s].op = op
      BY <1>0, <2>1 DEF TypeOK
    <3>2. NULL \notin {"exited", "returned"}
      BY DEF NULL
    <3> QED
      BY <1>0, <2>1, <2>2, <3>1, <3>2 DEF TypeOK, Leaves
  <2>4. Ended(s)'
    <3>1. Ended(s)
      BY DEF EInv
    <3> QED
      BY <2>2, <2>3, <3>1 DEF Ended
  <2> QED
    BY <1>13, <2>2, <2>3, <2>4
<1>15. ASSUME NEW s \in Slots, ExitFind(s) PROVE EInv'
  <2>1. /\ pc[s] = "exitFind" /\ UNCHANGED <<state, ret, waittid, final, call>>
        /\ \E l \in {"exitTest", "end", "user"} :
             /\ pc' = [pc EXCEPT ![s] = l]
             /\ IF l = "exitTest" THEN missed' = missed ELSE missed' = missed \cup {s}
    BY <1>15 DEF ExitFind, After, fields
  <2>2. \A b \in Actors : b # s => slot'[b] = slot[b]
    BY <1>0, <1>15 DEF ExitFind, TypeOK
  <2>3. Ended(s)'
    <3>1. Ended(s) /\ Leaves(s)' = Leaves(s)
      BY <2>1 DEF EInv, Leaves
    <3>2. \E l \in {"exitTest", "end", "user"} :
            pc'[s] = l /\ IF l = "exitTest" THEN missed' = missed ELSE s \in missed'
      BY <1>0, <2>1
    <3> QED
      BY <2>1, <3>1, <3>2 DEF Ended
  <2> QED
    BY <1>13, <2>1, <2>2, <2>3
<1>16. ASSUME NEW s \in Slots, ExitTest(s) PROVE EInv'
  <2>1. /\ pc[s] = "exitTest" /\ UNCHANGED <<ret, waittid, final, missed, call, slot>>
        /\ slot[s] = s
    BY <1>0, <1>16 DEF ExitTest, fields, history, CInv, CallFits
  <2>2. Ended(s) /\ Leaves(s)' = Leaves(s)
    BY <2>1 DEF EInv, Leaves
  <2>3. CASE state[s] = "EXITED"
    <3>1. state' = state /\ \E l \in {"end", "user"} : pc' = [pc EXCEPT ![s] = l]
      BY <1>16, <2>1, <2>3 DEF ExitTest, FirstExit, After
    <3>2. pc'[s] \in {"end", "user"}
      BY <1>0, <3>1
    <3>3. Ended(s)'
      BY <2>1, <2>2, <2>3, <3>1, <3>2 DEF Ended
    <3> QED
      BY <1>13, <2>1, <3>1, <3>3
  <2>4. CASE state[s] # "EXITED"
    <3>1. state' = [state EXCEPT ![s] = "EXITED"] /\ pc' = [pc EXCEPT ![s] = "exitSet"]
      BY <1>16, <2>1, <2>4 DEF ExitTest, FirstExit
    <3>2. /\ pc'[s] = "exitSet" /\ state'[s] = "EXITED"
          /\ \A b \in Actors : b # s => pc'[b] = pc[b]
          /\ \A u \in Slots : u # s => state'[u] = state[u]
      BY <1>0, <3>1 DEF TypeOK
    <3>3. Ended(s)'
      BY <2>1, <2>2, <2>4, <3>1, <3>2 DEF Ended
    <3>4. \A a \in Actors : pc'[a] = "joinRead" =>
            pc[a] = "joinRead" /\ slot'[a] = slot[a] /\ slot[a] \in Slots
      BY <1>0, <2>1, <3>2 DEF TInv, Holding
    <3> QED
      BY <1>0, <2>1, <3>2, <3>3, <3>4, OneEnds
  <2> QED
    BY <2>3, <2>4
<1>17. ASSUME NEW s \in Slots, ExitSet(s) PROVE EInv'
  <2>1. /\ pc[s] = "exitSet" /\ UNCHANGED <<state, waittid, final, missed, call, slot>>
        /\ slot[s] = s /\ ret' = [ret EXCEPT ![s] = Leaves(s)]
        /\ \E l \in {"end", "user"} : pc' = [pc EXCEPT ![s] = l]
    <3>1. pc[s] = "exitSet"
      BY <1>17 DEF ExitSet
    <3>2. slot[s] = s
      BY <1>0, <3>1 DEF CInv, CallFits
    <3> QED
      BY <1>17, <3>1, <3>2 DEF ExitSet, After, history, Leaves
  <2>2. /\ pc'[s] \in {"end", "user"} /\ ret'[s] = Leaves(s)
        /\ \A u \in Slots : u # s => ret'[u] = ret[u]
    BY <1>0, <2>1 DEF TypeOK
  <2>3. Ended(s)'
    <3>1. Ended(s) /\ Leaves(s)' = Leaves(s)
      BY <2>1 DEF EInv, Leaves
    <3> QED
      BY <2>1, <2>2, <3>1 DEF Ended
  <2> QED
    BY <1>13, <2>1, <2>2, <2>3
<1>18. ASSUME NEW s \in Slots, End(s) PROVE EInv'
  <2>1. /\ pc[s] = "end" /\ pc' = [pc EXCEPT ![s] = "dead"]
        /\ waittid' = [waittid EXCEPT ![s] = 0]
        /\ UNCHANGED <<state, ret, final, missed, call, slot>>
    BY <1>18 DEF End, ClearTid, history
  <2>2. pc'[s] = "dead" /\ \A u \in Slots : u # s => waittid'[u] = waittid[u]
    BY <1>0, <2>1 DEF TypeOK
  <2>3. Ended(s)'
    <3>1. Ended(s) /\ Leaves(s)' = Leaves(s)
      BY <2>1 DEF EInv, Leaves
    <3> QED
      BY <2>1, <2>2, <3>1 DEF Ended
  <2> QED
    BY <1>13, <2>1, <2>2, <2>3
(* The thread_s in thread_join's hands is that of a thread that has begun, *)
(* and is dead now that waittid is clear.                                  *)
<1>19. ASSUME NEW a \in Actors, JoinSpin(a) PROVE EInv'
  <2> DEFINE s == slot[a]
  <2>1. /\ pc[a] = "joinSpin" /\ waittid[s] = 0 /\ pc' = [pc EXCEPT ![a] = "joinRead"]
        /\ state' = [state EXCEPT ![s] = "EXITED"]
        /\ UNCHANGED <<ret, waittid, final, missed, call, slot>>
    BY <1>19 DEF JoinSpin, history
  <2>2. s \in known
    BY <2>1 DEF CInv, CallFits, Joining
  <2>3. s \in Slots /\ pc[s] # "unborn"
    BY <2>2 DEF SearchInv, LInv, Started
  <2> HIDE DEF s
  <2>4. Ended(s)
    BY <2>3 DEF EInv
  <2>5. pc[s] = "dead" /\ final[s] # NULL
    BY <2>1, <2>3, <2>4 DEF Ended
  <2>6. /\ pc'[a] = "joinRead" /\ state'[s] = "EXITED"
        /\ \A b \in Actors : b # a => pc'[b] = pc[b]
        /\ \A u \in Slots : u # s => state'[u] = state[u]
    BY <1>0, <2>1, <2>3 DEF TypeOK
  <2>7. ASSUME NEW u \in Slots PROVE Ended(u)'
    <3>1. Ended(u) /\ Leaves(u)' = Leaves(u)
      BY <2>1 DEF EInv, Leaves
    <3>2. CASE u = s
      <4>1. pc'[s] = "dead"
        BY <1>0, <2>1, <2>3, <2>5, <2>6
      <4> QED
        BY <2>1, <2>4, <2>5, <2>6, <3>2, <4>1 DEF Ended
    <3>3. CASE u # s /\ u # a
      BY <1>0, <2>1, <2>6, <3>1, <3>3 DEF Ended
    <3>4. CASE u # s /\ u = a
      <4>1. /\ UNCHANGED <<ret, waittid, final, missed>> /\ state'[u] = state[u]
            /\ pc[u] = "joinSpin" /\ pc'[u] = "joinRead"
        BY <1>0, <2>1, <2>6, <3>4
      <4> QED
        BY <3>1, <4>1 DEF Ended
    <3> QED
      BY <3>2, <3>3, <3>4
  <2>8. ASSUME NEW b \in Actors, pc'[b] = "joinRead" PROVE state'[slot'[b]] = "EXITED"
    <3>1. CASE b = a
      BY <2>1, <2>6, <3>1 DEF s
    <3>2. CASE b # a
      <4>1. pc[b] = "joinRead" /\ slot'[b] = slot[b] /\ slot[b] \in Slots
        BY <1>0, <2>1, <2>6, <2>8, <3>2 DEF TInv, Holding
      <4> QED
        BY <2>6, <4>1 DEF EInv
    <3> QED
      BY <3>1, <3>2
  <2> QED
    BY <2>7, <2>8 DEF EInv
<1> QED
  BY <1>1, <1>4, <1>5, <1>6, <1>7, <1>8, <1>9, <1>10, <1>11, <1>12, <1>14, <1>15, <1>16, <1>17,
     <1>18, <1>19
     DEF Next, Over, Program, Library, Create, Join, Exit

(* All of it.                                                              *)
CallInv == SearchInv /\ CInv /\ EInv

(* It holds of every reachable state.                                      *)
LEMMA CallsInvariant ==
  ASSUME MainCreates, EnoughIds PROVE Spec => []CallInv
<1>1. Init => CInv /\ EInv
  BY CallInit, EndInit
<1>2. SearchInv /\ CInv /\ EInv /\ [Next]_vars => (CInv /\ EInv)'
  BY CallStep, EndStep
<1> QED
  BY <1>1, <1>2, SearchesInvariant, PTL DEF Spec, CallInv

(* Only thread_join's last step leaves the place before it.                *)
LEMMA OnlyReads ==
  ASSUME TInv, VInv, [Next]_vars, NEW a \in Actors, pc[a] = "joinRead", pc'[a] = "user"
  PROVE  JoinRead(a)
<1> USE DEF At, Goto
<1>0. pc \in [Actors -> Labels] /\ Slots \subseteq Actors
  BY DEF TInv, Actors
<1>1. ASSUME NEW b \in Actors, NEW l, pc[b] # "joinRead", pc' = [pc EXCEPT ![b] = l] PROVE FALSE
  BY <1>0, <1>1
<1>2. ASSUME MainReturns \/ UNCHANGED vars \/ \E b \in Actors : Crash(b) PROVE FALSE
  BY <1>2 DEF MainReturns, Crash, vars
<1>3. ASSUME NEW b \in Actors, NEW op, NEW arg, NEW l, StartCall(b, op, arg, l) PROVE FALSE
  <2>1. pc[b] = "user" /\ pc' = [pc EXCEPT ![b] = l]
    BY <1>3 DEF StartCall
  <2> QED
    BY <1>1, <2>1
<1>4. ASSUME Program PROVE FALSE
  <2>1. CASE \E s \in Slots : ReturnFromRoutine(s)
    <3>1. \E s \in Slots : pc[s] = "user" /\ pc' = [pc EXCEPT ![s] = "exitFind"]
      BY <2>1 DEF ReturnFromRoutine
    <3> QED
      BY <1>0, <1>1, <3>1
  <2>2. CASE \/ \E b \in Actors : CallCreate(b)
             \/ \E b \in Actors, s \in Slots : CallJoin(b, s) \/ CallKill(b, s)
             \/ \E s \in Slots : CallExit(s)
    BY <1>0, <1>3, <2>2 DEF CallCreate, CallJoin, CallKill, CallExit
  <2> QED
    BY <1>2, <1>4, <2>1, <2>2 DEF Program
<1>5. ASSUME NEW b \in Actors, Create(b) PROVE FALSE
  <2>1. CASE Clone(b)
    <3>1. /\ pc[b] = "clone" /\ slot[b] \in Actors /\ pc[slot[b]] = "unborn"
          /\ pc' = [pc EXCEPT ![b] = "setid", ![slot[b]] = "user"]
      BY <1>0, <2>1 DEF Clone, TInv, VInv, Holding, Creating
    <3> QED
      BY <1>0, <3>1
  <2>2. CASE ~Clone(b)
    <3>1. pc[b] # "joinRead" /\ \E l : pc' = [pc EXCEPT ![b] = l]
      BY <1>5, <2>2
         DEF Create, Alloc, AllocFails, SetId, EnqTest, EnqHead, EnqLink, EnqTail, Reply
    <3> QED
      BY <1>1, <3>1
  <2> QED
    BY <2>1, <2>2
<1>6. ASSUME NEW b \in Actors, JoinFind(b) \/ JoinTest(b) \/ JoinSpin(b) \/ Kill(b) PROVE FALSE
  <2>1. pc[b] # "joinRead" /\ \E l : pc' = [pc EXCEPT ![b] = l]
    BY <1>6 DEF JoinFind, JoinTest, JoinSpin, Kill, Reply
  <2> QED
    BY <1>1, <2>1
<1>7. ASSUME NEW s \in Slots, Exit(s) PROVE FALSE
  <2>1. pc[s] # "joinRead" /\ \E l : pc' = [pc EXCEPT ![s] = l]
    BY <1>7 DEF Exit, ExitFind, ExitTest, ExitSet, End
  <2> QED
    BY <1>0, <1>1, <2>1
<1>8. ASSUME NEW b \in Actors, JoinRead(b) PROVE b = a
  BY <1>0, <1>8 DEF JoinRead, Reply
<1> QED
  BY <1>2, <1>4, <1>5, <1>6, <1>7, <1>8 DEF Next, Over, Library, Join

(* thread_join returns the value its thread left, but for the two windows: *)
(* it was not in the queue yet when it called thread_exit, or it is just   *)
(* about to store the value.                                               *)
THEOREM ValuesRead ==
  ASSUME MainCreates, EnoughIds PROVE Spec => ReadsValueOrWindow
<1>1. ASSUME CallInv, [Next]_vars, NEW a \in Actors, pc[a] = "joinRead", pc'[a] = "user"
      PROVE  \/ result'[a].val = final[call[a].arg]
             \/ call[a].arg \in missed
             \/ pc[call[a].arg] = "exitSet"
  <2> DEFINE s == slot[a]
  <2>1. s = call[a].arg /\ s \in Slots /\ state[s] = "EXITED"
    BY <1>1 DEF CallInv, CInv, CallFits, EInv, Joiners, SearchInv, Base, TInv, Holding
  <2>2. JoinRead(a)
    BY <1>1, OnlyReads DEF CallInv, SearchInv, Base
  <2>3. result'[a].val = ret[s]
    BY <1>1, <2>2 DEF JoinRead, Reply, Retval, CallInv, SearchInv, Base, TInv, TypeOK
  <2>4. Ended(s)
    BY <1>1, <2>1 DEF CallInv, EInv
  <2> QED
    BY <2>1, <2>3, <2>4 DEF Ended
<1>2. CallInv /\ [Next]_vars =>
        [\A a \in Actors :
           LET s == call[a].arg IN
           pc[a] = "joinRead" /\ pc'[a] = "user" =>
             \/ result'[a].val = final[s]
             \/ s \in missed
             \/ pc[s] = "exitSet"]_vars
  BY <1>1
<1> QED
  BY <1>2, CallsInvariant, PTL DEF Spec, ReadsValueOrWindow

-----------------------------------------------------------------------------
(* What thread.h promises of threads.                                      *)

(* Being unborn, alive or ended, and the value left.                       *)
LEMMA SameLives ==
  ASSUME \A a \in Actors : pc'[a] = "unborn" <=> pc[a] = "unborn", final' = final
  PROVE  Phase' = Phase /\ \A a \in Actors : Left(a)' = Left(a)
<1> QED
  BY DEF Phase, Left

(* The last thread_join and its answer.                                    *)
LEMMA SameJoins ==
  ASSUME call' = call, \A a \in Actors : call[a].op = "join" => result'[a] = result[a]
  PROVE  Joins' = Joins
<1> QED
  BY DEF Joins

(* One thread's call changes.                                              *)
LEMMA OneJoin ==
  ASSUME NEW c \in Actors,
         \A a \in Actors : a # c => call'[a] = call[a] /\ result'[a] = result[a]
  PROVE  /\ call'[c].op # "join" => Joins' = [Joins EXCEPT ![c] = AT!NoJoin]
         /\ call'[c].op = "join" =>
              Joins' = [Joins EXCEPT ![c] = [of |-> call'[c].arg, code |-> result'[c].code,
                                             val |-> result'[c].val]]
<1> QED
  BY DEF Joins, AT!NoJoin

(* What changes neither lives nor joins.                                   *)
LEMMA Silent ==
  ASSUME \A a \in Actors : pc'[a] = "unborn" <=> pc[a] = "unborn",
         final' = final, call' = call,
         \A a \in Actors : call[a].op = "join" => result'[a] = result[a]
  PROVE  UNCHANGED AT!vars
<1> QED
  BY SameLives, SameJoins DEF AT!vars

(* A step of one thread neither starts it nor another.                     *)
LEMMA OneSteps ==
  ASSUME pc \in [Actors -> Labels], NEW a \in Actors, NEW l, pc[a] # "unborn", l # "unborn",
         pc' = [pc EXCEPT ![a] = l]
  PROVE  \A b \in Actors : pc'[b] = "unborn" <=> pc[b] = "unborn"
  OBVIOUS

(* The program calls only when the last call is over.                      *)
LEMMA CallersIdle ==
  ASSUME CInv, NEW a \in Actors, pc[a] = "user"
  PROVE  ~AT!Waits(a)
<1>1. call[a].op = "join" => result[a].code # "none"
  BY DEF CInv, CallFits, Joining
<1> QED
  BY <1>1 DEF AT!Waits, Joins

(* The calls other than thread_exit.                                       *)
LEMMA CallTalks ==
  ASSUME TInv, CInv, NEW a \in Actors, NEW op, NEW arg \in Slots \cup {NULL},
         op = "join" => arg \in Slots,
         NEW l \in Labels \ {"unborn"}, StartCall(a, op, arg, l), final' = final
  PROVE  AT!Next
<1>1. /\ pc[a] = "user" /\ pc' = [pc EXCEPT ![a] = l]
      /\ call' = [call EXCEPT ![a] = [op |-> op, arg |-> arg]]
      /\ result' = [result EXCEPT ![a] = NoResult]
  BY DEF StartCall, At, Goto
<1>2. /\ call'[a].op = op /\ call'[a].arg = arg
      /\ result'[a].code = "none" /\ result'[a].val = NULL
      /\ \A b \in Actors : b # a => call'[b] = call[b] /\ result'[b] = result[b]
  BY <1>1 DEF TInv, TypeOK, NoResult
<1>3. Phase' = Phase /\ \A b \in Actors : Left(b)' = Left(b)
  <2>1. \A b \in Actors : pc'[b] = "unborn" <=> pc[b] = "unborn"
    BY <1>1, OneSteps DEF TInv
  <2> QED
    BY <2>1, SameLives
<1>4. ~AT!Waits(a)
  BY <1>1, CallersIdle
<1>5. CASE op = "join"
  <2>1. Joins' = [Joins EXCEPT ![a] = [of |-> arg, code |-> "none", val |-> NULL]]
    BY <1>2, <1>5, OneJoin
  <2>2. AT!Ask(a, arg)
    BY <1>3, <1>4, <2>1 DEF AT!Ask
  <2> QED
    BY <1>5, <2>2 DEF AT!Next, Actors
<1>6. CASE op # "join"
  <2>1. Joins' = [Joins EXCEPT ![a] = AT!NoJoin]
    BY <1>2, <1>6, OneJoin
  <2>2. AT!Forget(a)
    BY <1>3, <1>4, <2>1 DEF AT!Forget
  <2> QED
    BY <2>2 DEF AT!Next
<1> QED
  BY <1>5, <1>6

(* thread_exit, called or reached at the end of the start routine: the     *)
(* first time it is the thread's end.                                      *)
LEMMA ExitTalks ==
  ASSUME TInv, CInv, NEW s \in Slots, CallExit(s) \/ ReturnFromRoutine(s)
  PROVE  AT!Next
<1> USE DEF At, Goto
<1>0. s \in Actors /\ s # Main
  BY ActorsAssumption DEF Actors
<1>1. PICK op \in {"exit", "return"}, v \in {"exited", "returned"} :
        /\ call' = [call EXCEPT ![s] = [op |-> op, arg |-> s]]
        /\ final' = [final EXCEPT ![s] = IF @ = NULL THEN v ELSE @]
  <2>1. CASE CallExit(s)
    BY <2>1 DEF CallExit, StartCall, First
  <2>2. CASE ReturnFromRoutine(s)
    BY <2>2 DEF ReturnFromRoutine, First
  <2> QED
    BY <2>1, <2>2
<1>2. /\ pc[s] = "user" /\ pc' = [pc EXCEPT ![s] = "exitFind"]
      /\ result' = result \/ result' = [result EXCEPT ![s] = NoResult]
  BY DEF CallExit, ReturnFromRoutine, StartCall
<1>3. /\ call'[s].op # "join"
      /\ \A b \in Actors : b # s => call'[b] = call[b] /\ result'[b] = result[b]
      /\ final'[s] = IF final[s] = NULL THEN v ELSE final[s]
      /\ \A u \in Slots : u # s => final'[u] = final[u]
      /\ \A b \in Actors : pc'[b] = "unborn" <=> pc[b] = "unborn"
  BY <1>0, <1>1, <1>2 DEF TInv, TypeOK
<1>4. ~AT!Waits(s)
  BY <1>0, <1>2, CallersIdle
<1>5. Joins' = [Joins EXCEPT ![s] = AT!NoJoin]
  BY <1>0, <1>3, OneJoin
<1>6. CASE final[s] = NULL
  <2>1. Phase[s] = "live" /\ Phase' = [Phase EXCEPT ![s] = "ended"]
    <3>1. v # NULL
      BY DEF NULL
    <3>2. \A b \in Actors : Left(b)' = IF b = s THEN v ELSE Left(b)
      BY <1>0, <1>3, <1>6 DEF Left, Actors
    <3>3. Left(s) = NULL
      BY <1>0, <1>6 DEF Left
    <3> QED
      BY <1>0, <1>2, <1>3, <3>1, <3>2, <3>3 DEF Phase
  <2>2. [b \in Actors |-> Left(b)]' = [[b \in Actors |-> Left(b)] EXCEPT ![s] = v]
    BY <1>0, <1>3, <1>6 DEF Left, Actors
  <2>3. AT!End(s, v)
    BY <1>4, <1>5, <2>1, <2>2 DEF AT!End
  <2> QED
    BY <1>0, <2>3 DEF AT!Next
<1>7. CASE final[s] # NULL
  <2>1. final' = final
    BY <1>1, <1>7 DEF TInv, TypeOK
  <2>2. Phase' = Phase /\ \A b \in Actors : Left(b)' = Left(b)
    BY <1>3, <2>1, SameLives
  <2>3. AT!Forget(s)
    BY <1>4, <1>5, <2>2 DEF AT!Forget
  <2> QED
    BY <1>0, <2>3 DEF AT!Next
<1> QED
  BY <1>6, <1>7

(* clone brings a thread to life that has never been alive.                *)
LEMMA CloneTalks ==
  ASSUME TInv, VInv, EInv, NEW a \in Actors, Clone(a)
  PROVE  AT!Next
<1>1. PICK s \in Slots : s = slot[a]
  BY DEF Clone, At, TInv, Holding, Creating
<1>2. /\ pc[a] = "clone" /\ pc[s] = "unborn" /\ s \in Actors
      /\ pc' = [pc EXCEPT ![a] = "setid", ![s] = "user"]
      /\ UNCHANGED <<final, call, result>>
  BY <1>1 DEF Clone, At, VInv, history, Actors
<1>3. \A b \in Actors : (b # s => (pc'[b] = "unborn" <=> pc[b] = "unborn")) /\ pc'[s] # "unborn"
  BY <1>2 DEF TInv
<1>4. Left(s) = NULL /\ \A b \in Actors : Left(b)' = Left(b)
  BY <1>2 DEF Left, EInv, Ended
<1>5. Phase[s] = "unborn" /\ Phase' = [Phase EXCEPT ![s] = "live"]
  BY <1>2, <1>3, <1>4 DEF Phase
<1>6. Joins' = Joins
  BY <1>2, SameJoins
<1>7. AT!Create(s)
  BY <1>4, <1>5, <1>6 DEF AT!Create
<1> QED
  BY <1>2, <1>7 DEF AT!Next

(* The answer of thread_join.                                              *)
LEMMA ReadTalks ==
  ASSUME SearchInv, CInv, EInv, NEW a \in Actors, JoinRead(a)
  PROVE  AT!AnswerLost(a)
<1> DEFINE s == slot[a]
<1>0. TInv /\ TypeOK
  BY DEF SearchInv, Base, TInv
<1>1. /\ pc[a] = "joinRead" /\ pc' = [pc EXCEPT ![a] = "user"]
      /\ result' = [result EXCEPT ![a] = [code |-> "ok", val |-> ret[s]]]
      /\ UNCHANGED <<final, call>>
  BY DEF JoinRead, Reply, Retval, At, Goto, history
<1>2. /\ s = call[a].arg /\ s \in Slots /\ s \in known /\ state[s] = "EXITED"
      /\ call[a].op = "join" /\ result[a].code = "none"
  BY <1>0, <1>1 DEF CInv, CallFits, Joining, EInv, Joiners, TInv, Holding
<1>3. pc[s] # "unborn" /\ final[s] # NULL
  BY <1>2 DEF SearchInv, LInv, Started, EInv, Ended
<1>4. s \in Actors /\ s # NULL /\ s # Main /\ ret[s] \in {NULL, "returned", "exited"}
  BY <1>0, <1>2, ActorsAssumption DEF Actors, TypeOK
<1> HIDE DEF s
<1>5. /\ Joins[a] = [of |-> s, code |-> "none", val |-> result[a].val]
      /\ AT!Waits(a) /\ Joins[a].of = s
  BY <1>2, <1>4 DEF Joins, AT!Waits
<1>6. Phase[s] = "ended"
  BY <1>3, <1>4 DEF Phase, Left
<1>7. Phase' = Phase /\ \A b \in Actors : Left(b)' = Left(b)
  <2>1. \A b \in Actors : pc'[b] = "unborn" <=> pc[b] = "unborn"
    BY <1>0, <1>1, OneSteps DEF TInv
  <2> QED
    BY <1>1, <2>1, SameLives
<1>8. Joins' = [Joins EXCEPT ![a] = [of |-> s, code |-> "ok", val |-> ret[s]]]
  <2>1. /\ result'[a].code = "ok" /\ result'[a].val = ret[s]
        /\ \A b \in Actors : b # a => result'[b] = result[b]
    BY <1>0, <1>1 DEF TypeOK
  <2> QED
    BY <1>1, <1>2, <2>1, OneJoin
<1>9. Joins' = [Joins EXCEPT ![a].code = "ok", ![a].val = ret[s]]
  <2>1. DOMAIN Joins = Actors
    BY DEF Joins
  <2> QED
    BY <1>5, <1>8, <2>1
<1>10. AT!Reply(a, "ok", ret[s])
  BY <1>7, <1>9 DEF AT!Reply
<1> QED
  BY <1>4, <1>5, <1>6, <1>10 DEF AT!AnswerLost

(* Every step is one thread.h speaks of or none of its business.           *)
LEMMA TalkStep ==
  ASSUME CallInv, [Next]_vars
  PROVE  AT!LossyNext \/ UNCHANGED AT!vars
<1> USE DEF At, Goto
<1>0. /\ SearchInv /\ CInv /\ EInv /\ TInv /\ VInv /\ TypeOK /\ pc \in [Actors -> Labels]
      /\ Slots \subseteq Actors
  BY DEF CallInv, SearchInv, Base, TInv, Actors
<1>1. CASE MainReturns \/ UNCHANGED vars \/ \E a \in Actors : Crash(a)
  <2>1. UNCHANGED <<pc, final, call, result>>
    BY <1>1 DEF MainReturns, Crash, vars, history
  <2> QED
    BY <2>1, Silent
<1>2. ASSUME NEW a \in Actors, CallCreate(a) PROVE AT!Next
  <2>1. StartCall(a, "create", NULL, "alloc") /\ final' = final /\ "alloc" \in Labels
    BY <1>2 DEF CallCreate, Labels
  <2> QED
    BY <1>0, <2>1, CallTalks
<1>3. ASSUME NEW a \in Actors, NEW s \in Slots, CallJoin(a, s) PROVE AT!Next
  <2>1. StartCall(a, "join", s, "joinFind") /\ final' = final /\ "joinFind" \in Labels
    BY <1>3 DEF CallJoin, Labels
  <2> QED
    BY <1>0, <2>1, CallTalks
<1>4. ASSUME NEW a \in Actors, NEW s \in Slots, CallKill(a, s) PROVE AT!Next
  <2>1. StartCall(a, "kill", s, "kill") /\ final' = final /\ "kill" \in Labels
    BY <1>4 DEF CallKill, Labels
  <2> QED
    BY <1>0, <2>1, CallTalks
(* A step of one thread that says nothing of its thread_join.              *)
<1>5. ASSUME NEW a \in Actors, NEW l \in Labels \ {"unborn"}, pc[a] # "unborn",
             pc' = [pc EXCEPT ![a] = l], final' = final, call' = call,
             \A b \in Actors : call[b].op = "join" => result'[b] = result[b]
      PROVE  UNCHANGED AT!vars
  <2>1. \A b \in Actors : pc'[b] = "unborn" <=> pc[b] = "unborn"
    BY <1>0, <1>5, OneSteps
  <2> QED
    BY <1>5, <2>1, Silent
<1>6. ASSUME NEW a \in Actors, AllocFails(a) \/ EnqTail(a) \/ Kill(a) PROVE UNCHANGED AT!vars
  <2>1. /\ pc[a] \in {"alloc", "enqTail", "kill"} /\ pc' = [pc EXCEPT ![a] = "user"]
        /\ final' = final /\ call' = call
        /\ \E r : result' = [result EXCEPT ![a] = r]
    BY <1>6 DEF AllocFails, EnqTail, Kill, Reply, history
  <2>2. call[a].op # "join"
    BY <1>0, <2>1 DEF CInv, CallFits, Creating
  <2>3. \A b \in Actors : call[b].op = "join" => result'[b] = result[b]
    BY <1>0, <2>1, <2>2 DEF TypeOK
  <2>4. "user" \in Labels
    BY DEF Labels
  <2> QED
    BY <1>5, <2>1, <2>3, <2>4
<1>7. ASSUME NEW a \in Actors, \/ \E s \in Slots : Alloc(a, s)
                               \/ SetId(a) \/ EnqTest(a) \/ EnqHead(a) \/ EnqLink(a)
                               \/ JoinTest(a) \/ JoinSpin(a)
      PROVE  UNCHANGED AT!vars
  <2>1. /\ pc[a] # "unborn" /\ UNCHANGED <<final, call, result>>
        /\ \E l \in {"clone", "enqTest", "enqHead", "enqLink", "enqTail", "joinRead",
                     "joinSpin"} : pc' = [pc EXCEPT ![a] = l]
    BY <1>7 DEF Alloc, SetId, EnqTest, EnqHead, EnqLink, JoinTest, JoinSpin, history
  <2> QED
    BY <1>5, <2>1 DEF Labels
<1>8. ASSUME NEW a \in Actors, JoinFind(a) PROVE UNCHANGED AT!vars
  <2>1. pc[a] = "joinFind" /\ UNCHANGED <<final, call>>
    BY <1>8 DEF JoinFind, history
  <2>2. call[a].arg \in known
    BY <1>0, <2>1 DEF CInv, CallFits, Joining
  <2>3. Finds(t_id[call[a].arg])
    BY <1>0, <2>2, KnownFound
  <2>4. result' = result /\ pc' = [pc EXCEPT ![a] = "joinTest"] /\ "joinTest" \in Labels
    BY <1>8, <2>3 DEF JoinFind, Labels
  <2> QED
    BY <1>5, <2>1, <2>4
<1>9. ASSUME NEW s \in Slots, Exit(s) PROVE UNCHANGED AT!vars
  <2>1. /\ pc[s] # "unborn" /\ UNCHANGED <<final, call, result>>
        /\ \E l \in {"exitTest", "exitSet", "end", "user", "dead"} : pc' = [pc EXCEPT ![s] = l]
    BY <1>9 DEF Exit, ExitFind, ExitTest, ExitSet, End, After, history
  <2> QED
    BY <1>0, <1>5, <2>1 DEF Labels
<1>10. CASE Program
  <2>1. CASE \E s \in Slots : CallExit(s) \/ ReturnFromRoutine(s)
    BY <1>0, <2>1, ExitTalks DEF AT!LossyNext
  <2> QED
    BY <1>1, <1>2, <1>3, <1>4, <1>10, <2>1 DEF Program, AT!LossyNext
<1>11. ASSUME NEW a \in Actors, Library(a) PROVE AT!LossyNext \/ UNCHANGED AT!vars
  <2>1. CASE Clone(a)
    BY <1>0, <2>1, CloneTalks DEF AT!LossyNext
  <2>2. CASE JoinRead(a)
    BY <1>0, <2>2, ReadTalks DEF AT!LossyNext
  <2> QED
    BY <1>6, <1>7, <1>8, <1>9, <1>11, <2>1, <2>2 DEF Library, Create, Join
<1> QED
  BY <1>1, <1>10, <1>11 DEF Next, Over

(* The library keeps what thread.h promises of threads but for the value:  *)
(* a created thread lives until it ends, and thread_join waits for that,   *)
(* however the threads' steps in the queue, in thread_exit and in the      *)
(* kernel interleave.                                                      *)
THEOREM ThreadsKept ==
  ASSUME MainCreates, EnoughIds PROVE Spec => ImplementsThreads
<1>1. Init => AT!Init
  <2> SUFFICES ASSUME Init PROVE AT!Init
    OBVIOUS
  <2>1. \A a \in Actors : pc[a] = "unborn" <=> a # Main
    BY DEF Init, Actors
  <2>2. \A a \in Actors : call[a].op = "none" /\ Left(a) = NULL
    BY DEF Init, NoCall, Left, Actors
  <2> QED
    BY <2>1, <2>2 DEF AT!Init, AT!NoJoin, Phase, Joins
<1>2. CallInv /\ [Next]_vars => [UNCHANGED AT!vars \/ AT!LossyNext]_AT!vars
  BY TalkStep
<1> QED
  BY <1>1, <1>2, CallsInvariant, PTL DEF Spec, ImplementsThreads, AT!LossySpec
=============================================================================

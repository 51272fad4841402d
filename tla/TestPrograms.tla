---------------------------- MODULE TestPrograms ----------------------------
(***************************************************************************)
(* The programs of test_code: main() creates threads, joins them and       *)
(* prints, and the threads count under a lock.  They run on the threads    *)
(* and the lock that thread.h promises, which the modules of the libraries *)
(* are shown to implement; the versions of test_code/pthreads on the same, *)
(* as POSIX promises them.                                                 *)
(*                                                                         *)
(* A program is the statements of main() and what each thread does.  Its   *)
(* thread_t variables are numbered, and so are its threads, in the order   *)
(* of their thread_create.  What a thread prints is left out, and so are   *)
(* sleep and the parsing of options, which are the default ones.           *)
(***************************************************************************)
EXTENDS Integers, Sequences, FiniteSetsExt

CONSTANTS
  Libraries,   \* those the programs are linked with
  numThreads,  \* the argument of test5, test11 and fourth
  Turns,       \* of each of their loops
  Fails        \* bound on the failing allocations and thread_creates

ASSUME LibrariesAssumption == Libraries \subseteq {"MTO", "OTO", "POSIX"}
ASSUME BoundsAssumption ==
  numThreads \in 1..10 /\ Turns \in Nat \ {0} /\ Fails \in Nat

Main == 0
Workers == 1..10
Stranger == 11  \* no thread of the program
Nobody == 12
Threads == Workers \cup {Main, Stranger}

(* Values of type void *: NULL, two numbers, pointers to what each of two  *)
(* threads has stored and to what main has allocated, and an uninitialised *)
(* one.                                                                    *)
NULL == 0
Stored(w) == 200 + w
Buffer == 203
Garbage == 204
Values == {NULL, 5, 50, Stored(1), Stored(2), Garbage}

-----------------------------------------------------------------------------
(* Statements of main(), about a thread_t variable.                        *)

Create(id, w) == [op |-> "create", id |-> id, worker |-> w]
Join(id) == [op |-> "join", id |-> id, keeps |-> FALSE]
JoinStatus(id) == [Join(id) EXCEPT !.keeps = TRUE]  \* retval is not null
Kill(id, sig) == [op |-> "kill", id |-> id, sig |-> sig]
Show(id) == [op |-> "show", id |-> id]      \* prints the status joined
Follow(id) == [op |-> "follow", id |-> id]  \* prints what it points to
Total == [op |-> "total"]                   \* prints the counter

CreateAll(n) == [w \in 1..n |-> Create(w, w)]
JoinAll_ButOne(n) == [w \in 1..n - 1 |-> Join(w)]
JoinAll(n) == [w \in 1..n |-> Join(w)]
InTurn(n) ==
  [i \in 1..2 * n |->
    IF i % 2 = 1 THEN Create((i + 1) \div 2, (i + 1) \div 2) ELSE Join(i \div 2)]

(* What a thread does: rounds under the lock, each of a number of          *)
(* additions to the counter, then it leaves a value, or it runs for ever,  *)
(* or waits for a signal.                                                  *)
Adds(rounds, times, step) ==
  [rounds |-> rounds, times |-> times, step |-> step, leaves |-> NULL,
   ends |-> TRUE, mallocs |-> FALSE]
Leaves(v) == [Adds(0, 0, 0) EXCEPT !.leaves = v]
RunsOn == [Adds(0, 0, 0) EXCEPT !.ends = FALSE]

(* The statements, the routine of each thread, what main does when it has  *)
(* no memory for what it creates threads with ("goes on" with a null       *)
(* pointer, in some "each turn", or "returns"), whether it returns when    *)
(* thread_create fails, what a status holds before, and whether main calls *)
(* alarm(120).                                                             *)
Run(main, routine) ==
  [main |-> main, routine |-> routine, heap |-> "none", checks |-> FALSE,
   status |-> Garbage, alarm |-> FALSE]
OnHeap(program) == [program EXCEPT !.heap = "goes on"]
All(n, r) == Run(CreateAll(n) \o JoinAll(n), [w \in 1..n |-> r])
Counting(n, r) ==
  [OnHeap(Run(CreateAll(n) \o JoinAll(n) \o <<Total>>, [w \in 1..n |-> r]))
    EXCEPT !.alarm = TRUE]
OneByOne(n, r) ==
  OnHeap(Run(InTurn(n) \o <<Total>>, [w \in 1..n |-> r]))
UpAndDown ==
  OnHeap(Run(CreateAll(2) \o JoinAll(2) \o <<Total>>,
             <<Adds(1, 10, 1), Adds(1, 10, -1)>>))
OneStatus(r, print) == Run(<<Create(1, 1), JoinStatus(1), print>>, <<r>>)
Mallocs(w) == [Leaves(Stored(w)) EXCEPT !.mallocs = TRUE]
Pointers ==
  OnHeap(Run(CreateAll(2)
             \o <<JoinStatus(1), JoinStatus(2), Follow(1), Follow(2)>>,
             <<Mallocs(1), Mallocs(2)>>))

Test1 == All(6, Leaves(NULL))
Test2 == [All(3, Leaves(NULL)) EXCEPT !.heap = "returns"]
Test3 == [Pointers EXCEPT !.status = Buffer]
Test4 == OneStatus(Leaves(5), Show(1))
Test5 == Counting(numThreads, Adds(Turns, Turns, 1))
Test6 == UpAndDown
Test7 ==
  Run(CreateAll(2) \o <<Kill(1, "INT"), Kill(2, "STOP")>>, <<RunsOn, RunsOn>>)
Test8 ==
  Run(CreateAll(2) \o <<Kill(3, "INT"), Create(1, 3), Kill(1, "invalid")>>,
      [w \in 1..3 |-> Leaves(Garbage)])
Test9 == Run(<<Create(1, 1), JoinStatus(1)>>, <<Leaves(Garbage)>>)
Test10 == OneByOne(10, Adds(1, 10, 1))
Test11 == Counting(numThreads, Adds(Turns, Turns, 1))
Test12 == OneByOne(10, Adds(1, 10, 1))
Test13 == UpAndDown
One ==
  Run(<<Create(1, 1), Kill(1, "USR1"), JoinStatus(1), Show(1)>>, <<RunsOn>>)
Two == OneStatus(Leaves(50), Show(1))
Third ==
  [Run(<<Create(1, 1), Create(1, 2), Join(1), Join(2)>>,
       <<[Adds(10, 1, 1) EXCEPT !.leaves = Garbage],
         [Adds(10, 1, -1) EXCEPT !.leaves = Garbage]>>) EXCEPT !.checks = TRUE]
Fourth == Counting(numThreads, Adds(Turns, Turns, 1))

PosixTest1 == All(10, Leaves(Garbage))
PosixTest2 ==
  [Run(InTurn(10), [w \in 1..10 |-> Leaves(Garbage)]) EXCEPT !.heap = "each turn"]
PosixTest3 == Pointers
PosixTest4 == OneStatus(Leaves(5), Show(1))
PosixTest5 == Counting(numThreads, Adds(Turns, Turns, 1))
PosixTest6 == [UpAndDown EXCEPT !.alarm = TRUE]
PosixTest7 == Test7
PosixTest8 == Test8
PosixTest9 == Test9
PosixTest10 == OneByOne(10, Adds(1, 10, 1))
PosixOne == One
PosixTwo == OneStatus(Mallocs(1), Follow(1))
PosixThird == Third
PosixFourth == Counting(numThreads, Adds(Turns, Turns, 1))

Suite ==
  {Test1, Test2, Test3, Test4, Test5, Test6, Test7, Test8, Test9, Test10, Test11,
   Test12, Test13, One, Two, Third, Fourth}

PosixSuite ==
  {PosixTest1, PosixTest2, PosixTest3, PosixTest4, PosixTest5, PosixTest6,
   PosixTest7, PosixTest8, PosixTest9, PosixTest10, PosixOne, PosixTwo,
   PosixThird, PosixFourth}

Programs(l) == IF l = "POSIX" THEN PosixSuite ELSE Suite

-----------------------------------------------------------------------------

VARIABLES
  library, program,     \* which program runs, and on what
  \* main()
  pc,                   \* its statement
  id,                   \* the thread each thread_t variable names, or Nobody
  status,               \* the value joined by way of it
  \* the threads, and the lock
  phase, value, join,   \* see AbstractThreads
  lock,                 \* see AbstractLock
  round, k, reg,        \* the loops of each thread, and counter in a register
  counter,
  \* the process
  signals,              \* the signals a thread has still to raise
  outcome,              \* "up", or how the process has ended
  fails

choice == <<library, program>>
mainVars == <<pc, id, status>>
threadVars == <<phase, value, join>>
loopVars == <<lock, round, k, reg, counter>>
process == <<signals, outcome, fails>>
vars == <<choice, mainVars, threadVars, loopVars, process>>

T == INSTANCE AbstractThreads
L == INSTANCE AbstractLock WITH Threads <- Workers, phase <- lock

Init ==
  /\ library \in Libraries
  /\ program \in Programs(library)
  /\ pc = 1
  /\ id = [i \in Workers |-> Nobody]
  /\ status = [i \in Workers |-> program.status]
  /\ T!Init /\ L!Init
  /\ round = [w \in Workers |-> 0]
  /\ k = [w \in Workers |-> 0]
  /\ reg = [w \in Workers |-> <<>>]
  /\ counter = 0
  /\ signals = {} /\ outcome = "up" /\ fails = 0

-----------------------------------------------------------------------------
(* main()                                                                  *)

Statement == program.main[pc]
AtEnd == pc > Len(program.main)
At(op) == outcome = "up" /\ ~AtEnd /\ Statement.op = op
Step == pc' = pc + 1

End(how) ==
  /\ outcome' = how
  /\ UNCHANGED <<choice, mainVars, threadVars, loopVars, signals>>

(* The thread_create gives the variable its thread.                        *)
MainCreates ==
  /\ At("create")
  /\ T!Create(Statement.worker)
  /\ id' = [id EXCEPT ![Statement.id] = Statement.worker]
  /\ Step
  /\ UNCHANGED <<choice, status, loopVars, process>>

(* It fails, and most programs do not look.  The one-to-one library frees  *)
(* a stack that was not allocated when clone fails (thread.c:147); the     *)
(* other may be left without its queues or its main thread.                *)
CreateFails ==
  /\ At("create")
  /\ fails < Fails
  /\ fails' = fails + 1
  /\ \/ /\ program.checks /\ End("failed")
     \/ /\ ~program.checks /\ Step
        /\ UNCHANGED <<choice, id, status, threadVars, loopVars, signals, outcome>>
     \/ /\ \/ library = "OTO"
           \/ library = "MTO" /\ \A w \in Workers : phase[w] = "unborn"
        /\ End("crashed")

(* The allocations of main.  Without a status's buffer it is null.         *)
MallocFails ==
  /\ fails < Fails
  /\ fails' = fails + 1
  /\ At("create")
  /\ \/ program.heap = "goes on" /\ pc = 1 /\ End("crashed")
     \/ program.heap = "each turn" /\ End("crashed")
     \/ program.heap = "returns" /\ pc = 1 /\ End("exited")
     \/ /\ program.status = Buffer /\ pc = 1
        /\ \E i \in DOMAIN program.routine :
             status' = [status EXCEPT ![i] = NULL]
        /\ UNCHANGED <<choice, pc, id, threadVars, loopVars, signals, outcome>>

(* The thread a variable names: any, if it was never set.                  *)
Named(i) ==
  IF id[i] = Nobody THEN DOMAIN program.routine \cup {Stranger} ELSE {id[i]}

CallJoin ==
  /\ At("join")
  /\ \E t \in Named(Statement.id) : T!Ask(Main, t)
  /\ UNCHANGED <<choice, mainVars, loopVars, process>>

Lossy == library = "OTO"

(* A variant of main stores every status in the first variable, another    *)
(* asks again for a thread that is not known.                              *)
StatusVariable_First(i) == 1
StatusVariable(i) == i

AfterJoin_Retry == IF join'[Main].code = "ESRCH" THEN pc ELSE pc + 1
AfterJoin == pc + 1

JoinReturns ==
  /\ At("join")
  /\ T!Answer(Main) \/ (Lossy /\ T!AnswerLost(Main))
  /\ status' = IF Statement.keeps /\ join'[Main].code = "ok"
               THEN [status EXCEPT ![StatusVariable(Statement.id)] = join'[Main].val]
               ELSE status
  /\ pc' = AfterJoin
  /\ UNCHANGED <<choice, id, loopVars, process>>

(* A POSIX library may follow an uninitialised pthread_t, thread_kill of   *)
(* the many-to-one library its uninitialised t1 (queue.c:125).             *)
WildThread ==
  /\ outcome = "up" /\ ~AtEnd
  /\ \/ At("join") /\ library = "POSIX"
     \/ At("kill") /\ library # "OTO"
  /\ id[Statement.id] = Nobody
  /\ End("crashed")
  /\ UNCHANGED fails

(* A signal that is not caught ends the process, or stops it: at once, or  *)
(* when the many-to-one library next runs its thread.  A sigwait that gets *)
(* the signal itself would store it through a null pointer (one.c:26).     *)
Effect(sig) == IF sig = "USR1" THEN {"signalled", "crashed"} ELSE {"signalled"}

MainKills ==
  /\ At("kill")
  /\ \E t \in Named(Statement.id) :
       IF Statement.sig = "invalid" \/ t \notin Workers \/ phase[t] # "live"
       THEN UNCHANGED <<signals, outcome>>
       ELSE IF library = "MTO"
            THEN signals' = signals \cup {Statement.sig} /\ UNCHANGED outcome
            ELSE outcome' \in Effect(Statement.sig) /\ UNCHANGED signals
  /\ Step
  /\ UNCHANGED <<choice, id, status, threadVars, loopVars, fails>>

SignalRaised ==
  /\ outcome = "up" /\ signals # {}
  /\ End("signalled")
  /\ UNCHANGED fails

(* After 120 s, if the many-to-one library does not use the timer.         *)
AlarmRings ==
  /\ program.alarm /\ outcome = "up"
  /\ library = "MTO" => \A w \in Workers : phase[w] = "unborn"
  /\ End("signalled")
  /\ UNCHANGED fails

MainPrints ==
  /\ \/ At("show") \/ At("total")
     \/ At("follow") /\ status[Statement.id] \in {Stored(1), Stored(2), Buffer, Garbage}
  /\ Step
  /\ UNCHANGED <<choice, id, status, threadVars, loopVars, process>>

FollowsWild ==
  /\ At("follow")
  /\ status[Statement.id] \notin {Stored(1), Stored(2), Buffer}
  /\ End("crashed")
  /\ UNCHANGED fails

(* main returns, or calls exit, and the process ends.                      *)
MainEnds ==
  /\ outcome = "up" /\ AtEnd
  /\ End("exited")
  /\ UNCHANGED fails

-----------------------------------------------------------------------------
(* The threads                                                             *)

Routine(w) == program.routine[w]
Runs(w) == outcome = "up" /\ phase[w] = "live"

Rest(w) == UNCHANGED <<choice, mainVars, threadVars, process>>

MoreRounds_OneTooMany(w) == round[w] <= Routine(w).rounds
MoreRounds(w) == round[w] < Routine(w).rounds

Lock(w) ==
  /\ Runs(w)
  /\ MoreRounds(w) /\ L!Request(w)
  /\ Rest(w) /\ UNCHANGED <<round, k, reg, counter>>

Locked(w) ==
  /\ Runs(w)
  /\ L!Acquire(w)
  /\ Rest(w) /\ UNCHANGED <<round, k, reg, counter>>

(* Between thread_lock and thread_unlock.                                  *)
Inside(w) == lock[w] = "in"

Load(w) ==
  /\ Runs(w) /\ Inside(w)
  /\ k[w] < Routine(w).times /\ reg[w] = <<>>
  /\ reg' = [reg EXCEPT ![w] = <<counter>>]
  /\ Rest(w) /\ UNCHANGED <<lock, round, k, counter>>

Store(w) ==
  /\ Runs(w) /\ reg[w] # <<>>
  /\ counter' = Head(reg[w]) + Routine(w).step
  /\ reg' = [reg EXCEPT ![w] = <<>>]
  /\ k' = [k EXCEPT ![w] = @ + 1]
  /\ Rest(w) /\ UNCHANGED <<lock, round>>

Unlock(w) ==
  /\ Runs(w) /\ lock[w] = "in"
  /\ k[w] = Routine(w).times
  /\ L!Release(w)
  /\ k' = [k EXCEPT ![w] = 0]
  /\ round' = [round EXCEPT ![w] = @ + 1]
  /\ Rest(w) /\ UNCHANGED <<reg, counter>>

(* The routine returns or calls thread_exit.                               *)
Leave(w) ==
  /\ Runs(w) /\ Routine(w).ends
  /\ ~MoreRounds(w) /\ lock[w] = "out"
  /\ T!End(w, Routine(w).leaves)
  /\ UNCHANGED <<choice, mainVars, loopVars, process>>

(* It has no memory for its value, and the process exits.                  *)
RoutineFails(w) ==
  /\ Runs(w) /\ Routine(w).mallocs
  /\ fails < Fails
  /\ fails' = fails + 1
  /\ End("failed")

-----------------------------------------------------------------------------

MainStep ==
  \/ MainCreates \/ CreateFails \/ MallocFails \/ CallJoin \/ JoinReturns
  \/ WildThread \/ MainKills \/ MainPrints \/ FollowsWild \/ MainEnds

Worker(w) ==
  \/ Lock(w) \/ Locked(w) \/ Load(w) \/ Store(w) \/ Unlock(w)
  \/ Leave(w) \/ RoutineFails(w)

Over == outcome # "up" /\ UNCHANGED vars

Next == MainStep \/ (\E w \in Workers : Worker(w))
        \/ SignalRaised \/ AlarmRings \/ Over

(* As long as some thread can get on, some thread does; which one is       *)
(* nobody's promise.                                                       *)
Fairness == WF_vars(MainStep \/ (\E w \in Workers : Worker(w)) \/ SignalRaised)

Spec == Init /\ [][Next]_vars /\ Fairness

-----------------------------------------------------------------------------

TypeOK ==
  /\ library \in Libraries
  /\ pc \in 1..Len(program.main) + 1
  /\ id \in [Workers -> Workers \cup {Nobody}]
  /\ status \in [Workers -> Values \cup {Buffer}]
  /\ phase \in [Threads -> {"unborn", "live", "ended"}]
  /\ value \in [Threads -> Values]
  /\ join \in [Threads -> [of : Threads \cup {Nobody},
                           code : {"none", "ok", "ESRCH", "EDEADLK"}, val : Values]]
  /\ lock \in [Workers -> {"out", "waiting", "in"}]
  /\ counter \in Int
  /\ signals \subseteq {"INT", "STOP", "USR1"}
  /\ outcome \in {"up", "exited", "failed", "crashed", "signalled"}
  /\ fails \in 0..Fails
  /\ \A w \in Workers :
       /\ reg[w] \in Seq(Int) /\ Len(reg[w]) <= 1
       /\ phase[w] = "unborn" => round[w] = 0 /\ k[w] = 0
       /\ phase[w] # "unborn" =>
            round[w] \in 0..Routine(w).rounds /\ k[w] \in 0..Routine(w).times

(* The counter is printed when it is what the loops of the created threads *)
(* add up to: nobody is still counting, and no addition was lost.          *)
Created == {w \in Workers : phase[w] # "unborn"}
Sum(w) == Routine(w).rounds * Routine(w).times * Routine(w).step
PrintsTotal == At("total") => counter = MapThenSumSet(Sum, Created)

(* Where a thread's value is not lost the status printed is what the       *)
(* thread left, and not what another did, whichever order they ended in.   *)
PrintsStatuses ==
  ~Lossy /\ (At("show") \/ At("follow")) =>
    LET w == id[Statement.id] IN
    w # Nobody => status[Statement.id] = Routine(w).leaves

(* The process does not exit before the threads it has created have ended, *)
(* but for the programs that do not join them all: test7 and test8, and    *)
(* third, which keeps the ids of both threads in one variable and joins    *)
(* another that it never sets (third.c:59, 67).                            *)
JoinsAll == program \notin {Test7, Test8, Third}
MainEndsLast ==
  outcome = "exited" /\ JoinsAll => \A w \in Created : phase[w] = "ended"

(* Every program comes to its end.                                         *)
Finishes == <>(outcome # "up")
=============================================================================

# MultithreadingLibrary in TLA+

A verification development of the two thread libraries of this repository: TLA+
models of the code, TLC runs that check them on small instances, and TLAPS
proofs for all instances. All paths below are relative to the repository's
sources (`src/`); `PROJECT.json` maps every definition to the lines it models.

## 1. The system

| component | code | state | operations |
|---|---|---|---|
| spin lock | `thread.c:64-94`, same in `mtothread.c` | one 32-bit word | `initlock`, `thread_lock`, `thread_unlock` |
| mutex | `mtothread.c:30-64`, same in `thread.c` | one 32-bit word, sleepers in the kernel | `initmutexlock`, `thread_mutex_lock`, `thread_mutex_unlock` |
| queue | `queue.c`, `queue.h` | linked list of heap nodes: `head`, `tail`, `next` | `initq`, `enqueue`, `dequeue`, `getthread`, `makeheadthread` |
| many-to-one library (MTO) | `mtothread.c` | `current_thread`, `readyqueue`, `completed`, `timer`, one `thread_s` per thread, a stack per thread, ITIMER_REAL | `thread_create/join/exit/kill`, `setretval`, `scheduler` (SIGALRM handler) |
| one-to-one library (OTO) | `thread.c` | `q`, `stackTop`, one `thread_s` per thread, kernel threads and ids | `thread_create/join/exit/kill`, `setretval` |
| tests | `test_code/MT` | a counter under a lock, `thread_t` variables, statuses | `main` and the thread functions |
| POSIX tests | `test_code/pthreads` | the same | the same, over POSIX threads |
| scripts | `Makefile`, `test.sh` | none | not modelled |

How they interact. Both libraries include `queue.c` and keep `thread_s` in its
lists. OTO threads are kernel threads made by `clone`: they run in parallel,
share `q` and `stackTop` without a lock, and meet the kernel through `waittid`
(written by `clone`, cleared when the thread ends). MTO threads are `ucontext`s
on one kernel thread; `scheduler` is the SIGALRM handler, called by the interval
timer or by `raise(SIGALRM)` inside `thread_join`, `thread_exit`, `thread_kill`,
the first `thread_create` and `setretval`. MTO protects its data by switching
the timer off and on again, and for that fills one global `struct itimerval`.
The locks are independent of both libraries and used by their clients. The tests
call the libraries and the locks and look at nothing inside them.

What is hard here, and what makes each component correct:

* **Locks.** Test-and-set and release race between all threads. Correct: mutual
  exclusion, no lost increment, everybody gets through. `thread_mutex_unlock`
  does not look whether its caller has the mutex: correct then is that the word
  is not left taken for ever. The mutex also calls
  `futex` with the lock's *value* for its address; both calls fail in the same
  way, so nobody sleeps and nobody has to be woken: two mistakes that cancel,
  which is worth knowing before one of them is corrected.
* **Queue.** `dequeue` leaves `tail` and `next` of freed nodes dangling, and
  `makeheadthread` relinks different pointers for the first, a middle and the
  last node. Correct: the list is the set of live nodes, ends at `tail`, and
  behaves as a sequence.
* **MTO.** The timer can interrupt any instruction while it is armed, the
  handler included (`SA_NODEFER`), and `getcontext` returns twice. Correct:
  library data is touched only with the timer off; a saved context is that of
  its own thread and of a live frame; nobody is lost from or doubled in the
  queues; join gives the right value; preemption is not lost; every ready
  thread runs, unless the program calls the library for ever: every call starts
  the timer's 2 ms anew, and `thread_kill` lets its target go first.
* **Tests.** Most do not look at what `calloc`, `malloc` and `thread_create`
  return, and go on with ids that were never set. Correct: totals and statuses
  are right whatever the order in which threads run and end, `main` does not end
  before the threads it joins, and every program ends.
* **OTO.** Every access interleaves with every other. Correct: a search finds a
  created thread and follows no null pointer, threads have stacks of their own,
  join waits, returns, and reads the value.

## 2. Modules

| module | what it is | extends |
|---|---|---|
| `AbstractLock` | what a lock promises: ask, wait, have alone, give back | |
| `SpinLock` | the spin lock under the clients of `test11.c` | |
| `MutexLock` | the mutex under the clients of `test5.c`, `futex` from its manual | |
| `AbstractThreads` | what `thread_create`, `thread_exit` and `thread_join` promise | |
| `ThreadQueue` | a queue of threads as a sequence | |
| `AbstractQueue` | a client's view of `queue.c`, over `ThreadQueue` | `ThreadQueue` |
| `ListWalk` | the search loop of `queue.c` over any `head`, `tail`, `next` | |
| `Queue` | the linked list with its nodes, `malloc` and `free` | `ListWalk` |
| `RoundRobin` | what the MTO scheduler promises | |
| `MTOScheduler` | `mtothread.c` without its locks | `ThreadQueue` |
| `OTOThreads` | `thread.c` without its locks, and its unlocked list | `ListWalk` |
| `TestPrograms` | the programs of `test_code`, as data, over `AbstractThreads` and `AbstractLock` | |
| `MC*` | constants and symmetry for TLC | the module named |
| `SpinLockProofs`, `MutexLockProofs`, `MTOSchedulerProofs` | theorems | the module named, `TLAPS` |
| `MTOPromisesProofs` | theorems on what the MTO scheduler promises | `MTOSchedulerProofs` |
| `ListWalkProofs` | what the search does on a list that is one | `ListWalk`, `TLAPS` |
| `QueueProofs` | theorems on the queue | `Queue`, `ListWalkProofs` |
| `OTOThreadsProofs` | theorems on the OTO library | `OTOThreads`, `ListWalkProofs` |
| `TestProgramsProofs` | theorems on what the test programs print | `TestPrograms`, `TLAPS` |

They compose: `Queue` implements `AbstractQueue`, whose operations on sequences
are those of `ThreadQueue`, with which `MTOScheduler` keeps its two queues; that
is sound there because the queues are touched only with the timer off
(`TimerOffInside`), so that no queue operation is interrupted. `OTOThreads`
cannot use the sequences, because its list is read while it is being changed: it
interleaves the stores of `enqueue` and shares the search, `ListWalk`, with
`Queue`.

Both libraries implement `AbstractThreads` (`ImplementsThreads`), MTO as it
stands and OTO the variant in which `thread_join` may answer with a value that
is not the thread's (`LossySpec`); both locks implement `AbstractLock`.
`TestPrograms` is composed of the two abstract specifications: its steps on
threads and on the lock are their actions, so that what is checked of a program
does not depend on which library and which lock it runs on, but for the lost
values of OTO and the crashes, which it states.

A definition whose name carries a suffix after an underscore (`SClear_StaysOn`,
`NewTail_Kept`) is a variant with a plausible mistake. No specification uses
one: put in the place of the definition without the suffix, it makes a property
fail, and `PROJECT.json` says under `mutants` which.

### SpinLock, MutexLock

A step is one access to the shared word or counter. `value` is the word:
`atomic_flag_test_and_set_explicit` on an `int` compiles to a byte `xchg`, so
`SetLowByte` sets the low byte and tests what it was, while `atomic_store` and
`atomic_fetch_sub` work on the whole word. `InitLock` and `InitMutexLock` change
nothing: both functions overwrite their parameter with fresh memory and zero
that. `MutexLock` gives `futex` the argument the code gives it and decides by
comparing it with `LockAddr`, any address a lock can have; sleepers exist in the
model, and `NobodySleeps` says that there are none.

`ExtraFetchSub` is an unlock by a thread that does not have the mutex, for which
the code has no test: the mutex may be free, held by another thread, or in the
middle of another unlock. The rigid variable `clients` says who the clients are.
Any (`clients = "any"`) may make it at any time. Then exclusion is lost, as it
must be when somebody else's lock is released, and in one more way: of two
threads that unlock the free mutex (0, -1, -2) the first stores 0, a third thread
locks, and the store of the second releases its lock; with a waiting thread in
between (-1, -255, -256) the low byte is 0 before anybody has stored anything. So
`MutualExclusion`, `WordTellsHolder` and `ImplementsLock` speak of orderly
clients, who unlock a mutex that they do not have only when the word is 0: while
it is free and nobody else is unlocking it. That is an assumption about the
clients, not a test in the code. Such an unlock leaves -1 (or -255, once a
waiting thread has set its low byte) in the word until the plain store of 0. The
programs of the repository lock before they unlock, and are orderly with
`Extras` = 0. What holds with any clients is that the mutex recovers:
`SomebodyFrees`, `NobodySleeps`, `Termination`.

### Queue

`malloc` hands out a node that is not in use, `dequeue` frees one, and freed
nodes keep what they held, so that a stale `tail` points at a node that may be in
the list again. `EnqueueFails` and `MakeHeadWild` are the crashes of a failed
`malloc` (used before it is tested) and of the uninitialised `t1`.

### MTOScheduler

`stack[t]` is the stack of thread `t`: a label for its own code, then one label
for each frame of the handler on top of it. `cpu` is the stack the processor is
on, which need not be that of `current`. A step is the code between two labels;
`Tick` may push a frame of the handler at any label of `TickAt` while `armed`,
and `RaiseThen` does the same for `raise(SIGALRM)`. `context[t]` names a stack
and the frame on it that `setcontext` would continue; frame 0 is the start
routine. `SSwitch` cuts the stack back to that frame and goes on after
`getcontext`. The struct `timer` and the timer itself are two variables, because
the code fills the first and then passes it to `setitimer`.

| code | actions |
|---|---|
| first lines of every call | `Clear`, `Disarm` |
| last lines of every call | `Rearm`, `Arm` |
| `thread_create` | `CallCreate`, `Boot`, `Create`, `BootFails`, `CreateFails`, `CreateMainFails`, `CreateBroken` |
| `thread_join` | `CallOther`, `Join`, `JoinWaits`, `JoinDone` |
| `thread_exit`, `setretval` | `CallExit`, `ReturnFromRoutine`, `Exit`, `SetRet`, `Yield`, `FallOff` |
| `thread_kill` | `CallOther`, `KillInvalid`, `KillZero`, `KillSelf`, `KillReady`, `KillNotFound`, `KillWild` |
| `scheduler` | `SClear` ... `SSwitch`, in the order of the code |

`Windows` are the four labels at which the code does not stand a tick: between
filling the struct and `setitimer` in a call (`set`) and in the handler
(`sDisarm`), between arming the timer for the next thread and `setcontext`
(`sSwitch`), and between `getcontext` returning with the timer on and the test
of `exec` (`sResume`). The passing runs leave them out (`Quiet`) and say what
holds otherwise; `mto_dispatch` and `mto_lostvalue` open two of them and show
the loss. Each is a few instructions in 2 ms.

### OTOThreads

One step is one access that another thread can see; the exceptions are a search,
which is one step (`JoinFind`, `ExitFind`, `Kill`), and the end of a thread in
the kernel (`End`). `thread_create` is `Alloc`, `Clone`, `SetId`, `EnqTest`,
`EnqHead` or `EnqLink`, `EnqTail`; the new thread runs from `Clone` on, so it
may exit before it has a `t_id` or a place in the queue. `thread_exit` returns
to its caller, so a routine may call it again, and `setretval` calls it in any
case (`After`). Memory is sequentially consistent, and `thread_join` reads
`waittid` in every turn of its loop, as the Makefile (no optimisation) builds
it. Not modelled: `CLONE_SETTLS`, which points the child's TLS at its
`thread_s`, and what libc then does with it.

### TestPrograms

A program is a record: the statements of `main`, in which a variable of type
`thread_t` is a number, the routine of each thread (rounds under the lock, the
additions of one round, the value left), and how `main` takes failures. `Suite`
holds those of `test_code/MT`, `PosixSuite` those of `test_code/pthreads`. `main`
executes a statement in one step, `thread_join` in two (`CallJoin`,
`JoinReturns`); an addition is a `Load` and a `Store`, because the compiled code
is. `CreateFails` and `MallocFails` take the paths of the code, which in most
programs is to go on; an id that was never set may name any thread (`Named`) or,
where the library would follow it as a pointer, crash the process
(`WildThread`). Signals that are not caught end the process: at once in OTO, and
in MTO at the next resumption of their thread (`SignalRaised`).

## 3. Runs

Children and slots are two in the thread models: one thread to be waited for and
one to interfere, besides `main`, which takes part in everything.

| run | shows | bounds |
|---|---|---|
| `spin` | `MutualExclusion`, `FreshRead`; `Termination`, `ImplementsLock` | 3 threads, 2 rounds: a thread can lose the lock and come back to it while two others spin |
| `mutex` | `SomebodyFrees`, `NobodySleeps`, `MutualExclusion`, `WordTellsHolder`; `Termination`, `ImplementsLock` | the same, and 2 unlocks without a lock: of the free mutex and one after the other, but overlapping with the threads that lock it, from orderly clients; overlapping each other and those of the holder, which takes the word to -256, from any |
| `queue` | `ListIsHeap`, `EndsAtTail`, `ImplementsQueue` | 4 nodes: first, last and two middle nodes, one freed and used again; 3 threads, so a thread may be in twice |
| `mto_safety` | `TimerOffInside`, `ContextsIntact`, `RunsAsCurrent`, `PreemptionKept`, `SignalOnlyWhereSent`, `CrashesOnly`; `ImplementsThreads`, `ImplementsRoundRobin` | all calls, 3 of them in any order by any threads, a failing allocation; ticks at all labels of `Quiet` but the handler's last (the state there is that of `sOn`), also while the handler runs (`Depth` 2) |
| `mto_live` | `ReadyRuns`, `JoinReturns`, `SignalDelivered` | three programs of 3 threads: any number of `thread_join`s, and threads that end; any number of `thread_kill`s; 3 calls that mix both with `thread_exit`. Ticks in the program and in the loop of `thread_join` |
| `mto_dispatch` | violated: `SavesOwnContext` | ticks at `sSwitch` too |
| `mto_lostvalue` | violated: `ExitSetsValue` | ticks at `set` too |
| `mto_wildkill` | violated: `NeverCrashes` | one `thread_kill` |
| `oto` | `CreatedIsFound`, `NoNullPointer`, `ReadsValueOrWindow`, `ValueKept`; `JoinReturns`, `ImplementsThreads` | 2 threads created by `main`, 4 calls, a failing allocation, ids enough |
| `oto_lostvalue` | violated: `ExitSetsValue` | one thread |
| `tests` | `PrintsTotal`, `PrintsStatuses`, `MainEndsLast`; `Finishes` | every program on every library, one failing allocation or `thread_create`; 3 threads of 2 rounds of 2 additions where the programs take their number or run 8 threads, each of ten rounds or more; the others with their own 1 to 10 threads and their own loops |
| `oto_stacks` | violated: `OwnStack` | two creating threads |

All passing runs but `mto_live` also check their module's `TypeOK`.

The bounds, all named in the guards. `Calls` (MTO, OTO) is the number of library
calls of the program besides the returns of start routines; three make a thread
and have two others act on it, and two creates leave one call for the race under
study. In MTO the rigid variable `client`, one of `Clients`, says which calls the
program makes and which of them are counted: in two of the programs of `mto_live`
none is, and the number of calls has no bound (that of threads has, and what is
left to tell the states apart is finite). `Fails` counts failing allocations. `Depth` bounds the nesting of ticks
on one stack: 1 lets them interrupt the program and the calls, 2 also the
handler. `PidMax` is the number of kernel ids; with one for each thread none is
used twice. `Rounds` and `Extras` bound the clients of the locks. In `tests`
`numThreads` and `Turns` stand for the arguments of test5, test11 and fourth; a
third thread can overtake a second that waits for a first. TLC takes symmetry
where all of a run's properties are safety properties (`queue`, `mto_safety`).

`CHECK_DEADLOCK FALSE` is set for the locks, whose clients finish, and for OTO,
where all threads may have ended but `main` spins in a join of itself or of a
thread that joins it. The MTO program never stops: it spins.

### What the violated properties say

Each run quotes a comment or a test of the repository (`findings` in
`PROJECT.json`).

* `mto_dispatch`: `scheduler` arms the timer before `setcontext`. A tick in
  between finds `current_thread` already the next thread on the last one's
  stack, and saves that stack as its context.
* `mto_lostvalue`: a tick between filling `timer` and `setitimer` fills `timer`
  again, the call goes on with the timer armed, and `thread_exit` is preempted
  between `state = EXITED` and `ret = retval`, for ever.
* `mto_wildkill`: `makeheadthread` follows an uninitialised pointer when the
  thread is not in the ready queue; `test8.c:35` makes that call.
* `oto_lostvalue`: a thread that ends before `thread_create` has put it in the
  queue is not found by its own `thread_exit`, and its value is lost.
* `oto_stacks`: `stackTop` is global, and two threads that create threads may
  start both on one stack.

That a thread which finds the mutex taken is blocked (`mtothread.c:41`) is not so
either: `NobodySleeps` of the run `mutex` says that it spins, through a failing
system call.

Three more can be had by changing a constant: with `Words = {1}` in
`SpinLock.cfg` nobody ever gets the lock, since `initlock` initialises memory of
its own; with `PidMax = 2` in `OTOThreads.cfg` a search finds the thread that
had the id before; and with `"sResume"` in `TickAt` of `MTOScheduler_safety.cfg`
contexts are lost. `sig` is never reset, so a signal is raised again at every
later resumption of its target: the model does so, and keeps of it who has been
sent a signal and in whom one was raised.

### What the tests show

On what the libraries implement every program ends, also after a failed
allocation, and prints what it should, with four reservations that are visible in
the model. `third` writes the id of its second thread over that of the first and
joins one that it never sets, so it may end while a thread is counting
(`MainEndsLast` leaves it out, with test7 and test8, which join nobody). The two
threads of test3 leave different pointers, which `PrintsStatuses` tells apart;
`main` follows the pointer joined, which on OTO may be a value lost in one of the
windows of `ReadsValueOrWindow` (`PrintsStatuses` is about the libraries that
lose none). test8 calls `thread_kill` with an id that was never set, which in MTO
is the crash of `mto_wildkill`. And a failing `clone` ends in `free` of memory
that was not allocated. `one` never ends well: the signal kills the process, or
`sigwait` stores its number through a null pointer.

### Fairness

* Locks: weak fairness of every thread's steps. In OTO each is a kernel thread,
  in MTO the scheduler is a round robin with a timer. No thread has to make the
  extra unlock.
* OTO: weak fairness of every thread's library steps; no thread has to make a
  call, return or exit.
* Tests: as long as anybody can take a step somebody does; nothing is assumed
  about who. `AlarmRings` may never happen.
* MTO: weak fairness of the handler (it is code that runs) and of `Tick` (an
  armed timer goes off), and for each thread strong fairness of its library
  steps: `Tick` may interrupt a thread each time before its next step, but the
  2 ms between ticks are longer than any of those, so a thread that has the
  processor again and again gets its step done. An armed timer goes off only if
  it stays armed, and every library call switches it off and starts it anew. So
  nothing is assumed of the program, but the liveness properties have
  `CallsForEver` for an alternative: threads that call the library for ever may
  keep the timer from going off, and may so, or by putting each other first with
  `thread_kill`, starve another one. Without that alternative `ReadyRuns` fails
  in `mto_live`, two of whose programs make any number of calls.
  `PreemptionOff`, a thread running with the timer off, releases the
  liveness properties: after EINVAL and ESRCH of `thread_kill` or EINVAL of
  `thread_create` the code does run on without preemption, which
  `PreemptionKept` delimits.

## 4. Proofs

Everything below is checked by TLAPS for all values of the constants under the
assumptions named in the modules.

**SpinLockProofs.** `TypeCorrect`, `Exclusion`, `NoStaleRead`, `Refinement`, the
last three for `Words = {0}`: a lock in memory that is not zero is never
obtained. Mutual exclusion is not inductive; `LInv` adds that the word is 1
exactly while a thread is inside and 0 otherwise, which is what makes the byte
test-and-set tell the truth, and that the thread that has loaded the counter has
its current value. The refinement maps every step to a step of `AbstractLock` or
a stutter: the only step that is not immediate is `TestAndSet`, where the
invariant gives `In = {}`.

**MutexLockProofs.** For `Words = {0}` and any number of threads, rounds and
extra unlocks. First for all clients: `TypeCorrect`, `NeverAbandoned`
(`SomebodyFrees`), `Sleepless`. The word never exceeds 1, so that it is never
the address of a lock, 65536 or more: nobody sleeps. It is 1 only while somebody
has the mutex, because whoever leaves takes 1 to 0, and negative only while
somebody is about to store 0, because whoever makes it negative has found
something else than 1; the byte exchange leaves a negative word negative (lemma
`ByteOfNegative`). `InRound` is needed for the type of `round`.

Then for orderly clients: `Exclusion`, `WordCorrect`, `Refinement`. `OInv` adds
`OneOwner`: the word takes the values 0, 1, -1, -255 only (lemma `Bytes` says
what the byte exchange makes of each), -1 and -255 only while an unlock of the
free mutex is under way, when nobody has the mutex or is in another unlock; -255
comes from a waiter, whose exchange found a low byte of 255 and so did not take
the lock. For other clients `Phase` never changes, so that `Refinement` says
nothing of them.

**ListWalkProofs, QueueProofs.** `TypeCorrect`, `NothingLost`, `SearchesEnd`,
`KeepsPromise`: `TypeOK`, `ListIsHeap`, `EndsAtTail` and `ImplementsQueue` hold
for any threads and any finite memory, without further assumption. The
properties compute the list by walking along `next`; the invariant has it as a
sequence instead: `QInv` says that for some sequence of nodes L `Holds(L)`, that
is, `head` and `next` lead through L, no node twice, and end (`Chain`), L has
the allocated nodes and no others, and its last node is `tail`. It says nothing
of a `tail` left over from an empty list, because nothing is known of that.
Every operation is then shown by the sequence it leaves: one node longer, the
first one gone, or one node moved to the front (`Moved`), with a case each for
the first, a middle and the last node. `ListWalkProofs` says what
the walk and the search do on a `Chain`: they list exactly its nodes
(`ListedAll`), and stop at the first hit, or else at the last node, with its
predecessor in hand (`Search`). The refinement reads the threads off L
(`ThreadsOf`).

**MTOSchedulerProofs, types.** `TypeCorrect`: the types of `MTOScheduler` hold for any
threads, any bounds, and any labels at which the timer goes off, the four windows
included. `TypeOK` is not inductive. The handler uses `current_thread` as an
index, so it must not get past saving the context while that is `Nobody`
(`Attended`); contexts are cut from stacks, so every stack is one frame of the
thread's own code with frames of the handler on top (`Stacks`), and no context
points at the frame of the thread's own code (`HandlerContexts`); and the
argument of a call is a thread where the code uses it as one (`Called`). The
lemmas `TopMoves`, `TopPushed` and `CutOff` say what the three operations on a
stack preserve, `Going`, `Raising`, `Ticking` and `Returning` lift them to the
state, and one lemma for each group of actions puts them together.

**MTOSchedulerProofs, safety.** `DataProtected`, `SwitchesSafe`, `RunsOnOwnStack` and
`SignalsArrive`: `TimerOffInside`, `ContextsIntact`, `RunsAsCurrent` and
`SignalOnlyWhereSent` hold for any threads, calls, failures and nesting of the
handler, assuming `TickAt \subseteq Quiet`, that is, when the timer goes off
anywhere but in the four windows; section 3 shows what happens in those. None of
the four is inductive, and they need one another: the timer is off at the
library's data because no handler that runs on top of it leaves it on, which
takes that the frames below the top of a stack are only ever at the nine labels
`Safe` (`Below`), and that the switch comes back to the frame that saved its
context (`Switched`); the frame is still there because a thread in the ready
queue does not run (`InLine`: nor is it twice in it), which takes that the
processor is on the stack of `current_thread` (`Own`), also for threads not yet
created (`Born`); and all of it starts only once the first `thread_create` has
made `main` a thread (`Booting`). `SInv` is their conjunction with the timer's
part (`Timing`) and the signals' (`Signals`). `LocalStep` proves once what holds
for every step that leaves queue and contexts alone, so that an action's lemma
states what is special to it; `StaysFit` is the heart of the switch, for the
thread that chooses itself as the next one included.

**MTOPromisesProofs.** `StaysPreemptive`, `CrashesKnown`, `RoundRobinKept` and
`ThreadsKept`: `PreemptionKept`, `CrashesOnly`, `ImplementsRoundRobin` and
`ImplementsThreads` hold for any threads, calls, failures and nesting of the
handler, again assuming `TickAt \subseteq Quiet`. `SInv` says that data and
contexts are sound, not that each thread is where it should be; `PInv` adds
that. Every thread that has been created runs, is in the ready queue or has
exited and is among the completed (`Queued`); before the switch
`current_thread` is the last one of the queue it belongs to (`Placed`), and
nobody who has exited is chosen (`Living`). From its exit on a thread goes to
the switch with the timer off, or, as the last one, out of `thread_exit` again
(`Ending`): that is why nothing comes between `state = EXITED` and the store of
the value, and why a finished thread has the value it left (`Valued`). `Talking`
ties the answers to the calls: where a thread's code is says whether its
`thread_join` has been answered and whether it has left a value. `Clockwork`
says where the timer must be on, and `Failing` what a crash and a failed boot
come from. The lemmas `Goes`, `Raises`, `Interrupts` and `Returns` restate the
four moves of a stack in the terms of `PInv`.

For the round robin the mapping puts `current_thread` back from where the
handler has just placed it, so that `SRetire` and `SPreempted` are stutters and
`SNext` is `Rotate` or `Finish`; `SIdle`, which finds nobody to switch to, is
`Finish` too. `thread_create` is `Begin` or `Spawn`, and `KillReady` is
`Promote`, where the proof shows that the position `makeheadthread` computes is
the only one at which its target stands; all else is a stutter. For the abstract
threads the calls of `thread_join` and their answers are `Ask`, `Answer` and
`Forget`; that `thread_join` answers only after the end of the thread, with what
that left, is `Valued`, and that a thread ends at most once is `Ending`.

**OTOThreadsProofs, part 1.** `TypeCorrect`, `StacksOwn`, `ValuesKept`. The types need to
know what a thread in the middle of a call has in its hands (`TInv`), and that a
kernel id is left for `clone` to hand out (`FreshIsFree`, from the well-ordering
of the numbers). `OwnStack` is proved for `OneCreator`, one thread that calls
`thread_create`: then `stackTop` is still its own when `clone` reads it (`SInv`);
run `oto_stacks` shows what two of them do. `ValueKept` is proved for any number
of creating threads. A store would overwrite a value if the state it was guarded
by had been tested twice; `VInv` says that a thread about to store is the only one
for its `thread_s`, whose state it has itself turned to `EXITED`, and that no
value is there yet. It needs that searches are never for the id 0, which a
`thread_s` that is not allocated has. Nothing in it depends on the search
finding the right `thread_s`, nor on the order of the list.

**OTOThreadsProofs, part 2.** `CreatedFound`, `NothingNull`, `ValuesRead`,
`ThreadsKept`: `CreatedIsFound`, `NoNullPointer`, `ReadsValueOrWindow` and
`ImplementsThreads` hold for any number of threads, calls and failures, assuming
two things of the program and its kernel, which the run `oto` has too.
`MainCreates`: only `main` calls `thread_create`, as in every test of the
repository that uses it; with two creators `enqueue` races with itself.
`EnoughIds`: there are more kernel ids than threads are ever created (each takes
a slot, which is never given back), so that none comes round again; the kernel
has 32768 or more. Without it a search finds the wrong thread.

The argument goes up in four steps. `DInv`: the ids handed out so far are as many
as threads have started, so the next one is new, and `t_id`, once `SetId` has
stored it, is the id of its thread and of no other. `LInv`: there is a sequence
of threads that the pointers spell (`Linked`), and the place of `main` in
`enqueue` says how far it has got with it: between the store to `next` (or
`head`) and the store to `tail` the list is one node longer than `tail` knows,
and the threads known to the program are those up to `tail`. So a search, which
stops at `tail` or at a hit, finds every known thread (lemma `Search` of
`ListWalkProofs`, for a tail anywhere in the list), and a thread that looks for
itself finds itself or, before it is in the list, nothing. The case that is easy
to get wrong is the first thread, which may call `thread_exit` between the stores
to `head` and to `tail`, when a search would run off the list at the null
`tail`: its only node is the caller's, with `t_id` stored, so the search stops
there (`ExitSafe`). `CInv` then says that a thread in `thread_join` holds the
`thread_s` it was called for and one in `thread_exit` its own. `EInv` says how
far each thread is with its end: one that has left a value has not found itself,
or has still to turn its state to `EXITED`, or to store the value, or has stored
that very value. And the kernel clears `waittid` only after that, so that the
`EXITED` that `thread_join` writes itself comes too late to shut the thread's own
store out.

`ValuesRead` is then a case distinction on `EInv`. For `ThreadsKept` `clone` is
`Create`, the first call of `thread_exit` (or return) is `End`, calls of
`thread_join` are `Ask`, all other calls `Forget`, the last step of `thread_join`
is `AnswerLost`, and everything else is a stutter; that `thread_join` never
answers `ESRCH` for a thread of the program is `CreatedFound` again.

**TestProgramsProofs.** `TypeCorrect`, `TotalsRight`, `StatusesRight`,
`MainLast`: `TypeOK`, `PrintsTotal`, `PrintsStatuses` and `MainEndsLast` hold of
every program of the two suites, on each library, for any `numThreads` up to ten,
any `Turns` and any number of failures, without further assumption. The run
`tests` has 3 threads, 2 turns and one failure.

The proof first reads the programs. Every one is `Proper` (its variables, threads
and signals exist), and all but `test7`, `test8` and `third` are `Tidy`: a thread
has the number of its variable, each is joined, and after it was created, the
total comes last, and a status is printed after a join that keeps it. The three
others print neither (`Plain`), and `MainEndsLast` does not speak of them.
`Fits` has this for every program, from the lengths and the statements of
`CreateAll`, `JoinAll` and `InTurn`.

Then `Inv`, what holds while a program runs. `Loops`: a thread has additions
under way only inside the lock, in which it is alone, so that its register has
the counter as it is; and the counter is the sum of the `Shares`, what each
thread has added so far. A `Store` adds to one share what it adds to the counter,
an `Unlock` turns the additions of a round into a round and changes no share
(`TurnKeepsLoops`). `Asked`: what `main` waits for is the thread its statement
names. `Ordered`: a variable names its thread, if that was created, and then by
a statement `main` has passed; a thread whose join it has passed is not live; and
where the library loses no value the status joined is the thread's. The case
where it could go wrong is `thread_create`, which makes a thread live: no join of
it may have been passed, and in a `Tidy` program none has. At the total, and at
the end, every created thread has its join behind it (`AllJoined`), so it has
ended with all its rounds done, and its share is what its routine adds. That the
sum over the set of created threads is the sum of ten shares is `SumIsTen`, by
well-founded induction on the subsets. `Steps` sorts the actions by what they
change, since most end the process or pass a statement and do nothing else.

Only model-checked: all liveness (`Termination`, `ReadyRuns`, `JoinReturns`,
`SignalDelivered`, `Finishes`) and the fairness half of `ImplementsLock`, since
liveness and `ENABLED` are beyond the prover.

## 5. Left out, and why

* `Makefile`, `test.sh`: no state.
* In the tests: what is printed but for totals and statuses, `sleep`, the
  options, of which `-s` takes the lock of `pthreads/test5.c` away.
* libc's heap: a tick that interrupts `malloc` in the program and calls `malloc`
  in the handler may wait for itself.
* `calloc` failing in `initlock` and `initmutexlock`: an error code, and the
  caller's lock is as untouched as on success.
* In MTO a program that calls the library other than `thread_create` before
  `main` is a thread, or that goes on calling it after `thread_exit` has
  returned for want of another thread; signals that end the process; SIGALRM
  itself as the signal of `thread_kill`; overflow of a stack.
* In OTO a null return value, a null `retval`, `thread_exit` called by `main`
  (it finds nothing), and the TLS of the child.
* `isQempty` and `isQfull`: they only read, and nobody calls the second.

## 6. Plan

Done: the locks and the queue with their proofs and refinements, the MTO
scheduler with the proofs of all its safety properties and of both its
refinements, the OTO library with the proofs of all its safety properties and of
its refinement, the abstract threads that both libraries implement up to the
windows, and the test programs on top of them with the proofs of what they print.
Next, in this order:

1. The locks under the MTO scheduler, where a thread that spins does so until
   its 2 ms are over: composition of `SpinLock` with `RoundRobin`.
2. Program steps now left out: SIGALRM as a signal, calls after `thread_exit`
   has returned.

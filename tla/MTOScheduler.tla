---------------------------- MODULE MTOScheduler ----------------------------
(***************************************************************************)
(* The many-to-one library, mtothread.c: user-level threads on one kernel  *)
(* thread, switched by scheduler(), the handler of SIGALRM.  The signal    *)
(* comes from an interval timer, or from raise() in the library's own      *)
(* calls.  The library protects its data by turning the timer off, and     *)
(* that is the subject of this module: while it is armed the timer can go  *)
(* off between any two steps at a label of TickAt, also inside the library *)
(* and inside the handler itself (SA_NODEFER).                             *)
(*                                                                         *)
(* One step is a stretch of code between two labels.  thread_t is          *)
(* abstracted to the thread_s it names.  The queues are sequences, and     *)
(* their operations parts of a step.                                       *)
(***************************************************************************)
EXTENDS Integers, Sequences, FiniteSets, ThreadQueue

CONSTANTS
  Main,      \* the thread that runs main()
  Children,  \* the thread_s that thread_create may hand out
  Nobody,    \* the zeroed thread_s current_thread is before main_thread is set
  Clients,   \* the programs: the library calls each makes, in its ops, and
             \* those of a bounded number, in its counted ...
  Calls,     \* ... bounded by this
  Fails,     \* bound on the failing allocations
  Depth,     \* bound on the nesting of the handler on one stack
  TickAt     \* the labels at which the timer may go off

Threads == Children \cup {Main}
NULL == "NULL"

CallLabels == {"user", "boot", "clear", "set", "body", "wait", "setret",
               "yield", "fallOff", "rearm", "arm"}
HandlerLabels == {"sClear", "sDisarm", "sSave", "sResume", "sNext", "sArm",
                  "sSwitch", "sOn", "sReturn"}
Labels == CallLabels \cup HandlerLabels

(* Between filling the struct with zeroes and passing it to setitimer, and *)
(* between arming the timer for the next thread and being in it.           *)
Windows == {"set", "sDisarm", "sSwitch", "sResume"}
Quiet == Labels \ Windows

(* Where the library is at its data, and where a thread that has saved its *)
(* context leaves the processor.                                           *)
Protected == {"boot", "body", "setret", "yield", "sSave", "sNext", "sArm"}
Away == {"sNext", "sArm", "sSwitch"}

AllOps == {"create", "join", "exit", "return", "kill", "kill0", "killBad"}
Codes == {"none", "ok", "EINVAL", "ESRCH", "EDEADLK"}
Values == {NULL, "returned", "exited"}

ASSUME ThreadsAssumption == Main \notin Children /\ Nobody \notin Threads
ASSUME ClientsAssumption ==
  Clients \subseteq [ops : SUBSET AllOps, counted : SUBSET AllOps]
ASSUME BoundsAssumption ==
  Calls \in Nat /\ Fails \in Nat /\ Depth \in Nat
ASSUME TickAssumption == TickAt \subseteq Labels

VARIABLES
  \* the fields of each thread_s
  state,      \* "UNBORN" until it is allocated
  exec,       \* set by the switch to the thread, cleared when it resumes
  sig,        \* whether a signal was left for the thread (sig # -1)
  ret,
  context,    \* the stack and the frame that setcontext would continue
  \* the library's globals
  boot,       \* first_thread and main_thread_set
  current,    \* current_thread
  ready,      \* readyqueue
  completed,
  timer,      \* the struct the next setitimer call passes
  \* the machine
  armed,      \* ITIMER_REAL is counting
  cpu,        \* the thread on whose stack the processor is
  stack,      \* labels of each thread's frames: its own code, then handlers
  proc,       \* the process is "up", has "exited" or has "crashed"
  \* each thread's last call and its answer
  call, result,
  \* the program that runs, and history
  client,
  calls, fails,
  final,      \* what each thread returned or passed to thread_exit
  sent,       \* the threads thread_kill was called for
  raised      \* the threads in which a signal was raised

lib == <<state, exec, sig, ret, context, boot, current, ready, completed>>
clock == <<timer, armed>>
history == <<client, calls, fails, final, sent, raised>>
program == <<call, result, history>>
vars == <<lib, clock, cpu, stack, proc, program>>

NoCall == [op |-> "none", arg |-> Nobody]
NoResult == [code |-> "none", val |-> NULL]
Entry(t) == [stack |-> t, frame |-> 0]  \* the context makecontext prepares

Init ==
  /\ state = [t \in Threads |-> "UNBORN"]
  /\ exec = [t \in Threads |-> 0]
  /\ sig = [t \in Threads |-> FALSE]
  /\ ret = [t \in Threads |-> NULL]
  /\ context = [t \in Threads |-> Entry(t)]
  /\ boot = "none" /\ current = Nobody
  /\ ready = <<>> /\ completed = <<>>
  /\ timer = "off" /\ armed = FALSE
  /\ cpu = Main
  /\ stack = [t \in Threads |-> <<"user">>]
  /\ proc = "up"
  /\ call = [t \in Threads |-> NoCall]
  /\ result = [t \in Threads |-> NoResult]
  /\ client \in Clients
  /\ calls = 0 /\ fails = 0
  /\ final = [t \in Threads |-> NULL]
  /\ sent = {} /\ raised = {}

-----------------------------------------------------------------------------
(* The stack the processor is on.                                          *)

Top == stack[cpu][Len(stack[cpu])]
At(label) == proc = "up" /\ Top = label
AtBody(op) == At("body") /\ call[cpu].op = op

WithTop(s, label) == [s EXCEPT ![Len(s)] = label]
Goto(label) == stack' = [stack EXCEPT ![cpu] = WithTop(@, label)]
Return == stack' = [stack EXCEPT ![cpu] = SubSeq(@, 1, Len(@) - 1)]

(* raise(SIGALRM): the handler runs on top, the code below goes on at      *)
(* label when it returns.                                                  *)
RaiseThen(label) ==
  stack' = [stack EXCEPT ![cpu] = Append(WithTop(@, label), "sClear")]

(* The call's answer, before the code goes on at label.                    *)
Answer(code, val) ==
  result' = [result EXCEPT ![cpu] = [code |-> code, val |-> val]]
Reply(code, val, label) ==
  /\ Answer(code, val)
  /\ Goto(label)
  /\ UNCHANGED <<lib, clock, cpu, proc, call, history>>

(* The struct is filled ...                                                *)
FillTimer(from, value, to) ==
  /\ At(from)
  /\ timer' = value
  /\ Goto(to)
  /\ UNCHANGED <<lib, armed, cpu, proc, program>>

(* ... and setitimer passes whatever it then holds.                        *)
SetITimer(from, to) ==
  /\ At(from)
  /\ armed' = (timer = "on")
  /\ Goto(to)
  /\ UNCHANGED <<lib, timer, cpu, proc, program>>

(* A signal raised on the running stack; the program handles it.           *)
RaiseSig == raised' = raised \cup {cpu}

-----------------------------------------------------------------------------
(* The program: any thread may make any call, or none and just run.  It    *)
(* makes no call but thread_create until main is a thread (current_thread  *)
(* is set), and none after thread_exit, which returns to its caller when   *)
(* there is nobody left to run.                                            *)

StartCall(op, arg) ==
  /\ At("user")
  /\ op \in client.ops
  /\ op \in client.counted => calls < Calls
  /\ call[cpu].op # "exit"
  /\ calls' = IF op \in client.counted THEN calls + 1 ELSE calls
  /\ call' = [call EXCEPT ![cpu] = [op |-> op, arg |-> arg]]
  /\ result' = [result EXCEPT ![cpu] = NoResult]
  /\ UNCHANGED <<lib, clock, cpu, proc, client, fails, sent, raised>>

(* Children bounds the calls of thread_create that may be under way.       *)
Unborn == {t \in Children : state[t] = "UNBORN"}
Creating == {t \in Threads : call[t].op = "create" /\ result[t] = NoResult}

CallCreate ==
  /\ Cardinality(Creating) < Cardinality(Unborn)
  /\ StartCall("create", Nobody)
  /\ Goto(IF boot = "none" THEN "boot" ELSE "clear")
  /\ UNCHANGED final

CallOther(op, t) ==
  /\ current # Nobody
  /\ op \in {"join", "kill", "kill0", "killBad"}
  /\ StartCall(op, t)
  /\ Goto("clear")
  /\ UNCHANGED final

CallExit ==
  /\ current # Nobody
  /\ StartCall("exit", Nobody)
  /\ final' = [final EXCEPT ![cpu] = "exited"]
  /\ Goto("clear")

(* setretval: the start routine returned, its value is stored.             *)
ReturnFromRoutine ==
  /\ cpu # Main
  /\ At("user")
  /\ "return" \in client.ops
  /\ ret' = [ret EXCEPT ![cpu] = "returned"]
  /\ final' = [final EXCEPT ![cpu] = IF @ = NULL THEN "returned" ELSE @]
  /\ call' = [call EXCEPT ![cpu] = [op |-> "return", arg |-> Nobody]]
  /\ Goto("clear")
  /\ UNCHANGED <<state, exec, sig, context, boot, current, ready, completed,
                 clock, cpu, proc, result, client, calls, fails, sent, raised>>

(* main() returns, and the process with it.                                *)
MainReturns ==
  /\ cpu = Main
  /\ At("user")
  /\ proc' = "exited"
  /\ UNCHANGED <<lib, clock, cpu, stack, program>>

-----------------------------------------------------------------------------
(* What every call begins and ends with: the timer off, the timer on.      *)

Clear_StaysOn == FillTimer("clear", "on", "set")
Clear == FillTimer("clear", "off", "set")
Disarm == SetITimer("set", "body")
Rearm_StaysOff == FillTimer("rearm", "off", "arm")
Rearm == FillTimer("rearm", "on", "arm")
Arm == SetITimer("arm", "user")

-----------------------------------------------------------------------------
(* thread_create                                                           *)

(* The first call: the queues, a zeroed current_thread, and initialise()   *)
(* with the timer running.                                                 *)
Boot ==
  /\ At("boot")
  /\ boot' = "queues"
  /\ timer' = "on" /\ armed' = TRUE
  /\ Goto("clear")
  /\ UNCHANGED <<state, exec, sig, ret, context, current, ready, completed,
                 cpu, proc, program>>

(* The new thread enters the ready queue; the first time, main becomes a   *)
(* thread too and yields at once.                                          *)
Create(t) ==
  LET first == boot = "queues" IN
  /\ AtBody("create")
  /\ boot # "broken"
  /\ t \in Unborn
  /\ state' = [u \in Threads |-> IF u = t \/ (first /\ u = Main)
                                 THEN "RUNNABLE" ELSE state[u]]
  /\ ready' = Enqueue(ready, t)
  /\ boot' = "main"
  /\ current' = IF first THEN Main ELSE current
  /\ Answer("ok", NULL)
  /\ IF first THEN RaiseThen("user") ELSE Goto("rearm")
  /\ UNCHANGED <<exec, sig, ret, context, completed, clock, cpu, proc, call,
                 history>>

(* An allocation fails and the call returns EINVAL, with the timer as the  *)
(* prologue left it.                                                       *)
FailedAllocation ==
  /\ fails < Fails
  /\ fails' = fails + 1
  /\ Answer("EINVAL", NULL)
  /\ UNCHANGED <<exec, sig, ret, context, current, completed, clock, cpu, proc,
                 call, client, calls, final, sent, raised>>

(* During the first call: first_thread stays set.                          *)
BootFails ==
  /\ At("boot")
  /\ FailedAllocation
  /\ boot' = "broken"
  /\ Goto("user")
  /\ UNCHANGED <<state, ready>>

(* For the new thread.                                                     *)
CreateFails ==
  /\ AtBody("create")
  /\ boot # "broken"
  /\ FailedAllocation
  /\ Goto("user")
  /\ UNCHANGED <<state, boot, ready>>

(* For main_thread: the new thread is in the queue, main_thread_set is set *)
(* and current_thread is not.                                              *)
CreateMainFails(t) ==
  /\ AtBody("create")
  /\ boot = "queues"
  /\ t \in Unborn
  /\ FailedAllocation
  /\ state' = [state EXCEPT ![t] = "RUNNABLE"]
  /\ ready' = Enqueue(ready, t)
  /\ boot' = "main"
  /\ Goto("user")

(* A call after BootFails enqueues through a null pointer, or raises       *)
(* SIGALRM without its handler.                                            *)
CreateBroken == AtBody("create") /\ boot = "broken"

-----------------------------------------------------------------------------
(* thread_join                                                             *)

(* What *retval is set to; the variant stores the thread_s itself.         *)
Retval_Struct(t) == t
Retval(t) == ret[t]

Join ==
  LET t == call[cpu].arg IN
  /\ AtBody("join")
  /\ \/ t = current /\ Reply("EDEADLK", NULL, "rearm")
     \/ /\ t # current /\ Contains(ready, t)
        /\ IF state[t] = "EXITED"
           THEN Reply("EINVAL", NULL, "rearm")
           ELSE Goto("wait") /\ UNCHANGED <<lib, clock, cpu, proc, program>>
     \/ /\ t # current /\ ~Contains(ready, t)
        /\ IF Contains(completed, t)
           THEN Reply("ok", Retval(t), "rearm")
           ELSE Reply("ESRCH", NULL, "rearm")

(* The loop: yield until the thread has exited.                            *)
JoinWaits_Again ==
  At("wait") /\ RaiseThen("wait") /\ UNCHANGED <<lib, clock, cpu, proc, program>>

JoinWaits ==
  /\ At("wait")
  /\ state[call[cpu].arg] # "EXITED"
  /\ RaiseThen("wait")
  /\ UNCHANGED <<lib, clock, cpu, proc, program>>

JoinDone ==
  /\ At("wait")
  /\ state[call[cpu].arg] = "EXITED"
  /\ Reply("ok", Retval(call[cpu].arg), "rearm")

-----------------------------------------------------------------------------
(* thread_exit, and the end of setretval                                   *)

Exit ==
  /\ AtBody("exit") \/ AtBody("return")
  /\ state' = [state EXCEPT ![current] = "EXITED"]
  /\ Goto(IF call[cpu].op = "exit" THEN "setret" ELSE "yield")
  /\ UNCHANGED <<exec, sig, ret, context, boot, current, ready, completed,
                 clock, cpu, proc, program>>

SetRet ==
  /\ At("setret")
  /\ ret' = [ret EXCEPT ![current] = "exited"]
  /\ Goto("yield")
  /\ UNCHANGED <<state, exec, sig, context, boot, current, ready, completed,
                 clock, cpu, proc, program>>

(* raise(SIGALRM).  It comes back only if there is no other thread to run: *)
(* thread_exit then returns to its caller, setretval off its stack.        *)
Yield ==
  /\ At("yield")
  /\ RaiseThen(IF call[cpu].op = "exit" THEN "user" ELSE "fallOff")
  /\ UNCHANGED <<lib, clock, cpu, proc, program>>

(* uc_link is null: the process exits.                                     *)
FallOff ==
  /\ At("fallOff")
  /\ proc' = "exited"
  /\ UNCHANGED <<lib, clock, cpu, stack, program>>

-----------------------------------------------------------------------------
(* thread_kill                                                             *)

(* A signal number out of range: EINVAL, and the timer stays as it is.     *)
KillInvalid == AtBody("killBad") /\ Reply("EINVAL", NULL, "user")

(* Signal 0: nothing is checked.                                           *)
KillZero == AtBody("kill0") /\ Reply("ok", NULL, "rearm")

KillSelf ==
  /\ AtBody("kill")
  /\ call[cpu].arg = current
  /\ RaiseSig
  /\ sent' = sent \cup {current}
  /\ Answer("ok", NULL)
  /\ Goto("rearm")
  /\ UNCHANGED <<lib, clock, cpu, proc, call, client, calls, fails, final>>

(* The target goes to the head of the ready queue, the caller yields.      *)
KillReady ==
  LET t == call[cpu].arg IN
  /\ AtBody("kill")
  /\ t # current
  /\ Contains(ready, t)
  /\ ready' = MakeHead(ready, t)
  /\ sig' = [sig EXCEPT ![t] = TRUE]
  /\ sent' = sent \cup {t}
  /\ Answer("ok", NULL)
  /\ RaiseThen("rearm")
  /\ UNCHANGED <<state, exec, ret, context, boot, current, completed, clock,
                 cpu, proc, call, client, calls, fails, final, raised>>

(* The target is not in the ready queue: ESRCH, the timer stays as it is.  *)
NotReady ==
  /\ AtBody("kill")
  /\ call[cpu].arg # current
  /\ ~Contains(ready, call[cpu].arg)

KillNotFound == NotReady /\ Reply("ESRCH", NULL, "user")

(* But unless the queue is empty makeheadthread reads t1 uninitialised on  *)
(* the way, and a garbage value other than null ends in a segfault.        *)
KillWild == NotReady /\ ready # <<>>

-----------------------------------------------------------------------------
(* scheduler()                                                             *)

SClear_StaysOn == FillTimer("sClear", "on", "sDisarm")
SClear == FillTimer("sClear", "off", "sDisarm")
SDisarm == SetITimer("sDisarm", "sSave")

(* getcontext into current_thread, with the frame the processor is in.     *)
Saved_Never == context
Saved_TooDeep ==
  [context EXCEPT ![current] = [stack |-> cpu, frame |-> Len(stack[cpu]) + 1]]
Saved ==
  [context EXCEPT ![current] = [stack |-> cpu, frame |-> Len(stack[cpu])]]

SSave ==
  /\ At("sSave")
  /\ current # Nobody
  /\ state[current] # "EXITED"
  /\ context' = Saved
  /\ Goto("sResume")
  /\ UNCHANGED <<state, exec, sig, ret, boot, current, ready, completed, clock,
                 cpu, proc, program>>

(* The zeroed current_thread has a null context.                           *)
SSaveNull == At("sSave") /\ current = Nobody

SRetire_Forgets ==
  /\ At("sSave")
  /\ current # Nobody
  /\ state[current] = "EXITED"
  /\ Goto("sNext")
  /\ UNCHANGED <<lib, clock, cpu, proc, program>>

SRetire ==
  /\ At("sSave")
  /\ current # Nobody
  /\ state[current] = "EXITED"
  /\ completed' = Enqueue(completed, current)
  /\ Goto("sNext")
  /\ UNCHANGED <<state, exec, sig, ret, context, boot, current, ready, clock,
                 cpu, proc, program>>

(* getcontext returned 0, directly or through a setcontext: exec tells     *)
(* which, unless the thread has not been in the handler before.            *)
SPreempted ==
  /\ At("sResume")
  /\ exec[current] = 0
  /\ state' = [state EXCEPT ![current] = "RUNNABLE"]
  /\ ready' = Enqueue(ready, current)
  /\ Goto("sNext")
  /\ UNCHANGED <<exec, sig, ret, context, boot, current, completed, clock, cpu,
                 proc, program>>

SignalLeft_Always == TRUE
SignalLeft == sig[current]

SResumed ==
  /\ At("sResume")
  /\ exec[current] = 1
  /\ exec' = [exec EXCEPT ![current] = 0]
  /\ IF SignalLeft THEN RaiseSig ELSE UNCHANGED raised
  /\ Goto("sOn")
  /\ UNCHANGED <<state, sig, ret, context, boot, current, ready, completed,
                 clock, cpu, proc, call, result, client, calls, fails, final,
                 sent>>

SOn == FillTimer("sOn", "on", "sReturn")

SReturn ==
  /\ At("sReturn")
  /\ armed' = (timer = "on")
  /\ Return
  /\ UNCHANGED <<lib, timer, cpu, proc, program>>

SNext ==
  /\ At("sNext")
  /\ ready # <<>>
  /\ current' = Head(ready)
  /\ ready' = Tail(ready)
  /\ state' = [state EXCEPT ![Head(ready)] = "RUNNING"]
  /\ exec' = [exec EXCEPT ![Head(ready)] = 1]
  /\ timer' = "on"
  /\ Goto("sArm")
  /\ UNCHANGED <<sig, ret, context, boot, completed, armed, cpu, proc, program>>

(* No thread is ready: the timer goes off and the handler returns.         *)
SIdle ==
  /\ At("sNext")
  /\ ready = <<>>
  /\ timer' = "off" /\ armed' = FALSE
  /\ Return
  /\ UNCHANGED <<lib, cpu, proc, program>>

SArm == SetITimer("sArm", "sSwitch")

(* setcontext: a new thread starts its routine, any other continues in its *)
(* frame of the handler, after getcontext.                                 *)
SSwitch ==
  LET to == context[current] IN
  /\ At("sSwitch")
  /\ to.frame <= Len(stack[to.stack])
  /\ cpu' = to.stack
  /\ stack' = IF to.frame = 0 THEN stack
              ELSE [stack EXCEPT
                     ![to.stack] = WithTop(SubSeq(@, 1, to.frame), "sResume")]
  /\ UNCHANGED <<lib, clock, proc, program>>

(* The frame is gone: undefined, and taken to crash.                       *)
SSwitchDead ==
  /\ At("sSwitch")
  /\ context[current].frame > Len(stack[context[current].stack])

-----------------------------------------------------------------------------

Crash ==
  /\ CreateBroken \/ KillWild \/ SSaveNull \/ SSwitchDead
  /\ proc' = "crashed"
  /\ UNCHANGED <<lib, clock, cpu, stack, program>>

(* The kernel delivers SIGALRM when the timer goes off.                    *)
Tick ==
  /\ proc = "up"
  /\ armed
  /\ Top \in TickAt
  /\ Len(stack[cpu]) <= Depth
  /\ stack' = [stack EXCEPT ![cpu] = Append(@, "sClear")]
  /\ UNCHANGED <<lib, clock, cpu, proc, program>>

Over == proc # "up" /\ UNCHANGED vars

Program ==
  \/ CallCreate \/ CallExit \/ ReturnFromRoutine \/ MainReturns
  \/ \E op \in AllOps, t \in Threads : CallOther(op, t)

Library ==
  \/ Clear \/ Disarm \/ Rearm \/ Arm
  \/ Boot \/ BootFails \/ CreateFails
  \/ \E t \in Children : Create(t) \/ CreateMainFails(t)
  \/ Join \/ JoinWaits \/ JoinDone
  \/ Exit \/ SetRet \/ Yield \/ FallOff
  \/ KillInvalid \/ KillZero \/ KillSelf \/ KillReady \/ KillNotFound

Scheduler ==
  \/ SClear \/ SDisarm \/ SSave \/ SRetire \/ SPreempted \/ SResumed
  \/ SOn \/ SReturn \/ SNext \/ SIdle \/ SArm \/ SSwitch

Next == Program \/ Library \/ Scheduler \/ Crash \/ Tick \/ Over

Spec == Init /\ [][Next]_vars

(* The handler goes on, an armed timer goes off, and a thread inside the   *)
(* library gets on although the timer may interrupt it: 2 ms are longer    *)
(* than any of its steps.  No thread has to make a call, or to return.     *)
Fairness ==
  /\ WF_vars(Scheduler \/ Crash)
  /\ WF_vars(Tick)
  /\ \A t \in Threads : SF_vars(cpu = t /\ Library)

FairSpec == Spec /\ Fairness

-----------------------------------------------------------------------------

TypeOK ==
  /\ state \in [Threads -> {"UNBORN", "RUNNABLE", "RUNNING", "EXITED"}]
  /\ exec \in [Threads -> {0, 1}]
  /\ sig \in [Threads -> BOOLEAN]
  /\ ret \in [Threads -> Values]
  /\ context \in [Threads -> [stack : Threads, frame : Nat]]
  /\ boot \in {"none", "queues", "main", "broken"}
  /\ current \in Threads \cup {Nobody}
  /\ ready \in Seq(Threads) /\ completed \in Seq(Threads)
  /\ timer \in {"on", "off"} /\ armed \in BOOLEAN
  /\ cpu \in Threads
  /\ stack \in [Threads -> Seq(Labels)]
  /\ proc \in {"up", "exited", "crashed"}
  /\ call \in [Threads -> [op : AllOps \cup {"none"}, arg : Threads \cup {Nobody}]]
  /\ result \in [Threads -> [code : Codes, val : Values]]
  /\ client \in Clients /\ calls \in 0..Calls /\ fails \in 0..Fails
  /\ final \in [Threads -> Values]
  /\ sent \subseteq Threads /\ raised \subseteq Threads

(* The queues, and the state and return value of the running thread, are   *)
(* touched only with the timer off.                                        *)
TimerOffInside == proc = "up" /\ armed => Top \notin Protected

(* The context of a thread that waits for its turn, or is being switched   *)
(* to, is its own stack and the handler's frame on top of it, or the       *)
(* beginning of its routine: setcontext never continues a dead frame or    *)
(* somebody else's.                                                        *)
Continues(t) ==
  \/ context[t] = Entry(t) /\ stack[t] = <<"user">>
  \/ /\ context[t] = [stack |-> t, frame |-> Len(stack[t])]
     /\ stack[t][Len(stack[t])] \in Away

ContextsIntact ==
  proc = "up" =>
    /\ \A t \in Threads : Contains(ready, t) => Continues(t)
    /\ Top \in {"sArm", "sSwitch"} => Continues(current)

(* Outside the library the processor is on the stack of current_thread,    *)
(* which is why setretval and thread_exit may work on current_thread.      *)
RunsAsCurrent == At("user") => current \in {cpu, Nobody}

(* A thread runs with the timer off only after a call that answered EINVAL *)
(* or ESRCH, or as the last thread after its thread_exit: no other way     *)
(* through the library loses preemption.                                   *)
PreemptionKept ==
  At("user") /\ current # Nobody /\ ~armed =>
    result[cpu].code \in {"EINVAL", "ESRCH"} \/ state[cpu] = "EXITED"

(* A signal is raised only in a thread it was sent to.                     *)
SignalOnlyWhereSent == raised \subseteq sent

(* The process crashes in thread_kill, in a tick during the first          *)
(* thread_create, or when that one failed: never once main is a thread, by *)
(* a context that is gone.                                                 *)
CrashesOnly ==
  proc = "crashed" =>
    call[cpu].op = "kill" \/ (current = Nobody /\ (boot = "queues" \/ fails > 0))

-----------------------------------------------------------------------------
(* The scheduler implements a round robin.  While the handler is before    *)
(* SNext the current thread has its place in a queue already, which the    *)
(* round robin gives it together with the switch.                          *)

Switching == At("sNext")
Retiring == Switching /\ state[current] = "EXITED"

Line == IF Switching /\ ~Retiring THEN SubSeq(ready, 1, Len(ready) - 1) ELSE ready
Done == {completed[i] : i \in 1..Len(completed) - (IF Retiring THEN 1 ELSE 0)}

RR == INSTANCE RoundRobin WITH running <- current, line <- Line, done <- Done

ImplementsRoundRobin == RR!Spec

-----------------------------------------------------------------------------
(* The library implements what thread.h promises of threads: thread_join   *)
(* answers for every thread that was created, once it has ended and with   *)
(* what it left, however it moves from queue to queue meanwhile.  EINVAL,  *)
(* thread_join's answer for an ended thread that is ready, is never given. *)

Phase ==
  [t \in Threads |->
    IF state[t] = "EXITED" THEN "ended"
    ELSE IF t # Main /\ state[t] = "UNBORN" THEN "unborn" ELSE "live"]

Left == [t \in Threads |-> IF state[t] = "EXITED" THEN final[t] ELSE NULL]

Joins ==
  [t \in Threads |->
    IF call[t].op = "join"
    THEN [of |-> call[t].arg, code |-> result[t].code, val |-> result[t].val]
    ELSE [of |-> Nobody, code |-> "none", val |-> NULL]]

AT == INSTANCE AbstractThreads WITH phase <- Phase, value <- Left, join <- Joins

ImplementsThreads == AT!Spec

-----------------------------------------------------------------------------
(* Liveness, up to a thread that runs with the timer off, and unless the   *)
(* program goes on calling the library for ever: every call starts the     *)
(* timer anew, so that calls less than 2 ms apart keep it from ever going  *)
(* off, and thread_kill puts threads in front of one that waits.           *)

PreemptionOff == At("user") /\ ~armed

CallsForEver == []<>At("clear")

(* A ready thread gets the processor: none stays for ever in the queue,    *)
(* which ImplementsRoundRobin lets it leave only for the processor, also   *)
(* while others yield to each other for ever in thread_join, and however   *)
(* often they have called thread_kill.                                     *)
ReadyRuns ==
  CallsForEver \/
  \A t \in Threads : []<>(~Contains(ready, t) \/ proc # "up" \/ PreemptionOff)

(* thread_join returns once the thread has exited: again and again nobody  *)
(* waits for a thread that has.                                            *)
Overdue ==
  {t \in Threads :
     call[t].op = "join" /\ result[t] = NoResult /\ state[call[t].arg] = "EXITED"}

JoinReturns ==
  CallsForEver \/ []<>(Overdue = {} \/ proc # "up" \/ PreemptionOff)

(* A signal left for a thread is raised in it, unless the thread finishes  *)
(* before it is next preempted: again and again none is outstanding.       *)
Undelivered == {t \in Threads : sig[t] /\ t \notin raised /\ state[t] # "EXITED"}

SignalDelivered ==
  CallsForEver \/ []<>(Undelivered = {} \/ proc # "up" \/ PreemptionOff)

-----------------------------------------------------------------------------
(* What the comments and the tests say, and the code does not do.          *)

(* "saving the context of current" (mtothread.c:123): the context saved    *)
(* for a thread is that of its own stack.                                  *)
SavesOwnContext == \A t \in Threads : context[t].stack = t

(* "return value of the thread gets set to retval" (mtothread.c:374): a    *)
(* thread in the completed queue has its value.                            *)
ExitSetsValue == \A t \in Threads : Contains(completed, t) => ret[t] = final[t]

(* A test has passed if its exit status is not 139, that of a segfault     *)
(* (test.sh:55), and test8.c:35 calls thread_kill for a thread that was    *)
(* never created and prints the error it returns.                          *)
NeverCrashes == proc # "crashed"
=============================================================================

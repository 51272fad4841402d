----------------------------- MODULE OTOThreads -----------------------------
(***************************************************************************)
(* The one-to-one library, thread.c: thread_create, thread_join,           *)
(* thread_exit and thread_kill over kernel threads, which run in parallel  *)
(* and share one queue and one stackTop without any lock.                  *)
(*                                                                         *)
(* One step is one access to memory that another thread can see, with two  *)
(* exceptions: a search of the queue, and the end of a thread in the       *)
(* kernel.  The node that enqueue allocates is named after its thread_s,   *)
(* and so is the kernel thread that works on it.  A return value is never  *)
(* a null pointer, nor is the retval argument of thread_join.              *)
(* Memory is sequentially consistent, and thread_join's loop reads waittid *)
(* in every turn, as the Makefile, which asks for no optimisation, builds  *)
(* it.                                                                     *)
(***************************************************************************)
EXTENDS ListWalk

CONSTANTS
  Main,      \* the thread that runs main()
  Slots,     \* the thread_s that calloc may hand out
  Creators,  \* the threads that call thread_create
  PidMax,    \* kernel ids are 1..PidMax, handed out in turn
  Calls,     \* bound on the program's calls
  Fails      \* bound on the failing allocations and clones

Actors == Slots \cup {Main}

ASSUME ActorsAssumption == Main \notin Slots /\ NULL \notin Actors
ASSUME CreatorsAssumption == Creators \subseteq Actors
ASSUME BoundsAssumption ==
  /\ IsFiniteSet(Slots) /\ Calls \in Nat /\ Fails \in Nat
  /\ PidMax \in Nat /\ PidMax > 1

VARIABLES
  \* the fields of each thread_s
  state,    \* "UNBORN" until it is allocated
  t_id, ret, waittid,
  \* the library's globals
  queue,    \* q is "null", or "up", or "null" for good ("broken")
  head, tail, next,
  stackTop,
  \* the kernel
  tid,      \* the id of each thread, 0 if it does not run
  stack,    \* whose stack it runs on
  last,     \* the id handed out last
  proc,     \* the process is "up", has "exited" or has "crashed"
  \* each thread's place in the library, locals and last answer
  pc,
  slot,     \* t in thread_create, retthread in the others
  new,      \* what clone returned
  call,     \* its call and the thread this is about
  result,
  \* history
  calls, fails,
  known,    \* the threads whose thread_create has returned
  final,    \* the first value each thread returned or passed to thread_exit
  missed    \* the threads that thread_exit did not find

fields == <<state, t_id, ret, waittid>>
list == <<queue, head, tail, next>>
kernel == <<tid, stack, last, proc>>
history == <<calls, fails, known, final, missed>>
vars == <<fields, list, stackTop, kernel, pc, slot, new, call, result, history>>

NoCall == [op |-> "none", arg |-> NULL]
NoResult == [code |-> "none", val |-> NULL]

Init ==
  /\ state = [s \in Slots |-> "UNBORN"]
  /\ t_id = [s \in Slots |-> 0]
  /\ ret = [s \in Slots |-> NULL]
  /\ waittid = [s \in Slots |-> 0]
  /\ queue = "null"
  /\ head = NULL /\ tail = NULL /\ next = [s \in Slots |-> NULL]
  /\ stackTop = NULL
  /\ tid = [a \in Actors |-> IF a = Main THEN 1 ELSE 0]
  /\ stack = [a \in Actors |-> a]
  /\ last = 1
  /\ proc = "up"
  /\ pc = [a \in Actors |-> IF a = Main THEN "user" ELSE "unborn"]
  /\ slot = [a \in Actors |-> NULL]
  /\ new = [a \in Actors |-> 0]
  /\ call = [a \in Actors |-> NoCall]
  /\ result = [a \in Actors |-> NoResult]
  /\ calls = 0 /\ fails = 0
  /\ known = {}
  /\ final = [s \in Slots |-> NULL]
  /\ missed = {}

-----------------------------------------------------------------------------

At(a, label) == proc = "up" /\ pc[a] = label
Goto(a, label) == pc' = [pc EXCEPT ![a] = label]

Reply(a, code, val, label) ==
  /\ result' = [result EXCEPT ![a] = [code |-> code, val |-> val]]
  /\ Goto(a, label)

(* getthread: the first thread_s of the queue with the id.                 *)
Hits(id) == {s \in Slots : t_id[s] = id}
Searched(id) == Ends(head, tail, next, Hits(id))
Finds(id) == head # NULL /\ Searched(id) \in Hits(id)

(* It follows a null pointer if there is no queue, and at a tail that is   *)
(* not set yet.                                                            *)
Stumbles(id) == queue # "up" \/ (head # NULL /\ Searched(id) = NULL)

-----------------------------------------------------------------------------
(* The program calls thread_join and thread_kill only with ids that        *)
(* thread_create has given it, thread_exit and thread_create at any time.  *)
(* In main thread_exit finds nothing and does nothing; it is left out.     *)

StartCall(a, op, arg, label) ==
  /\ At(a, "user")
  /\ calls < Calls
  /\ calls' = calls + 1
  /\ call' = [call EXCEPT ![a] = [op |-> op, arg |-> arg]]
  /\ result' = [result EXCEPT ![a] = NoResult]
  /\ Goto(a, label)
  /\ UNCHANGED <<fields, list, stackTop, kernel, slot, new, fails, known, missed>>

(* Slots bounds the calls of thread_create that may be under way.          *)
Unborn == {s \in Slots : state[s] = "UNBORN"}
Allocating == {a \in Actors : pc[a] = "alloc"}

CallCreate(a) ==
  /\ a \in Creators
  /\ Cardinality(Allocating) < Cardinality(Unborn)
  /\ StartCall(a, "create", NULL, "alloc")
  /\ UNCHANGED final

CallJoin(a, s) ==
  s \in known /\ StartCall(a, "join", s, "joinFind") /\ UNCHANGED final
CallKill(a, s) ==
  s \in known /\ StartCall(a, "kill", s, "kill") /\ UNCHANGED final

First(s, value) == [final EXCEPT ![s] = IF @ = NULL THEN value ELSE @]

CallExit(s) ==
  StartCall(s, "exit", s, "exitFind") /\ final' = First(s, "exited")

(* setretval: the start routine returned, and thread_exit gets its value.  *)
ReturnFromRoutine(s) ==
  /\ At(s, "user")
  /\ final' = First(s, "returned")
  /\ call' = [call EXCEPT ![s] = [op |-> "return", arg |-> s]]
  /\ Goto(s, "exitFind")
  /\ UNCHANGED <<fields, list, stackTop, kernel, slot, new, result, calls,
                 fails, known, missed>>

(* main() returns, and the process with all its threads ends.              *)
MainReturns ==
  /\ At(Main, "user")
  /\ proc' = "exited"
  /\ UNCHANGED <<fields, list, stackTop, tid, stack, last, pc, slot, new, call,
                 result, history>>

-----------------------------------------------------------------------------
(* thread_create                                                           *)

(* The queue if there is none yet, a thread_s, and stackTop.  Two threads  *)
(* cannot be at the queue together: it takes a first thread_create to have *)
(* two threads.                                                            *)

Alloc(a, s) ==
  /\ At(a, "alloc")
  /\ s \in Unborn
  /\ state' = [state EXCEPT ![s] = "RUNNING"]
  /\ queue' = IF queue = "null" THEN "up" ELSE queue
  /\ stackTop' = s
  /\ slot' = [slot EXCEPT ![a] = s]
  /\ Goto(a, "clone")
  /\ UNCHANGED <<t_id, ret, waittid, head, tail, next, kernel, new, call, result,
                 history>>

(* Allocating the thread_s fails, or the queue, which is then never made.  *)
AllocFails(a) ==
  /\ At(a, "alloc")
  /\ fails < Fails
  /\ fails' = fails + 1
  /\ queue' \in IF queue = "null" THEN {"up", "broken"} ELSE {queue}
  /\ Reply(a, "EAGAIN", NULL, "user")
  /\ UNCHANGED <<fields, head, tail, next, stackTop, kernel, slot, new, call,
                 calls, known, final, missed>>

(* The next free id in turn.                                               *)
Free == {i \in 1..PidMax : \A a \in Actors : tid[a] # i}
FreshId ==
  LET after == {i \in Free : i > last}
      from == IF after # {} THEN after ELSE Free
  IN  CHOOSE i \in from : \A j \in from : i <= j

(* clone: the kernel writes the child's id to waittid (PARENT_SETTID) and  *)
(* lets it run setretval on the stack that ends at stackTop.               *)
SetTid_Omitted(s, id) == waittid
SetTid(s, id) == [waittid EXCEPT ![s] = id]

Clone(a) ==
  LET s == slot[a] IN
  /\ At(a, "clone")
  /\ Free # {}
  /\ new' = [new EXCEPT ![a] = FreshId]
  /\ last' = FreshId
  /\ tid' = [tid EXCEPT ![s] = FreshId]
  /\ waittid' = SetTid(s, FreshId)
  /\ stack' = [stack EXCEPT ![s] = stackTop]
  /\ pc' = [pc EXCEPT ![a] = "setid", ![s] = "user"]
  /\ UNCHANGED <<state, t_id, ret, list, stackTop, proc, slot, call, result,
                 history>>

SetId(a) ==
  /\ At(a, "setid")
  /\ t_id' = [t_id EXCEPT ![slot[a]] = new[a]]
  /\ Goto(a, "enqTest")
  /\ UNCHANGED <<state, ret, waittid, list, stackTop, kernel, slot, new, call,
                 result, history>>

(* enqueue: is the queue empty?                                            *)
EnqTest(a) ==
  /\ At(a, "enqTest")
  /\ queue = "up"
  /\ Goto(a, IF head = NULL THEN "enqHead" ELSE "enqLink")
  /\ UNCHANGED <<fields, list, stackTop, kernel, slot, new, call, result, history>>

EnqHead(a) ==
  /\ At(a, "enqHead")
  /\ head' = slot[a]
  /\ Goto(a, "enqTail")
  /\ UNCHANGED <<fields, queue, tail, next, stackTop, kernel, slot, new, call,
                 result, history>>

EnqLink(a) ==
  /\ At(a, "enqLink")
  /\ tail # NULL
  /\ next' = [next EXCEPT ![tail] = slot[a]]
  /\ Goto(a, "enqTail")
  /\ UNCHANGED <<fields, queue, head, tail, stackTop, kernel, slot, new, call,
                 result, history>>

(* The tail, and thread_create returns the id.  The variants leave it      *)
(* alone unless it is null, or in a list that was empty.                   *)
NewTail_Kept(s) == IF tail = NULL THEN s ELSE tail
NewTail_NotFirst(s) == IF head = s THEN tail ELSE s
NewTail(s) == s

EnqTail(a) ==
  /\ At(a, "enqTail")
  /\ tail' = NewTail(slot[a])
  /\ known' = known \cup {slot[a]}
  /\ Reply(a, "ok", NULL, "user")
  /\ UNCHANGED <<fields, queue, head, next, stackTop, kernel, slot, new, call,
                 calls, fails, final, missed>>

-----------------------------------------------------------------------------
(* thread_join                                                             *)

JoinFind(a) ==
  LET id == t_id[call[a].arg] IN
  /\ At(a, "joinFind")
  /\ ~Stumbles(id)
  /\ IF Finds(id)
     THEN /\ slot' = [slot EXCEPT ![a] = Searched(id)]
          /\ Goto(a, "joinTest")
          /\ UNCHANGED result
     ELSE Reply(a, "ESRCH", NULL, "user") /\ UNCHANGED slot
  /\ UNCHANGED <<fields, list, stackTop, kernel, new, call, history>>

JoinTest(a) ==
  /\ At(a, "joinTest")
  /\ Goto(a, IF state[slot[a]] = "EXITED" THEN "joinRead" ELSE "joinSpin")
  /\ UNCHANGED <<fields, list, stackTop, kernel, slot, new, call, result, history>>

(* The loop, until the kernel has cleared waittid.                         *)
JoinSpin(a) ==
  /\ At(a, "joinSpin")
  /\ waittid[slot[a]] = 0
  /\ state' = [state EXCEPT ![slot[a]] = "EXITED"]
  /\ Goto(a, "joinRead")
  /\ UNCHANGED <<t_id, ret, waittid, list, stackTop, kernel, slot, new, call,
                 result, history>>

Retval_Struct(s) == s
Retval(s) == ret[s]

JoinRead(a) ==
  /\ At(a, "joinRead")
  /\ Reply(a, "ok", Retval(slot[a]), "user")
  /\ UNCHANGED <<fields, list, stackTop, kernel, slot, new, call, history>>

-----------------------------------------------------------------------------
(* thread_exit, and the end of setretval                                   *)

(* thread_exit returns to its caller, setretval to the kernel.             *)
After(s) == IF call[s].op = "return" THEN "end" ELSE "user"

ExitFind(s) ==
  /\ At(s, "exitFind")
  /\ ~Stumbles(tid[s])
  /\ IF Finds(tid[s])
     THEN /\ slot' = [slot EXCEPT ![s] = Searched(tid[s])]
          /\ Goto(s, "exitTest")
          /\ UNCHANGED missed
     ELSE Goto(s, After(s)) /\ missed' = missed \cup {s} /\ UNCHANGED slot
  /\ UNCHANGED <<fields, list, stackTop, kernel, new, call, result, calls, fails,
                 known, final>>

(* Only the first thread_exit counts.                                      *)
FirstExit_Any(s) == TRUE
FirstExit(s) == state[s] # "EXITED"

ExitTest(s) ==
  /\ At(s, "exitTest")
  /\ IF FirstExit(slot[s])
     THEN state' = [state EXCEPT ![slot[s]] = "EXITED"] /\ Goto(s, "exitSet")
     ELSE Goto(s, After(s)) /\ UNCHANGED state
  /\ UNCHANGED <<t_id, ret, waittid, list, stackTop, kernel, slot, new, call,
                 result, history>>

ExitSet(s) ==
  /\ At(s, "exitSet")
  /\ ret' = [ret EXCEPT ![slot[s]] = IF call[s].op = "return" THEN "returned"
                                     ELSE "exited"]
  /\ Goto(s, After(s))
  /\ UNCHANGED <<state, t_id, waittid, list, stackTop, kernel, slot, new, call,
                 result, history>>

(* The kernel ends the thread: it clears waittid (CHILD_CLEARTID), and the *)
(* id is free.                                                             *)
ClearTid_Omitted(s) == waittid
ClearTid(s) == [waittid EXCEPT ![s] = 0]

End(s) ==
  /\ At(s, "end")
  /\ waittid' = ClearTid(s)
  /\ tid' = [tid EXCEPT ![s] = 0]
  /\ Goto(s, "dead")
  /\ UNCHANGED <<state, t_id, ret, list, stackTop, stack, last, proc, slot, new,
                 call, result, history>>

-----------------------------------------------------------------------------
(* thread_kill: tgkill goes by the id, whoever has it now, and only for a  *)
(* signal other than 0.                                                    *)

KillCode(id, sig) ==
  IF ~Finds(id) THEN "ESRCH"
  ELSE IF sig = "zero" THEN "ok"
  ELSE IF sig = "invalid" THEN "EINVAL"
  ELSE IF id \in Free THEN "ESRCH" ELSE "ok"

Kill(a) ==
  LET id == t_id[call[a].arg] IN
  /\ At(a, "kill")
  /\ ~Stumbles(id)
  /\ \E sig \in {"zero", "invalid", "valid"} :
       Reply(a, KillCode(id, sig), NULL, "user")
  /\ UNCHANGED <<fields, list, stackTop, kernel, slot, new, call, history>>

-----------------------------------------------------------------------------

(* clone fails and an mmapped stack goes to free(), or mmap has failed,    *)
(* which is not noticed, and the child has no stack; or enqueue has no     *)
(* memory for the node.                                                    *)
UncheckedFailure(a) == At(a, "clone") \/ At(a, "enqTest")

(* A null pointer is followed: q, the tail, or the end of the list.        *)
NullPointer(a) ==
  \/ (At(a, "enqTest") /\ queue # "up")
  \/ (At(a, "enqLink") /\ tail = NULL)
  \/ (At(a, "joinFind") \/ At(a, "kill")) /\ Stumbles(t_id[call[a].arg])
  \/ (At(a, "exitFind") /\ Stumbles(tid[a]))

Crash(a) ==
  /\ NullPointer(a) \/ (UncheckedFailure(a) /\ fails < Fails)
  /\ proc' = "crashed"
  /\ UNCHANGED <<fields, list, stackTop, tid, stack, last, pc, slot, new, call,
                 result, history>>

Over == proc # "up" /\ UNCHANGED vars

Create(a) ==
  \/ \E s \in Slots : Alloc(a, s)
  \/ AllocFails(a) \/ Clone(a) \/ SetId(a)
  \/ EnqTest(a) \/ EnqHead(a) \/ EnqLink(a) \/ EnqTail(a)

Join(a) == JoinFind(a) \/ JoinTest(a) \/ JoinSpin(a) \/ JoinRead(a)

Exit(s) == ExitFind(s) \/ ExitTest(s) \/ ExitSet(s) \/ End(s)

Program ==
  \/ MainReturns
  \/ \E a \in Actors : CallCreate(a)
  \/ \E a \in Actors, s \in Slots : CallJoin(a, s) \/ CallKill(a, s)
  \/ \E s \in Slots : CallExit(s) \/ ReturnFromRoutine(s)

Library(a) == Create(a) \/ Join(a) \/ Kill(a) \/ (a \in Slots /\ Exit(a))

Next == Program \/ (\E a \in Actors : Library(a) \/ Crash(a)) \/ Over

Spec == Init /\ [][Next]_vars

(* The kernel runs every thread; none has to make a call or to return.     *)
Fairness == \A a \in Actors : WF_vars(Library(a) \/ Crash(a))

FairSpec == Spec /\ Fairness

-----------------------------------------------------------------------------

TypeOK ==
  /\ state \in [Slots -> {"UNBORN", "RUNNING", "EXITED"}]
  /\ t_id \in [Slots -> 0..PidMax] /\ waittid \in [Slots -> 0..PidMax]
  /\ ret \in [Slots -> {NULL, "returned", "exited"}]
  /\ queue \in {"null", "up", "broken"}
  /\ head \in Slots \cup {NULL} /\ tail \in Slots \cup {NULL}
  /\ next \in [Slots -> Slots \cup {NULL}]
  /\ stackTop \in Slots \cup {NULL}
  /\ tid \in [Actors -> 0..PidMax] /\ last \in 1..PidMax
  /\ stack \in [Actors -> Actors]
  /\ proc \in {"up", "exited", "crashed"}
  /\ slot \in [Actors -> Slots \cup {NULL}]
  /\ new \in [Actors -> 0..PidMax]
  /\ call \in [Actors ->
       [op : {"none", "create", "join", "exit", "return", "kill"},
        arg : Slots \cup {NULL}]]
  /\ result \in [Actors ->
       [code : {"none", "ok", "EAGAIN", "ESRCH", "EINVAL"},
        val : {NULL, "returned", "exited"}]]
  /\ calls \in 0..Calls /\ fails \in 0..Fails
  /\ known \subseteq Slots /\ missed \subseteq Slots
  /\ final \in [Slots -> {NULL, "returned", "exited"}]

(* A search for a thread whose thread_create has returned finds it, also   *)
(* while enqueue is between its stores to the list.                        *)
CreatedIsFound ==
  proc = "up" =>
    \A s \in known : Finds(t_id[s]) /\ Searched(t_id[s]) = s

(* No two threads run on the same stack ("stack for thread", thread.h:16): *)
(* clone is passed the stack of the thread_s it is called for, by way of   *)
(* the global stackTop.                                                    *)
Running == {a \in Actors : tid[a] # 0}
OwnStack == \A a, b \in Running : stack[a] = stack[b] => a = b

(* Once there is a queue neither a search nor enqueue is about to follow a *)
(* null pointer, whatever other threads have stored halfway.               *)
NoNullPointer == queue = "up" => \A a \in Actors : ~NullPointer(a)

(* What thread_join reads is the thread's value, but for two windows: the  *)
(* thread called thread_exit before thread_create had put it in the queue, *)
(* or has just set its state to EXITED and not yet its value.              *)
ReadsValueOrWindow ==
  [][\A a \in Actors :
       LET s == call[a].arg IN
       pc[a] = "joinRead" /\ pc'[a] = "user" =>
         \/ result'[a].val = final[s]
         \/ s \in missed
         \/ pc[s] = "exitSet"]_vars

(* A thread's return value is set once and kept.                           *)
ValueKept == [][\A s \in Slots : ret[s] # NULL => ret'[s] = ret[s]]_vars

(* thread_join returns once its thread has ended.                          *)
Joining(a) == pc[a] \in {"joinFind", "joinTest", "joinSpin", "joinRead"}
JoinReturns ==
  \A a \in Actors :
    Joining(a) /\ pc[call[a].arg] = "dead" ~> ~Joining(a) \/ proc # "up"

-----------------------------------------------------------------------------
(* The library implements what thread.h promises of threads but for the    *)
(* value: thread_join "waits for the thread to exit" (thread.c:157), and   *)
(* knows every thread whose id the program has.                            *)

Left(a) == IF a = Main THEN NULL ELSE final[a]

Phase ==
  [a \in Actors |-> IF pc[a] = "unborn" THEN "unborn"
                    ELSE IF Left(a) # NULL THEN "ended" ELSE "live"]

Joins ==
  [a \in Actors |->
    IF call[a].op = "join"
    THEN [of |-> call[a].arg, code |-> result[a].code, val |-> result[a].val]
    ELSE [of |-> NULL, code |-> "none", val |-> NULL]]

AT == INSTANCE AbstractThreads
        WITH Threads <- Actors, Nobody <- NULL, Values <- {NULL, "returned", "exited"},
             phase <- Phase, value <- [a \in Actors |-> Left(a)], join <- Joins

ImplementsThreads == AT!LossySpec

-----------------------------------------------------------------------------
(* What the comments say, and the code does not do.                        *)

(* "State of the thread is set to EXITED and return value of the thread    *)
(* gets set to retval" (thread.c:190): a thread that has ended has both.   *)
ExitSetsValue == \A s \in Slots : pc[s] = "dead" => ret[s] = final[s]
=============================================================================

------------------------- MODULE MTOSchedulerProofs -------------------------
(***************************************************************************)
(* Type correctness of the many-to-one scheduler, for any set of threads,  *)
(* any bounds and any labels at which the timer may go off; then that it   *)
(* keeps its data and its contexts intact, when the timer goes off         *)
(* anywhere but in the four windows.                                       *)
(*                                                                         *)
(* TypeOK is not inductive: the handler indexes with current_thread, which *)
(* is the zeroed thread_s at first, and the stacks must keep their shape   *)
(* when frames are pushed, rewritten and cut off.                          *)
(***************************************************************************)
EXTENDS MTOScheduler, TLAPS

Walk == INSTANCE ListWalkProofs

(* TypeOK without the stacks.                                              *)
Typed ==
  /\ state \in [Threads -> {"UNBORN", "RUNNABLE", "RUNNING", "EXITED"}]
  /\ exec \in [Threads -> {0, 1}]
  /\ sig \in [Threads -> BOOLEAN]
  /\ ret \in [Threads -> Values]
  /\ context \in [Threads -> [stack : Threads, frame : Nat]]
  /\ boot \in {"none", "queues", "main", "broken"}
  /\ current \in Threads \cup {Nobody}
  /\ ready \in Seq(Threads) /\ completed \in Seq(Threads)
  /\ timer \in {"on", "off"} /\ armed \in BOOLEAN
  /\ cpu \in Threads
  /\ proc \in {"up", "exited", "crashed"}
  /\ call \in [Threads -> [op : AllOps \cup {"none"}, arg : Threads \cup {Nobody}]]
  /\ result \in [Threads -> [code : Codes, val : Values]]
  /\ client \in Clients /\ calls \in 0..Calls /\ fails \in 0..Fails
  /\ final \in [Threads -> Values]
  /\ sent \subseteq Threads /\ raised \subseteq Threads

(* A stack is one frame of the thread's own code and frames of the handler *)
(* on top of it.                                                           *)
Stacks ==
  {s \in Seq(Labels) :
     Len(s) >= 1 /\ \A i \in 1..Len(s) : s[i] \in CallLabels <=> i = 1}

(* No context is one of a thread's own code.                               *)
HandlerContexts == \A t \in Threads : context[t].frame # 1

(* The handler needs a current_thread once it is past saving its context.  *)
Late == {"sResume", "sNext", "sArm", "sSwitch"}
Early(s) == \A i \in 1..Len(s) : s[i] \notin Late

Attended == current = Nobody => \A t \in Threads : Early(stack[t])

(* A call that names a thread has one for its argument, and a thread in    *)
(* thread_join's loop is in thread_join.                                   *)
Called ==
  \A t \in Threads :
    /\ call[t].op \in {"join", "kill"} => call[t].arg \in Threads
    /\ stack[t][1] = "wait" => call[t].op = "join"

TInv ==
  /\ Typed
  /\ stack \in [Threads -> Stacks]
  /\ HandlerContexts
  /\ Attended
  /\ Called

-----------------------------------------------------------------------------
(* What the steps of the machine do to a stack.                            *)

(* The top frame of a stack moves to label l.                              *)
LEMMA TopMoves ==
  ASSUME NEW s \in Stacks, NEW l \in Labels,
         l \in CallLabels <=> s[Len(s)] \in CallLabels
  PROVE  /\ WithTop(s, l) \in Stacks
         /\ l \notin Late /\ Early(s) => Early(WithTop(s, l))
         /\ WithTop(s, l)[1] = IF l \in CallLabels THEN l ELSE s[1]
         /\ WithTop(s, l)[Len(WithTop(s, l))] = l
<1> DEFINE w == WithTop(s, l)
<1>1. s \in Seq(Labels) /\ Len(s) \in Nat /\ Len(s) >= 1
  BY DEF Stacks
<1>2. \A i \in 1..Len(s) : s[i] \in CallLabels <=> i = 1
  BY DEF Stacks
<1>3. w \in Seq(Labels) /\ Len(w) = Len(s)
  BY <1>1 DEF WithTop
<1>4. \A i \in 1..Len(s) : w[i] = IF i = Len(s) THEN l ELSE s[i]
  BY <1>1 DEF WithTop
<1>5. l \in CallLabels <=> Len(s) = 1
  <2>1. Len(s) \in 1..Len(s)
    BY <1>1
  <2> QED
    BY <1>2, <2>1
<1>6. \A i \in 1..Len(w) : w[i] \in CallLabels <=> i = 1
  BY <1>1, <1>2, <1>3, <1>4, <1>5
<1>7. w \in Stacks
  BY <1>1, <1>3, <1>6 DEF Stacks
<1>8. ASSUME l \notin Late, Early(s) PROVE Early(w)
  <2>1. \A i \in 1..Len(s) : w[i] \notin Late
    BY <1>4, <1>8 DEF Early
  <2> QED
    BY <1>3, <2>1 DEF Early
<1>9. w[1] = IF l \in CallLabels THEN l ELSE s[1]
  <2>0. 1 \in 1..Len(s)
    BY <1>1
  <2>1. w[1] = IF 1 = Len(s) THEN l ELSE s[1]
    BY <1>4, <2>0
  <2> QED
    BY <1>5, <2>1
<1>10. w[Len(w)] = l
  BY <1>1, <1>3, <1>4
<1> QED
  BY <1>7, <1>8, <1>9, <1>10

(* A frame of the handler is pushed.                                       *)
LEMMA TopPushed ==
  ASSUME NEW s \in Stacks
  PROVE  /\ Append(s, "sClear") \in Stacks
         /\ Early(s) => Early(Append(s, "sClear"))
         /\ Append(s, "sClear")[1] = s[1]
<1> DEFINE w == Append(s, "sClear")
<1>1. s \in Seq(Labels) /\ Len(s) \in Nat /\ Len(s) >= 1
  BY DEF Stacks
<1>2. "sClear" \in Labels /\ "sClear" \notin CallLabels /\ "sClear" \notin Late
  BY DEF Labels, HandlerLabels, CallLabels, Late
<1>3. w \in Seq(Labels) /\ Len(w) = Len(s) + 1
  BY <1>1, <1>2
<1>4. \A i \in 1..Len(w) : w[i] = IF i = Len(w) THEN "sClear" ELSE s[i]
  BY <1>1, <1>3
<1>5. ASSUME NEW i \in 1..Len(w) PROVE w[i] \in CallLabels <=> i = 1
  <2>1. CASE i = Len(w)
    BY <1>1, <1>2, <1>3, <1>4, <2>1
  <2>2. CASE i # Len(w)
    <3>1. i \in 1..Len(s) /\ w[i] = s[i]
      BY <1>1, <1>3, <1>4, <2>2
    <3> QED
      BY <3>1 DEF Stacks
  <2> QED
    BY <2>1, <2>2
<1>6. w \in Stacks
  <2> HIDE DEF w
  <2>1. Len(w) >= 1
    BY <1>1, <1>3
  <2> QED
    BY <1>3, <1>5, <2>1 DEF Stacks
<1>7. ASSUME Early(s), NEW i \in 1..Len(w) PROVE w[i] \notin Late
  <2>1. CASE i = Len(w)
    BY <1>2, <1>4, <2>1
  <2>2. CASE i # Len(w)
    <3>1. i \in 1..Len(s) /\ w[i] = s[i]
      BY <1>1, <1>3, <1>4, <2>2
    <3> QED
      BY <1>7, <3>1 DEF Early
  <2> QED
    BY <2>1, <2>2
<1>8. Early(s) => Early(w)
  BY <1>7 DEF Early
<1>9. w[1] = s[1]
  BY <1>1, <1>3, <1>4
<1> QED
  BY <1>6, <1>8, <1>9

(* A stack is cut off above a frame; popping the top frame is the case     *)
(* n = Len(s) - 1.                                                         *)
LEMMA CutOff ==
  ASSUME NEW s \in Stacks, NEW n \in 1..Len(s)
  PROVE  /\ SubSeq(s, 1, n) \in Stacks
         /\ Early(s) => Early(SubSeq(s, 1, n))
         /\ SubSeq(s, 1, n)[1] = s[1]
         /\ Len(SubSeq(s, 1, n)) = n
         /\ SubSeq(s, 1, n)[n] = s[n]
<1> DEFINE w == SubSeq(s, 1, n)
<1>1. s \in Seq(Labels) /\ Len(s) \in Nat /\ n \in Nat /\ n >= 1 /\ n <= Len(s)
  BY DEF Stacks
<1>2. w \in Seq(Labels) /\ Len(w) = n
  BY <1>1
<1>3. \A i \in 1..n : w[i] = s[i]
  BY <1>1
<1>4. \A i \in 1..Len(w) : w[i] \in CallLabels <=> i = 1
  BY <1>1, <1>2, <1>3 DEF Stacks
<1>5. w \in Stacks
  BY <1>1, <1>2, <1>4 DEF Stacks
<1>6. Early(s) => Early(w)
  BY <1>1, <1>2, <1>3 DEF Early
<1> QED
  BY <1>1, <1>2, <1>3, <1>5, <1>6

-----------------------------------------------------------------------------
(* The same for the processor's stack among the others.                    *)

(* The stacks and what TInv needs to know of them.                         *)
Rewritten(l) ==
  /\ stack' \in [Threads -> Stacks]
  /\ l \notin Late => \A t \in Threads : Early(stack[t]) => Early(stack'[t])
  /\ \A t \in Threads : stack'[t][1] = IF t = cpu /\ l \in CallLabels
                                       THEN l ELSE stack[t][1]

(* The code on the processor goes on at label l ...                        *)
LEMMA Going ==
  ASSUME TInv, NEW l \in Labels, l \in CallLabels <=> Top \in CallLabels, Goto(l)
  PROVE  Rewritten(l)
<1>1. cpu \in Threads /\ stack[cpu] \in Stacks
  BY DEF TInv, Typed
<1>2. /\ WithTop(stack[cpu], l) \in Stacks
      /\ l \notin Late /\ Early(stack[cpu]) => Early(WithTop(stack[cpu], l))
      /\ WithTop(stack[cpu], l)[1] = IF l \in CallLabels THEN l ELSE stack[cpu][1]
  BY <1>1, TopMoves DEF Top
<1>3. stack' = [stack EXCEPT ![cpu] = WithTop(stack[cpu], l)]
  BY DEF Goto
<1> QED
  BY <1>1, <1>2, <1>3 DEF TInv, Rewritten

(* ... below the handler ...                                               *)
LEMMA Raising ==
  ASSUME TInv, NEW l \in Labels, l \in CallLabels <=> Top \in CallLabels, RaiseThen(l)
  PROVE  Rewritten(l)
<1> DEFINE w == WithTop(stack[cpu], l)
<1>1. cpu \in Threads /\ stack[cpu] \in Stacks
  BY DEF TInv, Typed
<1>2. /\ w \in Stacks
      /\ l \notin Late /\ Early(stack[cpu]) => Early(w)
      /\ w[1] = IF l \in CallLabels THEN l ELSE stack[cpu][1]
  BY <1>1, TopMoves DEF Top
<1>3. /\ Append(w, "sClear") \in Stacks
      /\ Early(w) => Early(Append(w, "sClear"))
      /\ Append(w, "sClear")[1] = w[1]
  BY <1>2, TopPushed
<1>4. stack' = [stack EXCEPT ![cpu] = Append(w, "sClear")]
  BY DEF RaiseThen
<1> QED
  BY <1>1, <1>2, <1>3, <1>4 DEF TInv, Rewritten

(* ... or where it is, below the handler or after it.                      *)
LEMMA Ticking ==
  ASSUME TInv, stack' = [stack EXCEPT ![cpu] = Append(@, "sClear")]
  PROVE  Rewritten("sClear")
<1>1. cpu \in Threads /\ stack[cpu] \in Stacks
  BY DEF TInv, Typed
<1>2. /\ Append(stack[cpu], "sClear") \in Stacks
      /\ Early(stack[cpu]) => Early(Append(stack[cpu], "sClear"))
      /\ Append(stack[cpu], "sClear")[1] = stack[cpu][1]
  BY <1>1, TopPushed
<1>3. "sClear" \notin CallLabels
  BY DEF CallLabels
<1> QED
  BY <1>1, <1>2, <1>3 DEF TInv, Rewritten

(* ... and returns from the handler.                                       *)
LEMMA Returning ==
  ASSUME TInv, Top \notin CallLabels, Return
  PROVE  Rewritten("sReturn")
<1> DEFINE n == Len(stack[cpu]) - 1
<1>1. cpu \in Threads /\ stack[cpu] \in Stacks
  BY DEF TInv, Typed
<1>2. n \in 1..Len(stack[cpu])
  <2>1. Len(stack[cpu]) \in Nat /\ Len(stack[cpu]) >= 1 /\ stack[cpu][1] \in CallLabels
    BY <1>1 DEF Stacks
  <2> QED
    BY <2>1 DEF Top
<1>3. /\ SubSeq(stack[cpu], 1, n) \in Stacks
      /\ Early(stack[cpu]) => Early(SubSeq(stack[cpu], 1, n))
      /\ SubSeq(stack[cpu], 1, n)[1] = stack[cpu][1]
  BY <1>1, <1>2, CutOff
<1>4. stack' = [stack EXCEPT ![cpu] = SubSeq(stack[cpu], 1, n)]
  BY DEF Return
<1>5. "sReturn" \notin CallLabels
  BY DEF CallLabels
<1> QED
  BY <1>1, <1>3, <1>4, <1>5 DEF TInv, Rewritten

(* Past saving the context there is a current_thread.                      *)
LEMMA HasCurrent ==
  ASSUME TInv, Top \in Late
  PROVE  current \in Threads
<1>1. cpu \in Threads /\ stack[cpu] \in Stacks
  BY DEF TInv, Typed
<1>2. Len(stack[cpu]) \in 1..Len(stack[cpu])
  BY <1>1 DEF Stacks
<1>3. ~Early(stack[cpu])
  BY <1>2 DEF Early, Top
<1> QED
  BY <1>1, <1>3 DEF TInv, Typed, Attended

(* With the stacks rewritten for label l, the rest of TInv about them      *)
(* follows from little.                                                    *)
LEMMA Stays ==
  ASSUME TInv, NEW l, Rewritten(l), Typed', HandlerContexts',
         current' = current \/ current' # Nobody, l \in Late => current' # Nobody,
         \A t \in Threads : call'[t].op \in {"join", "kill"} => call'[t].arg \in Threads,
         \A t \in Threads : stack'[t][1] = "wait" => call'[t].op = "join"
  PROVE  TInv'
<1>1. Attended'
  BY DEF TInv, Attended, Rewritten
<1> QED
  BY <1>1 DEF TInv, Called, Rewritten

-----------------------------------------------------------------------------
(* The steps that several actions are made of keep TInv.                   *)

(* The timer's struct is filled.                                           *)
LEMMA FillStep ==
  ASSUME TInv, NEW from \in Labels, NEW to \in Labels \ (Late \cup {"wait"}),
         from \in CallLabels <=> to \in CallLabels,
         NEW value \in {"on", "off"}, FillTimer(from, value, to)
  PROVE  TInv'
<1>1. Rewritten(to)
  BY Going DEF FillTimer, At
<1>2. Typed' /\ HandlerContexts'
  BY DEF TInv, Typed, HandlerContexts, FillTimer, lib, program, history
<1> QED
  BY <1>1, <1>2, Stays DEF TInv, Called, Rewritten, FillTimer, lib, program

(* setitimer is called.                                                    *)
LEMMA SetStep ==
  ASSUME TInv, NEW from \in Labels, NEW to \in Labels \ {"wait"},
         from \in CallLabels <=> to \in CallLabels,
         to \in Late => from \in Late, SetITimer(from, to)
  PROVE  TInv'
<1>1. Rewritten(to)
  BY Going DEF SetITimer, At
<1>2. Typed' /\ HandlerContexts'
  BY DEF TInv, Typed, HandlerContexts, SetITimer, lib, program, history
<1>3. to \in Late => current' # Nobody
  BY HasCurrent, ThreadsAssumption DEF SetITimer, At, lib
<1> QED
  BY <1>1, <1>2, <1>3, Stays DEF TInv, Called, Rewritten, SetITimer, lib, program

(* A call is answered.                                                     *)
LEMMA ReplyStep ==
  ASSUME TInv, Top \in CallLabels, NEW code \in Codes, NEW val \in Values,
         NEW label \in CallLabels \ {"wait"}, Reply(code, val, label)
  PROVE  TInv'
<1>1. label \in Labels /\ label \notin Late
  BY DEF Labels, CallLabels, Late
<1>2. Rewritten(label)
  BY <1>1, Going DEF Reply
<1>3. Typed' /\ HandlerContexts'
  BY DEF TInv, Typed, HandlerContexts, Reply, Answer, lib, clock, history
<1> QED
  BY <1>1, <1>2, <1>3, Stays DEF TInv, Called, Rewritten, Reply, lib

(* A call begins.                                                          *)
LEMMA CallStep ==
  ASSUME TInv, NEW op \in AllOps, NEW arg \in Threads \cup {Nobody},
         op \in {"join", "kill"} => arg \in Threads, StartCall(op, arg),
         final' \in [Threads -> Values],
         NEW label \in {"boot", "clear"}, Goto(label)
  PROVE  TInv'
<1>1. label \in Labels /\ label \in CallLabels /\ label \notin Late /\ Top \in CallLabels
  BY DEF Labels, CallLabels, Late, StartCall, At
<1>2. Rewritten(label)
  BY <1>1, Going
<1>3. calls' \in 0..Calls
  BY BoundsAssumption DEF TInv, Typed, StartCall
<1>4. NoResult \in [code : Codes, val : Values]
  BY DEF NoResult, Codes, Values
<1>5. Typed' /\ HandlerContexts'
  BY <1>3, <1>4 DEF TInv, Typed, HandlerContexts, StartCall, lib, clock
<1>6. cpu \in Threads /\ stack'[cpu][1] # "wait"
  BY <1>1, <1>2 DEF TInv, Typed, Rewritten
<1>7. \A t \in Threads : t # cpu => call'[t] = call[t] /\ stack'[t][1] = stack[t][1]
  BY <1>2 DEF TInv, Typed, Rewritten, StartCall
<1>8. call'[cpu] = [op |-> op, arg |-> arg]
  BY DEF TInv, Typed, StartCall
<1> QED
  BY <1>1, <1>2, <1>5, <1>6, <1>7, <1>8, Stays DEF TInv, Called, StartCall, lib

(* A failing allocation is counted and answered.                           *)
LEMMA FailedStep ==
  ASSUME TInv, Top \in CallLabels, FailedAllocation, Goto("user"),
         state' \in [Threads -> {"UNBORN", "RUNNABLE", "RUNNING", "EXITED"}],
         ready' \in Seq(Threads), boot' \in {"none", "queues", "main", "broken"}
  PROVE  TInv'
<1>1. "user" \in Labels /\ "user" \in CallLabels /\ "user" \notin Late
  BY DEF Labels, CallLabels, Late
<1>2. Rewritten("user")
  BY <1>1, Going
<1>3. fails' \in 0..Fails
  BY BoundsAssumption DEF TInv, Typed, FailedAllocation
<1>4. [code |-> "EINVAL", val |-> NULL] \in [code : Codes, val : Values]
  BY DEF Codes, Values
<1>5. Typed' /\ HandlerContexts'
  BY <1>3, <1>4 DEF TInv, Typed, HandlerContexts, FailedAllocation, Answer, clock
<1> QED
  BY <1>1, <1>2, <1>5, Stays DEF TInv, Called, Rewritten, FailedAllocation

-----------------------------------------------------------------------------

(* TInv holds when the process starts.                                     *)
LEMMA TypeInit == Init => TInv
<1> SUFFICES ASSUME Init PROVE TInv
  OBVIOUS
<1>1. <<"user">> \in Stacks /\ Early(<<"user">>)
  BY DEF Stacks, Labels, CallLabels, Early, Late
<1>2. Typed
  <2>1. /\ NoCall \in [op : AllOps \cup {"none"}, arg : Threads \cup {Nobody}]
        /\ NoResult \in [code : Codes, val : Values]
        /\ NULL \in Values
    BY DEF NoCall, NoResult, Codes, Values
  <2>2. \A t \in Threads : Entry(t) \in [stack : Threads, frame : Nat]
    BY DEF Entry
  <2>3. Main \in Threads
    BY DEF Threads
  <2>4. ready \in Seq(Threads) /\ completed \in Seq(Threads)
    BY DEF Init
  <2>5. client \in Clients /\ calls \in 0..Calls /\ fails \in 0..Fails
    BY BoundsAssumption DEF Init
  <2>6. /\ context \in [Threads -> [stack : Threads, frame : Nat]]
        /\ call \in [Threads -> [op : AllOps \cup {"none"}, arg : Threads \cup {Nobody}]]
        /\ result \in [Threads -> [code : Codes, val : Values]]
        /\ ret \in [Threads -> Values] /\ final \in [Threads -> Values]
    BY <2>1, <2>2 DEF Init
  <2>7. /\ state \in [Threads -> {"UNBORN", "RUNNABLE", "RUNNING", "EXITED"}]
        /\ exec \in [Threads -> {0, 1}] /\ sig \in [Threads -> BOOLEAN]
        /\ sent \subseteq Threads /\ raised \subseteq Threads
    BY <2>5 DEF Init
  <2>8. /\ boot \in {"none", "queues", "main", "broken"}
        /\ current \in Threads \cup {Nobody}
        /\ timer \in {"on", "off"} /\ armed \in BOOLEAN
        /\ cpu \in Threads
        /\ proc \in {"up", "exited", "crashed"}
    BY <2>3 DEF Init
  <2> QED
    BY <2>4, <2>5, <2>6, <2>7, <2>8 DEF Typed
<1>3. stack \in [Threads -> Stacks] /\ HandlerContexts
  BY <1>1 DEF Init, HandlerContexts, Entry
<1>4. Attended /\ Called
  BY <1>1 DEF Init, Attended, Called, NoCall
<1> QED
  BY <1>2, <1>3, <1>4 DEF TInv

(* The program's steps keep TInv.                                          *)
LEMMA ProgramStep == TInv /\ Program => TInv'
<1> SUFFICES ASSUME TInv, Program PROVE TInv'
  OBVIOUS
<1>0. Values = {NULL, "returned", "exited"} /\ final \in [Threads -> Values]
  BY DEF TInv, Typed, Values
<1>1. CASE CallCreate
  BY <1>0, <1>1, CallStep DEF CallCreate, AllOps
<1>2. ASSUME NEW op \in AllOps, NEW t \in Threads, CallOther(op, t) PROVE TInv'
  BY <1>0, <1>2, CallStep DEF CallOther
<1>3. CASE CallExit
  BY <1>0, <1>3, CallStep DEF CallExit, AllOps
<1>4. CASE ReturnFromRoutine
  <2>1. "clear" \in Labels /\ "clear" \in CallLabels /\ "clear" \notin Late
    BY DEF Labels, CallLabels, Late
  <2>2. Top \in CallLabels
    BY <1>4 DEF ReturnFromRoutine, At, CallLabels
  <2>3. Rewritten("clear")
    BY <1>4, <2>1, <2>2, Going DEF ReturnFromRoutine
  <2>4. Typed' /\ HandlerContexts'
    BY <1>0, <1>4 DEF TInv, Typed, HandlerContexts, ReturnFromRoutine, clock, AllOps
  <2>5. call'[cpu].op = "return" /\ \A t \in Threads : t # cpu => call'[t] = call[t]
    BY <1>4 DEF TInv, Typed, ReturnFromRoutine
  <2>6. \A t \in Threads : stack'[t][1] = IF t = cpu THEN "clear" ELSE stack[t][1]
    BY <2>1, <2>3 DEF Rewritten
  <2>7. current' = current
    BY <1>4 DEF ReturnFromRoutine
  <2>8. \A t \in Threads : call'[t].op \in {"join", "kill"} => call'[t].arg \in Threads
    BY <2>5 DEF TInv, Called
  <2>9. \A t \in Threads : stack'[t][1] = "wait" => call'[t].op = "join"
    BY <2>5, <2>6 DEF TInv, Called
  <2> QED
    BY <2>1, <2>3, <2>4, <2>7, <2>8, <2>9, Stays
<1>5. CASE MainReturns
  BY <1>5 DEF MainReturns, TInv, Typed, HandlerContexts, Attended, Called,
              lib, clock, program, history
<1> QED
  BY <1>1, <1>2, <1>3, <1>4, <1>5 DEF Program

(* The steps of thread_create keep TInv.                                   *)
LEMMA CreateStep ==
  ASSUME TInv,
         \/ Boot \/ BootFails \/ CreateFails
         \/ \E t \in Children : Create(t) \/ CreateMainFails(t)
  PROVE  TInv'
<1> USE DEF AtBody, At
<1>1. \A t \in Children : Append(ready, t) \in Seq(Threads)
  BY DEF TInv, Typed, Threads
<1>2. {"user", "clear", "rearm"} \subseteq (Labels \cap CallLabels) \ Late
  BY DEF Labels, CallLabels, Late
<1>3. {"boot", "body"} \subseteq CallLabels
  BY DEF CallLabels
<1>4. CASE Boot
  <2>1. Rewritten("clear")
    BY <1>2, <1>3, <1>4, Going DEF Boot
  <2>2. Typed' /\ HandlerContexts'
    BY <1>4 DEF TInv, Typed, HandlerContexts, Boot, program, history
  <2> QED
    BY <1>2, <1>4, <2>1, <2>2, Stays DEF TInv, Called, Rewritten, Boot, program
<1>5. CASE BootFails
  BY <1>3, <1>5, FailedStep DEF BootFails, TInv, Typed
<1>6. CASE CreateFails
  BY <1>3, <1>6, FailedStep DEF CreateFails, TInv, Typed
<1>7. ASSUME NEW t \in Children, Create(t) PROVE TInv'
  <2>1. PICK l \in {"user", "rearm"} : Rewritten(l)
    BY <1>2, <1>3, <1>7, Going, Raising DEF Create
  <2>2. [code |-> "ok", val |-> NULL] \in [code : Codes, val : Values]
    BY DEF Codes, Values
  <2>3. current' \in Threads \cup {Nobody} /\ (current' = current \/ current' # Nobody)
    BY <1>7, ThreadsAssumption DEF TInv, Typed, Create, Threads
  <2>4. Typed' /\ HandlerContexts'
    BY <1>1, <1>7, <2>2, <2>3
    DEF TInv, Typed, HandlerContexts, Create, Enqueue, Answer, clock, history
  <2> QED
    BY <1>2, <1>7, <2>1, <2>3, <2>4, Stays DEF TInv, Called, Rewritten, Create
<1>8. ASSUME NEW t \in Children, CreateMainFails(t) PROVE TInv'
  BY <1>1, <1>3, <1>8, FailedStep DEF CreateMainFails, Enqueue, TInv, Typed
<1> QED
  BY <1>4, <1>5, <1>6, <1>7, <1>8

(* A search of a queue with the thread in it ends at its first place.      *)
LEMMA FirstFound ==
  ASSUME NEW T, NEW s \in Seq(T), NEW x, Contains(s, x)
  PROVE  FirstOf(s, x) \in 1..Len(s) /\ s[FirstOf(s, x)] = x
<1> DEFINE P == {i \in 1..Len(s) : s[i] = x}
<1>1. Len(s) \in Nat /\ DOMAIN s = 1..Len(s)
  OBVIOUS
<1>2. P \in SUBSET Nat /\ P # {}
  BY <1>1 DEF Contains
<1>3. PICK k \in P : \A j \in P : k <= j
  <2> HIDE DEF P
  <2> QED
    BY <1>2, Walk!Least
<1>4. k \in 1..Len(s) /\ s[k] = x /\ \A j \in 1..k - 1 : s[j] # x
  BY <1>1, <1>3
<1>5. \E i \in DOMAIN s : s[i] = x /\ \A j \in 1..i - 1 : s[j] # x
  BY <1>1, <1>4
<1> QED
  BY <1>1, <1>5 DEF FirstOf

(* makeheadthread keeps a queue of threads.                                *)
LEMMA HeadMade ==
  ASSUME NEW s \in Seq(Threads), NEW x \in Threads, Contains(s, x)
  PROVE  MakeHead(s, x) \in Seq(Threads)
<1> DEFINE i == FirstOf(s, x)
           m == MakeHead(s, x)
<1>1. Len(s) \in Nat /\ DOMAIN s = 1..Len(s) /\ i \in 1..Len(s)
  BY FirstFound
<1>2. m = [j \in 1..Len(s) |-> IF j = 1 THEN x ELSE IF j <= i THEN s[j - 1] ELSE s[j]]
  BY <1>1 DEF MakeHead
<1>3. ASSUME NEW j \in 1..Len(s)
      PROVE  (IF j = 1 THEN x ELSE IF j <= i THEN s[j - 1] ELSE s[j]) \in Threads
  <2> HIDE DEF i
  <2>1. CASE j = 1
    BY <2>1
  <2>2. CASE j # 1
    <3>1. j - 1 \in 1..Len(s)
      BY <1>1, <2>2
    <3> QED
      BY <2>2, <3>1
  <2> QED
    BY <2>1, <2>2
<1>4. m \in [1..Len(s) -> Threads]
  <2> HIDE DEF i
  <2> QED
    BY <1>2, <1>3
<1> QED
  BY <1>1, <1>4

(* The steps of thread_join, thread_exit and thread_kill keep TInv.        *)
LEMMA JoinStep ==
  ASSUME TInv, Join \/ JoinWaits \/ JoinDone
  PROVE  TInv'
<1> USE DEF AtBody, At
<1>1. /\ {"wait", "rearm"} \subseteq (Labels \cap CallLabels) \ Late
      /\ {"wait", "body"} \subseteq CallLabels
  BY DEF Labels, CallLabels, Late
<1>2. \A t \in Threads : ret[t] \in Values
  BY DEF TInv, Typed
<1>3. NULL \in Values /\ {"ok", "EINVAL", "ESRCH", "EDEADLK"} \subseteq Codes
  BY DEF Values, Codes
<1>4. cpu \in Threads /\ stack[cpu] \in Stacks
  BY DEF TInv, Typed
<1>5. CASE Join
  <2>1. call[cpu].arg \in Threads
    BY <1>4, <1>5 DEF TInv, Called, Join
  <2>2. CASE Goto("wait") /\ UNCHANGED <<lib, clock, cpu, proc, program>>
    <3>1. Rewritten("wait")
      BY <1>1, <1>5, <2>2, Going DEF Join
    <3>2. Typed' /\ HandlerContexts'
      BY <2>2 DEF TInv, Typed, HandlerContexts, lib, clock, program, history
    <3>3. call' = call /\ current' = current /\ call[cpu].op = "join"
      BY <1>5, <2>2 DEF Join, lib, program
    <3> QED
      BY <1>1, <3>1, <3>2, <3>3, Stays DEF TInv, Called, Rewritten
  <2>3. CASE \E code \in Codes, val \in Values : Reply(code, val, "rearm")
    BY <1>1, <1>5, <2>3, ReplyStep DEF Join
  <2> QED
    BY <1>2, <1>3, <1>5, <2>1, <2>2, <2>3 DEF Join, Retval
<1>6. Top = "wait" => call[cpu].arg \in Threads /\ call[cpu].op = "join"
  <2>1. Len(stack[cpu]) \in 1..Len(stack[cpu])
    BY <1>4 DEF Stacks
  <2>2. Top = "wait" => Len(stack[cpu]) = 1
    BY <1>1, <1>4, <2>1 DEF Top, Stacks
  <2> QED
    BY <1>4, <2>2 DEF TInv, Called, Top
<1>7. CASE JoinWaits
  <2>1. Rewritten("wait")
    BY <1>1, <1>7, Raising DEF JoinWaits
  <2>2. Typed' /\ HandlerContexts'
    BY <1>7 DEF JoinWaits, TInv, Typed, HandlerContexts, lib, clock, program, history
  <2>3. call' = call /\ current' = current /\ call[cpu].op = "join"
    BY <1>6, <1>7 DEF JoinWaits, lib, program
  <2> QED
    BY <1>1, <2>1, <2>2, <2>3, Stays DEF TInv, Called, Rewritten
<1>8. CASE JoinDone
  BY <1>1, <1>2, <1>3, <1>6, <1>8, ReplyStep DEF JoinDone, Retval
<1> QED
  BY <1>5, <1>7, <1>8

(* thread_exit, and the end of setretval.                                  *)
LEMMA ExitStep ==
  ASSUME TInv, Exit \/ SetRet \/ Yield \/ FallOff
  PROVE  TInv'
<1> USE DEF AtBody, At
<1>1. /\ {"setret", "yield", "user", "fallOff"} \subseteq (Labels \cap CallLabels) \ Late
      /\ {"setret", "yield", "body"} \subseteq CallLabels
  BY DEF Labels, CallLabels, Late
<1>2. CASE Exit
  <2>1. PICK l \in {"setret", "yield"} : Rewritten(l)
    BY <1>1, <1>2, Going DEF Exit
  <2>2. Typed' /\ HandlerContexts'
    BY <1>2 DEF Exit, TInv, Typed, HandlerContexts, clock, program, history
  <2>3. call' = call /\ current' = current
    BY <1>2 DEF Exit, program
  <2> QED
    BY <1>1, <2>1, <2>2, <2>3, Stays DEF TInv, Called, Rewritten
<1>3. CASE SetRet
  <2>1. Rewritten("yield")
    BY <1>1, <1>3, Going DEF SetRet
  <2>2. "exited" \in Values
    BY DEF Values
  <2>3. Typed' /\ HandlerContexts'
    BY <1>3, <2>2 DEF SetRet, TInv, Typed, HandlerContexts, clock, program, history
  <2>4. call' = call /\ current' = current
    BY <1>3 DEF SetRet, program
  <2> QED
    BY <1>1, <2>1, <2>3, <2>4, Stays DEF TInv, Called, Rewritten
<1>4. CASE Yield
  <2>1. PICK l \in {"user", "fallOff"} : Rewritten(l)
    BY <1>1, <1>4, Raising DEF Yield
  <2>2. Typed' /\ HandlerContexts'
    BY <1>4 DEF Yield, TInv, Typed, HandlerContexts, lib, clock, program, history
  <2>3. call' = call /\ current' = current
    BY <1>4 DEF Yield, lib, program
  <2> QED
    BY <1>1, <2>1, <2>2, <2>3, Stays DEF TInv, Called, Rewritten
<1>5. CASE FallOff
  BY <1>5 DEF FallOff, TInv, Typed, HandlerContexts, Attended, Called,
              lib, clock, program, history
<1> QED
  BY <1>2, <1>3, <1>4, <1>5

(* thread_kill.                                                            *)
LEMMA KillStep ==
  ASSUME TInv, KillInvalid \/ KillZero \/ KillSelf \/ KillReady \/ KillNotFound
  PROVE  TInv'
<1> USE DEF AtBody, At
<1>1. /\ {"user", "rearm"} \subseteq (Labels \cap CallLabels) \ (Late \cup {"wait"})
      /\ "body" \in CallLabels
  BY DEF Labels, CallLabels, Late
<1>2. NULL \in Values /\ {"ok", "EINVAL", "ESRCH"} \subseteq Codes
  BY DEF Values, Codes
<1>3. cpu \in Threads /\ [code |-> "ok", val |-> NULL] \in [code : Codes, val : Values]
  BY <1>2 DEF TInv, Typed
<1>4. CASE KillInvalid
  BY <1>1, <1>2, <1>4, ReplyStep DEF KillInvalid
<1>5. CASE KillZero
  BY <1>1, <1>2, <1>5, ReplyStep DEF KillZero
<1>6. CASE KillNotFound
  BY <1>1, <1>2, <1>6, ReplyStep DEF KillNotFound, NotReady
<1>7. CASE KillSelf
  <2>1. Rewritten("rearm")
    BY <1>1, <1>7, Going DEF KillSelf
  <2>2. raised' \subseteq Threads
    BY <1>7 DEF KillSelf, RaiseSig, TInv, Typed
  <2>0. current \in Threads
    BY <1>3, <1>7 DEF KillSelf, TInv, Called
  <2>3. sent' \subseteq Threads
    BY <1>7, <2>0 DEF KillSelf, TInv, Typed
  <2>4. Typed' /\ HandlerContexts'
    BY <1>3, <1>7, <2>2, <2>3
    DEF KillSelf, TInv, Typed, HandlerContexts, Answer, lib, clock
  <2>5. call' = call /\ current' = current
    BY <1>7 DEF KillSelf, lib
  <2> QED
    BY <1>1, <2>1, <2>4, <2>5, Stays DEF TInv, Called, Rewritten
<1>8. CASE KillReady
  <2>1. Rewritten("rearm")
    BY <1>1, <1>8, Raising DEF KillReady
  <2>2. call[cpu].arg \in Threads
    BY <1>3, <1>8 DEF KillReady, TInv, Called
  <2>3. ready' \in Seq(Threads)
    BY <1>8, <2>2, HeadMade DEF KillReady, TInv, Typed
  <2>4. sent' \subseteq Threads /\ sig' \in [Threads -> BOOLEAN]
    BY <1>8, <2>2 DEF KillReady, TInv, Typed
  <2>5. Typed' /\ HandlerContexts'
    BY <1>3, <1>8, <2>3, <2>4
    DEF KillReady, TInv, Typed, HandlerContexts, Answer, clock
  <2>6. call' = call /\ current' = current
    BY <1>8 DEF KillReady
  <2> QED
    BY <1>1, <2>1, <2>5, <2>6, Stays DEF TInv, Called, Rewritten
<1> QED
  BY <1>4, <1>5, <1>6, <1>7, <1>8

(* Every library call's steps keep TInv.                                   *)
LEMMA LibraryStep == TInv /\ Library => TInv'
<1> SUFFICES ASSUME TInv, Library PROVE TInv'
  OBVIOUS
<1>1. /\ {"clear", "set", "body", "rearm", "arm", "user"} \subseteq
           (Labels \cap CallLabels) \ (Late \cup {"wait"})
  BY DEF Labels, CallLabels, Late
<1>2. CASE Clear \/ Rearm
  BY <1>1, <1>2, FillStep DEF Clear, Rearm
<1>3. CASE Disarm \/ Arm
  BY <1>1, <1>3, SetStep DEF Disarm, Arm
<1> QED
  BY <1>2, <1>3, CreateStep, JoinStep, ExitStep, KillStep DEF Library

-----------------------------------------------------------------------------

(* Saving a context, or finding nothing to save.                           *)
LEMMA SaveStep ==
  ASSUME TInv, SSave \/ SRetire \/ SPreempted \/ SResumed
  PROVE  TInv'
<1> USE DEF At
<1>1. /\ {"sResume", "sNext"} \subseteq (Labels \cap Late) \ CallLabels
      /\ {"sSave", "sResume"} \cap CallLabels = {}
      /\ "sOn" \in Labels \ (CallLabels \cup Late)
  BY DEF Labels, HandlerLabels, CallLabels, Late
<1>2. cpu \in Threads /\ stack[cpu] \in Stacks
  BY DEF TInv, Typed
<1>3. current \in Threads
  BY <1>1, HasCurrent, ThreadsAssumption
     DEF SSave, SRetire, SPreempted, SResumed, TInv, Typed
<1>4. current # Nobody
  BY <1>3, ThreadsAssumption
<1>5. Append(ready, current) \in Seq(Threads) /\ Append(completed, current) \in Seq(Threads)
  BY <1>3 DEF TInv, Typed
<1>6. CASE SSave
  <2>1. Rewritten("sResume")
    BY <1>1, <1>6, Going DEF SSave
  <2>2. Len(stack[cpu]) \in Nat /\ Len(stack[cpu]) # 1
    BY <1>1, <1>2, <1>6 DEF SSave, Top, Stacks
  <2>3. context' \in [Threads -> [stack : Threads, frame : Nat]] /\ HandlerContexts'
    BY <1>2, <1>3, <1>6, <2>2 DEF SSave, Saved, TInv, Typed, HandlerContexts
  <2>4. Typed'
    BY <1>6, <2>3 DEF SSave, TInv, Typed, clock, program, history
  <2>5. call' = call /\ current' = current
    BY <1>6 DEF SSave, program
  <2> QED
    BY <1>1, <1>4, <2>1, <2>3, <2>4, <2>5, Stays DEF TInv, Called, Rewritten
<1>7. CASE SRetire \/ SPreempted
  <2>1. Rewritten("sNext")
    BY <1>1, <1>7, Going DEF SRetire, SPreempted
  <2>2. state' \in [Threads -> {"UNBORN", "RUNNABLE", "RUNNING", "EXITED"}]
    BY <1>3, <1>7 DEF SRetire, SPreempted, TInv, Typed
  <2>3. Typed' /\ HandlerContexts'
    BY <1>5, <1>7, <2>2
    DEF SRetire, SPreempted, Enqueue, TInv, Typed, HandlerContexts, clock, program, history
  <2>4. call' = call /\ current' = current
    BY <1>7 DEF SRetire, SPreempted, program
  <2> QED
    BY <1>1, <1>4, <2>1, <2>3, <2>4, Stays DEF TInv, Called, Rewritten
<1>8. CASE SResumed
  <2>1. Rewritten("sOn")
    BY <1>1, <1>8, Going DEF SResumed
  <2>2. raised' \subseteq Threads
    BY <1>8 DEF SResumed, RaiseSig, TInv, Typed
  <2>3. exec' \in [Threads -> {0, 1}]
    BY <1>8 DEF SResumed, TInv, Typed
  <2>4. Typed' /\ HandlerContexts'
    BY <1>8, <2>2, <2>3 DEF SResumed, TInv, Typed, HandlerContexts, clock
  <2>5. call' = call /\ current' = current
    BY <1>8 DEF SResumed
  <2> QED
    BY <1>1, <1>4, <2>1, <2>4, <2>5, Stays DEF TInv, Called, Rewritten
<1> QED
  BY <1>6, <1>7, <1>8

(* Choosing the next thread, or finding none, and returning.               *)
LEMMA NextStep ==
  ASSUME TInv, SNext \/ SIdle \/ SReturn
  PROVE  TInv'
<1> USE DEF At
<1>1. /\ "sArm" \in (Labels \cap Late) \ CallLabels
      /\ {"sNext", "sReturn"} \cap CallLabels = {}
      /\ "sReturn" \notin Late
  BY DEF Labels, HandlerLabels, CallLabels, Late
<1>2. CASE SNext
  <2>1. Rewritten("sArm")
    BY <1>1, <1>2, Going DEF SNext
  <2>2. Head(ready) \in Threads /\ Tail(ready) \in Seq(Threads)
    BY <1>2 DEF SNext, TInv, Typed
  <2>3. current' \in Threads /\ current' # Nobody
    BY <1>2, <2>2, ThreadsAssumption DEF SNext
  <2>4. /\ state' \in [Threads -> {"UNBORN", "RUNNABLE", "RUNNING", "EXITED"}]
        /\ exec' \in [Threads -> {0, 1}]
    BY <1>2, <2>2 DEF SNext, TInv, Typed
  <2>5. Typed' /\ HandlerContexts'
    BY <1>2, <2>2, <2>3, <2>4
    DEF SNext, TInv, Typed, HandlerContexts, program, history
  <2>6. call' = call
    BY <1>2 DEF SNext, program
  <2> QED
    BY <1>1, <2>1, <2>3, <2>5, <2>6, Stays DEF TInv, Called, Rewritten
<1>3. CASE SIdle \/ SReturn
  <2>1. Rewritten("sReturn")
    BY <1>1, <1>3, Returning DEF SIdle, SReturn
  <2>2. Typed' /\ HandlerContexts'
    BY <1>3 DEF SIdle, SReturn, TInv, Typed, HandlerContexts, lib, program, history
  <2>3. call' = call /\ current' = current
    BY <1>3 DEF SIdle, SReturn, lib, program
  <2> QED
    BY <1>1, <2>1, <2>2, <2>3, Stays DEF TInv, Called, Rewritten
<1> QED
  BY <1>2, <1>3

(* Continuing a thread in its context.                                     *)
LEMMA SwitchStep ==
  ASSUME TInv, SSwitch
  PROVE  TInv'
<1> DEFINE to == context[current]
           s == stack[to.stack]
           w == SubSeq(s, 1, to.frame)
<1>1. "sResume" \in (Labels \cap Late) \ CallLabels /\ "sSwitch" \in Late
  BY DEF Labels, HandlerLabels, CallLabels, Late
<1>2. current \in Threads /\ current # Nobody
  BY <1>1, HasCurrent, ThreadsAssumption DEF SSwitch, At
<1>3. to.stack \in Threads /\ to.frame \in Nat /\ to.frame # 1 /\ s \in Stacks
  BY <1>2 DEF TInv, Typed, HandlerContexts
<1>4. Typed' /\ HandlerContexts'
  BY <1>3 DEF SSwitch, TInv, Typed, HandlerContexts, lib, clock, program, history
<1>5. Rewritten("sResume")
  <2>1. CASE to.frame = 0
    BY <1>1, <2>1 DEF SSwitch, Rewritten, TInv
  <2>2. CASE to.frame # 0
    <3>1. to.frame \in 1..Len(s)
      BY <1>3, <2>2 DEF SSwitch, Stacks
    <3>2. w \in Stacks /\ Len(w) = to.frame /\ w[to.frame] = s[to.frame] /\ w[1] = s[1]
      BY <1>3, <3>1, CutOff
    <3>3. s[to.frame] \notin CallLabels
      BY <1>3, <3>1 DEF Stacks
    <3>4. WithTop(w, "sResume") \in Stacks /\ WithTop(w, "sResume")[1] = s[1]
      BY <1>1, <3>2, <3>3, TopMoves
    <3>5. stack' = [stack EXCEPT ![to.stack] = WithTop(w, "sResume")]
      BY <2>2 DEF SSwitch
    <3> HIDE DEF to, w
    <3> QED
      BY <1>1, <1>3, <3>4, <3>5 DEF Rewritten, TInv
  <2> QED
    BY <2>1, <2>2
<1>6. call' = call /\ current' = current
  BY DEF SSwitch, lib, program
<1> QED
  BY <1>1, <1>2, <1>4, <1>5, <1>6, Stays DEF TInv, Called, Rewritten

(* The handler's steps keep TInv.                                          *)
LEMMA SchedulerStep == TInv /\ Scheduler => TInv'
<1> SUFFICES ASSUME TInv, Scheduler PROVE TInv'
  OBVIOUS
<1>1. /\ HandlerLabels \subseteq Labels \ (CallLabels \cup {"wait"})
      /\ {"sClear", "sDisarm", "sSave", "sArm", "sSwitch", "sOn", "sReturn"}
           \subseteq HandlerLabels
      /\ {"sClear", "sDisarm", "sSave", "sOn", "sReturn"} \cap Late = {}
      /\ "sArm" \in Late
  BY DEF Labels, HandlerLabels, CallLabels, Late
<1>2. CASE SClear \/ SOn
  BY <1>1, <1>2, FillStep DEF SClear, SOn
<1>3. CASE SDisarm \/ SArm
  BY <1>1, <1>3, SetStep DEF SDisarm, SArm
<1> QED
  BY <1>2, <1>3, SaveStep, NextStep, SwitchStep DEF Scheduler

(* TInv is inductive.                                                      *)
LEMMA TypeStep == TInv /\ [Next]_vars => TInv'
<1> SUFFICES ASSUME TInv, [Next]_vars PROVE TInv'
  OBVIOUS
<1>1. CASE Crash
  BY <1>1 DEF Crash, TInv, Typed, HandlerContexts, Attended, Called,
              lib, clock, program, history
<1>2. CASE Tick
  <2>1. Rewritten("sClear") /\ "sClear" \notin Late
    BY <1>2, Ticking DEF Tick, Late
  <2>2. "sClear" \notin CallLabels
    BY DEF CallLabels
  <2>3. Typed' /\ HandlerContexts'
    BY <1>2 DEF Tick, TInv, Typed, HandlerContexts, lib, clock, program, history
  <2>4. call' = call /\ current' = current
    BY <1>2 DEF Tick, lib, program
  <2> QED
    BY <2>1, <2>2, <2>3, <2>4, Stays DEF TInv, Called, Rewritten
<1>3. CASE UNCHANGED vars
  BY <1>3 DEF vars, TInv, Typed, HandlerContexts, Attended, Called,
              lib, clock, program, history
<1> QED
  BY <1>1, <1>2, <1>3, ProgramStep, LibraryStep, SchedulerStep DEF Next, Over

(* TInv says more than TypeOK.                                             *)
LEMMA TypeImplied == TInv => TypeOK
<1>1. Stacks \subseteq Seq(Labels)
  BY DEF Stacks
<1>2. ASSUME TInv PROVE stack \in [Threads -> Seq(Labels)]
  BY <1>1, <1>2 DEF TInv
<1> QED
  BY <1>2 DEF TInv, Typed, TypeOK

(* The scheduler keeps to its types, and its inductive invariant: a stack  *)
(* is one frame of a thread's code with handler frames on top, a context   *)
(* never points into the code, and the handler gets past saving a context  *)
(* only when there is a current_thread.                                    *)
THEOREM TypeCorrect == Spec => [](TInv /\ TypeOK)
<1> QED
  BY TypeInit, TypeStep, TypeImplied, PTL DEF Spec

-----------------------------------------------------------------------------

(***************************************************************************)
(* Safety.  Neither TimerOffInside nor ContextsIntact is inductive.  SInv  *)
(* adds what the code relies on: what the frames below the top of a stack  *)
(* may be in the middle of, whose stack the processor is on, that nobody   *)
(* is in the ready queue twice or while it runs, and what the two returns  *)
(* of getcontext have in common.                                           *)
(***************************************************************************)

(* Where the timer may interrupt a thread, or a raise leaves it.           *)
Safe == {"user", "clear", "wait", "fallOff", "rearm", "arm", "sClear", "sOn",
         "sReturn"}

(* The timer is off where it has to be.                                    *)
Timing ==
  /\ Top \in Protected => ~armed
  /\ Top \in {"set", "sDisarm"} => timer = "off"
  /\ Top = "sResume" /\ armed => exec[current] = 1
  /\ Top \in {"sArm", "sSwitch"} => exec[current] = 1

(* Before the first thread_create there is only main.                      *)
Booting ==
  /\ boot = "none" => ~armed /\ Top \in {"user", "boot"}
  /\ Top = "boot" => boot = "none"
  /\ boot # "main" => current = Nobody

(* The frames below the top of a stack are where they can be interrupted.  *)
Below == \A t \in Threads : \A i \in 1..Len(stack[t]) - 1 : stack[t][i] \in Safe

(* The processor is on the stack of current_thread, but for the end of a   *)
(* switch.                                                                 *)
Own ==
  /\ current = Nobody => cpu = Main
  /\ current # Nobody /\ Top \notin {"sArm", "sSwitch"} => cpu = current

(* A thread_s not yet allocated is nowhere.                                *)
Born ==
  /\ \A t \in Children : state[t] = "UNBORN" =>
       context[t] = Entry(t) /\ stack[t] = <<"user">> /\ t # cpu
  /\ current # Nobody => state[current] # "UNBORN"
  /\ \A t \in Threads : Contains(ready, t) => state[t] # "UNBORN"

(* Nobody is in the ready queue twice, or while it has the processor.      *)
Distinct(s) == \A i, j \in 1..Len(s) : s[i] = s[j] => i = j

InLine ==
  /\ Distinct(ready)
  /\ \A t \in Threads : Contains(ready, t) => Continues(t)
  /\ Contains(ready, current) => Top = "sNext"
  /\ Contains(ready, cpu) => Top \in Away

(* A switch finds the context it needs, and both returns of getcontext     *)
(* come to the frame that was saved last.                                  *)
Switched ==
  /\ Top \in {"sArm", "sSwitch"} => Continues(current)
  /\ Top = "sResume" => context[current] = [stack |-> cpu, frame |-> Len(stack[cpu])]

(* A signal is left for, and raised in, threads it was sent to.            *)
Signals == raised \subseteq sent /\ \A t \in Threads : sig[t] => t \in sent

SInv ==
  /\ Timing /\ Booting /\ Below /\ Own /\ Born /\ InLine /\ Switched /\ Signals

-----------------------------------------------------------------------------
(* Steps of the running thread that leave the queues and contexts alone.   *)

(* The thread on the processor comes to label l, at the top of its stack.  *)
Local(l) ==
  /\ cpu' = cpu
  /\ Top' = l
  /\ Below'
  /\ \A t \in Threads : t # cpu => stack'[t] = stack[t]

(* It gets there by going on, ...                                          *)
LEMMA GoesOn ==
  ASSUME TInv, Below, NEW l \in Labels, Goto(l), cpu' = cpu
  PROVE  Local(l)
<1> DEFINE s == stack[cpu]
           w == WithTop(s, l)
<1>1. cpu \in Threads /\ s \in Seq(Labels) /\ Len(s) \in Nat /\ Len(s) >= 1
  BY DEF TInv, Typed, Stacks
<1>2. /\ stack' = [stack EXCEPT ![cpu] = w]
      /\ stack'[cpu] = w /\ \A t \in Threads : t # cpu => stack'[t] = stack[t]
  BY <1>1 DEF Goto, TInv
<1>3. Len(w) = Len(s) /\ \A i \in 1..Len(s) : w[i] = IF i = Len(s) THEN l ELSE s[i]
  BY <1>1 DEF WithTop
<1>4. Top' = l
  BY <1>1, <1>2, <1>3 DEF Top
<1>5. ASSUME NEW i \in 1..Len(w) - 1 PROVE w[i] \in Safe
  BY <1>1, <1>3 DEF Below
<1>6. Below'
  BY <1>2, <1>5 DEF Below
<1> QED
  BY <1>2, <1>4, <1>6 DEF Local

(* ... by raising SIGALRM, ...                                             *)
LEMMA RaisesOn ==
  ASSUME TInv, Below, NEW l \in Safe, RaiseThen(l), cpu' = cpu
  PROVE  Local("sClear")
<1> DEFINE s == stack[cpu]
           w == Append(WithTop(s, l), "sClear")
<1>1. cpu \in Threads /\ s \in Seq(Labels) /\ Len(s) \in Nat /\ Len(s) >= 1
  BY DEF TInv, Typed, Stacks
<1>2. stack'[cpu] = w /\ \A t \in Threads : t # cpu => stack'[t] = stack[t]
  BY <1>1 DEF RaiseThen, TInv
<1>3. l \in Labels /\ "sClear" \in Labels
  BY DEF Safe, Labels, CallLabels, HandlerLabels
<1>4. /\ WithTop(s, l) \in Seq(Labels) /\ Len(WithTop(s, l)) = Len(s)
      /\ \A i \in 1..Len(s) : WithTop(s, l)[i] = IF i = Len(s) THEN l ELSE s[i]
  BY <1>1, <1>3 DEF WithTop
<1>5. /\ Len(w) = Len(s) + 1 /\ w[Len(s) + 1] = "sClear"
      /\ \A i \in 1..Len(s) : w[i] = IF i = Len(s) THEN l ELSE s[i]
  BY <1>1, <1>3, <1>4
<1>6. Top' = "sClear"
  BY <1>1, <1>2, <1>5 DEF Top
<1>7. ASSUME NEW i \in 1..Len(w) - 1 PROVE w[i] \in Safe
  BY <1>1, <1>5 DEF Below
<1>8. Below'
  BY <1>2, <1>7 DEF Below
<1> QED
  BY <1>2, <1>6, <1>8 DEF Local

(* ... by being interrupted, ...                                           *)
LEMMA TicksOn ==
  ASSUME TInv, Below, Top \in Safe, cpu' = cpu,
         stack' = [stack EXCEPT ![cpu] = Append(@, "sClear")]
  PROVE  Local("sClear")
<1> DEFINE s == stack[cpu]
           w == Append(s, "sClear")
<1>1. cpu \in Threads /\ s \in Seq(Labels) /\ Len(s) \in Nat /\ Len(s) >= 1
  BY DEF TInv, Typed, Stacks
<1>2. stack'[cpu] = w /\ \A t \in Threads : t # cpu => stack'[t] = stack[t]
  BY <1>1 DEF TInv
<1>3. "sClear" \in Labels
  BY DEF Labels, HandlerLabels
<1>4. /\ Len(w) = Len(s) + 1 /\ w[Len(s) + 1] = "sClear"
      /\ \A i \in 1..Len(s) : w[i] = s[i]
  BY <1>1, <1>3
<1>5. Top' = "sClear"
  BY <1>1, <1>2, <1>4 DEF Top
<1>6. ASSUME NEW i \in 1..Len(w) - 1 PROVE w[i] \in Safe
  <2>1. CASE i = Len(s)
    BY <1>1, <1>4, <2>1 DEF Top
  <2>2. CASE i # Len(s)
    BY <1>1, <1>4, <2>2 DEF Below
  <2> QED
    BY <2>1, <2>2
<1>7. Below'
  BY <1>2, <1>6 DEF Below
<1> QED
  BY <1>2, <1>5, <1>7 DEF Local

(* ... or by returning from the handler.                                   *)
LEMMA ReturnsOn ==
  ASSUME TInv, Below, Top \notin CallLabels, Return, cpu' = cpu
  PROVE  \E l \in Safe : Local(l)
<1> DEFINE s == stack[cpu]
           n == Len(s) - 1
           w == SubSeq(s, 1, n)
<1>1. cpu \in Threads /\ s \in Seq(Labels) /\ Len(s) \in Nat /\ Len(s) >= 1
  BY DEF TInv, Typed, Stacks
<1>2. stack'[cpu] = w /\ \A t \in Threads : t # cpu => stack'[t] = stack[t]
  BY <1>1 DEF Return, TInv
<1>3. n >= 1
  <2>1. 1 \in 1..Len(s) /\ s[1] \in CallLabels
    BY <1>1 DEF TInv, Stacks
  <2> QED
    BY <1>1, <2>1 DEF Top
<1>4. Len(w) = n /\ \A i \in 1..n : w[i] = s[i]
  BY <1>1
<1>5. \A i \in 1..n : s[i] \in Safe
  BY <1>1 DEF Below
<1>6. Top' = s[n] /\ s[n] \in Safe
  BY <1>1, <1>2, <1>3, <1>4, <1>5 DEF Top
<1>7. \A i \in 1..Len(w) - 1 : w[i] \in Safe
  BY <1>1, <1>4, <1>5
<1>8. Below'
  BY <1>2, <1>7 DEF Below
<1> QED
  BY <1>2, <1>6, <1>8 DEF Local

(* Such a step keeps SInv, up to the timer, the boot and the signals.      *)
LEMMA LocalStep ==
  ASSUME TInv, SInv, NEW l \in Labels \ {"sArm", "sSwitch", "sResume"}, Local(l),
         Top \notin {"sArm", "sSwitch"},
         ~Contains(ready, cpu), ~Contains(ready, current),
         \A t : Contains(ready', t) => Contains(ready, t), Distinct(ready'),
         \A t \in Threads : state'[t] = "UNBORN" <=> state[t] = "UNBORN",
         current' = current, context' = context,
         l \notin Safe => Timing', Booting', Signals'
  PROVE  SInv'
<1>1. cpu \in Threads /\ cpu' = cpu /\ Top' = l
  BY DEF TInv, Typed, Local
<1>2. Timing'
  BY <1>1 DEF Timing, Safe, Protected
<1>3. Own'
  BY <1>1 DEF SInv, Own
<1>4. Born'
  BY <1>1, ThreadsAssumption
  DEF SInv, Born, Local, Threads, TInv, Typed, Entry
<1>5. ASSUME NEW t \in Threads, Contains(ready', t) PROVE Continues(t)'
  <2>1. t # cpu /\ Continues(t)
    BY <1>5 DEF SInv, InLine
  <2>2. stack'[t] = stack[t]
    BY <2>1 DEF Local
  <2> QED
    BY <2>1, <2>2 DEF Continues, Entry
<1>6. InLine'
  BY <1>1, <1>5 DEF InLine
<1>7. Switched'
  BY <1>1 DEF Switched
<1> QED
  BY <1>2, <1>3, <1>4, <1>6, <1>7 DEF SInv, Local

(* One inside the library and before the switch leaves the boot alone.     *)
LEMMA InsideStep ==
  ASSUME TInv, SInv, NEW l \in Labels \ {"boot", "sArm", "sSwitch", "sResume"},
         Local(l), Top \notin Away \cup {"user", "boot"},
         boot' = boot, current' = current, ready' = ready, context' = context,
         \A t \in Threads : state'[t] = "UNBORN" <=> state[t] = "UNBORN",
         l \notin Safe => Timing', Signals'
  PROVE  SInv'
<1>1. Booting'
  BY DEF SInv, Booting, Local
<1>2. ~Contains(ready, cpu) /\ ~Contains(ready, current) /\ Distinct(ready')
  BY DEF SInv, InLine, Away
<1>3. Top \notin {"sArm", "sSwitch"}
  BY DEF Away
<1>4. \A t : Contains(ready', t) => Contains(ready, t)
  OBVIOUS
<1> QED
  BY <1>1, <1>2, <1>3, <1>4, LocalStep

-----------------------------------------------------------------------------
(* The steps of the program and the library keep SInv.                     *)

(* Before the first call SInv holds.                                       *)
LEMMA SafetyInit == Init => SInv
<1> SUFFICES ASSUME Init PROVE SInv
  OBVIOUS
<1>1. cpu = Main /\ Main \in Threads /\ Nobody \notin Threads /\ Main \notin Children
  BY ThreadsAssumption DEF Init, Threads
<1>2. \A t \in Threads : stack[t] = <<"user">> /\ context[t] = Entry(t)
  BY DEF Init
<1>3. Top = "user"
  BY <1>1, <1>2 DEF Top
<1>4. ready = <<>> /\ \A t : ~Contains(ready, t)
  BY DEF Init, Contains
<1>5. Timing /\ Booting /\ Own /\ Switched /\ Signals
  BY <1>1, <1>3 DEF Init, Timing, Booting, Own, Switched, Signals, Protected
<1>6. Below
  <2>1. ASSUME NEW t \in Threads PROVE 1..Len(stack[t]) - 1 = {}
    <3>1. Len(stack[t]) = 1
      BY <1>2
    <3> QED
      BY <3>1
  <2> QED
    BY <2>1 DEF Below
<1>7. Born
  BY <1>1, <1>2, <1>4 DEF Born, Init, Threads
<1>8. InLine
  BY <1>4 DEF InLine, Distinct
<1> QED
  BY <1>5, <1>6, <1>7, <1>8 DEF SInv

(* Filling the timer's struct, and setting the timer.                      *)
LEMMA FillSafe ==
  ASSUME TInv, SInv, Clear \/ Rearm \/ SClear \/ SOn
  PROVE  SInv'
<1> USE DEF At
<1>1. PICK l \in {"set", "arm", "sDisarm", "sReturn"} :
        /\ Goto(l) /\ (l \in {"set", "sDisarm"} => timer' = "off")
        /\ Top \in {"clear", "rearm", "sClear", "sOn"}
        /\ UNCHANGED <<lib, armed, cpu, program>>
  BY DEF Clear, Rearm, SClear, SOn, FillTimer
<1>2. l \in Labels \ {"boot", "sArm", "sSwitch", "sResume"}
  BY <1>1 DEF Labels, CallLabels, HandlerLabels
<1>3. Local(l) /\ Top' = l
  BY <1>1, <1>2, GoesOn DEF SInv, Local
<1>4. Timing'
  BY <1>1, <1>3 DEF Timing, Protected
<1>5. Signals'
  BY <1>1 DEF SInv, Signals, lib, program, history
<1>6. Top \notin Away \cup {"user", "boot"}
  BY <1>1 DEF Away
<1> QED
  BY <1>1, <1>2, <1>3, <1>4, <1>5, <1>6, InsideStep DEF lib

(* setitimer is called.                                                    *)
LEMMA SetSafe ==
  ASSUME TInv, SInv, Disarm \/ Arm \/ SDisarm
  PROVE  SInv'
<1> USE DEF At
<1>1. PICK l \in {"body", "user", "sSave"} :
        /\ Goto(l) /\ (l # "user" => Top \in {"set", "sDisarm"})
        /\ Top \in {"set", "arm", "sDisarm"}
        /\ armed' = (timer = "on") /\ UNCHANGED <<lib, timer, cpu, program>>
  BY DEF Disarm, Arm, SDisarm, SetITimer
<1>2. l \in Labels \ {"boot", "sArm", "sSwitch", "sResume"}
  BY <1>1 DEF Labels, CallLabels, HandlerLabels
<1>3. Local(l) /\ Top' = l
  BY <1>1, <1>2, GoesOn DEF SInv, Local
<1>4. l \notin Safe => Timing'
  BY <1>1, <1>3 DEF SInv, Timing, Protected, Safe
<1>5. Signals'
  BY <1>1 DEF SInv, Signals, lib, program, history
<1>6. Top \notin Away \cup {"user", "boot"}
  BY <1>1 DEF Away
<1> QED
  BY <1>1, <1>2, <1>3, <1>4, <1>5, <1>6, InsideStep DEF lib

(* An answer, or a raise, with nothing else changed.                       *)
LEMMA ReplySafe ==
  ASSUME TInv, SInv, NEW l \in {"rearm", "user", "wait"}, Goto(l) \/ RaiseThen(l),
         Top \in {"body", "wait"}, UNCHANGED <<lib, clock, cpu, history>>
  PROVE  SInv'
<1>1. l \in Labels /\ l \in Safe
  BY DEF Labels, CallLabels, Safe
<1>2. PICK m \in {"rearm", "user", "wait", "sClear"} : Local(m)
  BY <1>1, GoesOn, RaisesOn DEF SInv
<1>3. m \in Safe /\ m \in Labels \ {"boot", "sArm", "sSwitch", "sResume"}
  BY DEF Safe, Labels, CallLabels, HandlerLabels
<1>4. Signals'
  BY DEF SInv, Signals, lib, history
<1>5. Top \notin Away \cup {"user", "boot"}
  BY DEF Away
<1> QED
  BY <1>2, <1>3, <1>4, <1>5, InsideStep DEF lib

(* thread_join.                                                            *)
LEMMA JoinSafe ==
  ASSUME TInv, SInv, Join \/ JoinWaits \/ JoinDone
  PROVE  SInv'
<1> USE DEF At, AtBody
<1>1. Top \in {"body", "wait"} /\ UNCHANGED <<lib, clock, cpu, history>>
  BY DEF Join, JoinWaits, JoinDone, Reply, program
<1>2. Goto("rearm") \/ Goto("wait") \/ RaiseThen("wait")
  BY DEF Join, JoinWaits, JoinDone, Reply
<1> QED
  BY <1>1, <1>2, ReplySafe

(* The program makes a call, or its routine returns.                       *)
LEMMA ProgramSafe ==
  ASSUME TInv, SInv, Program
  PROVE  SInv'
<1> USE DEF At
<1>1. CASE MainReturns
  BY <1>1 DEF MainReturns, SInv, Timing, Booting, Below, Own, Born, InLine,
              Switched, Signals, Top, Continues, lib, clock, program, history
<1>2. CASE ~MainReturns
  <2>1. PICK l \in {"boot", "clear"} :
          /\ Goto(l) /\ (l = "boot" <=> boot = "none")
          /\ Top = "user"
          /\ UNCHANGED <<state, context, boot, current, ready, sig, clock, cpu,
                         sent, raised>>
    <3>1. CASE CallCreate
      BY <3>1 DEF CallCreate, StartCall, lib
    <3>2. boot = "none" => current = Nobody /\ cpu = Main
      BY DEF SInv, Booting, Own
    <3>3. CASE CallExit \/ \E op \in AllOps, t \in Threads : CallOther(op, t)
      BY <3>2, <3>3 DEF CallExit, CallOther, StartCall, lib
    <3>4. CASE ReturnFromRoutine
      BY <3>2, <3>4 DEF ReturnFromRoutine
    <3> QED
      BY <1>2, <3>1, <3>3, <3>4 DEF Program
  <2>2. l \in Labels \ {"sArm", "sSwitch", "sResume"}
    BY <2>1 DEF Labels, CallLabels
  <2>3. Local(l) /\ Top' = l
    BY <2>1, <2>2, GoesOn DEF SInv, Local
  <2>4. Timing' /\ Booting' /\ Signals'
    BY <2>1, <2>3 DEF SInv, Timing, Booting, Signals, Protected, clock
  <2>5. ~Contains(ready, cpu) /\ ~Contains(ready, current) /\ Distinct(ready')
    BY <2>1 DEF SInv, InLine, Away
  <2>6. \A t : Contains(ready', t) => Contains(ready, t)
    BY <2>1
  <2> QED
    BY <2>1, <2>2, <2>3, <2>4, <2>5, <2>6, LocalStep
<1> QED
  BY <1>1, <1>2

(* thread_exit, up to the switch.                                          *)
LEMMA ExitSafe ==
  ASSUME TInv, SInv, Exit \/ SetRet \/ Yield \/ FallOff
  PROVE  SInv'
<1> USE DEF At, AtBody
<1>1. CASE FallOff
  BY <1>1 DEF FallOff, SInv, Timing, Booting, Below, Own, Born, InLine,
              Switched, Signals, Top, Continues, lib, clock, program, history
<1>2. CASE Exit \/ SetRet \/ Yield
  <2>1. /\ Top \in {"body", "setret", "yield"} /\ ~armed
        /\ UNCHANGED <<context, boot, current, ready, sig, clock, cpu, history>>
    BY <1>2 DEF Exit, SetRet, Yield, lib, program, SInv, Timing, Protected
  <2>2. \A t \in Threads : state'[t] = "UNBORN" <=> state[t] = "UNBORN"
    <3>1. current # Nobody => state[current] # "UNBORN"
      BY DEF SInv, Born
    <3>2. state' = state \/ state' = [state EXCEPT ![current] = "EXITED"]
      BY <1>2 DEF Exit, SetRet, Yield, lib
    <3>3. state \in [Threads -> {"UNBORN", "RUNNABLE", "RUNNING", "EXITED"}]
      BY DEF TInv, Typed
    <3> QED
      BY <3>1, <3>2, <3>3, ThreadsAssumption
  <2>3. \/ Goto("setret") \/ Goto("yield")
        \/ RaiseThen("user") \/ RaiseThen("fallOff")
    BY <1>2 DEF Exit, SetRet, Yield
  <2>4. /\ {"setret", "yield", "sClear"} \subseteq
             Labels \ {"boot", "sArm", "sSwitch", "sResume"}
        /\ {"user", "fallOff", "sClear"} \subseteq Safe
    BY DEF Labels, CallLabels, HandlerLabels, Safe
  <2>5. PICK l \in {"setret", "yield", "sClear"} : Local(l) /\ Top' = l
    BY <2>1, <2>3, <2>4, GoesOn, RaisesOn DEF SInv, Local
  <2>6. Timing'
    BY <2>1, <2>5 DEF Timing, clock
  <2>7. Signals'
    BY <2>1 DEF SInv, Signals, history
  <2>8. Top \notin Away \cup {"user", "boot"}
    BY <2>1 DEF Away
  <2> QED
    BY <2>1, <2>2, <2>4, <2>5, <2>6, <2>7, <2>8, InsideStep
<1> QED
  BY <1>1, <1>2

(* The first thread_create, up to where it is like any other.              *)
LEMMA BootSafe ==
  ASSUME TInv, SInv, Boot \/ BootFails
  PROVE  SInv'
<1> USE DEF At
<1>1. /\ Top = "boot" /\ boot = "none" /\ boot' \in {"queues", "broken"}
      /\ UNCHANGED <<state, context, current, ready, sig, cpu, sent, raised>>
  BY DEF Boot, BootFails, FailedAllocation, program, history, SInv, Booting
<1>2. PICK l \in {"clear", "user"} : Goto(l)
  BY DEF Boot, BootFails
<1>3. l \in Safe /\ l \in Labels \ {"boot", "sArm", "sSwitch", "sResume"}
  BY DEF Labels, CallLabels, Safe
<1>4. Local(l) /\ Top' = l
  BY <1>1, <1>2, <1>3, GoesOn DEF SInv, Local
<1>5. Booting' /\ Signals'
  BY <1>1, <1>4 DEF SInv, Booting, Signals
<1>6. ~Contains(ready, cpu) /\ ~Contains(ready, current) /\ Distinct(ready')
  BY <1>1 DEF SInv, InLine, Away
<1>7. \A t : Contains(ready', t) => Contains(ready, t)
  BY <1>1
<1> QED
  BY <1>1, <1>3, <1>4, <1>5, <1>6, <1>7, LocalStep

(* An allocation for a new thread fails.                                   *)
LEMMA CreateFailsSafe == ASSUME TInv, SInv, CreateFails PROVE SInv'
<1>1. Top = "body" /\ Goto("user")
  BY DEF CreateFails, AtBody, At
<1>2. "user" \in Safe /\ "user" \in Labels \ {"boot", "sArm", "sSwitch", "sResume"}
  BY DEF Labels, CallLabels, Safe
<1>3. Local("user")
  BY <1>1, <1>2, GoesOn DEF CreateFails, FailedAllocation, SInv
<1>4. Signals'
  BY DEF CreateFails, FailedAllocation, SInv, Signals
<1>5. Top \notin Away \cup {"user", "boot"}
  BY <1>1 DEF Away
<1> QED
  BY <1>2, <1>3, <1>4, <1>5, InsideStep DEF CreateFails, FailedAllocation

(* A thread at the end of a queue it was not in.                           *)
LEMMA Enqueued ==
  ASSUME NEW s \in Seq(Threads), NEW x \in Threads, Distinct(s), ~Contains(s, x)
  PROVE  /\ Distinct(Enqueue(s, x))
         /\ \A t : Contains(Enqueue(s, x), t) <=> t = x \/ Contains(s, t)
<1> DEFINE w == Enqueue(s, x)
<1>1. /\ Len(s) \in Nat /\ DOMAIN s = 1..Len(s)
      /\ Len(w) = Len(s) + 1 /\ DOMAIN w = 1..Len(w)
      /\ w[Len(s) + 1] = x /\ \A i \in 1..Len(s) : w[i] = s[i]
  BY DEF Enqueue
<1>2. \A i \in 1..Len(s) : s[i] # x
  BY <1>1 DEF Contains
<1>3. \A i \in 1..Len(w) : i = Len(s) + 1 \/ i \in 1..Len(s)
  BY <1>1
<1> HIDE DEF w
<1>4. Distinct(w)
  BY <1>1, <1>2, <1>3 DEF Distinct
<1>5. ASSUME NEW t PROVE Contains(w, t) <=> t = x \/ Contains(s, t)
  BY <1>1, <1>3 DEF Contains
<1> QED
  BY <1>4, <1>5 DEF w

(* thread_create, whether or not main_thread can be allocated.             *)
LEMMA CreateSafe ==
  ASSUME TInv, SInv, NEW t \in Children, Create(t) \/ CreateMainFails(t)
  PROVE  SInv'
<1> USE DEF At, AtBody
<1>1. /\ Top = "body" /\ t \in Threads /\ t # Main /\ state[t] = "UNBORN"
      /\ ready' = Enqueue(ready, t) /\ boot' = "main"
      /\ UNCHANGED <<context, sig, cpu, sent, raised>>
  BY ThreadsAssumption DEF Create, CreateMainFails, FailedAllocation, Unborn,
     Threads, history
<1>2. /\ current' = current \/ (current' = Main /\ cpu = Main)
      /\ current' = Main => current = Main \/ state'[Main] # "UNBORN"
  <2>1. boot = "queues" => cpu = Main
    BY DEF SInv, Booting, Own
  <2>2. Main \in Threads
    BY DEF Threads
  <2> QED
    BY <2>1, <2>2 DEF Create, CreateMainFails, FailedAllocation
<1>3. \A u \in Threads : state'[u] = "UNBORN" => state[u] = "UNBORN" /\ u # t
  BY <1>1 DEF Create, CreateMainFails, TInv, Typed
<1>4. /\ {"user", "rearm", "sClear"} \subseteq Safe
      /\ {"user", "rearm"} \subseteq Labels
  BY DEF Safe, Labels, CallLabels
<1>5. PICK l \in {"user", "rearm", "sClear"} : Local(l)
  <2>1. Goto("user") \/ Goto("rearm") \/ RaiseThen("user")
    BY DEF Create, CreateMainFails
  <2> QED
    BY <1>1, <1>4, <2>1, GoesOn, RaisesOn DEF SInv
<1>6. cpu' = cpu /\ cpu \in Threads /\ Top' = l /\ l \in Safe
  BY <1>4, <1>5 DEF Local, TInv, Typed
<1>7. Timing' /\ Booting' /\ Switched' /\ Signals' /\ Below'
  BY <1>1, <1>5, <1>6
  DEF SInv, Timing, Booting, Switched, Signals, Safe, Protected, Local
<1>8. Own'
  BY <1>1, <1>2, <1>6, ThreadsAssumption DEF SInv, Own, Threads
<1>9. /\ ready \in Seq(Threads) /\ Distinct(ready)
      /\ ~Contains(ready, t) /\ ~Contains(ready, cpu) /\ ~Contains(ready, current)
      /\ t # cpu /\ t # current
  <2>1. ready \in Seq(Threads) /\ Distinct(ready)
    BY DEF SInv, InLine, TInv, Typed
  <2>2. ~Contains(ready, cpu) /\ ~Contains(ready, current)
    BY <1>1 DEF SInv, InLine, Away
  <2>3. ~Contains(ready, t) /\ t # cpu /\ t # current
    BY <1>1, ThreadsAssumption DEF SInv, Born
  <2> QED
    BY <2>1, <2>2, <2>3
<1>10. /\ Distinct(ready')
       /\ \A u : Contains(ready', u) <=> u = t \/ Contains(ready, u)
  BY <1>1, <1>9, Enqueued
<1>11. Born'
  <2>1. ASSUME current' # Nobody PROVE state'[current'] # "UNBORN"
    <3>1. CASE current' = current
      BY <1>2, <1>3, <2>1, <3>1 DEF SInv, Born, TInv, Typed
    <3>2. CASE current' # current
      BY <1>2, <1>3, <3>2, <2>1 DEF SInv, Born, TInv, Typed
    <3> QED
      BY <3>1, <3>2
  <2>2. ASSUME NEW u \in Threads, Contains(ready', u) PROVE state'[u] # "UNBORN"
    BY <1>3, <1>10, <2>2 DEF SInv, Born
  <2>3. ASSUME NEW u \in Children, state'[u] = "UNBORN"
        PROVE  context'[u] = Entry(u) /\ stack'[u] = <<"user">> /\ u # cpu'
    BY <1>1, <1>3, <1>5, <1>6, <2>3 DEF SInv, Born, Local, Threads
  <2> QED
    BY <2>1, <2>2, <2>3 DEF Born, Entry
<1>12. ASSUME NEW u \in Threads, Contains(ready', u) PROVE Continues(u)'
  <2>1. u # cpu /\ Continues(u)
    BY <1>1, <1>9, <1>10, <1>12 DEF SInv, InLine, Born, Continues
  <2>2. stack'[u] = stack[u] /\ context' = context
    BY <1>1, <1>5, <2>1 DEF Local
  <2> QED
    BY <2>1, <2>2 DEF Continues, Entry
<1>13. InLine'
  <2>1. ~Contains(ready', cpu') /\ ~Contains(ready', current')
    BY <1>1, <1>2, <1>6, <1>9, <1>10
  <2> QED
    BY <1>10, <1>12, <2>1 DEF InLine
<1> QED
  BY <1>7, <1>8, <1>11, <1>13 DEF SInv

(* makeheadthread permutes the queue.                                      *)
LEMMA HeadOnce ==
  ASSUME NEW s \in Seq(Threads), NEW x \in Threads, Distinct(s), Contains(s, x)
  PROVE  /\ Distinct(MakeHead(s, x))
         /\ \A t : Contains(MakeHead(s, x), t) => Contains(s, t)
<1> DEFINE i == FirstOf(s, x)
           w == [j \in DOMAIN s |-> IF j = 1 THEN x
                                    ELSE IF j <= i THEN s[j - 1] ELSE s[j]]
           from(j) == IF j = 1 THEN i ELSE IF j <= i THEN j - 1 ELSE j
<1>1. /\ Len(s) \in Nat /\ DOMAIN s = 1..Len(s)
      /\ i \in 1..Len(s) /\ s[i] = x
  BY FirstFound
<1> HIDE DEF i
<1>2. MakeHead(s, x) = w
  BY DEF MakeHead, i
<1>3. Len(w) = Len(s) /\ DOMAIN w = 1..Len(s)
  BY <1>1
<1>4. \A j \in 1..Len(s) : from(j) \in 1..Len(s) /\ w[j] = s[from(j)]
  BY <1>1
<1>5. \A j, k \in 1..Len(s) : from(j) = from(k) => j = k
  BY <1>1
<1> HIDE DEF w, from
<1>6. Distinct(w)
  BY <1>3, <1>4, <1>5 DEF Distinct
<1>7. \A t : Contains(w, t) => Contains(s, t)
  BY <1>1, <1>3, <1>4 DEF Contains
<1> QED
  BY <1>2, <1>6, <1>7

(* thread_kill.                                                            *)
LEMMA KillSafe ==
  ASSUME TInv, SInv,
         KillInvalid \/ KillZero \/ KillSelf \/ KillReady \/ KillNotFound
  PROVE  SInv'
<1> USE DEF At, AtBody
<1> DEFINE t == call[cpu].arg
<1>1. CASE KillInvalid \/ KillZero \/ KillNotFound
  <2>1. Top = "body" /\ UNCHANGED <<lib, clock, cpu, history>>
    BY <1>1 DEF KillInvalid, KillZero, KillNotFound, NotReady, Reply
  <2>2. Goto("rearm") \/ Goto("user")
    BY <1>1 DEF KillInvalid, KillZero, KillNotFound, Reply
  <2> QED
    BY <2>1, <2>2, ReplySafe
<1>2. CASE KillSelf \/ KillReady
  <2>1. Top = "body" /\ cpu' = cpu /\ t \in Threads
    BY <1>2 DEF KillSelf, KillReady, TInv, Called, Typed
  <2>2. PICK l \in {"rearm", "sClear"} : Local(l)
    <3>1. "rearm" \in Safe /\ "rearm" \in Labels
      BY DEF Safe, Labels, CallLabels
    <3> QED
      BY <1>2, <2>1, <3>1, GoesOn, RaisesOn DEF SInv, KillSelf, KillReady
  <2>3. l \in Safe /\ l \in Labels \ {"boot", "sArm", "sSwitch", "sResume"}
    BY DEF Safe, Labels, CallLabels, HandlerLabels
  <2>4. UNCHANGED <<state, context, boot, current>>
    BY <1>2 DEF KillSelf, KillReady, lib
  <2>5. Signals'
    <3>1. CASE KillSelf
      <4>1. cpu = current
        BY <2>1, <3>1, ThreadsAssumption DEF KillSelf, SInv, Own
      <4> QED
        BY <3>1, <4>1 DEF KillSelf, RaiseSig, SInv, Signals, lib
    <3>2. CASE KillReady
      BY <2>1, <3>2 DEF KillReady, SInv, Signals, TInv, Typed
    <3> QED
      BY <1>2, <3>1, <3>2
  <2>6. Booting'
    BY <2>1, <2>2, <2>4 DEF SInv, Booting, Local
  <2>7. /\ ~Contains(ready, cpu) /\ ~Contains(ready, current)
        /\ Top \notin {"sArm", "sSwitch"}
    BY <2>1 DEF SInv, InLine, Away
  <2>8. Distinct(ready') /\ \A u : Contains(ready', u) => Contains(ready, u)
    <3>1. ready \in Seq(Threads) /\ Distinct(ready)
      BY DEF SInv, InLine, TInv, Typed
    <3>2. ready' = ready \/ (Contains(ready, t) /\ ready' = MakeHead(ready, t))
      BY <1>2 DEF KillSelf, KillReady, lib
    <3> QED
      BY <2>1, <3>1, <3>2, HeadOnce
  <2> HIDE DEF t
  <2> QED
    BY <2>2, <2>3, <2>4, <2>5, <2>6, <2>7, <2>8, LocalStep
<1> QED
  BY <1>1, <1>2

(* Each step of the library.                                               *)
LEMMA LibrarySafe == ASSUME TInv, SInv, Library PROVE SInv'
<1> QED
  BY FillSafe, SetSafe, BootSafe, CreateFailsSafe, CreateSafe, JoinSafe,
     ExitSafe, KillSafe DEF Library

-----------------------------------------------------------------------------
(* The steps of the handler keep SInv.                                     *)

(* Saving the context, or leaving for the completed queue.                 *)
LEMMA SaveSafe ==
  ASSUME TInv, SInv, SSave
  PROVE  SInv'
<1>1. /\ Top = "sSave" /\ current # Nobody /\ cpu = current
      /\ Goto("sResume") /\ cpu' = cpu
  BY DEF SSave, At, SInv, Own
<1>2. cpu \in Threads /\ stack[cpu] \in Stacks /\ stack \in [Threads -> Stacks]
  BY DEF TInv, Typed
<1>3. "sResume" \in Labels
  BY DEF Labels, HandlerLabels
<1>4. Local("sResume")
  BY <1>1, <1>3, GoesOn DEF SInv
<1>5. stack'[cpu] = WithTop(stack[cpu], "sResume")
  BY <1>1, <1>2 DEF Goto
<1>6. Len(stack'[cpu]) = Len(stack[cpu])
  BY <1>2, <1>5 DEF WithTop, Stacks
<1>7. /\ context'[cpu] = [stack |-> cpu, frame |-> Len(stack[cpu])]
      /\ \A t \in Threads : t # cpu => context'[t] = context[t]
  BY <1>1, <1>2 DEF SSave, Saved, TInv, Typed
<1>8. UNCHANGED <<state, boot, current, ready, sig, sent, raised, exec, armed, timer>>
  BY DEF SSave, clock, program, history
<1>9. Top' = "sResume" /\ Below'
  BY <1>4 DEF Local
<1>10. Timing' /\ Booting' /\ Signals'
  BY <1>1, <1>8, <1>9 DEF SInv, Timing, Booting, Signals, Protected
<1>11. Own' /\ Switched'
  BY <1>1, <1>6, <1>7, <1>8, <1>9 DEF Own, Switched
<1>12. Born'
  BY <1>1, <1>4, <1>7, <1>8 DEF SInv, Born, Entry, Local, Threads
<1>13. ~Contains(ready, cpu) /\ ~Contains(ready, current)
  BY <1>1 DEF SInv, InLine, Away
<1>14. ASSUME NEW t \in Threads, Contains(ready, t) PROVE Continues(t)'
  <2>1. t # cpu /\ Continues(t)
    BY <1>13, <1>14 DEF SInv, InLine
  <2>2. stack'[t] = stack[t] /\ context'[t] = context[t]
    BY <1>4, <1>7, <2>1 DEF Local
  <2> QED
    BY <2>1, <2>2 DEF Continues, Entry
<1>15. InLine'
  BY <1>1, <1>8, <1>13, <1>14 DEF SInv, InLine
<1> QED
  BY <1>9, <1>10, <1>11, <1>12, <1>15 DEF SInv

(* A thread that has exited is put in the completed queue.                 *)
LEMMA RetireSafe ==
  ASSUME TInv, SInv, SRetire
  PROVE  SInv'
<1>1. /\ Top = "sSave" /\ Goto("sNext") /\ cpu' = cpu
      /\ UNCHANGED <<state, context, boot, current, ready, sig, exec, clock,
                     sent, raised>>
  BY DEF SRetire, At, program, history
<1>2. "sNext" \in Labels \ {"boot", "sArm", "sSwitch", "sResume"}
  BY DEF Labels, HandlerLabels
<1>3. Local("sNext") /\ Top' = "sNext"
  BY <1>1, <1>2, GoesOn DEF SInv, Local
<1>4. Timing' /\ Signals'
  BY <1>1, <1>3 DEF SInv, Timing, Signals, Protected, clock
<1>5. Top \notin Away \cup {"user", "boot"}
  BY <1>1 DEF Away
<1> QED
  BY <1>1, <1>2, <1>3, <1>4, <1>5, InsideStep

(* The second return of getcontext.                                        *)
LEMMA ResumedSafe ==
  ASSUME TInv, SInv, SResumed
  PROVE  SInv'
<1>1. /\ Top = "sResume" /\ Goto("sOn") /\ cpu' = cpu
      /\ UNCHANGED <<state, context, boot, current, ready, sig, sent>>
  BY DEF SResumed, At
<1>2. "sOn" \in Safe /\ "sOn" \in Labels \ {"boot", "sArm", "sSwitch", "sResume"}
  BY DEF Labels, HandlerLabels, Safe
<1>3. Local("sOn")
  BY <1>1, <1>2, GoesOn DEF SInv
<1>4. current \in Threads /\ current # Nobody
  BY <1>1, HasCurrent, ThreadsAssumption DEF Late
<1>5. cpu = current
  BY <1>1, <1>4 DEF SInv, Own
<1>6. Signals'
  BY <1>1, <1>4, <1>5 DEF SResumed, SignalLeft, RaiseSig, SInv, Signals
<1>7. Top \notin Away \cup {"user", "boot"}
  BY <1>1 DEF Away
<1> QED
  BY <1>1, <1>2, <1>3, <1>6, <1>7, InsideStep

(* The first return of getcontext: the thread gets in line.                *)
LEMMA PreemptedSafe ==
  ASSUME TInv, SInv, SPreempted
  PROVE  SInv'
<1>1. /\ Top = "sResume" /\ Goto("sNext") /\ cpu' = cpu
      /\ exec[current] = 0 /\ ready' = Enqueue(ready, current)
      /\ UNCHANGED <<context, boot, current, sig, exec, armed, timer, sent, raised>>
  BY DEF SPreempted, At, clock, program, history
<1>2. current \in Threads /\ current # Nobody
  BY <1>1, HasCurrent, ThreadsAssumption DEF Late
<1>3. cpu = current /\ stack[cpu] \in Stacks /\ stack \in [Threads -> Stacks]
  BY <1>1, <1>2 DEF SInv, Own, TInv, Typed
<1>4. "sNext" \in Labels
  BY DEF Labels, HandlerLabels
<1>5. Local("sNext")
  BY <1>1, <1>4, GoesOn DEF SInv
<1>6. Top' = "sNext" /\ Below'
  BY <1>5 DEF Local
<1>7. Len(stack'[cpu]) = Len(stack[cpu])
  <2>1. stack'[cpu] = WithTop(stack[cpu], "sNext")
    BY <1>1, <1>2, <1>3 DEF Goto
  <2> QED
    BY <1>3, <2>1 DEF WithTop, Stacks
<1>8. Timing' /\ Booting' /\ Own' /\ Switched' /\ Signals'
  BY <1>1, <1>2, <1>3, <1>6
  DEF SInv, Timing, Booting, Own, Switched, Signals, Protected
<1>9. ready \in Seq(Threads) /\ Distinct(ready) /\ ~Contains(ready, current)
  BY <1>1 DEF SInv, InLine, TInv, Typed
<1>10. /\ Distinct(ready')
       /\ \A t : Contains(ready', t) <=> t = current \/ Contains(ready, t)
  BY <1>1, <1>2, <1>9, Enqueued
<1>11. \A t \in Threads : state'[t] = "UNBORN" <=> state[t] = "UNBORN"
  <2>1. state[current] # "UNBORN"
    BY <1>2 DEF SInv, Born
  <2> QED
    BY <2>1 DEF SPreempted, TInv, Typed
<1>12. Born'
  BY <1>1, <1>2, <1>3, <1>5, <1>10, <1>11 DEF SInv, Born, Entry, Local, Threads
<1>13. ASSUME NEW t \in Threads, Contains(ready', t) PROVE Continues(t)'
  <2>1. CASE t = current
    <3>1. context[t] = [stack |-> t, frame |-> Len(stack[t])]
      BY <1>1, <1>3, <2>1 DEF SInv, Switched
    <3>2. context'[t] = [stack |-> t, frame |-> Len(stack'[t])]
      BY <1>1, <1>3, <1>7, <2>1, <3>1
    <3>3. stack'[t][Len(stack'[t])] = "sNext"
      BY <1>1, <1>3, <1>6, <2>1 DEF Top
    <3> QED
      BY <3>2, <3>3 DEF Continues, Away
  <2>2. CASE t # current
    <3>1. Continues(t)
      BY <1>10, <1>13, <2>2 DEF SInv, InLine
    <3>2. stack'[t] = stack[t] /\ context'[t] = context[t]
      BY <1>1, <1>3, <1>5, <2>2 DEF Local
    <3> QED
      BY <3>1, <3>2 DEF Continues, Entry
  <2> QED
    BY <2>1, <2>2
<1>14. InLine'
  BY <1>6, <1>10, <1>13 DEF InLine, Away
<1> QED
  BY <1>6, <1>8, <1>12, <1>14 DEF SInv

(* While the handler is choosing a thread the processor's own one, if it   *)
(* has saved its context, goes on being fit to continue.                   *)
LEMMA StaysFit ==
  ASSUME TInv, SInv, Top \in Away, NEW l \in Away, Goto(l), cpu' = cpu,
         context' = context, NEW t \in Threads, Continues(t)
  PROVE  Continues(t)'
<1>1. l \in Labels /\ "user" \notin Away
  BY DEF Away, Labels, HandlerLabels
<1>2. Local(l)
  BY <1>1, GoesOn DEF SInv
<1>3. CASE t = cpu
  <2>1. stack[t] \in Stacks /\ stack' = [stack EXCEPT ![t] = WithTop(stack[t], l)]
    BY <1>3 DEF TInv, Goto
  <2>2. stack'[t] = WithTop(stack[t], l)
    BY <2>1 DEF TInv
  <2>3. Len(stack'[t]) = Len(stack[t]) /\ stack'[t][Len(stack'[t])] = l
    BY <1>2, <1>3, <2>1, <2>2 DEF WithTop, Stacks
  <2>4. stack[t] # <<"user">>
    <3>1. Len(<<"user">>) = 1 /\ <<"user">>[1] = "user"
      OBVIOUS
    <3>2. stack[t] = <<"user">> => Top = "user"
      BY <1>3, <3>1 DEF Top
    <3> QED
      BY <1>1, <3>2
  <2> QED
    BY <2>3, <2>4 DEF Continues
<1>4. CASE t # cpu
  <2>1. stack'[t] = stack[t]
    BY <1>2, <1>4 DEF Local
  <2> QED
    BY <2>1 DEF Continues, Entry
<1> QED
  BY <1>3, <1>4

(* The head of the ready queue becomes current_thread.                     *)
LEMMA NextSafe ==
  ASSUME TInv, SInv, SNext
  PROVE  SInv'
<1>0. PICK h : h = Head(ready)
  OBVIOUS
<1>1. /\ Top = "sNext" /\ Goto("sArm") /\ cpu' = cpu /\ ready # <<>>
      /\ current' = h /\ ready' = Tail(ready)
      /\ UNCHANGED <<context, boot, sig, armed, sent, raised>>
  BY <1>0 DEF SNext, At, program, history
<1>2. current \in Threads /\ current # Nobody
  BY <1>1, HasCurrent, ThreadsAssumption DEF Late
<1>3. "sArm" \in Labels /\ "sArm" \in Away /\ "sNext" \in Away
  BY DEF Labels, HandlerLabels, Away
<1>4. Local("sArm")
  BY <1>1, <1>3, GoesOn DEF SInv
<1>5. Top' = "sArm" /\ Below' /\ cpu \in Threads
  BY <1>4 DEF Local, TInv, Typed
<1>6. ready \in Seq(Threads) /\ Distinct(ready)
  BY DEF SInv, InLine, TInv, Typed
<1>7. /\ h \in Threads /\ Contains(ready, h) /\ ~Contains(ready', h)
      /\ \A t : Contains(ready', t) => Contains(ready, t)
      /\ Distinct(ready')
  <2>1. /\ Len(ready) \in Nat /\ Len(ready) >= 1 /\ h = ready[1]
        /\ Len(ready') = Len(ready) - 1
        /\ \A i \in 1..Len(ready') : ready'[i] = ready[i + 1]
        /\ DOMAIN ready = 1..Len(ready) /\ DOMAIN ready' = 1..Len(ready')
    BY <1>0, <1>1, <1>6
  <2>2. 1 \in 1..Len(ready) /\ \A i \in 1..Len(ready') : i + 1 \in 1..Len(ready)
    BY <2>1
  <2>3. h \in Threads /\ Contains(ready, h)
    BY <1>6, <2>1, <2>2 DEF Contains
  <2>4. \A i \in 1..Len(ready') : ready'[i] # h
    BY <1>6, <2>1, <2>2 DEF Distinct
  <2>5. Distinct(ready')
    BY <1>6, <2>1, <2>2 DEF Distinct
  <2>6. ASSUME NEW t, Contains(ready', t) PROVE Contains(ready, t)
    BY <2>1, <2>2, <2>6 DEF Contains
  <2> QED
    BY <2>1, <2>3, <2>4, <2>5, <2>6 DEF Contains
<1>8. /\ exec'[h] = 1
      /\ \A t \in Threads : state'[t] = "UNBORN" => state[t] = "UNBORN" /\ t # h
  BY <1>0, <1>7 DEF SNext, TInv, Typed
<1>9. Continues(h)' /\ \A t \in Threads : Contains(ready', t) => Continues(t)'
  BY <1>1, <1>3, <1>7, StaysFit DEF SInv, InLine
<1>10. h # Nobody
  BY <1>7, ThreadsAssumption
<1>11. Timing' /\ Booting' /\ Own' /\ Switched' /\ Signals'
  BY <1>1, <1>2, <1>5, <1>8, <1>9, <1>10
  DEF SInv, Timing, Booting, Own, Switched, Signals, Protected
<1>12. Born'
  <2>1. ASSUME NEW t \in Children, state'[t] = "UNBORN"
        PROVE  context'[t] = Entry(t) /\ stack'[t] = <<"user">> /\ t # cpu'
    BY <1>1, <1>4, <1>8, <2>1 DEF SInv, Born, Local, Threads
  <2>2. ASSUME NEW t \in Threads, Contains(ready', t) PROVE state'[t] # "UNBORN"
    BY <1>7, <1>8, <2>2 DEF SInv, Born
  <2>3. state'[current'] # "UNBORN"
    BY <1>1, <1>7, <1>8
  <2> QED
    BY <2>1, <2>2, <2>3 DEF Born, Entry
<1>13. InLine'
  BY <1>1, <1>3, <1>5, <1>7, <1>9 DEF InLine
<1> QED
  BY <1>5, <1>11, <1>12, <1>13 DEF SInv

(* The timer is set for the thread that comes next.                        *)
LEMMA ArmSafe ==
  ASSUME TInv, SInv, SArm
  PROVE  SInv'
<1>1. /\ Top = "sArm" /\ Goto("sSwitch") /\ cpu' = cpu
      /\ UNCHANGED <<state, context, boot, current, ready, sig, exec, sent, raised>>
  BY DEF SArm, SetITimer, At, lib, program, history
<1>2. current \in Threads /\ current # Nobody
  BY <1>1, HasCurrent, ThreadsAssumption DEF Late
<1>3. "sSwitch" \in Labels /\ "sSwitch" \in Away /\ "sArm" \in Away
  BY DEF Labels, HandlerLabels, Away
<1>4. Local("sSwitch")
  BY <1>1, <1>3, GoesOn DEF SInv
<1>5. Top' = "sSwitch" /\ Below' /\ cpu \in Threads
  BY <1>4 DEF Local, TInv, Typed
<1>6. Continues(current)' /\ \A t \in Threads : Contains(ready', t) => Continues(t)'
  BY <1>1, <1>2, <1>3, StaysFit DEF SInv, InLine, Switched
<1>7. Timing' /\ Booting' /\ Own' /\ Switched' /\ Signals'
  BY <1>1, <1>2, <1>5, <1>6
  DEF SInv, Timing, Booting, Own, Switched, Signals, Protected
<1>8. Born'
  BY <1>1, <1>4 DEF SInv, Born, Entry, Local, Threads
<1>9. ~Contains(ready', current')
  BY <1>1 DEF SInv, InLine
<1>10. InLine'
  BY <1>1, <1>3, <1>5, <1>6, <1>9 DEF SInv, InLine
<1> QED
  BY <1>5, <1>7, <1>8, <1>10 DEF SInv

(* The switch comes to current_thread's own stack, at the beginning of its *)
(* routine or in the handler's frame on top.                               *)
LEMMA SwitchesTo ==
  ASSUME TInv, SInv, SSwitch, NEW c, c = current
  PROVE  /\ current' = c /\ c \in Threads /\ c # Nobody
         /\ UNCHANGED <<state, context, boot, ready, sig, exec, sent, raised>>
         /\ stack[c] \in Stacks /\ Len(stack[c]) \in Nat /\ Len(stack[c]) >= 1
         /\ cpu' = c
         /\ \A t \in Threads : t # c => stack'[t] = stack[t]
         /\ Len(stack'[c]) = Len(stack[c])
         /\ \A i \in 1..Len(stack[c]) - 1 : stack'[c][i] = stack[c][i]
         /\ \/ stack' = stack /\ Top' = "user"
            \/ /\ Top' = "sResume"
               /\ context[c] = [stack |-> c, frame |-> Len(stack[c])]
<1> DEFINE s == stack[c]
<1>1. /\ Top = "sSwitch" /\ current = c /\ current' = c
      /\ UNCHANGED <<state, context, boot, ready, sig, exec, sent, raised>>
  BY DEF SSwitch, At, lib, program, history
<1>2. c \in Threads /\ c # Nobody
  BY <1>1, HasCurrent, ThreadsAssumption DEF Late
<1>3. s \in Stacks /\ s \in Seq(Labels) /\ Len(s) \in Nat /\ Len(s) >= 1
  BY <1>2 DEF TInv, Stacks
<1>4. /\ cpu' = c
      /\ \A t \in Threads : t # c => stack'[t] = stack[t]
      /\ Len(stack'[c]) = Len(s)
      /\ \A i \in 1..Len(s) - 1 : stack'[c][i] = s[i]
      /\ \/ stack' = stack /\ Top' = "user"
         \/ /\ Top' = "sResume"
            /\ context[c] = [stack |-> c, frame |-> Len(s)]
  <2>1. CASE context[c] = Entry(c) /\ s = <<"user">>
    <3>1. stack' = stack /\ cpu' = c
      BY <1>1, <2>1 DEF SSwitch, Entry
    <3>2. stack'[cpu'] = <<"user">>
      BY <2>1, <3>1
    <3>3. Top' = "user"
      BY <3>2 DEF Top
    <3> QED
      BY <3>1, <3>3
  <2>2. CASE context[c] = [stack |-> c, frame |-> Len(s)]
    <3> DEFINE w == WithTop(SubSeq(s, 1, Len(s)), "sResume")
    <3>1. SubSeq(s, 1, Len(s)) = s
      BY <1>3
    <3>2. /\ Len(w) = Len(s) /\ w[Len(s)] = "sResume"
          /\ \A i \in 1..Len(s) - 1 : w[i] = s[i]
      <4>1. w = [s EXCEPT ![Len(s)] = "sResume"]
        BY <3>1 DEF WithTop
      <4> QED
        BY <1>3, <4>1
    <3>3. cpu' = c /\ stack' = [stack EXCEPT ![c] = w]
      BY <1>1, <1>3, <2>2 DEF SSwitch
    <3> HIDE DEF w
    <3>4. stack'[c] = w /\ \A t \in Threads : t # c => stack'[t] = stack[t]
      BY <1>2, <3>3 DEF TInv
    <3>5. Top' = "sResume"
      BY <3>2, <3>3, <3>4 DEF Top
    <3> QED
      BY <2>2, <3>2, <3>3, <3>4, <3>5
  <2> QED
    BY <1>1, <2>1, <2>2 DEF SInv, Switched, Continues
<1> QED
  BY <1>1, <1>2, <1>3, <1>4

(* setcontext.                                                             *)
LEMMA SwitchSafe ==
  ASSUME TInv, SInv, SSwitch
  PROVE  SInv'
<1>0. PICK c : c = current
  OBVIOUS
<1> DEFINE s == stack[c]
<1>1. /\ Top = "sSwitch" /\ current = c /\ current' = c
      /\ UNCHANGED <<state, context, boot, ready, sig, exec, sent, raised>>
  BY <1>0, SwitchesTo DEF SSwitch, At
<1>2. c \in Threads /\ c # Nobody
  BY <1>0, SwitchesTo
<1>4. /\ cpu' = c
      /\ \A t \in Threads : t # c => stack'[t] = stack[t]
      /\ Len(stack'[c]) = Len(s)
      /\ \A i \in 1..Len(s) - 1 : stack'[c][i] = s[i]
      /\ \/ stack' = stack /\ Top' = "user"
         \/ /\ Top' = "sResume"
            /\ context[c] = [stack |-> c, frame |-> Len(s)]
  BY <1>0, SwitchesTo
<1> HIDE DEF s
<1>5. Timing' /\ Booting' /\ Own' /\ Switched' /\ Signals'
  BY <1>1, <1>2, <1>4
  DEF SInv, Timing, Booting, Own, Switched, Signals, Protected, s
<1>6. Below'
  BY <1>2, <1>4 DEF SInv, Below, s
<1>7. Born'
  BY <1>1, <1>2, <1>4 DEF SInv, Born, Entry, Threads
<1>8. ~Contains(ready, c)
  BY <1>1 DEF SInv, InLine
<1>9. ASSUME NEW t \in Threads, Contains(ready, t) PROVE Continues(t)'
  <2>1. t # c /\ Continues(t)
    BY <1>8, <1>9 DEF SInv, InLine
  <2>2. stack'[t] = stack[t] /\ context'[t] = context[t]
    BY <1>1, <1>4, <2>1
  <2> QED
    BY <2>1, <2>2 DEF Continues, Entry
<1>10. InLine'
  BY <1>1, <1>4, <1>8, <1>9 DEF SInv, InLine
<1> QED
  BY <1>5, <1>6, <1>7, <1>10 DEF SInv

(* The handler returns, with or without the timer.                         *)
LEMMA ReturnSafe ==
  ASSUME TInv, SInv, SReturn \/ SIdle
  PROVE  SInv'
<1>1. /\ Top \in {"sReturn", "sNext"} /\ Return /\ cpu' = cpu
      /\ UNCHANGED <<lib, sent, raised>>
  BY DEF SReturn, SIdle, At, program, history
<1>2. Top \notin CallLabels /\ Top \notin {"sArm", "sSwitch", "user", "boot"}
  BY <1>1 DEF CallLabels
<1>3. PICK l \in Safe : Local(l)
  BY <1>1, <1>2, ReturnsOn DEF SInv
<1>4. l \in Labels \ {"boot", "sArm", "sSwitch", "sResume"}
  BY DEF Safe, Labels, CallLabels, HandlerLabels
<1>5. Booting' /\ Signals'
  BY <1>1, <1>2, <1>3, <1>4 DEF SInv, Booting, Signals, Local, lib
<1>6. ~Contains(ready, cpu) /\ ~Contains(ready, current)
  <2>1. CASE SReturn
    BY <2>1 DEF SReturn, At, SInv, InLine, Away
  <2>2. CASE SIdle
    BY <2>2 DEF SIdle, Contains
  <2> QED
    BY <2>1, <2>2
<1>7. Distinct(ready') /\ \A t : Contains(ready', t) => Contains(ready, t)
  BY <1>1 DEF SInv, InLine, lib
<1> QED
  BY <1>1, <1>2, <1>3, <1>4, <1>5, <1>6, <1>7, LocalStep DEF lib

(* Each step of the handler.                                               *)
LEMMA SchedulerSafe == ASSUME TInv, SInv, Scheduler PROVE SInv'
<1> QED
  BY FillSafe, SetSafe, SaveSafe, RetireSafe, PreemptedSafe, ResumedSafe,
     NextSafe, ArmSafe, SwitchSafe, ReturnSafe DEF Scheduler

(* The timer goes off: never in Protected, and never in a window.          *)
LEMMA TickSafe ==
  ASSUME TickAt \subseteq Quiet, TInv, SInv, Tick
  PROVE  SInv'
<1>1. /\ armed /\ Top \in TickAt /\ cpu' = cpu
      /\ stack' = [stack EXCEPT ![cpu] = Append(@, "sClear")]
      /\ UNCHANGED <<lib, clock, sent, raised>>
  BY DEF Tick, program, history
<1>2. Top \in Safe
  BY <1>1 DEF Quiet, Labels, CallLabels, HandlerLabels, Windows, SInv, Timing,
              Protected, Safe
<1>3. Local("sClear")
  BY <1>1, <1>2, TicksOn DEF SInv
<1>4. /\ "sClear" \in Safe
      /\ "sClear" \in Labels \ {"boot", "sArm", "sSwitch", "sResume"}
      /\ Top \notin {"sArm", "sSwitch"}
  BY <1>2 DEF Safe, Labels, CallLabels, HandlerLabels
<1>5. Booting' /\ Signals'
  BY <1>1, <1>3 DEF SInv, Booting, Signals, Local, lib
<1>6. ~Contains(ready, cpu) /\ ~Contains(ready, current) /\ Distinct(ready')
  BY <1>1, <1>2 DEF SInv, InLine, Away, Safe, lib
<1>7. \A t : Contains(ready', t) => Contains(ready, t)
  BY <1>1 DEF lib
<1> QED
  BY <1>1, <1>3, <1>4, <1>5, <1>6, <1>7, LocalStep DEF lib

(* SInv is inductive, together with TInv.                                  *)
LEMMA SafetyStep ==
  ASSUME TickAt \subseteq Quiet, TInv, SInv, [Next]_vars
  PROVE  SInv'
<1>1. CASE Crash \/ UNCHANGED vars
  BY <1>1 DEF Crash, vars, SInv, Timing, Booting, Below, Own, Born, InLine,
              Switched, Signals, Top, Continues, lib, clock, program, history
<1> QED
  BY <1>1, ProgramSafe, LibrarySafe, SchedulerSafe, TickSafe DEF Next, Over

-----------------------------------------------------------------------------

(* SInv holds in every state, for any threads, calls and nesting.          *)
LEMMA Safety == ASSUME TickAt \subseteq Quiet PROVE Spec => [](TInv /\ SInv)
<1>1. Init => TInv /\ SInv
  BY TypeInit, SafetyInit
<1>2. TInv /\ SInv /\ [Next]_vars => (TInv /\ SInv)'
  BY TypeStep, SafetyStep
<1> QED
  BY <1>1, <1>2, PTL DEF Spec

(* Outside the four windows the timer is off wherever the library touches  *)
(* its queues and the state and return value of the running thread.        *)
THEOREM DataProtected ==
  ASSUME TickAt \subseteq Quiet PROVE Spec => []TimerOffInside
<1>1. SInv => TimerOffInside
  BY DEF SInv, Timing, TimerOffInside
<1> QED
  BY <1>1, Safety, PTL

(* Outside the four windows setcontext never continues a frame that is     *)
(* gone or that of another thread, however deep the handler is nested.     *)
THEOREM SwitchesSafe ==
  ASSUME TickAt \subseteq Quiet PROVE Spec => []ContextsIntact
<1>1. SInv => ContextsIntact
  BY DEF SInv, InLine, Switched, ContextsIntact
<1> QED
  BY <1>1, Safety, PTL

(* Outside the four windows the processor is on the stack of               *)
(* current_thread whenever the program runs.                               *)
THEOREM RunsOnOwnStack ==
  ASSUME TickAt \subseteq Quiet PROVE Spec => []RunsAsCurrent
<1>1. SInv => RunsAsCurrent
  BY DEF SInv, Own, RunsAsCurrent, At
<1> QED
  BY <1>1, Safety, PTL

(* Outside the four windows a signal is raised only in a thread that       *)
(* thread_kill was called for.                                             *)
THEOREM SignalsArrive ==
  ASSUME TickAt \subseteq Quiet PROVE Spec => []SignalOnlyWhereSent
<1>1. SInv => SignalOnlyWhereSent
  BY DEF SInv, Signals, SignalOnlyWhereSent
<1> QED
  BY <1>1, Safety, PTL
=============================================================================

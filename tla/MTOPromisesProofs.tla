-------------------------- MODULE MTOPromisesProofs --------------------------
(***************************************************************************)
(* The many-to-one scheduler keeps what it promises: preemption is lost    *)
(* and the process crashes only where they are known to, the scheduler is  *)
(* a round robin, and thread_join answers as thread.h says; for any set of *)
(* threads and any bounds, when the timer goes off anywhere but in the     *)
(* four windows.                                                           *)
(*                                                                         *)
(* The safety of the data is not enough for that.  PInv follows each       *)
(* thread through the queues, and each call from its beginning to its      *)
(* answer.                                                                 *)
(***************************************************************************)
EXTENDS MTOSchedulerProofs

Lists == INSTANCE SequenceTheorems

(* How deep the processor's stack is, and where each thread's own code is. *)
Height == Len(stack[cpu])
Bottom(t) == stack[t][1]

(* Every thread runs, waits for its turn or has finished.                  *)
Queued ==
  /\ \A t \in Threads : Contains(ready, t) => state[t] = "RUNNABLE"
  /\ \A t \in Threads : state[t] # "UNBORN" =>
        t = current \/ Contains(ready, t) \/ Contains(completed, t)
  /\ \A t \in Threads : Contains(completed, t) => state[t] = "EXITED"
  /\ boot # "main" => ready = <<>> /\ completed = <<>>
  /\ current # Nobody => state[Main] # "UNBORN"

(* Before the switch current_thread is the last in the queue it belongs to. *)
Placed ==
  Top = "sNext" =>
    \/ /\ state[current] = "EXITED"
       /\ completed # <<>> /\ completed[Len(completed)] = current
    \/ /\ state[current] # "EXITED"
       /\ ready # <<>> /\ ready[Len(ready)] = current

(* No thread that has exited is continued.                                 *)
Living ==
  Top \in {"sResume", "sOn", "sReturn", "sArm", "sSwitch"} =>
    state[current] # "EXITED"

(* From the moment it has exited a thread goes on with the timer off to    *)
(* the switch, or, when there is nobody left, back into thread_exit's      *)
(* caller and off its stack.                                               *)
Exited == current # Nobody /\ state[current] = "EXITED"

Exiting ==
  /\ call[cpu].op = "exit"
  /\ \/ Height = 1 /\ Top \in {"setret", "yield"}
     \/ Height = 1 /\ Top = "user" /\ ready = <<>>
     \/ Height = 2 /\ Bottom(cpu) = "user"

Falling ==
  /\ call[cpu].op = "return"
  /\ \/ Height = 1 /\ Top = "yield"
     \/ Height = 1 /\ Top \in {"clear", "set", "body", "fallOff"} /\ ready = <<>>
     \/ Height = 2 /\ Bottom(cpu) = "fallOff"

Ending ==
  Exited =>
    /\ ~armed
    /\ ret[current] = final[current] \/ Top = "setret" \/ ready = <<>>
    /\ Exiting \/ Falling
    /\ Height = 2 => Top \in {"sClear", "sDisarm", "sSave", "sNext"}

(* A finished thread has the value it left.                                *)
Valued == \A t \in Threads : state[t] = "EXITED" /\ t # current => ret[t] = final[t]

(* How far a thread's call is, by where its own code is.                   *)
Calling(t) ==
  /\ call[t].op = "join" =>
       IF result[t].code = "none" THEN Bottom(t) \in {"clear", "set", "body", "wait"}
       ELSE Bottom(t) \in {"user", "rearm", "arm"}
  /\ Bottom(t) = "wait" => call[t].arg # t
  /\ Bottom(t) = "boot" => call[t].op = "create"
  /\ Bottom(t) = "setret" => final[t] = "exited"
  /\ state[t] = "EXITED" => final[t] # NULL /\ call[t].op \in {"exit", "return"}
  /\ state[t] # "EXITED" =>
       IF call[t].op \in {"exit", "return"}
       THEN /\ Bottom(t) \in {"clear", "set", "body"}
            /\ final[t] = IF call[t].op = "exit" THEN "exited" ELSE "returned"
            /\ call[t].op = "return" => ret[t] = "returned"
       ELSE final[t] = NULL
  /\ call[t].op \notin {"none", "create"} => current # Nobody

Talking == \A t \in Threads : Calling(t)

(* The timer is on again when a call or the handler is over.               *)
Clockwork ==
  /\ Top \in {"arm", "sReturn", "sArm"} => timer = "on"
  /\ Top = "sSwitch" => armed
  /\ Top = "user" /\ current # Nobody /\ ~armed =>
       result[cpu].code \in {"EINVAL", "ESRCH"} \/ state[cpu] = "EXITED"

(* A boot that came to nothing did so for want of memory.                  *)
Failing ==
  /\ boot = "broken" \/ (current = Nobody /\ boot = "main") => fails > 0
  /\ CrashesOnly

PInv ==
  /\ Queued /\ Placed /\ Living /\ Ending /\ Valued /\ Talking /\ Clockwork
  /\ Failing

-----------------------------------------------------------------------------
(* What the steps of the machine do to the processor's stack, in the terms *)
(* of PInv.                                                                *)

(* The processor comes to label l, and its thread's own code to label b.   *)
Comes(l, b) ==
  /\ cpu' = cpu /\ Top' = l
  /\ \A t \in Threads : stack'[t][1] = IF t = cpu THEN b ELSE stack[t][1]

(* A stack that is one frame deep is in its thread's own code.             *)
LEMMA Shape ==
  ASSUME TInv
  PROVE  /\ cpu \in Threads /\ Height \in Nat /\ Height >= 1
         /\ Top \in CallLabels <=> Height = 1
         /\ Height = 1 => Top = stack[cpu][1]
<1>1. cpu \in Threads /\ stack[cpu] \in Stacks
  BY DEF TInv, Typed
<1>2. /\ Len(stack[cpu]) \in Nat /\ Len(stack[cpu]) >= 1
      /\ \A i \in 1..Len(stack[cpu]) : stack[cpu][i] \in CallLabels <=> i = 1
  BY <1>1 DEF Stacks
<1>3. Len(stack[cpu]) \in 1..Len(stack[cpu])
  BY <1>2
<1> QED
  BY <1>1, <1>2, <1>3 DEF Top, Height

(* The code goes on at l ...                                               *)
LEMMA Goes ==
  ASSUME TInv, Below, NEW l \in Labels, l \in CallLabels <=> Top \in CallLabels,
         Goto(l), cpu' = cpu
  PROVE  /\ Comes(l, IF l \in CallLabels THEN l ELSE stack[cpu][1])
         /\ Height' = Height
<1>1. cpu \in Threads /\ stack[cpu] \in Stacks
  BY DEF TInv, Typed
<1>2. Rewritten(l) /\ Local(l)
  BY Going, GoesOn
<1>3. stack'[cpu] = WithTop(stack[cpu], l)
  BY <1>1 DEF Goto, TInv
<1>4. Len(WithTop(stack[cpu], l)) = Len(stack[cpu])
  BY <1>1 DEF WithTop, Stacks
<1> QED
  BY <1>2, <1>3, <1>4 DEF Comes, Rewritten, Local, Height

(* ... below the handler ...                                               *)
LEMMA Raises ==
  ASSUME TInv, Below, NEW l \in Safe \cap CallLabels, Top \in CallLabels,
         RaiseThen(l), cpu' = cpu
  PROVE  Comes("sClear", l) /\ Height' = 2
<1>1. cpu \in Threads /\ stack[cpu] \in Stacks
  BY DEF TInv, Typed
<1>2. l \in Labels
  BY DEF Labels
<1>3. Rewritten(l) /\ Local("sClear")
  BY <1>2, Raising, RaisesOn
<1>4. stack'[cpu] = Append(WithTop(stack[cpu], l), "sClear")
  BY <1>1 DEF RaiseThen, TInv
<1>5. WithTop(stack[cpu], l) \in Seq(Labels) /\ Len(WithTop(stack[cpu], l)) = 1
  <2>1. Len(stack[cpu]) = 1
    BY Shape DEF Height
  <2> QED
    BY <1>1, <1>2, <2>1 DEF WithTop, Stacks
<1>6. Len(stack'[cpu]) = 2
  <2>1. "sClear" \in Labels
    BY DEF Labels, HandlerLabels
  <2> QED
    BY <1>4, <1>5, <2>1
<1> QED
  BY <1>3, <1>6 DEF Comes, Rewritten, Local, Height

(* ... or is interrupted where it is ...                                   *)
LEMMA Interrupts ==
  ASSUME TInv, Below, Top \in Safe, cpu' = cpu,
         stack' = [stack EXCEPT ![cpu] = Append(@, "sClear")]
  PROVE  Comes("sClear", stack[cpu][1])
<1>1. Rewritten("sClear") /\ Local("sClear")
  BY Ticking, TicksOn
<1>2. "sClear" \notin CallLabels
  BY DEF CallLabels
<1> QED
  BY <1>1, <1>2 DEF Comes, Rewritten, Local

(* ... and goes on after the handler.                                      *)
LEMMA Returns ==
  ASSUME TInv, Below, Top \notin CallLabels, Return, cpu' = cpu
  PROVE  \E l \in Safe : /\ Comes(l, stack[cpu][1])
                         /\ Height' = Height - 1
                         /\ Height = 2 => l = stack[cpu][1]
<1>1. cpu \in Threads /\ stack[cpu] \in Stacks /\ Height >= 2 /\ Height \in Nat
  BY Shape DEF TInv, Typed
<1>2. PICK l \in Safe : Local(l)
  BY ReturnsOn
<1>3. Rewritten("sReturn") /\ "sReturn" \notin CallLabels
  BY Returning DEF CallLabels
<1>4. stack'[cpu] = SubSeq(stack[cpu], 1, Height - 1)
  BY <1>1 DEF Return, TInv, Height
<1>5. Len(stack'[cpu]) = Height - 1
  <2>1. stack[cpu] \in Seq(Labels)
    BY <1>1 DEF Stacks
  <2> QED
    BY <1>1, <1>4, <2>1 DEF Height
<1>6. Comes(l, stack[cpu][1]) /\ Height' = Height - 1
  BY <1>2, <1>3, <1>5 DEF Comes, Rewritten, Local, Height
<1>7. ASSUME Height = 2 PROVE l = stack[cpu][1]
  <2>1. TInv' \/ Top' = stack'[cpu'][Len(stack'[cpu'])]
    BY DEF Top
  <2>2. Len(stack'[cpu']) = 1 /\ Top' = stack'[cpu'][1]
    BY <1>5, <1>6, <1>7 DEF Top, Comes
  <2> QED
    BY <1>1, <1>6, <2>2 DEF Comes
<1> QED
  BY <1>6, <1>7

(* A step of thread c says nothing about the calls of the others.          *)
LEMMA Talk ==
  ASSUME Talking, NEW c,
         \A t \in Threads : t # c =>
           /\ stack'[t][1] = stack[t][1] /\ call'[t] = call[t]
           /\ result'[t] = result[t] /\ final'[t] = final[t] /\ ret'[t] = ret[t]
           /\ state'[t] = "EXITED" <=> state[t] = "EXITED",
         current # Nobody => current' # Nobody,
         c \in Threads => Calling(c)'
  PROVE  Talking'
<1> SUFFICES ASSUME NEW t \in Threads PROVE Calling(t)'
  BY DEF Talking
<1>1. CASE t = c
  BY <1>1
<1>2. CASE t # c
  <2>1. Calling(t)
    BY DEF Talking
  <2> QED
    BY <1>2, <2>1 DEF Calling, Bottom
<1> QED
  BY <1>1, <1>2

(* A step that leaves the queues and the fields of the threads alone.      *)
LEMMA Same ==
  ASSUME PInv, UNCHANGED <<state, ready, completed, boot, current, ret, final>>,
         fails' >= fails, fails \in Nat, fails' \in Nat, proc' # "crashed"
  PROVE  Queued' /\ Valued' /\ Failing'
<1> QED
  BY DEF PInv, Queued, Valued, Failing, CrashesOnly

-----------------------------------------------------------------------------
(* Each step keeps PInv.                                                   *)

(* Before the first call only main runs.                                   *)
LEMMA PromisesInit == Init => PInv
<1> SUFFICES ASSUME Init PROVE PInv
  OBVIOUS
<1>1. cpu = Main /\ Main \in Threads /\ current = Nobody
  BY DEF Init, Threads
<1>2. /\ \A t \in Threads : stack[t] = <<"user">> /\ state[t] = "UNBORN"
      /\ \A t \in Threads : call[t].op = "none" /\ final[t] = NULL
  BY DEF Init, NoCall
<1>3. Top = "user" /\ \A t \in Threads : stack[t][1] = "user"
  BY <1>1, <1>2 DEF Top
<1>4. ready = <<>> /\ completed = <<>> /\ \A t : ~Contains(ready, t) /\ ~Contains(completed, t)
  BY DEF Init, Contains
<1>5. Queued /\ Placed /\ Living /\ Ending /\ Valued /\ Clockwork /\ Failing
  BY <1>1, <1>2, <1>3, <1>4
  DEF Init, Queued, Placed, Living, Ending, Exited, Valued, Clockwork, Failing, CrashesOnly
<1>6. Talking
  BY <1>1, <1>2, <1>3 DEF Talking, Calling, Bottom
<1> QED
  BY <1>5, <1>6 DEF PInv

(* The timer's struct is filled, or passed to setitimer.                   *)
LEMMA TurnKept ==
  ASSUME TInv, SInv, PInv,
         \/ Clear \/ Disarm \/ Rearm \/ Arm \/ SClear \/ SDisarm \/ SOn \/ SArm
  PROVE  PInv'
<1> USE DEF At
<1>1. PICK l \in Labels :
        /\ \/ Top = "clear" /\ l = "set" /\ armed' = armed
           \/ Top = "set" /\ l = "body" /\ armed' = (timer = "on")
           \/ Top = "rearm" /\ l = "arm" /\ timer' = "on"
           \/ Top = "arm" /\ l = "user" /\ armed' = (timer = "on")
           \/ Top = "sClear" /\ l = "sDisarm" /\ armed' = armed
           \/ Top = "sDisarm" /\ l = "sSave" /\ armed' = (timer = "on")
           \/ Top = "sOn" /\ l = "sReturn" /\ timer' = "on"
           \/ Top = "sArm" /\ l = "sSwitch" /\ armed' = (timer = "on")
        /\ Goto(l) /\ cpu' = cpu /\ proc = "up"
        /\ UNCHANGED <<lib, proc, program>>
  BY DEF Clear, Disarm, Rearm, Arm, SClear, SDisarm, SOn, SArm, FillTimer,
     SetITimer, Labels, CallLabels, HandlerLabels
<1>2. /\ UNCHANGED <<state, ready, completed, boot, current, ret>>
      /\ UNCHANGED <<proc, call, result, fails, final>>
  BY <1>1 DEF lib, program, history
<1>3. l \in CallLabels <=> Top \in CallLabels
  BY <1>1 DEF CallLabels
<1>4. /\ cpu' = cpu /\ Top' = l /\ Height' = Height
      /\ \A t \in Threads : t # cpu => stack'[t][1] = stack[t][1]
      /\ cpu \in Threads
      /\ Top \in CallLabels => stack'[cpu][1] = l /\ stack[cpu][1] = Top /\ Height = 1
      /\ Top \notin CallLabels => stack'[cpu][1] = stack[cpu][1] /\ Height # 1
  BY <1>1, <1>3, Goes, Shape DEF SInv, Comes
<1>5. Queued' /\ Valued' /\ Failing'
  BY <1>1, <1>2, Same DEF TInv, Typed
<1>6. PICK c \in Threads : c = cpu
  BY <1>4
<1>7. Calling(c)'
  <2>1. Calling(c)
    BY DEF PInv, Talking
  <2> QED
    BY <1>1, <1>2, <1>4, <1>6, <2>1 DEF Calling, Bottom, CallLabels
<1>8. Talking'
  BY <1>2, <1>4, <1>6, <1>7, Talk DEF PInv
<1>9. Placed' /\ Living' /\ Clockwork'
  BY <1>1, <1>2, <1>4 DEF PInv, Placed, Living, Clockwork
<1>10. Ending'
  <2>1. SUFFICES ASSUME Exited'
                 PROVE  /\ ~armed'
                        /\ (ret[current] = final[current] \/ Top = "setret" \/ ready = <<>>)'
                        /\ (Exiting \/ Falling)'
                        /\ (Height = 2 => Top \in {"sClear", "sDisarm", "sSave", "sNext"})'
    BY DEF Ending
  <2>2. /\ ~armed
        /\ Exiting \/ Falling
        /\ ret[current] = final[current] \/ Top = "setret" \/ ready = <<>>
        /\ Height = 2 => Top \in {"sClear", "sDisarm", "sSave", "sNext"}
    BY <1>2, <2>1 DEF PInv, Ending, Exited
  <2>3. Top \in {"set", "sDisarm"} => timer = "off"
    BY DEF SInv, Timing
  <2>4. \/ Top \in {"clear", "set"} /\ Height = 1 /\ Falling /\ ready = <<>>
        \/ Top \in {"sClear", "sDisarm"} /\ Height = 2
    BY <1>1, <1>4, <2>2 DEF Exiting, Falling, CallLabels
  <2>8. ~armed'
    BY <1>1, <2>2, <2>3, <2>4
  <2>9. /\ Top \in {"clear", "set"} => l \in {"set", "body"}
        /\ Top \in {"sClear", "sDisarm"} => l \in {"sDisarm", "sSave"}
    BY <1>1
  <2>5. CASE Top \in {"clear", "set"} /\ Height = 1 /\ Falling /\ ready = <<>>
    <3>1. l \in {"set", "body"} /\ Height' = 1 /\ ready' = <<>> /\ ~armed'
      BY <1>2, <1>4, <2>5, <2>8, <2>9
    <3>2. Falling'
      BY <1>2, <1>4, <2>5, <3>1 DEF Falling
    <3> QED
      BY <3>1, <3>2
  <2>6. CASE Top \in {"sClear", "sDisarm"} /\ Height = 2
    <3>1. /\ l \in {"sDisarm", "sSave"} /\ Height' = 2 /\ ~armed'
          /\ stack'[cpu][1] = stack[cpu][1] /\ ready' = ready
      BY <1>2, <1>4, <2>6, <2>8, <2>9 DEF CallLabels
    <3>2. (Exiting \/ Falling)'
      BY <1>2, <1>4, <2>2, <2>6, <3>1 DEF Exiting, Falling, Bottom
    <3> QED
      BY <1>2, <1>4, <2>2, <2>6, <3>1, <3>2
  <2> QED
    BY <2>4, <2>5, <2>6
<1> QED
  BY <1>5, <1>8, <1>9, <1>10 DEF PInv

(* A thread that has exited is current_thread or waits no more for it.     *)
LEMMA HasExited ==
  ASSUME TInv, SInv, PInv, Top \notin {"sArm", "sSwitch"}, state[cpu] = "EXITED"
  PROVE  current = cpu /\ Exited
<1>1. cpu \in Threads
  BY Shape
<1>2. call[cpu].op \in {"exit", "return"} /\ current # Nobody
  BY <1>1 DEF PInv, Talking, Calling
<1>3. cpu = current
  BY <1>2 DEF SInv, Own
<1> QED
  BY <1>2, <1>3 DEF Exited

(* The process ends, or nothing happens.                                   *)
LEMMA StillKept ==
  ASSUME PInv, UNCHANGED <<lib, clock, cpu, stack, program>>, CrashesOnly'
  PROVE  PInv'
<1>1. /\ UNCHANGED <<state, ret, boot, current, ready, completed, timer, armed>>
      /\ UNCHANGED <<cpu, stack, call, result, fails, final>>
  BY DEF lib, clock, program, history
<1>2. Top' = Top /\ Height' = Height /\ \A t : Bottom(t)' = Bottom(t)
  BY <1>1 DEF Top, Height, Bottom
<1> QED
  BY <1>1, <1>2
  DEF PInv, Queued, Placed, Living, Ending, Exited, Exiting, Falling, Valued,
      Talking, Calling, Bottom, Clockwork, Failing

(* The program makes a call.                                               *)
LEMMA CallKept ==
  ASSUME TInv, SInv, PInv, NEW op \in AllOps \ {"return"}, NEW arg, StartCall(op, arg),
         NEW l \in {"boot", "clear"}, Goto(l), l = "boot" => op = "create",
         op # "create" => current # Nobody,
         op = "exit" => final' = [final EXCEPT ![cpu] = "exited"],
         op # "exit" => final' = final
  PROVE  PInv'
<1>1. /\ Top = "user" /\ cpu' = cpu /\ proc = "up" /\ proc' = proc
      /\ call[cpu].op # "exit" /\ fails' = fails
      /\ UNCHANGED <<state, ready, completed, boot, current, ret, timer, armed>>
  BY DEF StartCall, At, lib, clock
<1>2. l \in Labels /\ l \in CallLabels /\ Top \in CallLabels
  BY <1>1 DEF Labels, CallLabels
<1>3. Comes(l, l) /\ Height' = Height /\ cpu \in Threads /\ stack[cpu][1] = "user"
  BY <1>1, <1>2, Goes, Shape DEF SInv
<1>4. state[cpu] # "EXITED"
  <2> SUFFICES ASSUME state[cpu] = "EXITED" PROVE FALSE
    OBVIOUS
  <2>1. Exited
    BY <1>1, HasExited
  <2>2. Exiting \/ Falling
    BY <2>1 DEF PInv, Ending
  <2> QED
    BY <1>1, <1>3, <2>2, Shape DEF Exiting, Falling, Bottom, CallLabels
<1>5. ~Exited /\ (current # Nobody => cpu = current)
  BY <1>1, <1>4 DEF SInv, Own, Exited
<1>6. /\ call'[cpu] = [op |-> op, arg |-> arg]
      /\ result'[cpu] = NoResult
      /\ \A t \in Threads : t # cpu => call'[t] = call[t] /\ result'[t] = result[t]
  BY <1>3 DEF StartCall, TInv, Typed
<1>7. /\ \A t \in Threads : t # cpu => final'[t] = final[t]
      /\ final'[cpu] = IF op = "exit" THEN "exited" ELSE final[cpu]
  BY <1>3 DEF TInv, Typed
<1>8. PICK c \in Threads : c = cpu
  BY <1>3
<1>9. Calling(c)'
  <2>1. final[c] = NULL
    BY <1>3, <1>4, <1>8 DEF PInv, Talking, Calling, Bottom
  <2>2. call'[c].op = op /\ result'[c].code = "none" /\ stack'[c][1] = l
    BY <1>3, <1>6, <1>8 DEF NoResult, Comes
  <2> QED
    BY <1>1, <1>4, <1>7, <1>8, <2>1, <2>2 DEF Calling, Bottom, NULL
<1>10. Talking'
  BY <1>1, <1>3, <1>6, <1>7, <1>8, <1>9, Talk DEF PInv, Comes
<1>11. Valued'
  BY <1>1, <1>4, <1>7 DEF PInv, Valued
<1>12. Queued' /\ Failing'
  BY <1>1 DEF PInv, Queued, Failing, CrashesOnly
<1>13. Placed' /\ Living' /\ Clockwork'
  BY <1>3 DEF Comes, Placed, Living, Clockwork
<1>14. Ending'
  BY <1>1, <1>5 DEF Ending, Exited
<1> QED
  BY <1>10, <1>11, <1>12, <1>13, <1>14 DEF PInv

(* A start routine returns.                                                *)
LEMMA RoutineKept ==
  ASSUME TInv, SInv, PInv, ReturnFromRoutine
  PROVE  PInv'
<1>1. /\ Top = "user" /\ cpu' = cpu /\ proc = "up" /\ proc' = proc /\ cpu # Main
      /\ Goto("clear") /\ UNCHANGED <<result, fails, timer, armed>>
      /\ UNCHANGED <<state, ready, completed, boot, current>>
  BY DEF ReturnFromRoutine, At, clock
<1>2. "clear" \in Labels /\ "clear" \in CallLabels /\ Top \in CallLabels
  BY <1>1 DEF Labels, CallLabels
<1>3. Comes("clear", "clear") /\ Height' = Height /\ cpu \in Threads
      /\ stack[cpu][1] = "user" /\ Height = 1
  BY <1>1, <1>2, Goes, Shape DEF SInv
<1>4. current = cpu
  BY <1>1 DEF SInv, Own
<1>5. PICK c \in Threads : c = cpu
  BY <1>3
<1>6. /\ call'[c] = [op |-> "return", arg |-> Nobody] /\ ret'[c] = "returned"
      /\ final'[c] = IF final[c] = NULL THEN "returned" ELSE final[c]
      /\ \A t \in Threads : t # c =>
           call'[t] = call[t] /\ ret'[t] = ret[t] /\ final'[t] = final[t]
  BY <1>5 DEF ReturnFromRoutine, TInv, Typed
<1>7. Calling(c)'
  <2>1. Calling(c) /\ Bottom(c) = "user"
    BY <1>3, <1>5 DEF PInv, Talking, Bottom
  <2>2. call'[c].op = "return" /\ stack'[c][1] = "clear" /\ current # Nobody
    BY <1>3, <1>4, <1>5, <1>6, ThreadsAssumption DEF Comes
  <2> QED
    BY <1>1, <1>6, <2>1, <2>2 DEF Calling, Bottom, NULL
<1>8. Talking'
  BY <1>1, <1>3, <1>5, <1>6, <1>7, Talk DEF PInv, Comes
<1>9. Valued'
  BY <1>1, <1>4, <1>5, <1>6 DEF PInv, Valued
<1>10. Queued' /\ Failing'
  BY <1>1 DEF PInv, Queued, Failing, CrashesOnly
<1>11. Placed' /\ Living' /\ Clockwork'
  BY <1>3 DEF Comes, Placed, Living, Clockwork
<1>12. Ending'
  <2> SUFFICES ASSUME Exited' PROVE Ending'
    BY DEF Ending
  <2>1. Exited
    BY <1>1 DEF Exited
  <2>2. ~armed /\ ready = <<>>
    BY <1>1, <1>3, <2>1 DEF PInv, Ending, Exiting, Falling, CallLabels
  <2>3. Falling'
    BY <1>1, <1>3, <1>5, <1>6, <2>2 DEF Falling, Comes
  <2> QED
    BY <1>1, <1>3, <2>2, <2>3 DEF Ending
<1> QED
  BY <1>8, <1>9, <1>10, <1>11, <1>12 DEF PInv

(* Each step of the program.                                               *)
LEMMA ProgramKept ==
  ASSUME TInv, SInv, PInv, Program
  PROVE  PInv'
<1>1. CASE CallCreate
  BY <1>1, CallKept DEF CallCreate, AllOps
<1>2. ASSUME NEW op \in AllOps, NEW t \in Threads, CallOther(op, t) PROVE PInv'
  BY <1>2, CallKept DEF CallOther, AllOps
<1>3. CASE CallExit
  BY <1>3, CallKept DEF CallExit, AllOps
<1>4. CASE ReturnFromRoutine
  BY <1>4, RoutineKept
<1>5. CASE MainReturns
  BY <1>5, StillKept DEF MainReturns, CrashesOnly
<1> QED
  BY <1>1, <1>2, <1>3, <1>4, <1>5 DEF Program

(* A thread_create that fails, or is not the first any more.               *)
LEMMA FailsKept ==
  ASSUME TInv, SInv, PInv, Boot \/ BootFails \/ CreateFails
  PROVE  PInv'
<1> USE DEF At, AtBody
<1>1. PICK l \in {"clear", "user"} :
        /\ Top \in {"boot", "body"} /\ Goto(l) /\ cpu' = cpu /\ proc = "up" /\ proc' = proc
        /\ UNCHANGED <<state, ready, completed, current, ret, final, call>>
        /\ Top = "body" => call[cpu].op = "create" /\ boot' = boot
        /\ Top = "body" => result' = [result EXCEPT ![cpu] = [code |-> "EINVAL", val |-> NULL]]
        /\ Top = "boot" => boot' = "queues" \/ (boot' = "broken" /\ fails' = fails + 1)
        /\ fails' = fails \/ fails' = fails + 1
        /\ \A t \in Threads : t # cpu => result'[t] = result[t]
  BY DEF Boot, BootFails, CreateFails, FailedAllocation, Answer, program, history, TInv, Typed
<1>2. l \in Labels /\ l \in CallLabels /\ Top \in CallLabels
  BY <1>1 DEF Labels, CallLabels
<1>3. /\ Comes(l, l) /\ cpu \in Threads /\ stack[cpu][1] = Top /\ fails \in Nat
  BY <1>1, <1>2, Goes, Shape DEF SInv, TInv, Typed
<1>4. call[cpu].op = "create" /\ state[cpu] # "EXITED" /\ final[cpu] = NULL
  BY <1>1, <1>3 DEF PInv, Talking, Calling, Bottom
<1>5. (Top = "boot" => boot = "none" /\ current = Nobody) /\ ~Exited
  BY <1>1, <1>4, ThreadsAssumption DEF SInv, Own, Booting, Exited
<1>6. PICK c \in Threads : c = cpu
  BY <1>3
<1>7. Calling(c)'
  BY <1>1, <1>3, <1>4, <1>6 DEF Comes, Calling, Bottom
<1>8. Talking'
  BY <1>1, <1>3, <1>6, <1>7, Talk DEF PInv, Comes
<1>9. Valued' /\ Queued'
  BY <1>1, <1>5 DEF PInv, Valued, Queued
<1>10. Failing'
  BY <1>1, <1>3, <1>5 DEF PInv, Failing, CrashesOnly
<1>11. Placed' /\ Living'
  BY <1>3 DEF Comes, Placed, Living
<1>12. Clockwork'
  <2>1. Top = "body" => result'[cpu].code = "EINVAL"
    BY <1>1, <1>3 DEF TInv, Typed
  <2> QED
    BY <1>1, <1>3, <1>5, <2>1 DEF Comes, Clockwork
<1>13. Ending'
  BY <1>1, <1>5 DEF Ending, Exited
<1> QED
  BY <1>8, <1>9, <1>10, <1>11, <1>12, <1>13 DEF PInv

(* What is in a queue after enqueue.                                       *)
LEMMA PutIn ==
  ASSUME NEW s \in Seq(Threads), NEW x \in Threads
  PROVE  /\ \A t : Contains(Enqueue(s, x), t) <=> t = x \/ Contains(s, t)
         /\ Enqueue(s, x) # <<>> /\ Enqueue(s, x)[Len(Enqueue(s, x))] = x
<1> DEFINE w == Enqueue(s, x)
<1>1. /\ Len(s) \in Nat /\ DOMAIN s = 1..Len(s) /\ w \in Seq(Threads)
      /\ Len(w) = Len(s) + 1 /\ DOMAIN w = 1..Len(w)
      /\ w[Len(s) + 1] = x /\ \A i \in 1..Len(s) : w[i] = s[i]
  BY DEF Enqueue
<1> HIDE DEF w
<1>2. \A i \in 1..Len(w) : i = Len(s) + 1 \/ i \in 1..Len(s)
  BY <1>1
<1>3. ASSUME NEW t PROVE Contains(w, t) <=> t = x \/ Contains(s, t)
  BY <1>1, <1>2 DEF Contains
<1>4. w # <<>> /\ w[Len(w)] = x
  BY <1>1
<1> QED
  BY <1>3, <1>4 DEF w

(* A thread is created, and perhaps main becomes one.                      *)
LEMMA CreateKept ==
  ASSUME TInv, SInv, PInv, NEW t \in Children, Create(t) \/ CreateMainFails(t)
  PROVE  PInv'
<1> USE DEF At, AtBody
<1> DEFINE first == boot = "queues" /\ ~CreateMainFails(t)
<1>1. /\ Top = "body" /\ call[cpu].op = "create" /\ cpu' = cpu /\ proc = "up" /\ proc' = proc
      /\ t \in Threads /\ t # Main /\ state[t] = "UNBORN" /\ Main \in Threads
      /\ ready' = Enqueue(ready, t) /\ boot' = "main"
      /\ UNCHANGED <<completed, ret, call, final>>
      /\ fails' = fails \/ fails' = fails + 1
      /\ \A u \in Threads : u # cpu => result'[u] = result[u]
      /\ IF first THEN current' = Main ELSE current' = current
  BY ThreadsAssumption DEF Create, CreateMainFails, FailedAllocation, Unborn,
     Answer, Threads, history, TInv, Typed
<1>2. CreateMainFails(t) => boot = "queues" /\ fails' = fails + 1
  BY DEF CreateMainFails, FailedAllocation
<1>3. boot # "none" /\ boot # "broken" /\ (boot # "main" => boot = "queues")
  BY <1>1 DEF Create, CreateMainFails, SInv, Booting, TInv, Typed
<1>4. boot = "queues" => current = Nobody /\ cpu = Main
  BY DEF SInv, Booting, Own
<1>5. \A u \in Threads : state'[u] = IF u = t \/ (first /\ u = Main)
                                     THEN "RUNNABLE" ELSE state[u]
  BY <1>1 DEF Create, CreateMainFails, TInv, Typed
<1> HIDE DEF first
<1>6. first => boot = "queues"
  BY DEF first
<1>7. PICK l \in {"user", "rearm", "sClear"} :
        /\ \E b : Comes(l, b) /\ b \in {"user", "rearm"}
        /\ l = "user" => CreateMainFails(t)
  <2>1. Create(t) => RaiseThen("user") \/ Goto("rearm")
    BY DEF Create
  <2>2. CreateMainFails(t) => Goto("user")
    BY DEF CreateMainFails
  <2>3. /\ {"user", "rearm"} \subseteq Safe \cap CallLabels
        /\ {"user", "rearm"} \subseteq Labels /\ Top \in CallLabels
    BY <1>1 DEF Safe, Labels, CallLabels
  <2> QED
    BY <1>1, <2>1, <2>2, <2>3, Goes, Raises DEF SInv
<1>8. cpu' = cpu /\ Top' = l /\ cpu \in Threads
      /\ stack'[cpu][1] \in {"user", "rearm"}
      /\ \A u \in Threads : u # cpu => stack'[u][1] = stack[u][1]
  BY <1>7, Shape DEF Comes
<1>9. stack[cpu][1] = "body" /\ state[cpu] # "EXITED" /\ final[cpu] = NULL
  <2>1. stack[cpu][1] = "body"
    BY <1>1, Shape DEF CallLabels
  <2> QED
    BY <1>1, <1>8, <2>1 DEF PInv, Talking, Calling, Bottom
<1>10. \A u \in Threads : state'[u] = "EXITED" <=> state[u] = "EXITED"
  <2>1. first => state[Main] # "EXITED"
    BY <1>4, <1>6, <1>9
  <2> QED
    BY <1>1, <1>5, <2>1
<1>11. PICK c \in Threads : c = cpu
  BY <1>8
<1>12. Calling(c)'
  BY <1>1, <1>8, <1>9, <1>10, <1>11 DEF Calling, Bottom
<1>13. Talking'
  <2>1. current # Nobody => current' # Nobody
    BY <1>1, ThreadsAssumption
  <2> QED
    BY <1>1, <1>8, <1>10, <1>11, <1>12, <2>1, Talk DEF PInv
<1>14. \A u : Contains(ready', u) <=> u = t \/ Contains(ready, u)
  BY <1>1, PutIn DEF TInv, Typed
<1>15. Queued'
  <2>1. ASSUME NEW u \in Threads, Contains(ready', u) PROVE state'[u] = "RUNNABLE"
    BY <1>5, <1>14, <2>1 DEF PInv, Queued
  <2>2. ASSUME NEW u \in Threads, state'[u] # "UNBORN"
        PROVE  u = current' \/ Contains(ready', u) \/ Contains(completed', u)
    BY <1>1, <1>4, <1>5, <1>6, <1>14, <2>2, ThreadsAssumption DEF PInv, Queued
  <2>3. ASSUME NEW u \in Threads, Contains(completed', u) PROVE state'[u] = "EXITED"
    BY <1>1, <1>10, <2>3 DEF PInv, Queued
  <2>4. current' # Nobody => state'[Main] # "UNBORN"
    BY <1>1, <1>5 DEF PInv, Queued
  <2> QED
    BY <1>1, <2>1, <2>2, <2>3, <2>4 DEF Queued
<1>16. Valued'
  <2>1. ASSUME NEW u \in Threads, state'[u] = "EXITED", u # current' PROVE u # current
    BY <1>1, <1>4, <1>6, <2>1, ThreadsAssumption
  <2> QED
    BY <1>1, <1>10, <2>1 DEF PInv, Valued
<1>17. Failing'
  <2>1. current' = Nobody => fails' > 0
    <3>1. fails \in Nat /\ Nobody # Main
      BY ThreadsAssumption DEF TInv, Typed, Threads
    <3>2. CASE CreateMainFails(t)
      BY <1>2, <3>1, <3>2
    <3>3. CASE ~CreateMainFails(t) /\ boot = "queues"
      BY <1>1, <3>1, <3>3 DEF first
    <3>4. CASE boot = "main"
      <4>1. ~first
        BY <1>6, <3>4
      <4> QED
        BY <1>1, <3>1, <3>4, <4>1 DEF PInv, Failing
    <3> QED
      BY <1>3, <3>2, <3>3, <3>4
  <2> QED
    BY <1>1, <2>1 DEF Failing, CrashesOnly
<1>18. Placed' /\ Living'
  BY <1>8 DEF Placed, Living
<1>19. Clockwork'
  <2>1. Top' = "user" => current' = Nobody
    <3>1. first => ~CreateMainFails(t)
      BY DEF first
    <3> QED
      BY <1>1, <1>2, <1>4, <1>7, <1>8, <3>1
  <2> QED
    BY <1>8, <2>1 DEF Clockwork
<1>20. Ending'
  <2>1. ~Exited'
    <3>1. CASE first
      BY <1>1, <1>5, <3>1 DEF Exited
    <3>2. CASE ~first
      <4>1. ~Exited
        BY <1>1, <1>9, ThreadsAssumption DEF SInv, Own, Exited
      <4>2. current' = current
        BY <1>1, <3>2
      <4> QED
        BY <1>10, <4>1, <4>2 DEF Exited, TInv, Typed
    <3> QED
      BY <3>1, <3>2
  <2> QED
    BY <2>1 DEF Ending
<1> QED
  BY <1>13, <1>15, <1>16, <1>17, <1>18, <1>19, <1>20 DEF PInv

(* A call of a living thread is answered, or it has to wait.               *)
LEMMA AnswerKept ==
  ASSUME TInv, SInv, PInv, Top \in {"body", "wait"}, proc = "up",
         call[cpu].op \in {"join", "kill", "kill0", "killBad"},
         UNCHANGED <<state, ret, boot, current, completed, timer, armed>>,
         UNCHANGED <<proc, call, fails, final>>,
         \A t \in Threads : Contains(ready', t) <=> Contains(ready, t),
         \A t \in Threads : t # cpu => result'[t] = result[t],
         NEW l, NEW b \in {"user", "rearm", "wait"}, Comes(l, b), l = b \/ l = "sClear",
         l = "user" => result'[cpu].code \in {"EINVAL", "ESRCH"},
         call[cpu].op = "join" =>
           IF b = "wait" THEN result'[cpu].code = "none"
           ELSE b = "rearm" /\ result'[cpu].code # "none",
         b = "wait" => call[cpu].arg # cpu
  PROVE  PInv'
<1>1. /\ cpu \in Threads /\ cpu' = cpu /\ Top' = l /\ stack'[cpu][1] = b
      /\ \A t \in Threads : t # cpu => stack'[t][1] = stack[t][1]
      /\ l \in {"user", "rearm", "wait", "sClear"}
  BY Shape DEF Comes
<1>2. current # Nobody /\ state[cpu] # "EXITED" /\ final[cpu] = NULL
  BY <1>1 DEF PInv, Talking, Calling
<1>3. cpu = current /\ boot = "main"
  BY <1>2 DEF SInv, Own, Booting
<1>4. PICK c \in Threads : c = cpu
  BY <1>1
<1>5. Calling(c)'
  BY <1>1, <1>2, <1>4 DEF Calling, Bottom
<1>6. Talking'
  BY <1>1, <1>4, <1>5, Talk DEF PInv
<1>7. Queued' /\ Valued' /\ Failing'
  BY <1>3 DEF PInv, Queued, Valued, Failing, CrashesOnly
<1>8. Placed' /\ Living' /\ Clockwork'
  BY <1>1 DEF Placed, Living, Clockwork
<1>9. Ending'
  BY <1>2, <1>3 DEF Ending, Exited
<1> QED
  BY <1>6, <1>7, <1>8, <1>9 DEF PInv

(* thread_join.                                                            *)
LEMMA JoinKept ==
  ASSUME TInv, SInv, PInv, Join \/ JoinWaits \/ JoinDone
  PROVE  PInv'
<1> USE DEF At, AtBody
<1>1. /\ Top \in {"body", "wait"} /\ cpu' = cpu /\ proc = "up"
      /\ UNCHANGED <<state, ret, boot, current, completed, timer, armed>>
      /\ UNCHANGED <<proc, call, fails, final, ready>>
  BY DEF Join, JoinWaits, JoinDone, Reply, lib, clock, program, history
<1>2. cpu \in Threads /\ Top \in CallLabels /\ stack[cpu][1] = Top
  <2>1. Top \in CallLabels
    BY <1>1 DEF CallLabels
  <2> QED
    BY <2>1, Shape
<1>3. call[cpu].op = "join"
  BY <1>1, <1>2 DEF Join, JoinWaits, JoinDone, TInv, Called
<1>4. cpu = current /\ result[cpu].code = "none"
  BY <1>1, <1>2, <1>3 DEF PInv, Talking, Calling, Bottom, SInv, Own
<1>5. /\ {"rearm", "wait"} \subseteq Labels \cap CallLabels
      /\ {"rearm", "wait"} \subseteq Safe \cap CallLabels
  BY DEF Labels, CallLabels, Safe
<1>6. \A code, val : Answer(code, val) =>
        /\ result'[cpu].code = code
        /\ \A t \in Threads : t # cpu => result'[t] = result[t]
  BY <1>2 DEF Answer, TInv, Typed
<1>7. ASSUME NEW code \in Codes \ {"none"}, NEW val, Reply(code, val, "rearm")
      PROVE  PInv'
  <2>1. Comes("rearm", "rearm")
    BY <1>1, <1>2, <1>5, <1>7, Goes DEF Reply, SInv
  <2>2. Answer(code, val)
    BY <1>7 DEF Reply
  <2> QED
    BY <1>1, <1>3, <1>6, <2>1, <2>2, AnswerKept
<1>8. ASSUME Goto("wait") \/ RaiseThen("wait"), UNCHANGED result, call[cpu].arg # cpu
      PROVE  PInv'
  <2>1. PICK l \in {"wait", "sClear"} : Comes(l, "wait")
    BY <1>1, <1>2, <1>5, <1>8, Goes, Raises DEF SInv
  <2> QED
    BY <1>1, <1>3, <1>4, <1>8, <2>1, AnswerKept
<1>9. CASE Join
  <2>1. {"EDEADLK", "EINVAL", "ok", "ESRCH"} \subseteq Codes \ {"none"}
    BY DEF Codes
  <2> QED
    BY <1>4, <1>7, <1>8, <1>9, <2>1 DEF Join, program
<1>10. CASE JoinWaits
  BY <1>2, <1>8, <1>10 DEF JoinWaits, program, PInv, Talking, Calling, Bottom
<1>11. CASE JoinDone
  BY <1>7, <1>11 DEF JoinDone, Codes
<1> QED
  BY <1>9, <1>10, <1>11

(* makeheadthread loses nobody.                                            *)
LEMMA HeadKeeps ==
  ASSUME NEW s \in Seq(Threads), NEW x \in Threads, Contains(s, x), NEW y, Contains(s, y)
  PROVE  Contains(MakeHead(s, x), y)
<1> DEFINE i == FirstOf(s, x)
           w == [j \in DOMAIN s |-> IF j = 1 THEN x
                                    ELSE IF j <= i THEN s[j - 1] ELSE s[j]]
<1>1. /\ Len(s) \in Nat /\ DOMAIN s = 1..Len(s)
      /\ i \in 1..Len(s) /\ s[i] = x
  BY FirstFound
<1>2. MakeHead(s, x) = w
  BY DEF MakeHead
<1> HIDE DEF i
<1>3. PICK k \in 1..Len(s) : s[k] = y
  BY <1>1 DEF Contains
<1>4. DOMAIN w = 1..Len(s)
  BY <1>1
<1>5. CASE k < i
  <2>1. k + 1 \in 1..Len(s) /\ w[k + 1] = y
    BY <1>1, <1>3, <1>5
  <2> QED
    BY <1>2, <1>4, <2>1 DEF Contains
<1>6. CASE k = i
  <2>1. 1 \in 1..Len(s) /\ w[1] = y
    BY <1>1, <1>3, <1>6
  <2> QED
    BY <1>2, <1>4, <2>1 DEF Contains
<1>7. CASE k > i
  <2>1. k # 1 /\ w[k] = y
    BY <1>1, <1>3, <1>7
  <2> QED
    BY <1>2, <1>3, <1>4, <2>1 DEF Contains
<1> QED
  BY <1>1, <1>5, <1>6, <1>7

(* thread_kill.                                                            *)
LEMMA KillKept ==
  ASSUME TInv, SInv, PInv,
         KillInvalid \/ KillZero \/ KillSelf \/ KillReady \/ KillNotFound
  PROVE  PInv'
<1> USE DEF At, AtBody
<1>1. /\ Top = "body" /\ cpu' = cpu /\ proc = "up"
      /\ call[cpu].op \in {"kill", "kill0", "killBad"}
      /\ UNCHANGED <<state, ret, boot, current, completed, timer, armed>>
      /\ UNCHANGED <<proc, call, fails, final>>
  BY DEF KillInvalid, KillZero, KillSelf, KillReady, KillNotFound, NotReady,
     Reply, lib, clock, history
<1>2. cpu \in Threads /\ Top \in CallLabels
  BY <1>1, Shape DEF CallLabels
<1>3. \A code, val : Answer(code, val) =>
        /\ result'[cpu].code = code
        /\ \A t \in Threads : t # cpu => result'[t] = result[t]
  BY <1>2 DEF Answer, TInv, Typed
<1>4. PICK l \in {"user", "rearm", "sClear"}, b \in {"user", "rearm"} :
        Comes(l, b) /\ (l = b \/ l = "sClear") /\
        (l = "user" => KillInvalid \/ KillNotFound)
  <2>1. {"user", "rearm"} \subseteq Labels \cap (Safe \cap CallLabels)
    BY DEF Labels, CallLabels, Safe
  <2> QED
    BY <1>1, <1>2, <2>1, Goes, Raises
    DEF KillInvalid, KillZero, KillSelf, KillReady, KillNotFound, Reply, SInv
<1>5. \A t \in Threads : t # cpu => result'[t] = result[t]
  BY <1>3 DEF KillInvalid, KillZero, KillSelf, KillReady, KillNotFound, Reply
<1>6. KillInvalid \/ KillNotFound => result'[cpu].code \in {"EINVAL", "ESRCH"}
  BY <1>3 DEF KillInvalid, KillNotFound, Reply
<1>7. \A t \in Threads : Contains(ready', t) <=> Contains(ready, t)
  <2>1. CASE KillReady
    <3> DEFINE x == call[cpu].arg
    <3>1. x \in Threads /\ Contains(ready, x) /\ ready' = MakeHead(ready, x)
      BY <1>2, <2>1 DEF KillReady, TInv, Called
    <3>2. ready \in Seq(Threads) /\ Distinct(ready)
      BY DEF TInv, Typed, SInv, InLine
    <3> HIDE DEF x
    <3> QED
      BY <3>1, <3>2, HeadOnce, HeadKeeps
  <2>2. CASE ~KillReady
    BY <2>2 DEF KillInvalid, KillZero, KillSelf, KillNotFound, Reply, lib
  <2> QED
    BY <2>1, <2>2
<1> QED
  BY <1>1, <1>4, <1>5, <1>6, <1>7, AnswerKept

(* thread_exit and the end of setretval, up to the raise.                  *)
LEMMA ExitKept ==
  ASSUME TInv, SInv, PInv, Exit
  PROVE  PInv'
<1> USE DEF At, AtBody
<1> DEFINE l == IF call[cpu].op = "exit" THEN "setret" ELSE "yield"
<1>1. /\ Top = "body" /\ call[cpu].op \in {"exit", "return"} /\ proc = "up"
      /\ state' = [state EXCEPT ![current] = "EXITED"] /\ Goto(l)
      /\ UNCHANGED <<ret, boot, current, ready, completed, timer, armed, cpu>>
      /\ UNCHANGED <<proc, call, result, fails, final>>
  BY DEF Exit, clock, program, history
<1>2. l \in {"setret", "yield"} /\ l \in Labels /\ l \in CallLabels /\ Top \in CallLabels
  BY <1>1 DEF Labels, CallLabels
<1> HIDE DEF l
<1>3. /\ cpu \in Threads /\ stack[cpu][1] = "body" /\ Height = 1
      /\ Comes(l, l) /\ Height' = 1
  BY <1>1, <1>2, Goes, Shape DEF SInv
<1>4. Calling(cpu) /\ Bottom(cpu) = "body" /\ current # Nobody
  BY <1>1, <1>3 DEF PInv, Talking, Calling, Bottom
<1>5. cpu = current /\ ~armed
  BY <1>1, <1>4 DEF SInv, Own, Timing, Protected
<1>6. /\ state'[cpu] = "EXITED"
      /\ \A t \in Threads : t # cpu => state'[t] = state[t]
  BY <1>1, <1>3, <1>5 DEF TInv, Typed
<1>7. state[cpu] = "EXITED" => Falling /\ ready = <<>> /\ call[cpu].op = "return"
  <2> SUFFICES ASSUME state[cpu] = "EXITED" PROVE Falling /\ ready = <<>>
    BY DEF Falling
  <2>1. Exited
    BY <1>4, <1>5 DEF Exited
  <2> QED
    BY <1>1, <1>3, <2>1 DEF PInv, Ending, Exiting, Falling
<1>8. PICK c \in Threads : c = cpu
  BY <1>3
<1>9. Calling(c)'
  <2>1. final[c] # NULL
    BY <1>1, <1>4, <1>8 DEF Calling, NULL
  <2>2. call[c].op = "exit" => final[c] = "exited"
    BY <1>4, <1>7, <1>8 DEF Calling
  <2>3. stack'[c][1] = l /\ (l = "setret" => call[c].op = "exit")
    BY <1>3, <1>8 DEF Comes, l
  <2> QED
    BY <1>1, <1>2, <1>4, <1>6, <1>8, <2>1, <2>2, <2>3 DEF Calling, Bottom
<1>10. Talking'
  BY <1>1, <1>3, <1>6, <1>8, <1>9, Talk DEF PInv, Comes
<1>11. ~Contains(ready, cpu)
  BY <1>1 DEF SInv, InLine, Away
<1>12. Queued' /\ Valued' /\ Failing'
  BY <1>1, <1>5, <1>6, <1>11
  DEF PInv, Queued, Valued, Failing, CrashesOnly, TInv, Typed
<1>13. Placed' /\ Living' /\ Clockwork'
  BY <1>2, <1>3 DEF Comes, Placed, Living, Clockwork
<1>14. Ending'
  <2>1. l = "setret" \/ ready = <<>> \/ ret[current] = final[current]
    BY <1>1, <1>4, <1>5, <1>7 DEF l, Calling
  <2>2. (Exiting \/ Falling)'
    BY <1>1, <1>2, <1>3 DEF Exiting, Falling, Comes, l
  <2> QED
    BY <1>1, <1>3, <1>5, <2>1, <2>2 DEF Ending, Comes
<1> QED
  BY <1>10, <1>12, <1>13, <1>14 DEF PInv

(* thread_exit stores its value.                                           *)
LEMMA SetRetKept ==
  ASSUME TInv, SInv, PInv, SetRet
  PROVE  PInv'
<1>1. /\ Top = "setret" /\ ret' = [ret EXCEPT ![current] = "exited"] /\ proc = "up"
      /\ Goto("yield")
      /\ UNCHANGED <<state, boot, current, ready, completed, timer, armed, cpu>>
      /\ UNCHANGED <<proc, call, result, fails, final>>
  BY DEF SetRet, At, clock, program, history
<1>2. "yield" \in Labels /\ "yield" \in CallLabels /\ Top \in CallLabels
  BY <1>1 DEF Labels, CallLabels
<1>3. /\ cpu \in Threads /\ stack[cpu][1] = "setret" /\ Height = 1
      /\ Comes("yield", "yield") /\ Height' = 1
  BY <1>1, <1>2, Goes, Shape DEF SInv
<1>4. Calling(cpu) /\ Bottom(cpu) = "setret"
  BY <1>3 DEF PInv, Talking, Bottom
<1>5. state[cpu] = "EXITED" /\ final[cpu] = "exited"
  BY <1>4 DEF Calling, NULL
<1>6. current = cpu /\ Exited
  BY <1>1, <1>5, HasExited
<1>7. ~armed /\ call[cpu].op = "exit"
  BY <1>1, <1>3, <1>6 DEF PInv, Ending, Exiting, Falling
<1>8. /\ ret'[cpu] = "exited"
      /\ \A t \in Threads : t # cpu => ret'[t] = ret[t]
  BY <1>1, <1>3, <1>6 DEF TInv, Typed
<1>9. PICK c \in Threads : c = cpu
  BY <1>3
<1>10. Calling(c)'
  BY <1>1, <1>3, <1>4, <1>5, <1>7, <1>9 DEF Calling, Bottom, Comes
<1>11. Talking'
  BY <1>1, <1>3, <1>8, <1>9, <1>10, Talk DEF PInv, Comes
<1>12. Queued' /\ Valued' /\ Failing'
  BY <1>1, <1>6, <1>8 DEF PInv, Queued, Valued, Failing, CrashesOnly
<1>13. Placed' /\ Living' /\ Clockwork'
  BY <1>3 DEF Comes, Placed, Living, Clockwork
<1>14. Ending'
  <2>1. Exiting'
    BY <1>1, <1>3, <1>7 DEF Exiting, Comes
  <2> QED
    BY <1>1, <1>3, <1>5, <1>6, <1>7, <1>8, <2>1 DEF Ending
<1> QED
  BY <1>11, <1>12, <1>13, <1>14 DEF PInv

(* A thread that has exited raises SIGALRM.                                *)
LEMMA YieldKept ==
  ASSUME TInv, SInv, PInv, Yield
  PROVE  PInv'
<1> DEFINE b == IF call[cpu].op = "exit" THEN "user" ELSE "fallOff"
<1>1. /\ Top = "yield" /\ RaiseThen(b) /\ proc = "up"
      /\ UNCHANGED <<state, ret, boot, current, ready, completed, timer, armed, cpu>>
      /\ UNCHANGED <<proc, call, result, fails, final>>
  BY DEF Yield, At, lib, clock, program, history
<1>2. b \in {"user", "fallOff"} /\ b \in Safe \cap CallLabels /\ Top \in CallLabels
  BY <1>1 DEF Safe, CallLabels
<1> HIDE DEF b
<1>3. /\ cpu \in Threads /\ stack[cpu][1] = "yield" /\ Height = 1
      /\ Comes("sClear", b) /\ Height' = 2
  BY <1>1, <1>2, Raises, Shape DEF SInv
<1>4. Calling(cpu) /\ Bottom(cpu) = "yield"
  BY <1>3 DEF PInv, Talking, Bottom
<1>5. PICK c \in Threads : c = cpu
  BY <1>3
<1>6. Calling(c)'
  BY <1>1, <1>2, <1>3, <1>4, <1>5 DEF Calling, Bottom, Comes
<1>7. Talking'
  BY <1>1, <1>3, <1>5, <1>6, Talk DEF PInv, Comes
<1>8. Queued' /\ Valued' /\ Failing'
  BY <1>1, Same DEF TInv, Typed
<1>9. Placed' /\ Living' /\ Clockwork'
  BY <1>3 DEF Comes, Placed, Living, Clockwork
<1>10. Ending'
  <2> SUFFICES ASSUME Exited' PROVE Ending'
    BY DEF Ending
  <2>1. Exited
    BY <1>1 DEF Exited
  <2>2. cpu = current
    BY <1>1, <2>1 DEF SInv, Own, Exited
  <2>3. /\ ~armed /\ call[cpu].op \in {"exit", "return"}
        /\ ret[current] = final[current] \/ ready = <<>>
    BY <1>1, <2>1 DEF PInv, Ending, Exiting, Falling
  <2>4. stack'[cpu'][1] = b /\ Height' = 2 /\ Top' = "sClear"
    BY <1>3 DEF Comes
  <2>5. (Exiting \/ Falling)'
    BY <1>1, <2>3, <2>4 DEF Exiting, Falling, Bottom, b
  <2> QED
    BY <1>1, <2>3, <2>4, <2>5 DEF Ending
<1> QED
  BY <1>7, <1>8, <1>9, <1>10 DEF PInv

(* Each step of the library.                                               *)
LEMMA LibraryKept == ASSUME TInv, SInv, PInv, Library PROVE PInv'
<1>1. CASE FallOff
  BY <1>1, StillKept DEF FallOff, CrashesOnly
<1> QED
  BY <1>1, TurnKept, FailsKept, CreateKept, JoinKept, ExitKept, SetRetKept,
     YieldKept, KillKept DEF Library

(* The handler goes on, or is interrupted, in a thread that lives.         *)
LEMMA InsideKept ==
  ASSUME TInv, SInv, PInv, SSave \/ SResumed \/ (Tick /\ TickAt \subseteq Quiet)
  PROVE  PInv'
<1> USE DEF At
<1>1. /\ cpu' = cpu /\ proc = "up"
      /\ UNCHANGED <<state, ret, boot, current, ready, completed, timer, armed>>
      /\ UNCHANGED <<proc, call, result, fails, final>>
  BY DEF SSave, SResumed, Tick, lib, clock, program, history
<1>2. /\ {"sResume", "sOn"} \subseteq Labels
      /\ {"sResume", "sOn", "sSave"} \cap CallLabels = {}
  BY DEF Labels, CallLabels, HandlerLabels
<1>3. PICK l \in {"sResume", "sOn", "sClear"} :
        Comes(l, stack[cpu][1]) /\ (l # "sClear" => state[current] # "EXITED")
  <2>1. CASE SSave
    BY <1>1, <1>2, <2>1, Goes DEF SSave, SInv
  <2>2. CASE SResumed
    BY <1>1, <1>2, <2>2, Goes DEF SResumed, SInv, PInv, Living
  <2>3. CASE Tick /\ TickAt \subseteq Quiet
    <3>1. Top \in Safe
      BY <2>3 DEF Tick, Quiet, Labels, CallLabels, HandlerLabels, Windows, SInv,
                  Timing, Protected, Safe
    <3> QED
      BY <2>3, <3>1, Interrupts DEF Tick, SInv
  <2> QED
    BY <2>1, <2>2, <2>3
<1>4. cpu \in Threads /\ Top' = l /\ \A t \in Threads : stack'[t][1] = stack[t][1]
  BY <1>3, Shape DEF Comes
<1>5. ~Exited
  <2>1. CASE SSave
    BY <2>1 DEF SSave, Exited
  <2>2. CASE SResumed
    BY <2>2 DEF SResumed, PInv, Living, Exited
  <2>3. CASE Tick
    BY <2>3 DEF Tick, PInv, Ending
  <2> QED
    BY <2>1, <2>2, <2>3
<1>6. Talking'
  BY <1>1, <1>4 DEF PInv, Talking, Calling, Bottom
<1>7. Queued' /\ Valued' /\ Failing'
  BY <1>1, Same DEF TInv, Typed
<1>8. Living'
  BY <1>1, <1>3, <1>4 DEF Living
<1>9. Placed' /\ Clockwork'
  BY <1>4 DEF Placed, Clockwork
<1>10. Ending'
  BY <1>1, <1>5 DEF Ending, Exited
<1> QED
  BY <1>6, <1>7, <1>8, <1>9, <1>10 DEF PInv

(* A thread that has exited is put in the completed queue.                 *)
LEMMA RetireKept ==
  ASSUME TInv, SInv, PInv, SRetire
  PROVE  PInv'
<1>1. /\ Top = "sSave" /\ current # Nobody /\ state[current] = "EXITED"
      /\ completed' = Enqueue(completed, current) /\ Goto("sNext") /\ proc = "up"
      /\ UNCHANGED <<state, ret, boot, current, ready, timer, armed, cpu>>
      /\ UNCHANGED <<proc, call, result, fails, final>>
  BY DEF SRetire, At, clock, program, history
<1>2. current \in Threads /\ boot = "main" /\ fails \in Nat
  BY <1>1 DEF TInv, Typed, SInv, Booting
<1>3. "sNext" \in Labels /\ "sNext" \notin CallLabels /\ Top \notin CallLabels
  BY <1>1 DEF Labels, CallLabels, HandlerLabels
<1>4. Comes("sNext", stack[cpu][1]) /\ Height' = Height /\ cpu \in Threads
  BY <1>1, <1>3, Goes, Shape DEF SInv
<1>5. Top' = "sNext" /\ \A t \in Threads : stack'[t][1] = stack[t][1]
  BY <1>4 DEF Comes
<1>6. /\ \A t : Contains(completed', t) <=> t = current \/ Contains(completed, t)
      /\ completed' # <<>> /\ completed'[Len(completed')] = current
  BY <1>1, <1>2, PutIn DEF TInv, Typed
<1>7. Queued' /\ Valued' /\ Failing'
  BY <1>1, <1>2, <1>6 DEF PInv, Queued, Valued, Failing, CrashesOnly
<1>8. Talking'
  BY <1>1, <1>5 DEF PInv, Talking, Calling, Bottom
<1>9. Placed' /\ Living' /\ Clockwork'
  BY <1>1, <1>5, <1>6 DEF Placed, Living, Clockwork
<1>10. Ending'
  <2>1. Exited
    BY <1>1 DEF Exited
  <2>2. /\ ~armed /\ Height = 2
        /\ ret[current] = final[current] \/ ready = <<>>
        /\ Exiting \/ Falling
    BY <1>1, <1>3, <2>1, Shape DEF PInv, Ending, Exiting, Falling
  <2>3. (Exiting \/ Falling)'
    BY <1>1, <1>4, <1>5, <2>2, Shape DEF Exiting, Falling, Bottom
  <2> QED
    BY <1>1, <1>4, <1>5, <2>2, <2>3 DEF Ending
<1> QED
  BY <1>7, <1>8, <1>9, <1>10 DEF PInv

(* A preempted thread gets in line.                                        *)
LEMMA PreemptedKept ==
  ASSUME TInv, SInv, PInv, SPreempted
  PROVE  PInv'
<1>1. /\ Top = "sResume" /\ proc = "up"
      /\ state' = [state EXCEPT ![current] = "RUNNABLE"]
      /\ ready' = Enqueue(ready, current) /\ Goto("sNext")
      /\ UNCHANGED <<ret, boot, current, completed, timer, armed, cpu>>
      /\ UNCHANGED <<proc, call, result, fails, final>>
  BY DEF SPreempted, At, clock, program, history
<1>2. current \in Threads /\ current # Nobody
  BY <1>1, HasCurrent, ThreadsAssumption DEF Late
<1>3. boot = "main" /\ fails \in Nat /\ state[current] # "EXITED"
  BY <1>1, <1>2 DEF TInv, Typed, SInv, Booting, PInv, Living
<1>4. "sNext" \in Labels /\ "sNext" \notin CallLabels /\ Top \notin CallLabels
  BY <1>1 DEF Labels, CallLabels, HandlerLabels
<1>5. Comes("sNext", stack[cpu][1]) /\ cpu \in Threads
  BY <1>1, <1>4, Goes, Shape DEF SInv
<1>6. Top' = "sNext" /\ \A t \in Threads : stack'[t][1] = stack[t][1]
  BY <1>5 DEF Comes
<1>7. /\ \A t : Contains(ready', t) <=> t = current \/ Contains(ready, t)
      /\ ready' # <<>> /\ ready'[Len(ready')] = current
  BY <1>1, <1>2, PutIn DEF TInv, Typed
<1>8. \A t \in Threads : state'[t] = IF t = current THEN "RUNNABLE" ELSE state[t]
  BY <1>1 DEF TInv, Typed
<1>9. Queued' /\ Valued' /\ Failing'
  BY <1>1, <1>2, <1>3, <1>7, <1>8 DEF PInv, Queued, Valued, Failing, CrashesOnly, Threads
<1>10. Talking'
  BY <1>1, <1>3, <1>6, <1>8 DEF PInv, Talking, Calling, Bottom
<1>11. Placed' /\ Living' /\ Clockwork' /\ Ending'
  BY <1>1, <1>2, <1>6, <1>7, <1>8 DEF Placed, Living, Clockwork, Ending, Exited
<1> QED
  BY <1>9, <1>10, <1>11 DEF PInv

(* What is in a queue after dequeue.                                       *)
LEMMA TakenOut ==
  ASSUME NEW s \in Seq(Threads), s # <<>>
  PROVE  /\ Head(s) \in Threads /\ Contains(s, Head(s))
         /\ \A t : Contains(Tail(s), t) => Contains(s, t)
         /\ \A t : Contains(s, t) => t = Head(s) \/ Contains(Tail(s), t)
<1>1. /\ Len(s) \in Nat /\ Len(s) >= 1 /\ Head(s) = s[1] /\ s[1] \in Threads
      /\ Len(Tail(s)) = Len(s) - 1 /\ DOMAIN Tail(s) = 1..Len(s) - 1
      /\ DOMAIN s = 1..Len(s) /\ \A i \in 1..Len(s) - 1 : Tail(s)[i] = s[i + 1]
  OBVIOUS
<1>2. Contains(s, Head(s))
  BY <1>1 DEF Contains
<1>3. ASSUME NEW t, Contains(Tail(s), t) PROVE Contains(s, t)
  BY <1>1, <1>3 DEF Contains
<1>4. ASSUME NEW t, Contains(s, t), t # Head(s) PROVE Contains(Tail(s), t)
  <2>1. PICK i \in 1..Len(s) : s[i] = t
    BY <1>1, <1>4 DEF Contains
  <2>2. i - 1 \in 1..Len(s) - 1 /\ i - 1 + 1 = i
    BY <1>1, <1>4, <2>1
  <2> QED
    BY <1>1, <2>1, <2>2 DEF Contains
<1> QED
  BY <1>1, <1>2, <1>3, <1>4

(* The head of the ready queue is chosen.                                  *)
LEMMA NextKept ==
  ASSUME TInv, SInv, PInv, SNext
  PROVE  PInv'
<1>0. PICK h : h = Head(ready)
  OBVIOUS
<1>1. /\ Top = "sNext" /\ ready # <<>> /\ current' = h /\ ready' = Tail(ready)
      /\ Goto("sArm") /\ cpu' = cpu /\ timer' = "on" /\ proc = "up"
      /\ UNCHANGED <<ret, boot, completed>>
      /\ UNCHANGED <<proc, call, result, fails, final>>
  BY <1>0 DEF SNext, At, program, history
<1>2. current \in Threads /\ current # Nobody /\ boot = "main" /\ fails \in Nat
  BY <1>1, HasCurrent, ThreadsAssumption DEF Late, TInv, Typed, SInv, Booting
<1>3. /\ h \in Threads /\ h # Nobody /\ Contains(ready, h)
      /\ \A t : Contains(ready', t) => Contains(ready, t)
      /\ \A t : Contains(ready, t) => t = h \/ Contains(ready', t)
  BY <1>0, <1>1, TakenOut, ThreadsAssumption DEF TInv, Typed
<1>4. ~Contains(ready', h)
  <2>1. /\ ready \in Seq(Threads) /\ Len(ready) \in Nat /\ Len(ready) >= 1
        /\ h = ready[1] /\ DOMAIN ready' = 1..Len(ready) - 1
        /\ \A i \in 1..Len(ready) - 1 : ready'[i] = ready[i + 1] /\ i + 1 \in 1..Len(ready)
    BY <1>0, <1>1 DEF TInv, Typed
  <2>2. \A i \in 1..Len(ready) - 1 : ready'[i] # h
    BY <2>1 DEF SInv, InLine, Distinct
  <2> QED
    BY <2>1, <2>2 DEF Contains
<1>5. "sArm" \in Labels /\ "sArm" \notin CallLabels /\ Top \notin CallLabels
  BY <1>1 DEF Labels, CallLabels, HandlerLabels
<1>6. Comes("sArm", stack[cpu][1]) /\ cpu \in Threads
  BY <1>1, <1>5, Goes, Shape DEF SInv
<1>7. Top' = "sArm" /\ \A t \in Threads : stack'[t][1] = stack[t][1]
  BY <1>6 DEF Comes
<1>8. \A t \in Threads : state'[t] = IF t = h THEN "RUNNING" ELSE state[t]
  BY <1>0 DEF SNext, TInv, Typed
<1>9. state[h] = "RUNNABLE"
  BY <1>3 DEF PInv, Queued
<1>10. Contains(completed, current) \/ Contains(ready, current)
  <2>1. \A s \in Seq(Threads) : s # <<>> => Contains(s, s[Len(s)])
    BY DEF Contains
  <2>2. ready \in Seq(Threads) /\ completed \in Seq(Threads)
    BY DEF TInv, Typed
  <2> QED
    BY <1>1, <2>1, <2>2 DEF PInv, Placed
<1>11. Queued'
  <2>1. ASSUME NEW t \in Threads, Contains(ready', t) PROVE state'[t] = "RUNNABLE"
    BY <1>3, <1>4, <1>8, <2>1 DEF PInv, Queued
  <2>2. ASSUME NEW t \in Threads, state'[t] # "UNBORN"
        PROVE  t = current' \/ Contains(ready', t) \/ Contains(completed', t)
    BY <1>1, <1>3, <1>8, <1>10, <2>2 DEF PInv, Queued
  <2>3. ASSUME NEW t \in Threads, Contains(completed', t) PROVE state'[t] = "EXITED"
    BY <1>1, <1>8, <1>9, <2>3 DEF PInv, Queued
  <2>4. state'[Main] # "UNBORN"
    BY <1>2, <1>8 DEF PInv, Queued, Threads
  <2> QED
    BY <1>1, <1>2, <2>1, <2>2, <2>3, <2>4 DEF Queued
<1>12. Valued'
  <2>1. state[current] = "EXITED" => ret[current] = final[current]
    BY <1>1, <1>2 DEF PInv, Ending, Exited
  <2> QED
    BY <1>1, <1>2, <1>8, <2>1 DEF PInv, Valued
<1>13. Talking'
  BY <1>1, <1>3, <1>7, <1>8, <1>9 DEF PInv, Talking, Calling, Bottom
<1>14. Placed' /\ Living' /\ Clockwork'
  BY <1>1, <1>3, <1>7, <1>8 DEF Placed, Living, Clockwork
<1>15. Ending'
  BY <1>1, <1>3, <1>8 DEF Ending, Exited
<1>16. Failing'
  BY <1>1, <1>2, <1>3 DEF PInv, Failing, CrashesOnly
<1> QED
  BY <1>11, <1>12, <1>13, <1>14, <1>15, <1>16 DEF PInv

(* The switch.                                                             *)
LEMMA SwitchKept ==
  ASSUME TInv, SInv, PInv, SSwitch
  PROVE  PInv'
<1>0. PICK c : c = current
  OBVIOUS
<1>1. /\ Top = "sSwitch" /\ proc = "up"
      /\ UNCHANGED <<state, ret, boot, current, ready, completed, timer, armed>>
      /\ UNCHANGED <<proc, call, result, fails, final>>
  BY DEF SSwitch, At, lib, clock, program, history
<1>2. /\ c \in Threads /\ cpu' = c /\ Len(stack[c]) \in Nat /\ Len(stack[c]) >= 1
      /\ \A t \in Threads : t # c => stack'[t] = stack[t]
      /\ \A i \in 1..Len(stack[c]) - 1 : stack'[c][i] = stack[c][i]
      /\ \/ stack' = stack /\ Top' = "user"
         \/ Top' = "sResume" /\ context[c] = [stack |-> c, frame |-> Len(stack[c])]
  BY <1>0, SwitchesTo
<1>3. \A t \in Threads : stack'[t][1] = stack[t][1]
  <2>1. CASE stack' = stack
    BY <2>1
  <2>2. CASE stack' # stack
    <3>1. context[c].frame = Len(stack[c])
      BY <1>2, <2>2
    <3>2. context[c].frame # 1
      BY <1>2 DEF TInv, HandlerContexts
    <3>3. Len(stack[c]) \in Nat /\ Len(stack[c]) >= 1
      BY <1>2
    <3>6. Len(stack[c]) # 1
      BY <3>1, <3>2
    <3>4. 1 \in 1..Len(stack[c]) - 1
      <4>1. \A n \in Nat : n >= 1 /\ n # 1 => 1 \in 1..n - 1
        OBVIOUS
      <4> QED
        BY <3>3, <3>6, <4>1
    <3>5. stack'[c][1] = stack[c][1]
      BY <1>2, <3>4
    <3> QED
      BY <1>2, <3>5
  <2> QED
    BY <2>1, <2>2
<1>4. ~Exited /\ state[current] # "EXITED" /\ armed
  BY <1>1 DEF PInv, Living, Exited, Clockwork
<1>5. Queued' /\ Valued' /\ Failing'
  BY <1>1, Same DEF TInv, Typed
<1>6. Talking'
  BY <1>1, <1>3 DEF PInv, Talking, Calling, Bottom
<1>7. Placed' /\ Living' /\ Clockwork'
  BY <1>1, <1>2, <1>4 DEF Placed, Living, Clockwork
<1>8. Ending'
  BY <1>1, <1>4 DEF Ending, Exited
<1> QED
  BY <1>5, <1>6, <1>7, <1>8 DEF PInv

(* The handler returns, with the timer on ...                              *)
LEMMA ReturnKept ==
  ASSUME TInv, SInv, PInv, SReturn
  PROVE  PInv'
<1>1. /\ Top = "sReturn" /\ armed' = (timer = "on") /\ Return /\ cpu' = cpu
      /\ UNCHANGED <<state, ret, boot, current, ready, completed, timer>>
      /\ UNCHANGED <<proc, call, result, fails, final>> /\ proc = "up"
  BY DEF SReturn, At, lib, program, history
<1>2. PICK l \in Safe : Comes(l, stack[cpu][1])
  BY <1>1, Returns DEF CallLabels, SInv
<1>3. Top' = l /\ \A t \in Threads : stack'[t][1] = stack[t][1]
  BY <1>2 DEF Comes
<1>4. ~Exited /\ state[current] # "EXITED" /\ timer = "on"
  BY <1>1 DEF PInv, Living, Exited, Clockwork
<1>5. armed'
  BY <1>1, <1>4
<1>6. Queued' /\ Valued' /\ Failing'
  BY <1>1, Same DEF TInv, Typed
<1>7. Talking'
  BY <1>1, <1>3 DEF PInv, Talking, Calling, Bottom
<1>8. Placed' /\ Living' /\ Clockwork'
  BY <1>1, <1>3, <1>4, <1>5 DEF Placed, Living, Clockwork, Safe
<1>9. Ending'
  BY <1>1, <1>4 DEF Ending, Exited
<1> QED
  BY <1>6, <1>7, <1>8, <1>9 DEF PInv

(* ... or with the timer off, in the last thread when it has exited.       *)
LEMMA IdleKept ==
  ASSUME TInv, SInv, PInv, SIdle
  PROVE  PInv'
<1>1. /\ Top = "sNext" /\ ready = <<>> /\ armed' = FALSE /\ Return /\ cpu' = cpu
      /\ UNCHANGED <<state, ret, boot, current, ready, completed>>
      /\ UNCHANGED <<proc, call, result, fails, final>> /\ proc = "up"
  BY DEF SIdle, At, lib, program, history
<1>2. current \in Threads /\ current # Nobody
  BY <1>1, HasCurrent, ThreadsAssumption DEF Late
<1>3. Exited
  BY <1>1, <1>2 DEF PInv, Placed, Exited
<1>4. cpu = current /\ cpu \in Threads
  BY <1>1, <1>2 DEF SInv, Own
<1>5. Height = 2 /\ (Exiting \/ Falling)
  BY <1>1, <1>3 DEF PInv, Ending, Exiting, Falling
<1>6. PICK l \in Safe : Comes(l, stack[cpu][1]) /\ Height' = 1 /\ l = stack[cpu][1]
  <2>1. Top \notin CallLabels
    BY <1>1 DEF CallLabels
  <2> QED
    BY <1>1, <1>5, <2>1, Returns DEF SInv
<1>7. /\ Top' = l /\ \A t \in Threads : stack'[t][1] = stack[t][1]
      /\ \/ l = "user" /\ call[cpu].op = "exit"
         \/ l = "fallOff" /\ call[cpu].op = "return"
  BY <1>5, <1>6 DEF Comes, Exiting, Falling, Bottom
<1>8. Queued' /\ Valued' /\ Failing'
  BY <1>1, Same DEF TInv, Typed
<1>9. Talking'
  BY <1>1, <1>7 DEF PInv, Talking, Calling, Bottom
<1>10. Placed' /\ Living' /\ Clockwork'
  BY <1>1, <1>3, <1>4, <1>7 DEF Placed, Living, Clockwork, Exited
<1>11. Ending'
  <2>1. (Exiting \/ Falling)'
    BY <1>1, <1>6, <1>7 DEF Exiting, Falling
  <2> QED
    BY <1>1, <1>6, <2>1 DEF Ending
<1> QED
  BY <1>8, <1>9, <1>10, <1>11 DEF PInv

(* Each step of the handler.                                               *)
LEMMA SchedulerKept == ASSUME TInv, SInv, PInv, Scheduler PROVE PInv'
<1> QED
  BY TurnKept, InsideKept, RetireKept, PreemptedKept, NextKept, SwitchKept,
     ReturnKept, IdleKept DEF Scheduler

(* A crash is one of those that are known.                                 *)
LEMMA CrashKnown ==
  ASSUME TInv, SInv, PInv, Crash
  PROVE  CrashesOnly'
<1> USE DEF At, AtBody
<1>1. /\ proc' = "crashed" /\ UNCHANGED <<boot, current, cpu, call, fails>>
  BY DEF Crash, lib, program, history
<1>2. CASE CreateBroken
  BY <1>1, <1>2 DEF CreateBroken, PInv, Failing, CrashesOnly, SInv, Booting
<1>3. CASE KillWild
  BY <1>1, <1>3 DEF KillWild, NotReady, CrashesOnly
<1>4. CASE SSaveNull
  <2>1. boot \in {"queues", "main", "broken"}
    BY <1>4 DEF SSaveNull, SInv, Booting, TInv, Typed
  <2> QED
    BY <1>1, <1>4, <2>1 DEF SSaveNull, PInv, Failing, CrashesOnly
<1>5. ~SSwitchDead
  <2> SUFFICES ASSUME SSwitchDead PROVE FALSE
    OBVIOUS
  <2>1. current \in Threads /\ Continues(current)
    BY HasCurrent DEF SSwitchDead, Late, SInv, Switched
  <2>2. stack[current] \in Stacks
    BY <2>1 DEF TInv
  <2>3. Len(stack[current]) \in Nat
    BY <2>2 DEF Stacks
  <2>4. /\ context[current].stack = current
        /\ context[current].frame = 0 \/ context[current].frame = Len(stack[current])
    BY <2>1 DEF Continues, Entry
  <2> QED
    BY <2>3, <2>4 DEF SSwitchDead
<1> QED
  BY <1>2, <1>3, <1>4, <1>5 DEF Crash

(* PInv is inductive, together with TInv and SInv.                         *)
LEMMA PromisesStep ==
  ASSUME TickAt \subseteq Quiet, TInv, SInv, PInv, [Next]_vars
  PROVE  PInv'
<1>1. CASE Crash
  BY <1>1, CrashKnown, StillKept DEF Crash
<1>2. CASE UNCHANGED vars
  <2>1. CrashesOnly'
    BY <1>2 DEF vars, lib, program, history, PInv, Failing, CrashesOnly
  <2> QED
    BY <1>2, <2>1, StillKept DEF vars
<1> QED
  BY <1>1, <1>2, ProgramKept, LibraryKept, SchedulerKept, InsideKept DEF Next, Over

(* PInv holds throughout, when the timer keeps out of the windows.         *)
LEMMA Promises ==
  ASSUME TickAt \subseteq Quiet PROVE Spec => [](TInv /\ SInv /\ PInv)
<1>1. Init => TInv /\ SInv /\ PInv
  BY TypeInit, SafetyInit, PromisesInit
<1>2. TInv /\ SInv /\ PInv /\ [Next]_vars => (TInv /\ SInv /\ PInv)'
  BY TypeStep, SafetyStep, PromisesStep
<1> QED
  BY <1>1, <1>2, PTL DEF Spec

-----------------------------------------------------------------------------

(* Outside the four windows no way through the library loses preemption,   *)
(* but for a call that answers EINVAL or ESRCH and for thread_exit in the  *)
(* last thread.                                                            *)
THEOREM StaysPreemptive ==
  ASSUME TickAt \subseteq Quiet PROVE Spec => []PreemptionKept
<1>1. PInv => PreemptionKept
  BY DEF PInv, Clockwork, PreemptionKept, At
<1> QED
  BY <1>1, Promises, PTL

(* Outside the four windows the process crashes in thread_kill, during the *)
(* first thread_create or after it has failed, and nowhere else.           *)
THEOREM CrashesKnown ==
  ASSUME TickAt \subseteq Quiet PROVE Spec => []CrashesOnly
<1>1. PInv => CrashesOnly
  BY DEF PInv, Failing
<1> QED
  BY <1>1, Promises, PTL

-----------------------------------------------------------------------------
(* The round robin.                                                        *)

(* Where the next thread is chosen it is chosen, or nothing happens.       *)
LEMMA OnlyNext ==
  ASSUME TInv, SInv, [Next]_vars, Top = "sNext"
  PROVE  SNext \/ SIdle \/ UNCHANGED vars \/ proc # "up"
<1> USE DEF At, AtBody
<1>1. ~armed
  BY DEF SInv, Timing, Protected
<1>2. ~Program
  BY DEF Program, CallCreate, CallOther, CallExit, ReturnFromRoutine, MainReturns, StartCall
<1>3. ~Library
  BY DEF Library, Clear, Disarm, Rearm, Arm, FillTimer, SetITimer, Boot, BootFails,
         CreateFails, Create, CreateMainFails, Join, JoinWaits, JoinDone, Exit, SetRet,
         Yield, FallOff, KillInvalid, KillZero, KillSelf, KillReady, KillNotFound, NotReady
<1>4. Scheduler => SNext \/ SIdle
  BY DEF Scheduler, SClear, SDisarm, SOn, SArm, FillTimer, SetITimer, SSave, SRetire,
         SPreempted, SResumed, SReturn, SSwitch
<1>5. ~Crash
  BY DEF Crash, CreateBroken, KillWild, NotReady, SSaveNull, SSwitchDead
<1>6. ~Tick
  BY <1>1 DEF Tick
<1> QED
  BY <1>2, <1>3, <1>4, <1>5, <1>6 DEF Next, Over

(* Only SRetire and SPreempted come there.                                 *)
LEMMA Elsewhere ==
  ASSUME TickAt \subseteq Quiet, TInv, SInv, Next, Top # "sNext" \/ SNext \/ SIdle,
         ~SRetire, ~SPreempted
  PROVE  Top' # "sNext"
<1> USE DEF At, AtBody
<1>1. ASSUME NEW m \in Labels \ {"sNext"}, Goto(m), cpu' = cpu PROVE Top' # "sNext"
  BY <1>1, GoesOn DEF SInv, Local
<1>2. ASSUME NEW m \in Safe, RaiseThen(m), cpu' = cpu PROVE Top' # "sNext"
  BY <1>2, RaisesOn DEF SInv, Local
<1>3. ASSUME Return, Top \notin CallLabels, cpu' = cpu PROVE Top' # "sNext"
  BY <1>3, Returns DEF SInv, Comes, Safe
<1>4. CallLabels \cup {"sDisarm", "sSave", "sResume", "sOn", "sReturn", "sArm", "sSwitch"}
        \subseteq Labels \ {"sNext"}
  BY DEF Labels, CallLabels, HandlerLabels
<1>5. ASSUME UNCHANGED <<cpu, stack>>, Top # "sNext" PROVE Top' # "sNext"
  BY <1>5 DEF Top
<1>6. CASE Program
  <2>1. \/ \E m \in {"boot", "clear"} : Goto(m) /\ cpu' = cpu
        \/ UNCHANGED <<cpu, stack>> /\ Top = "user"
    BY <1>6
    DEF Program, CallCreate, CallOther, CallExit, ReturnFromRoutine, MainReturns, StartCall
  <2>2. {"boot", "clear"} \subseteq CallLabels
    BY DEF CallLabels
  <2> QED
    BY <1>1, <1>4, <1>5, <2>1, <2>2
<1>7. CASE Library
  <2>1. \/ \E m \in CallLabels : Goto(m) /\ cpu' = cpu
        \/ \E m \in Safe : RaiseThen(m) /\ cpu' = cpu
        \/ UNCHANGED <<cpu, stack>> /\ Top # "sNext"
    <3>1. CASE Clear \/ Disarm \/ Rearm \/ Arm \/ Boot \/ BootFails \/ CreateFails
      BY <3>1 DEF Clear, Disarm, Rearm, Arm, FillTimer, SetITimer, Boot, BootFails,
                  CreateFails, FailedAllocation, CallLabels
    <3>2. CASE \E t \in Children : Create(t) \/ CreateMainFails(t)
      BY <3>2 DEF Create, CreateMainFails, FailedAllocation, CallLabels, Safe
    <3>3. CASE Join \/ JoinWaits \/ JoinDone
      BY <3>3 DEF Join, JoinWaits, JoinDone, Reply, CallLabels, Safe
    <3>4. CASE Exit \/ SetRet \/ Yield \/ FallOff
      BY <3>4 DEF Exit, SetRet, Yield, FallOff, CallLabels, Safe
    <3>5. CASE KillInvalid \/ KillZero \/ KillSelf \/ KillReady \/ KillNotFound
      BY <3>5 DEF KillInvalid, KillZero, KillSelf, KillReady, KillNotFound, Reply,
                  CallLabels, Safe
    <3> QED
      BY <1>7, <3>1, <3>2, <3>3, <3>4, <3>5 DEF Library
  <2> QED
    BY <1>1, <1>2, <1>4, <1>5, <2>1
<1>8. CASE Scheduler
  <2>1. \/ \E m \in {"sDisarm", "sSave", "sResume", "sOn", "sReturn", "sArm", "sSwitch"} :
             Goto(m) /\ cpu' = cpu
        \/ Return /\ Top \notin CallLabels /\ cpu' = cpu
        \/ SSwitch
    BY <1>8
    DEF Scheduler, SClear, SDisarm, SOn, SArm, FillTimer, SetITimer, SSave, SResumed,
        SReturn, SNext, SIdle, CallLabels
  <2>2. SSwitch => Top' # "sNext"
    BY SwitchesTo
  <2> QED
    BY <1>1, <1>3, <1>4, <2>1, <2>2
<1>9. CASE Crash
  BY <1>5, <1>9 DEF Crash, CreateBroken, KillWild, NotReady, SSaveNull, SSwitchDead
<1>10. CASE Tick
  <2>1. Top \in Safe
    BY <1>10 DEF Tick, Quiet, Labels, CallLabels, HandlerLabels, Windows, SInv,
                 Timing, Protected, Safe
  <2> QED
    BY <1>10, <2>1, Interrupts DEF Tick, SInv, Comes
<1>11. CASE Over
  <2>1. Top # "sNext"
    BY <1>11 DEF Over, SNext, SIdle
  <2> QED
    BY <1>5, <1>11, <2>1 DEF Over, vars
<1> QED
  BY <1>6, <1>7, <1>8, <1>9, <1>10, <1>11 DEF Next

(* makeheadthread moves one thread to the front.                           *)
LEMMA HeadFirst ==
  ASSUME NEW s \in Seq(Threads), NEW x \in Threads, Contains(s, x)
  PROVE  \E i \in DOMAIN s :
           /\ s[i] = x
           /\ MakeHead(s, x) = <<x>> \o SubSeq(s, 1, i - 1) \o SubSeq(s, i + 1, Len(s))
<1> DEFINE i == FirstOf(s, x)
           w == [j \in DOMAIN s |-> IF j = 1 THEN x
                                    ELSE IF j <= i THEN s[j - 1] ELSE s[j]]
           a == SubSeq(s, 1, i - 1)
           b == SubSeq(s, i + 1, Len(s))
           u == <<x>> \o a
           v == u \o b
<1>1. /\ Len(s) \in Nat /\ DOMAIN s = 1..Len(s)
      /\ i \in 1..Len(s) /\ s[i] = x
  BY FirstFound
<1>2. MakeHead(s, x) = w
  BY DEF MakeHead
<1> HIDE DEF i
<1>3. /\ a \in Seq(Threads) /\ Len(a) = i - 1
      /\ \A j \in 1..i - 1 : a[j] = s[j]
  <2>1. \A j \in 1..i - 1 : j \in 1..Len(s)
    BY <1>1
  <2> QED
    BY <1>1, <2>1
<1>4. /\ b \in Seq(Threads) /\ Len(b) = Len(s) - i
      /\ \A j \in 1..Len(s) - i : b[j] = s[i + j]
  <2>1. \A j \in i + 1..Len(s) : s[j] \in Threads
    BY <1>1
  <2>2. /\ b \in Seq(Threads)
        /\ Len(b) = IF i + 1 <= Len(s) THEN Len(s) - (i + 1) + 1 ELSE 0
        /\ \A j \in 1..Len(s) - (i + 1) + 1 : b[j] = s[(i + 1) + j - 1]
    <3>1. i + 1 \in Int /\ Len(s) \in Int
      BY <1>1
    <3> QED
      BY <2>1, <3>1, Lists!SubSeqProperties
  <2>3. Len(s) - (i + 1) + 1 = Len(s) - i /\ \A j \in 1..Len(s) - i : (i + 1) + j - 1 = i + j
    BY <1>1
  <2> HIDE DEF b
  <2>4. Len(b) = Len(s) - i
    <3>1. CASE i + 1 <= Len(s)
      BY <2>2, <2>3, <3>1
    <3>2. CASE ~(i + 1 <= Len(s))
      <4>1. \A m, n \in Nat : n \in 1..m /\ ~(n + 1 <= m) => m - n = 0
        OBVIOUS
      <4>2. i \in Nat
        BY <1>1
      <4> QED
        BY <1>1, <2>2, <3>2, <4>1, <4>2
    <3> QED
      BY <3>1, <3>2
  <2>5. ASSUME NEW j \in 1..Len(s) - i PROVE b[j] = s[i + j]
    BY <2>2, <2>3
  <2> QED
    BY <2>2, <2>4, <2>5
<1> HIDE DEF a, b
<1>5. /\ u \in Seq(Threads) /\ Len(u) = i
      /\ u[1] = x /\ \A j \in 2..i : u[j] = s[j - 1]
  <2>1. \A j \in 2..i : j - 1 \in 1..i - 1
    BY <1>1
  <2>2. /\ u \in Seq(Threads) /\ Len(u) = 1 + Len(a) /\ u[1] = x
        /\ \A j \in 2..1 + Len(a) : u[j] = a[j - 1]
    BY <1>3
  <2> QED
    BY <1>1, <1>3, <2>1, <2>2
<1> HIDE DEF u
<1>6. /\ v \in Seq(Threads) /\ Len(v) = Len(s)
      /\ \A j \in 1..i : v[j] = u[j]
      /\ \A j \in i + 1..Len(s) : v[j] = b[j - i]
  <2>1. /\ v \in Seq(Threads) /\ Len(v) = Len(u) + Len(b)
        /\ \A j \in 1..Len(u) + Len(b) : v[j] = IF j <= Len(u) THEN u[j] ELSE b[j - Len(u)]
    BY <1>4, <1>5, Lists!ConcatProperties
  <2> HIDE DEF v
  <2>2. Len(u) + Len(b) = Len(s)
    BY <1>1, <1>4, <1>5
  <2>3. ASSUME NEW j \in 1..i PROVE v[j] = u[j]
    BY <1>1, <1>5, <2>1, <2>2
  <2>4. ASSUME NEW j \in i + 1..Len(s) PROVE v[j] = b[j - i]
    BY <1>1, <1>5, <2>1, <2>2
  <2> QED
    BY <2>1, <2>2, <2>3, <2>4
<1> HIDE DEF v
<1>7. \A j \in 1..Len(s) : w[j] = v[j]
  <2> SUFFICES ASSUME NEW j \in 1..Len(s) PROVE w[j] = v[j]
    OBVIOUS
  <2>1. CASE j = 1
    BY <1>1, <1>5, <1>6, <2>1
  <2>2. CASE j # 1 /\ j <= i
    BY <1>1, <1>5, <1>6, <2>2
  <2>3. CASE j > i
    <3>1. j - i \in 1..Len(s) - i /\ i + (j - i) = j /\ j # 1 /\ ~(j <= i) /\ j \in i + 1..Len(s)
      BY <1>1, <2>3
    <3>2. v[j] = s[j] /\ w[j] = s[j]
      BY <1>1, <1>4, <1>6, <3>1
    <3> QED
      BY <3>2
  <2> QED
    BY <1>1, <2>1, <2>2, <2>3
<1>8. w = v
  <2>1. w = [j \in 1..Len(s) |-> w[j]] /\ v = [j \in 1..Len(s) |-> v[j]]
    BY <1>1, <1>6
  <2> HIDE DEF w
  <2> QED
    BY <1>7, <2>1
<1> QED
  BY <1>1, <1>2, <1>8 DEF v, u, a, b

Ended == {completed[i] : i \in 1..Len(completed)}

(* Anywhere else the line is the ready queue.                              *)
LEMMA InTurn ==
  ASSUME TInv, TInv'
  PROVE  /\ Top # "sNext" => Line = ready /\ Done = Ended
         /\ Top' # "sNext" => Line' = ready' /\ Done' = Ended'
<1>1. Len(completed) - 0 = Len(completed) /\ Len(completed') - 0 = Len(completed')
  BY DEF TInv, Typed
<1>2. Top # "sNext" => ~Switching /\ ~Retiring
  BY DEF Switching, Retiring, At
<1>3. Top' # "sNext" => ~Switching' /\ ~Retiring'
  BY DEF Switching, Retiring, At
<1> QED
  BY <1>1, <1>2, <1>3 DEF Line, Done, Ended

(* Nobody new is in line or has finished.                                  *)
LEMMA NewIs ==
  ASSUME TInv, SInv, PInv, Top # "sNext", NEW t \in Threads, state[t] = "UNBORN"
  PROVE  /\ ~Contains(ready, t) /\ t \notin Ended
         /\ RR!New(t)
<1>1. t # current
  BY ThreadsAssumption DEF SInv, Born
<1>2. ~Contains(ready, t) /\ ~Contains(completed, t)
  BY DEF PInv, Queued
<1>3. t \notin Ended /\ t \notin {ready[i] : i \in DOMAIN ready}
  <2>1. DOMAIN completed = 1..Len(completed)
    BY DEF TInv, Typed
  <2> QED
    BY <1>2, <2>1 DEF Contains, Ended
<1>4. Line = ready /\ Done = Ended
  <2>1. ~Switching /\ ~Retiring /\ Len(completed) - 0 = Len(completed)
    BY DEF Switching, Retiring, At, TInv, Typed
  <2> QED
    BY <2>1 DEF Line, Done, Ended
<1> QED
  BY <1>1, <1>2, <1>3, <1>4 DEF RR!New, RR!Waiting

(* thread_create is a thread more.                                         *)
LEMMA CreateTurn ==
  ASSUME TInv, SInv, PInv, TInv', Top' # "sNext",
         NEW t \in Children, Create(t) \/ CreateMainFails(t)
  PROVE  RR!Next
<1>1. /\ Top = "body" /\ call[cpu].op = "create" /\ completed' = completed
      /\ t \in Threads /\ t # Main /\ state[t] = "UNBORN" /\ Main \in Threads
      /\ ready' = Append(ready, t)
  BY ThreadsAssumption DEF Create, CreateMainFails, FailedAllocation, Unborn, Threads,
     AtBody, At, Enqueue
<1>2. /\ Line = ready /\ Done = Ended /\ Line' = ready' /\ Done' = Done
      /\ Line' = Append(Line, t)
  BY <1>1, InTurn DEF Ended
<1>3. RR!New(t)
  BY <1>1, NewIs
<1>4. CASE current' = current
  BY <1>1, <1>2, <1>3, <1>4 DEF RR!Next, RR!Spawn
<1>5. CASE current' # current
  <2>1. boot = "queues" /\ current' = Main /\ current = Nobody /\ boot # "main"
    BY <1>5 DEF Create, CreateMainFails, FailedAllocation, SInv, Booting
  <2>2. ready = <<>> /\ completed = <<>>
    BY <2>1 DEF PInv, Queued
  <2>3. RR!New(Main)
    <3>1. DOMAIN ready = {} /\ Ended = {}
      BY <2>2 DEF Ended
    <3> QED
      BY <1>2, <2>1, <3>1, ThreadsAssumption DEF RR!New, RR!Waiting, Threads
  <2> QED
    BY <1>1, <1>2, <1>3, <2>1, <2>3 DEF RR!Next, RR!Begin
<1> QED
  BY <1>4, <1>5

(* thread_kill changes the order.                                          *)
LEMMA KillTurn ==
  ASSUME TInv, SInv, TInv', Top' # "sNext", KillReady
  PROVE  RR!Next
<1> DEFINE t == call[cpu].arg
<1>1. /\ Top = "body" /\ call[cpu].op = "kill" /\ UNCHANGED <<current, completed>>
      /\ Contains(ready, t) /\ ready' = MakeHead(ready, t)
  BY DEF KillReady, AtBody, At
<1>2. t \in Threads /\ ready \in Seq(Threads)
  BY <1>1 DEF TInv, Typed, Called
<1>3. /\ Line = ready /\ Line' = ready' /\ Done' = Done
  BY <1>1, InTurn DEF Ended
<1> HIDE DEF t
<1>4. \E i \in DOMAIN ready :
        /\ ready[i] = t
        /\ ready' = <<t>> \o SubSeq(ready, 1, i - 1) \o SubSeq(ready, i + 1, Len(ready))
  BY <1>1, <1>2, HeadFirst
<1>5. RR!Promote(t)
  BY <1>1, <1>3, <1>4 DEF RR!Promote
<1> QED
  BY <1>2, <1>5 DEF RR!Next

(* A thread gets in line, or is put to the finished, without a turn.       *)
LEMMA PlaceTurn ==
  ASSUME TInv, SInv, PInv, TInv', SRetire \/ SPreempted
  PROVE  UNCHANGED <<current, Line, Done>>
<1>1. Top # "sNext" /\ proc = "up" /\ proc' = "up" /\ cpu' = cpu /\ Goto("sNext") /\ current' = current
  BY DEF SRetire, SPreempted, At
<1>2. current \in Threads /\ current # Nobody
  BY HasCurrent, ThreadsAssumption DEF SRetire, SPreempted, At, Late, TInv, Typed
<1>3. Top' = "sNext" /\ Switching'
  <2>1. "sNext" \in Labels
    BY DEF Labels, HandlerLabels
  <2> QED
    BY <1>1, <2>1, GoesOn DEF SInv, Local, Switching, At
<1>4. Line = ready /\ Done = Ended
  BY <1>1, InTurn
<1>5. /\ ready \in Seq(Threads) /\ completed \in Seq(Threads)
      /\ Len(ready) \in Nat /\ Len(completed) \in Nat
  BY DEF TInv, Typed
<1>6. CASE SRetire
  <2>1. /\ completed' = Append(completed, current) /\ ready' = ready
        /\ state[current] = "EXITED" /\ state' = state
    BY <1>6 DEF SRetire, Enqueue
  <2>2. Retiring'
    BY <1>1, <1>3, <2>1 DEF Retiring
  <2>3. Line' = ready
    BY <2>1, <2>2 DEF Line
  <2>4. Done' = {completed'[i] : i \in 1..Len(completed') - 1}
    BY <2>2 DEF Done
  <2>5. /\ Len(completed') - 1 = Len(completed)
        /\ \A i \in 1..Len(completed) : completed'[i] = completed[i]
    BY <1>2, <1>5, <2>1
  <2> QED
    BY <1>1, <1>4, <2>3, <2>4, <2>5 DEF Ended
<1>7. CASE SPreempted
  <2>1. /\ ready' = Append(ready, current) /\ completed' = completed
        /\ state'[current] = "RUNNABLE"
    BY <1>2, <1>7 DEF SPreempted, Enqueue, TInv, Typed
  <2>2. ~Retiring'
    BY <1>1, <2>1 DEF Retiring
  <2>3. Line' = SubSeq(ready', 1, Len(ready') - 1)
    BY <1>3, <2>2 DEF Line
  <2>4. Done' = Ended
    <3>1. Len(completed) - 0 = Len(completed)
      BY <1>5
    <3> QED
      BY <2>1, <2>2, <3>1 DEF Done, Ended
  <2>5. SubSeq(ready', 1, Len(ready') - 1) = ready
    BY <1>2, <1>5, <2>1
  <2> QED
    BY <1>1, <1>4, <2>3, <2>4, <2>5
<1> QED
  BY <1>6, <1>7

(* The next thread's turn comes.                                           *)
LEMMA NextTurn ==
  ASSUME TInv, SInv, PInv, TInv', Top' # "sNext", SNext
  PROVE  RR!Next
<1>1. /\ Top = "sNext" /\ proc = "up" /\ ready # <<>> /\ completed' = completed
      /\ current' = Head(ready) /\ ready' = Tail(ready)
  BY DEF SNext, At
<1>2. current \in Threads /\ current # Nobody
  BY <1>1, HasCurrent, ThreadsAssumption DEF Late, TInv, Typed
<1>3. /\ ready \in Seq(Threads) /\ completed \in Seq(Threads)
      /\ Len(ready) \in Nat /\ Len(completed) \in Nat /\ Len(ready) >= 1
  BY <1>1 DEF TInv, Typed
<1>4. Line' = Tail(ready) /\ Done' = Ended
  BY <1>1, InTurn DEF Ended
<1>5. Switching
  BY <1>1 DEF Switching, At
<1>6. CASE state[current] = "EXITED"
  <2>1. Retiring
    BY <1>5, <1>6 DEF Retiring
  <2>2. Line = ready /\ Done = {completed[i] : i \in 1..Len(completed) - 1}
    BY <2>1 DEF Line, Done
  <2>3. completed # <<>> /\ completed[Len(completed)] = current
    BY <1>1, <1>6 DEF PInv, Placed
  <2>4. Ended = Done \cup {current}
    <3>1. /\ Len(completed) \in 1..Len(completed)
          /\ \A i : i \in 1..Len(completed) <=> i \in 1..Len(completed) - 1 \/ i = Len(completed)
      <4>1. Len(completed) >= 1
        BY <1>3, <2>3
      <4> QED
        BY <1>3, <4>1
    <3> QED
      BY <2>2, <2>3, <3>1 DEF Ended
  <2>5. RR!Finish
    BY <1>1, <1>2, <1>4, <2>2, <2>4 DEF RR!Finish
  <2> QED
    BY <2>5 DEF RR!Next
<1>7. CASE state[current] # "EXITED"
  <2>1. ~Retiring
    BY <1>7 DEF Retiring
  <2>2. Line = SubSeq(ready, 1, Len(ready) - 1)
    BY <1>5, <2>1 DEF Line
  <2>3. Done = Ended
    <3>1. Len(completed) - 0 = Len(completed)
      BY <1>3
    <3> QED
      BY <2>1, <3>1 DEF Done, Ended
  <2>4. ready[Len(ready)] = current
    BY <1>1, <1>7 DEF PInv, Placed
  <2>5. Append(SubSeq(ready, 1, Len(ready) - 1), current) = ready
    BY <1>3, <2>4
  <2>6. RR!Rotate
    BY <1>1, <1>2, <1>4, <2>2, <2>3, <2>5 DEF RR!Rotate
  <2> QED
    BY <2>6 DEF RR!Next
<1> QED
  BY <1>6, <1>7

(* The last thread has finished.                                           *)
LEMMA IdleTurn ==
  ASSUME TInv, SInv, PInv, TInv', Top' # "sNext", SIdle
  PROVE  RR!Next
<1>1. /\ Top = "sNext" /\ proc = "up" /\ ready = <<>>
      /\ UNCHANGED <<current, ready, completed>>
  BY DEF SIdle, At, lib
<1>2. current \in Threads /\ current # Nobody
  BY <1>1, HasCurrent, ThreadsAssumption DEF Late, TInv, Typed
<1>3. /\ state[current] = "EXITED" /\ completed # <<>>
      /\ completed[Len(completed)] = current
  BY <1>1 DEF PInv, Placed
<1>4. completed \in Seq(Threads) /\ Len(completed) \in Nat
  BY DEF TInv, Typed
<1>5. Line' = <<>> /\ Done' = Ended
  BY <1>1, InTurn DEF Ended
<1>6. Retiring
  BY <1>1, <1>3 DEF Retiring, Switching, At
<1>7. Line = <<>> /\ Done = {completed[i] : i \in 1..Len(completed) - 1}
  BY <1>1, <1>6 DEF Line, Done
<1>8. Ended = Done \cup {current}
  <2>1. /\ Len(completed) \in 1..Len(completed)
        /\ \A i : i \in 1..Len(completed) <=> i \in 1..Len(completed) - 1 \/ i = Len(completed)
    <3>1. Len(completed) >= 1
      BY <1>3, <1>4
    <3> QED
      BY <1>4, <3>1
  <2> QED
    BY <1>3, <1>7, <2>1 DEF Ended
<1>9. RR!Finish
  BY <1>1, <1>2, <1>5, <1>7, <1>8 DEF RR!Finish
<1> QED
  BY <1>9 DEF RR!Next

(* The other steps touch neither current_thread nor the queues.            *)
LEMMA NoTurn ==
  ASSUME Next, ~SRetire, ~SPreempted, ~SNext, ~SIdle, ~KillReady,
         \A t \in Children : ~Create(t) /\ ~CreateMainFails(t)
  PROVE  UNCHANGED <<current, ready, completed>>
<1>1. CASE Program
  BY <1>1 DEF Program, CallCreate, CallOther, CallExit, ReturnFromRoutine,
              MainReturns, StartCall, lib
<1>2. CASE Library
  <2>1. CASE Clear \/ Disarm \/ Rearm \/ Arm \/ Boot \/ BootFails \/ CreateFails
    BY <2>1 DEF Clear, Disarm, Rearm, Arm, FillTimer, SetITimer, Boot, BootFails,
                CreateFails, FailedAllocation, lib
  <2>2. CASE Join \/ JoinWaits \/ JoinDone
    BY <2>2 DEF Join, JoinWaits, JoinDone, Reply, lib
  <2>3. CASE Exit \/ SetRet \/ Yield \/ FallOff
    BY <2>3 DEF Exit, SetRet, Yield, FallOff, lib
  <2>4. CASE KillInvalid \/ KillZero \/ KillSelf \/ KillNotFound
    BY <2>4 DEF KillInvalid, KillZero, KillSelf, KillNotFound, Reply, lib
  <2> QED
    BY <1>2, <2>1, <2>2, <2>3, <2>4 DEF Library
<1>3. CASE Scheduler
  BY <1>3
  DEF Scheduler, SClear, SDisarm, SOn, SArm, FillTimer, SetITimer, SSave, SResumed,
      SReturn, SSwitch, lib
<1>4. CASE Crash \/ Tick \/ Over
  BY <1>4 DEF Crash, Tick, Over, lib, vars
<1> QED
  BY <1>1, <1>2, <1>3, <1>4 DEF Next

(* Nothing that Line and Done are made of changes.                         *)
LEMMA NothingMoves == UNCHANGED vars => UNCHANGED RR!vars
<1> SUFFICES ASSUME UNCHANGED vars PROVE UNCHANGED RR!vars
  OBVIOUS
<1>1. /\ state' = state /\ proc' = proc /\ cpu' = cpu /\ stack' = stack
      /\ current' = current /\ ready' = ready /\ completed' = completed
  BY DEF vars, lib
<1>2. Switching' = Switching
  BY <1>1 DEF Switching, At, Top
<1>3. Retiring' = Retiring
  BY <1>1, <1>2 DEF Retiring
<1>4. Line' = Line
  BY <1>1, <1>2, <1>3 DEF Line
<1>5. Done' = Done
  BY <1>1, <1>3 DEF Done
<1> QED
  BY <1>1, <1>4, <1>5 DEF RR!vars

(* A process that is not up does nothing.                                  *)
LEMMA Stopped ==
  ASSUME Next, proc # "up" PROVE Over
<1> USE DEF At, AtBody
<1>1. ~Program
  BY DEF Program, CallCreate, CallOther, CallExit, ReturnFromRoutine, MainReturns, StartCall
<1>2. ~Library
  BY DEF Library, Clear, Disarm, Rearm, Arm, FillTimer, SetITimer, Boot, BootFails,
         CreateFails, Create, CreateMainFails, Join, JoinWaits, JoinDone, Exit, SetRet,
         Yield, FallOff, KillInvalid, KillZero, KillSelf, KillReady, KillNotFound, NotReady
<1>3. ~Scheduler
  BY DEF Scheduler, SClear, SDisarm, SOn, SArm, FillTimer, SetITimer, SSave, SRetire,
         SPreempted, SResumed, SReturn, SSwitch, SNext, SIdle
<1>4. ~Crash /\ ~Tick
  BY DEF Crash, CreateBroken, KillWild, NotReady, SSaveNull, SSwitchDead, Tick
<1> QED
  BY <1>1, <1>2, <1>3, <1>4 DEF Next

(* Every step is one of the round robin or none of its business.           *)
LEMMA TurnStep ==
  ASSUME TickAt \subseteq Quiet, TInv, SInv, PInv, [Next]_vars
  PROVE  [RR!Next]_RR!vars
<1>1. TInv'
  BY TypeStep
<1>2. CASE UNCHANGED vars
  BY <1>2, NothingMoves
<1>3. CASE SRetire \/ SPreempted
  BY <1>1, <1>3, PlaceTurn DEF RR!vars
<1>4. CASE Next /\ Top = "sNext" /\ ~(UNCHANGED vars) /\ proc = "up"
  <2>1. SNext \/ SIdle
    BY <1>4, OnlyNext
  <2>2. ~SRetire /\ ~SPreempted
    BY <1>4 DEF SRetire, SPreempted, At
  <2> QED
    BY <1>1, <1>4, <2>1, <2>2, Elsewhere, NextTurn, IdleTurn
<1>5. CASE Next /\ proc # "up"
  <2>1. Over
    BY <1>5, Stopped
  <2> QED
    BY <1>2, <2>1 DEF Over
<1>6. CASE Next /\ Top # "sNext" /\ ~SRetire /\ ~SPreempted
  <2>1. Top' # "sNext"
    BY <1>6, Elsewhere
  <2>2. CASE KillReady
    BY <1>1, <2>1, <2>2, KillTurn
  <2>3. CASE \E t \in Children : Create(t) \/ CreateMainFails(t)
    BY <1>1, <2>1, <2>3, CreateTurn
  <2>4. CASE ~KillReady /\ \A t \in Children : ~Create(t) /\ ~CreateMainFails(t)
    <3>1. ~SNext /\ ~SIdle
      BY <1>6 DEF SNext, SIdle, At
    <3>2. UNCHANGED <<current, ready, completed>>
      BY <1>6, <2>4, <3>1, NoTurn
    <3>3. Line' = Line /\ Done' = Done
      BY <1>1, <1>6, <2>1, <3>2, InTurn DEF Ended
    <3> QED
      BY <3>2, <3>3 DEF RR!vars
  <2> QED
    BY <2>2, <2>3, <2>4
<1> QED
  BY <1>2, <1>3, <1>4, <1>5, <1>6

(* The scheduler is a round robin: of the threads that have not finished   *)
(* one runs and the others wait in one line, from which nobody is lost and *)
(* in which nobody stands twice, however threads are created, killed,      *)
(* preempted and end.                                                      *)
THEOREM RoundRobinKept ==
  ASSUME TickAt \subseteq Quiet PROVE Spec => ImplementsRoundRobin
<1>1. Init => RR!Init
  <2> SUFFICES ASSUME Init PROVE RR!Init
    OBVIOUS
  <2>1. TInv /\ Top # "sNext" /\ ready = <<>> /\ completed = <<>> /\ current = Nobody
    BY TypeInit DEF Init, Top, Threads
  <2>2. ~Switching /\ ~Retiring
    BY <2>1 DEF Switching, Retiring, At
  <2>3. Line = <<>> /\ Done = {}
    BY <2>1, <2>2 DEF Line, Done
  <2> QED
    BY <2>1, <2>3 DEF RR!Init
<1>2. TInv /\ SInv /\ PInv /\ [Next]_vars => [RR!Next]_RR!vars
  BY TurnStep
<1> QED
  BY <1>1, <1>2, Promises, PTL DEF Spec, ImplementsRoundRobin, RR!Spec

-----------------------------------------------------------------------------
(* What thread.h promises.                                                 *)

(* Being unborn, alive or ended, and the value left.                       *)
LEMMA SameLives ==
  ASSUME \A t \in Threads :
           /\ state'[t] = "EXITED" <=> state[t] = "EXITED"
           /\ t # Main => (state'[t] = "UNBORN" <=> state[t] = "UNBORN")
           /\ state[t] = "EXITED" => final'[t] = final[t]
  PROVE  Phase' = Phase /\ Left' = Left
<1> QED
  BY DEF Phase, Left

(* The last thread_join and its answer.                                    *)
LEMMA SameJoins ==
  ASSUME \A t \in Threads :
           /\ call'[t].op = "join" <=> call[t].op = "join"
           /\ call[t].op = "join" => call'[t] = call[t] /\ result'[t] = result[t]
  PROVE  Joins' = Joins
<1> QED
  BY DEF Joins

(* One thread's call changes.                                              *)
LEMMA OneJoin ==
  ASSUME NEW c \in Threads,
         \A t \in Threads : t # c => call'[t] = call[t] /\ result'[t] = result[t]
  PROVE  /\ call'[c].op # "join" => Joins' = [Joins EXCEPT ![c] = AT!NoJoin]
         /\ call'[c].op = "join" =>
              Joins' = [Joins EXCEPT ![c] = [of |-> call'[c].arg, code |-> result'[c].code,
                                             val |-> result'[c].val]]
<1> QED
  BY DEF Joins, AT!NoJoin

(* The program calls only when the last call is over, and not once the     *)
(* thread has exited.                                                      *)
LEMMA Callers ==
  ASSUME TInv, SInv, PInv, Top = "user"
  PROVE  /\ cpu \in Threads /\ stack[cpu][1] = "user"
         /\ ~AT!Waits(cpu)
         /\ call[cpu].op # "exit" => state[cpu] # "EXITED"
         /\ state[cpu] = "EXITED" => final[cpu] # NULL
<1>1. cpu \in Threads /\ stack[cpu][1] = "user" /\ Height = 1
  BY Shape DEF CallLabels
<1>2. Calling(cpu)
  BY <1>1 DEF PInv, Talking
<1>3. ~AT!Waits(cpu)
  <2>1. call[cpu].op = "join" => result[cpu].code # "none"
    BY <1>1, <1>2 DEF Calling, Bottom
  <2> QED
    BY <1>1, <2>1 DEF AT!Waits, Joins
<1>4. ASSUME call[cpu].op # "exit", state[cpu] = "EXITED" PROVE FALSE
  <2>1. Exited
    BY <1>4, HasExited
  <2>2. Exiting \/ Falling
    BY <2>1 DEF PInv, Ending
  <2> QED
    BY <1>1, <1>4, <2>2 DEF Exiting, Falling
<1> QED
  BY <1>1, <1>2, <1>3, <1>4 DEF Calling

(* A call that starts ends the last one.                                   *)
LEMMA CallTalks ==
  ASSUME TInv, SInv, PInv, Top = "user",
         NEW op \in AllOps, NEW arg \in Threads \cup {Nobody}, op = "join" => arg \in Threads,
         call' = [call EXCEPT ![cpu] = [op |-> op, arg |-> arg]],
         result'[cpu] = NoResult \/ op # "join",
         \A t \in Threads : t # cpu => result'[t] = result[t] /\ final'[t] = final[t],
         state[cpu] = "EXITED" => final'[cpu] = final[cpu], state' = state
  PROVE  AT!Next
<1>1. cpu \in Threads /\ ~AT!Waits(cpu)
  BY Callers
<1>2. /\ call'[cpu] = [op |-> op, arg |-> arg]
      /\ \A t \in Threads : t # cpu => call'[t] = call[t]
  BY <1>1 DEF TInv, Typed
<1>3. Phase' = Phase /\ Left' = Left
  BY SameLives
<1>4. CASE op = "join"
  <2>1. Joins' = [Joins EXCEPT ![cpu] = [of |-> arg, code |-> "none", val |-> NULL]]
    <3>1. /\ call'[cpu].op = "join" /\ call'[cpu].arg = arg
          /\ result'[cpu].code = "none" /\ result'[cpu].val = NULL
      BY <1>2, <1>4 DEF NoResult
    <3>2. Joins' = [Joins EXCEPT ![cpu] = [of |-> call'[cpu].arg, code |-> result'[cpu].code,
                                           val |-> result'[cpu].val]]
      BY <1>1, <1>2, <3>1, OneJoin
    <3> QED
      BY <3>1, <3>2
  <2>2. AT!Ask(cpu, arg)
    BY <1>1, <1>3, <2>1 DEF AT!Ask
  <2> QED
    BY <1>1, <1>4, <2>2 DEF AT!Next
<1>5. CASE op # "join"
  <2>1. Joins' = [Joins EXCEPT ![cpu] = AT!NoJoin]
    <3>1. call'[cpu].op # "join"
      BY <1>2, <1>5
    <3> QED
      BY <1>1, <1>2, <3>1, OneJoin
  <2>2. AT!Forget(cpu)
    BY <1>1, <1>3, <2>1 DEF AT!Forget
  <2> QED
    BY <1>1, <2>2 DEF AT!Next
<1> QED
  BY <1>4, <1>5

(* The program's steps.                                                    *)
LEMMA ProgramTalks ==
  ASSUME TInv, SInv, PInv, Program
  PROVE  AT!Next \/ UNCHANGED AT!vars
<1> USE DEF At
<1>1. CASE MainReturns
  <2>1. UNCHANGED <<state, final, call, result>>
    BY <1>1 DEF MainReturns, lib, program, history
  <2> QED
    BY <2>1 DEF AT!vars, Phase, Left, Joins
<1>2. CASE ReturnFromRoutine
  <2>1. /\ Top = "user" /\ state' = state /\ result' = result
        /\ call' = [call EXCEPT ![cpu] = [op |-> "return", arg |-> Nobody]]
    BY <1>2 DEF ReturnFromRoutine
  <2>2. cpu \in Threads /\ (state[cpu] = "EXITED" => final[cpu] # NULL)
    BY <2>1, Callers
  <2>3. /\ \A t \in Threads : t # cpu => final'[t] = final[t]
        /\ state[cpu] = "EXITED" => final'[cpu] = final[cpu]
    BY <1>2, <2>2 DEF ReturnFromRoutine, TInv, Typed
  <2>4. "return" \in AllOps
    BY DEF AllOps
  <2> QED
    BY <2>1, <2>3, <2>4, CallTalks
<1>3. ASSUME NEW op \in AllOps, NEW arg \in Threads \cup {Nobody}, StartCall(op, arg),
             op = "join" => arg \in Threads,
             final' = final \/ final' = [final EXCEPT ![cpu] = "exited"]
      PROVE  AT!Next
  <2>1. /\ Top = "user" /\ state' = state /\ call[cpu].op # "exit"
        /\ call' = [call EXCEPT ![cpu] = [op |-> op, arg |-> arg]]
        /\ result' = [result EXCEPT ![cpu] = NoResult]
    BY <1>3 DEF StartCall, lib
  <2>2. cpu \in Threads /\ state[cpu] # "EXITED"
    BY <2>1, Callers
  <2>3. \A t \in Threads : t # cpu => result'[t] = result[t] /\ final'[t] = final[t]
    BY <1>3, <2>1 DEF TInv, Typed
  <2>4. result'[cpu] = NoResult
    BY <2>1, <2>2 DEF TInv, Typed
  <2> QED
    BY <1>3, <2>1, <2>2, <2>3, <2>4, CallTalks
<1>4. CASE CallCreate
  <2>1. StartCall("create", Nobody) /\ final' = final /\ "create" \in AllOps
    BY <1>4 DEF CallCreate, AllOps
  <2> QED
    BY <1>3, <2>1
<1>5. CASE CallExit
  <2>1. /\ StartCall("exit", Nobody) /\ "exit" \in AllOps
        /\ final' = [final EXCEPT ![cpu] = "exited"]
    BY <1>5 DEF CallExit, AllOps
  <2> QED
    BY <1>3, <2>1
<1>6. CASE \E op \in AllOps, t \in Threads : CallOther(op, t)
  BY <1>3, <1>6 DEF CallOther
<1> QED
  BY <1>1, <1>2, <1>4, <1>5, <1>6 DEF Program

(* thread_create.                                                          *)
LEMMA CreateTalks ==
  ASSUME TInv, SInv, PInv, NEW t \in Children, Create(t) \/ CreateMainFails(t)
  PROVE  AT!Next
<1>1. /\ Top = "body" /\ call[cpu].op = "create" /\ t \in Threads /\ t # Main
      /\ state[t] = "UNBORN" /\ Main \in Threads /\ UNCHANGED <<call, final>>
      /\ \A u \in Threads : u # cpu => result'[u] = result[u]
  BY ThreadsAssumption DEF Create, CreateMainFails, FailedAllocation, Unborn,
     AtBody, At, Answer, Threads, history, TInv, Typed
<1>2. PICK first \in BOOLEAN :
        /\ first => boot = "queues"
        /\ \A u \in Threads : state'[u] = IF u = t \/ (first /\ u = Main)
                                         THEN "RUNNABLE" ELSE state[u]
  <2>1. CASE Create(t)
    <3>1. \A u \in Threads : state'[u] = IF u = t \/ (boot = "queues" /\ u = Main)
                                        THEN "RUNNABLE" ELSE state[u]
      BY <2>1 DEF Create
    <3>2. (boot = "queues") \in BOOLEAN
      OBVIOUS
    <3> QED
      BY <3>1, <3>2
  <2>2. CASE CreateMainFails(t)
    <3>1. \A u \in Threads : state'[u] = IF u = t THEN "RUNNABLE" ELSE state[u]
      BY <1>1, <2>2 DEF CreateMainFails, TInv, Typed
    <3> QED
      BY <3>1
  <2> QED
    BY <2>1, <2>2
<1>3. cpu \in Threads /\ stack[cpu][1] = "body"
  BY <1>1, Shape DEF CallLabels
<1>4. state[cpu] # "EXITED"
  BY <1>1, <1>3 DEF PInv, Talking, Calling
<1>5. first => state[Main] # "EXITED"
  BY <1>2, <1>4 DEF SInv, Booting, Own
<1>6. Phase[t] = "unborn" /\ Phase' = [Phase EXCEPT ![t] = "live"]
  BY <1>1, <1>2, <1>5 DEF Phase
<1>7. Left' = Left
  BY <1>1, <1>2, <1>5 DEF Left
<1>8. Joins' = Joins
  <2>1. \A u \in Threads : call[u].op = "join" => u # cpu
    BY <1>1
  <2> QED
    BY <1>1, <2>1, SameJoins
<1> QED
  BY <1>1, <1>6, <1>7, <1>8 DEF AT!Next, AT!Create

(* The answer of thread_join.                                              *)
LEMMA AnswerTalks ==
  ASSUME TInv, SInv, PInv, Top \in {"body", "wait"}, call[cpu].op = "join",
         NEW code \in Codes \ {"none"}, NEW val, Reply(code, val, "rearm"),
         NEW t, t = call[cpu].arg,
         \/ state[t] = "EXITED" /\ code = "ok" /\ val = final[t]
         \/ state[t] = "UNBORN" /\ t # Main /\ code = "ESRCH" /\ val = NULL
         \/ t = cpu /\ code = "EDEADLK" /\ val = NULL
  PROVE  AT!Next
<1>1. cpu \in Threads /\ stack[cpu][1] = Top
  <2>1. Top \in CallLabels
    BY DEF CallLabels
  <2> QED
    BY <2>1, Shape
<1>2. result[cpu].code = "none"
  BY <1>1 DEF PInv, Talking, Calling, Bottom
<1>3. t \in Threads /\ t # Nobody
  BY <1>1, ThreadsAssumption DEF TInv, Called
<1>4. /\ UNCHANGED <<state, final, call>>
      /\ result' = [result EXCEPT ![cpu] = [code |-> code, val |-> val]]
  BY DEF Reply, Answer, lib, history
<1>5. /\ result'[cpu].code = code /\ result'[cpu].val = val
      /\ \A u \in Threads : u # cpu => result'[u] = result[u]
  BY <1>1, <1>4 DEF TInv, Typed
<1>6. Phase' = Phase /\ Left' = Left
  BY <1>4, SameLives
<1>7. /\ Joins[cpu] = [of |-> t, code |-> "none", val |-> result[cpu].val]
      /\ AT!Waits(cpu) /\ Joins[cpu].of = t
  BY <1>1, <1>2, <1>3 DEF Joins, AT!Waits
<1>8. Joins' = [Joins EXCEPT ![cpu] = [of |-> t, code |-> code, val |-> val]]
  <2>1. Joins' = [Joins EXCEPT ![cpu] = [of |-> call'[cpu].arg, code |-> result'[cpu].code,
                                         val |-> result'[cpu].val]]
    BY <1>1, <1>4, <1>5, OneJoin
  <2> QED
    BY <1>4, <1>5, <2>1
<1>9. Joins' = [Joins EXCEPT ![cpu].code = code, ![cpu].val = val]
  <2>1. DOMAIN Joins = Threads
    BY DEF Joins
  <2> QED
    BY <1>1, <1>7, <1>8, <2>1
<1>10. AT!Reply(cpu, code, val)
  BY <1>6, <1>9 DEF AT!Reply
<1>11. AT!Answer(cpu)
  BY <1>3, <1>7, <1>10 DEF AT!Answer, Phase, Left
<1> QED
  BY <1>1, <1>11 DEF AT!Next

(* thread_join.                                                            *)
LEMMA JoinTalks ==
  ASSUME TInv, SInv, PInv, Join \/ JoinDone
  PROVE  AT!Next \/ UNCHANGED AT!vars
<1> DEFINE t == call[cpu].arg
<1> USE DEF At, AtBody
<1>1. Top \in {"body", "wait"} /\ cpu \in Threads /\ stack[cpu][1] = Top
  <2>1. Top \in {"body", "wait"}
    BY DEF Join, JoinDone
  <2> QED
    BY <2>1, Shape DEF CallLabels
<1>2. call[cpu].op = "join" /\ t \in Threads
  BY <1>1 DEF Join, JoinDone, TInv, Called
<1>3. cpu = current /\ current # Nobody
  BY <1>1, <1>2 DEF PInv, Talking, Calling, SInv, Own
<1>4. ASSUME t # current, state[t] = "EXITED" PROVE Retval(t) = final[t]
  BY <1>2, <1>4 DEF PInv, Valued, Retval
<1> HIDE DEF t
<1>5. {"ok", "ESRCH", "EDEADLK"} \subseteq Codes \ {"none"}
  BY DEF Codes
<1>6. CASE JoinDone
  <2>1. state[t] = "EXITED" /\ Reply("ok", Retval(t), "rearm") /\ t # current
    BY <1>1, <1>3, <1>6 DEF JoinDone, t, PInv, Talking, Calling, Bottom
  <2> QED
    BY <1>1, <1>2, <1>4, <1>5, <2>1, AnswerTalks DEF t
<1>7. CASE Join
  <2>1. CASE t = current /\ Reply("EDEADLK", NULL, "rearm")
    BY <1>1, <1>2, <1>3, <1>5, <2>1, AnswerTalks DEF t
  <2>2. CASE t # current /\ Contains(ready, t)
    <3>1. UNCHANGED <<lib, program>>
      BY <1>2, <1>7, <2>2 DEF Join, t, PInv, Queued
    <3> QED
      BY <3>1 DEF lib, program, history, AT!vars, Phase, Left, Joins
  <2>3. CASE t # current /\ Contains(completed, t) /\ Reply("ok", Retval(t), "rearm")
    <3>1. state[t] = "EXITED"
      BY <1>2, <2>3 DEF PInv, Queued
    <3> QED
      BY <1>1, <1>2, <1>4, <1>5, <2>3, <3>1, AnswerTalks DEF t
  <2>4. CASE /\ t # current /\ ~Contains(ready, t) /\ ~Contains(completed, t)
             /\ Reply("ESRCH", NULL, "rearm")
    <3>1. state[t] = "UNBORN" /\ t # Main
      BY <1>2, <1>3, <2>4 DEF PInv, Queued
    <3> QED
      BY <1>1, <1>2, <1>5, <2>4, <3>1, AnswerTalks DEF t
  <2> QED
    BY <1>7, <2>1, <2>2, <2>3, <2>4 DEF Join, t
<1> QED
  BY <1>6, <1>7

(* The end of a thread.                                                    *)
LEMMA ExitTalks ==
  ASSUME TInv, SInv, PInv, Exit
  PROVE  AT!Next \/ UNCHANGED AT!vars
<1>1. /\ Top = "body" /\ call[cpu].op \in {"exit", "return"}
      /\ state' = [state EXCEPT ![current] = "EXITED"] /\ UNCHANGED <<call, result, final>>
  BY DEF Exit, AtBody, At, program, history
<1>2. cpu \in Threads /\ cpu = current /\ current # Nobody
  BY <1>1, Shape DEF PInv, Talking, Calling, SInv, Own
<1>3. \A t \in Threads : state'[t] = IF t = cpu THEN "EXITED" ELSE state[t]
  BY <1>1, <1>2 DEF TInv, Typed
<1>4. Joins' = Joins
  BY <1>1, SameJoins
<1>5. CASE state[cpu] = "EXITED"
  <2>1. Phase' = Phase /\ Left' = Left
    BY <1>1, <1>3, <1>5, SameLives
  <2> QED
    BY <1>4, <2>1 DEF AT!vars
<1>6. CASE state[cpu] # "EXITED"
  <2>1. Phase[cpu] = "live" /\ Phase' = [Phase EXCEPT ![cpu] = "ended"]
    BY <1>2, <1>3, <1>6 DEF Phase, SInv, Born
  <2>2. Left' = [Left EXCEPT ![cpu] = final[cpu]] /\ final[cpu] \in Values
    BY <1>1, <1>2, <1>3 DEF Left, TInv, Typed
  <2>3. Joins[cpu] = AT!NoJoin /\ ~AT!Waits(cpu)
    BY <1>1, <1>2 DEF Joins, AT!NoJoin, AT!Waits
  <2>4. Joins' = [Joins EXCEPT ![cpu] = AT!NoJoin]
    BY <1>2, <1>4, <2>3 DEF Joins
  <2>5. AT!End(cpu, final[cpu])
    BY <2>1, <2>2, <2>3, <2>4 DEF AT!End
  <2> QED
    BY <1>2, <2>2, <2>5 DEF AT!Next
<1> QED
  BY <1>5, <1>6

(* The other calls' answers.                                               *)
LEMMA OthersTalk ==
  ASSUME TInv, SInv, PInv,
         \/ BootFails \/ CreateFails
         \/ KillInvalid \/ KillZero \/ KillSelf \/ KillReady \/ KillNotFound
  PROVE  UNCHANGED AT!vars
<1>1. /\ UNCHANGED <<state, final, call>> /\ Top \in {"boot", "body"}
      /\ call[cpu].op # "join" \/ Top = "boot"
      /\ \E code \in Codes : \E val : Answer(code, val)
  BY DEF BootFails, CreateFails, FailedAllocation, KillInvalid, KillZero, KillSelf,
     KillReady, KillNotFound, NotReady, Reply, AtBody, At, lib, history, Codes
<1>2. cpu \in Threads /\ stack[cpu][1] = Top
  <2>1. Top \in CallLabels
    BY <1>1 DEF CallLabels
  <2> QED
    BY <2>1, Shape
<1>3. call[cpu].op # "join"
  BY <1>1, <1>2 DEF PInv, Talking, Calling, Bottom
<1>4. \A t \in Threads : t # cpu => result'[t] = result[t]
  BY <1>1 DEF Answer, TInv, Typed
<1>5. \A t \in Threads : call[t].op = "join" => t # cpu
  BY <1>3
<1>6. Joins' = Joins
  BY <1>1, <1>4, <1>5, SameJoins
<1>7. Phase' = Phase /\ Left' = Left
  BY <1>1, SameLives
<1> QED
  BY <1>6, <1>7 DEF AT!vars

(* A thread that waits for its turn, or runs again, is alive all the time. *)
LEMMA TurnsTalk ==
  ASSUME TInv, SInv, PInv, SPreempted \/ SNext
  PROVE  UNCHANGED AT!vars
<1>1. /\ UNCHANGED <<final, call, result>>
      /\ \/ Top = "sResume" /\ state' = [state EXCEPT ![current] = "RUNNABLE"]
         \/ ready # <<>> /\ state' = [state EXCEPT ![Head(ready)] = "RUNNING"]
  BY DEF SPreempted, SNext, At, program, history
<1>2. CASE Top = "sResume" /\ state' = [state EXCEPT ![current] = "RUNNABLE"]
  <2>1. current \in Threads /\ current # Nobody
    BY <1>2, HasCurrent, ThreadsAssumption DEF Late
  <2>2. state[current] \notin {"EXITED", "UNBORN"}
    BY <1>2, <2>1 DEF PInv, Living, SInv, Born
  <2>3. \A t \in Threads : state'[t] = IF t = current THEN "RUNNABLE" ELSE state[t]
    BY <1>2 DEF TInv, Typed
  <2>4. Phase' = Phase /\ Left' = Left
    BY <1>1, <2>2, <2>3, SameLives
  <2> QED
    BY <1>1, <2>4, SameJoins DEF AT!vars
<1>3. CASE ready # <<>> /\ state' = [state EXCEPT ![Head(ready)] = "RUNNING"]
  <2>0. PICK h : h = Head(ready)
    OBVIOUS
  <2>1. h \in Threads /\ Contains(ready, h)
    BY <1>3, <2>0, TakenOut DEF TInv, Typed
  <2>2. state[h] = "RUNNABLE"
    BY <2>1 DEF PInv, Queued
  <2>3. \A t \in Threads : state'[t] = IF t = h THEN "RUNNING" ELSE state[t]
    BY <1>3, <2>0 DEF TInv, Typed
  <2>4. Phase' = Phase /\ Left' = Left
    BY <1>1, <2>2, <2>3, SameLives
  <2> QED
    BY <1>1, <2>4, SameJoins DEF AT!vars
<1> QED
  BY <1>1, <1>2, <1>3

(* What else there is says nothing about threads.                          *)
LEMMA QuietTalk ==
  ASSUME UNCHANGED <<state, final, call, result>>
  PROVE  UNCHANGED AT!vars
<1> QED
  BY DEF AT!vars, Phase, Left, Joins

(* Every step is one thread.h speaks of or none of its business.           *)
LEMMA TalkStep ==
  ASSUME TInv, SInv, PInv, [Next]_vars
  PROVE  AT!Next \/ UNCHANGED AT!vars
<1>1. CASE Library
  <2>1. CASE \/ Clear \/ Disarm \/ Rearm \/ Arm \/ Boot
             \/ JoinWaits \/ SetRet \/ Yield \/ FallOff
    <3>1. UNCHANGED <<state, final, call, result>>
      BY <2>1 DEF Clear, Disarm, Rearm, Arm, FillTimer, SetITimer, Boot, JoinWaits,
                  SetRet, Yield, FallOff, lib, program, history
    <3> QED
      BY <3>1, QuietTalk
  <2>2. CASE \E t \in Children : Create(t) \/ CreateMainFails(t)
    BY <2>2, CreateTalks
  <2> QED
    BY <1>1, <2>1, <2>2, JoinTalks, ExitTalks, OthersTalk DEF Library
<1>2. CASE Scheduler
  <2>1. CASE SPreempted \/ SNext
    BY <2>1, TurnsTalk
  <2>2. CASE ~SPreempted /\ ~SNext
    <3>1. UNCHANGED <<state, final, call, result>>
      BY <1>2, <2>2
      DEF Scheduler, SClear, SDisarm, SOn, SArm, FillTimer, SetITimer, SSave,
          SRetire, SResumed, SReturn, SIdle, SSwitch, lib, program, history
    <3> QED
      BY <3>1, QuietTalk
  <2> QED
    BY <2>1, <2>2
<1>3. CASE Crash \/ Tick \/ Over \/ UNCHANGED vars
  <2>1. UNCHANGED <<state, final, call, result>>
    BY <1>3 DEF Crash, Tick, Over, vars, lib, program, history
  <2> QED
    BY <2>1, QuietTalk
<1> QED
  BY <1>1, <1>2, <1>3, ProgramTalks DEF Next

(* The library keeps what thread.h promises: a created thread lives until  *)
(* it ends, and thread_join answers for it once it has, with what it left; *)
(* it knows of no thread that was not created, and nobody joins itself.    *)
THEOREM ThreadsKept ==
  ASSUME TickAt \subseteq Quiet PROVE Spec => ImplementsThreads
<1>1. Init => AT!Init
  <2> SUFFICES ASSUME Init PROVE AT!Init
    OBVIOUS
  <2>1. \A t \in Threads : state[t] = "UNBORN" /\ call[t].op = "none"
    BY DEF Init, NoCall
  <2> QED
    BY <2>1 DEF AT!Init, AT!NoJoin, Phase, Left, Joins
<1>2. TInv /\ SInv /\ PInv /\ [Next]_vars => [UNCHANGED AT!vars \/ AT!Next]_AT!vars
  BY TalkStep
<1> QED
  BY <1>1, <1>2, Promises, PTL DEF Spec, ImplementsThreads, AT!Spec
=============================================================================

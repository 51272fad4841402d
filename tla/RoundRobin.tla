----------------------------- MODULE RoundRobin -----------------------------
(***************************************************************************)
(* What the many-to-one scheduler promises, without timer, stacks and      *)
(* contexts: of the threads that have not finished one runs, and the       *)
(* others wait their turn in one line, in which nobody is lost or doubled. *)
(***************************************************************************)
EXTENDS Integers, Sequences

CONSTANTS Threads, Main, Nobody

VARIABLES
  running,  \* the thread that runs, Nobody before the first thread_create
  line,     \* the threads that wait for their turn
  done      \* the threads that have finished

vars == <<running, line, done>>

Waiting == {line[i] : i \in DOMAIN line}
New(t) == t # running /\ t \notin Waiting \cup done

Init == running = Nobody /\ line = <<>> /\ done = {}

(* The first thread_create also makes main() a thread, the running one.    *)
Begin(t) ==
  /\ running = Nobody
  /\ New(t) /\ New(Main) /\ t # Main
  /\ running' = Main
  /\ line' = Append(line, t)
  /\ UNCHANGED done

Spawn(t) ==
  /\ New(t)
  /\ line' = Append(line, t)
  /\ UNCHANGED <<running, done>>

(* thread_kill lets its target go first.                                   *)
Promote(t) ==
  /\ \E i \in DOMAIN line :
       /\ line[i] = t
       /\ line' = <<t>> \o SubSeq(line, 1, i - 1) \o SubSeq(line, i + 1, Len(line))
  /\ UNCHANGED <<running, done>>

(* The running thread goes to the end of the line.                         *)
Rotate ==
  /\ running # Nobody
  /\ running' = Head(Append(line, running))
  /\ line' = Tail(Append(line, running))
  /\ UNCHANGED done

(* The running thread has finished; the last one has nobody to make way    *)
(* for.                                                                    *)
Finish ==
  /\ running # Nobody
  /\ done' = done \cup {running}
  /\ IF line = <<>> THEN UNCHANGED <<running, line>>
     ELSE running' = Head(line) /\ line' = Tail(line)

Next ==
  \/ \E t \in Threads : Begin(t) \/ Spawn(t) \/ Promote(t)
  \/ Rotate \/ Finish

Spec == Init /\ [][Next]_vars
=============================================================================

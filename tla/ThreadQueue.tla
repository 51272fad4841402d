---------------------------- MODULE ThreadQueue -----------------------------
(***************************************************************************)
(* What queue.c promises its callers: a queue of threads is a sequence,    *)
(* and these are the operations on it.  Queue shows that the linked list   *)
(* keeps the promise.                                                      *)
(*                                                                         *)
(* Here and in the other modules a definition whose name carries a suffix  *)
(* after an underscore is a variant with a bug, kept to show that the      *)
(* properties notice it.  No specification uses one.                       *)
(***************************************************************************)
EXTENDS Integers, Sequences

(* getthread finds a thread.                                               *)
Contains(s, x) == \E i \in DOMAIN s : s[i] = x

(* The variant inserts at the head.                                        *)
Enqueue_AtHead(s, x) == <<x>> \o s
Enqueue(s, x) == Append(s, x)

(* Where the search for a thread x of the queue s stops.                   *)
FirstOf(s, x) == CHOOSE i \in DOMAIN s : s[i] = x /\ \A j \in 1..i - 1 : s[j] # x

(* makeheadthread on a thread x of the queue s.  The variant does not      *)
(* unlink the node from its old place.                                     *)
MakeHead_Doubles(s, x) == <<x>> \o s
MakeHead(s, x) ==
  LET i == FirstOf(s, x)
  IN  [j \in DOMAIN s |-> IF j = 1 THEN x ELSE IF j <= i THEN s[j - 1] ELSE s[j]]
=============================================================================

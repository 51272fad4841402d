------------------------------ MODULE ListWalk ------------------------------
(***************************************************************************)
(* The loop with which queue.c searches its linked list, in getthread and  *)
(* in makeheadthread:                                                      *)
(*                                                                         *)
(*   temp = head; while (temp != tail) { if (hit) ...; temp = temp->next }  *)
(*                                                                         *)
(* followed by a look at the tail.  A list is its head, its tail and the   *)
(* function next of its nodes; hits are the nodes with the thread searched *)
(* for.                                                                    *)
(***************************************************************************)
EXTENDS Integers, FiniteSets, Sequences

NULL == "NULL"

(* The nodes the pointers lead to from head on, and a final NULL.          *)
Nth(head, next) ==
  LET node[i \in 1..Cardinality(DOMAIN next) + 1] ==
        IF i = 1 THEN head
        ELSE IF node[i - 1] = NULL THEN NULL ELSE next[node[i - 1]]
  IN  node

(* Where the loop stops: at a hit, at the tail, or at NULL, which the code *)
(* then dereferences.                                                      *)
Stops(tail, hits) == hits \cup {tail, NULL}

LastStep(head, tail, next, hits) ==
  LET node == Nth(head, next)
  IN  CHOOSE i \in DOMAIN node :
        /\ node[i] \in Stops(tail, hits)
        /\ \A j \in 1..i - 1 : node[j] \notin Stops(tail, hits)

(* The node at which the search ends, and the one before it (prev).        *)
Ends(head, tail, next, hits) ==
  Nth(head, next)[LastStep(head, tail, next, hits)]
Before(head, tail, next, hits) ==
  Nth(head, next)[LastStep(head, tail, next, hits) - 1]

(* The threads in the list, first to last.                                 *)
Listed(head, next, thread) ==
  LET node == Nth(head, next)
      len == Cardinality({i \in DOMAIN node : node[i] # NULL})
  IN  [i \in 1..len |-> thread[node[i]]]
=============================================================================

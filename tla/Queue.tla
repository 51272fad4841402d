-------------------------------- MODULE Queue -------------------------------
(***************************************************************************)
(* queue.c: a linked list with a head and a tail pointer, its nodes taken  *)
(* from malloc and given back by dequeue, which leaves the tail pointer    *)
(* alone.  A freed node keeps its contents until malloc hands it out       *)
(* again, so a stale pointer to it is not noticed by itself.               *)
(*                                                                         *)
(* A step is a whole call: in mtothread.c the timer is off during one.     *)
(* Calls that interleave are the subject of OTOThreads.                    *)
(***************************************************************************)
EXTENDS ListWalk

CONSTANTS
  Threads,  \* the thread_s that may be enqueued
  Nodes,    \* the memory malloc has for nodes
  None      \* the answer of a call that has no thread to give

ASSUME NodesAssumption == NULL \notin Nodes /\ IsFiniteSet(Nodes)

VARIABLES
  head, tail,
  thread, next,  \* the fields of each node
  heap,          \* the nodes malloc has handed out
  answer,        \* what the last call returned
  proc           \* the process is "up" or has "crashed"

vars == <<head, tail, thread, next, heap, answer, proc>>

(* initq, on zeroed memory.                                                *)
Init ==
  /\ head = NULL /\ tail = NULL
  /\ thread = [n \in Nodes |-> None]
  /\ next = [n \in Nodes |-> NULL]
  /\ heap = {}
  /\ answer = None
  /\ proc = "up"

(* malloc hands out a node, and the list gets it as its last.              *)
Enqueue(x, n) ==
  /\ proc = "up"
  /\ n \in Nodes \ heap
  /\ heap' = heap \cup {n}
  /\ thread' = [thread EXCEPT ![n] = x]
  /\ IF head = NULL
     THEN head' = n /\ next' = [next EXCEPT ![n] = NULL]
     ELSE next' = [next EXCEPT ![n] = NULL, ![tail] = n] /\ UNCHANGED head
  /\ tail' = n
  /\ answer' = None
  /\ UNCHANGED proc

(* The result of malloc is used before it is checked.                      *)
EnqueueFails ==
  /\ proc = "up"
  /\ proc' = "crashed"
  /\ UNCHANGED <<head, tail, thread, next, heap, answer>>

(* What dequeue returns and frees; the variants return the node instead of *)
(* its thread, and free nothing.                                           *)
Taken_Node(n) == n
Taken(n) == thread[n]
Freed_Nothing(n) == heap
Freed(n) == heap \ {n}

Dequeue ==
  /\ proc = "up"
  /\ head # NULL
  /\ answer' = Taken(head)
  /\ head' = next[head]
  /\ heap' = Freed(head)
  /\ UNCHANGED <<tail, thread, next, proc>>

DequeueEmpty ==
  /\ proc = "up"
  /\ head = NULL
  /\ answer' = None
  /\ UNCHANGED <<head, tail, thread, next, heap, proc>>

(* The search of both getthread and makeheadthread.                        *)
Hits(x) == {n \in Nodes : thread[n] = x}
End(x) == Ends(head, tail, next, Hits(x))
Found(x) == head # NULL /\ End(x) \in Hits(x)

GetThread(x) ==
  /\ proc = "up"
  /\ answer' = IF Found(x) THEN x ELSE None
  /\ UNCHANGED <<head, tail, thread, next, heap, proc>>

(* makeheadthread: the node is unlinked and becomes the head.  The variant *)
(* forgets that it may have been the last one.                             *)
NewTail_Kept(n, prev) == tail
NewTail(n, prev) == IF next[n] = NULL THEN prev ELSE tail

MakeHead(x) ==
  LET n == End(x)
      prev == Before(head, tail, next, Hits(x))
  IN
  /\ proc = "up"
  /\ Found(x)
  /\ answer' = x
  /\ \/ n = head /\ UNCHANGED <<head, tail, next>>
     \/ /\ n # head
        /\ next' = [next EXCEPT ![prev] = next[n], ![n] = head]
        /\ tail' = NewTail(n, prev)
        /\ head' = n
  /\ UNCHANGED <<thread, heap, proc>>

(* The thread is not found: t1 was never set, and holds a null pointer if  *)
(* nothing else.                                                           *)
MakeHeadMisses(x) ==
  /\ proc = "up"
  /\ ~Found(x)
  /\ answer' = None
  /\ UNCHANGED <<head, tail, thread, next, heap, proc>>

(* It held something else, and unless the list is empty it is followed.    *)
MakeHeadWild(x) ==
  /\ proc = "up"
  /\ head # NULL
  /\ ~Found(x)
  /\ proc' = "crashed"
  /\ UNCHANGED <<head, tail, thread, next, heap, answer>>

Over == proc = "crashed" /\ UNCHANGED vars

Next ==
  \/ \E x \in Threads :
       \/ \E n \in Nodes : Enqueue(x, n)
       \/ GetThread(x) \/ MakeHead(x) \/ MakeHeadMisses(x) \/ MakeHeadWild(x)
  \/ EnqueueFails \/ Dequeue \/ DequeueEmpty \/ Over

Spec == Init /\ [][Next]_vars

-----------------------------------------------------------------------------

TypeOK ==
  /\ head \in Nodes \cup {NULL} /\ tail \in Nodes \cup {NULL}
  /\ thread \in [Nodes -> Threads \cup {None}]
  /\ next \in [Nodes -> Nodes \cup {NULL}]
  /\ heap \subseteq Nodes
  /\ answer \in Threads \cup {None}
  /\ proc \in {"up", "crashed"}

Members ==
  {Nth(head, next)[i] : i \in 1..Cardinality(Nodes) + 1} \ {NULL}

(* The list and the heap agree: the nodes in the list are those that were  *)
(* allocated and not freed, none is lost and none is used after its free,  *)
(* although dequeue leaves tail and next of a freed node as they were.     *)
ListIsHeap == Members = heap

(* A list that is not empty ends at its tail: searching it never runs into *)
(* the null pointer that both loops would dereference.                     *)
EndsAtTail == head # NULL => tail \in Members /\ next[tail] = NULL

-----------------------------------------------------------------------------
(* The linked list implements the queue of ThreadQueue.                    *)

Line == Listed(head, next, thread)

Promise == INSTANCE AbstractQueue WITH line <- Line

ImplementsQueue == Promise!Spec
=============================================================================

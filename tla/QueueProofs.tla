----------------------------- MODULE QueueProofs ----------------------------
(***************************************************************************)
(* The linked list of queue.c is the queue it promises to be, for any      *)
(* memory and any threads.  At each moment some sequence of nodes is what  *)
(* the pointers lead through; every operation is shown by the sequence it  *)
(* leaves.                                                                 *)
(***************************************************************************)
EXTENDS Queue, ListWalkProofs

(* The list has the nodes L, all of them allocated and no other is, and    *)
(* tail is the last one.  Where the list is empty tail is any node.        *)
Holds(L) ==
  /\ Chain(L, head, next)
  /\ heap = {L[i] : i \in 1..Len(L)}
  /\ Len(L) # 0 => tail = L[Len(L)]

QInv == TypeOK /\ \E L \in Seq(Nodes) : Holds(L)

(* Its threads.                                                            *)
ThreadsOf(L) == [i \in 1..Len(L) |-> thread[L[i]]]

(* What makeheadthread leaves of L when it found the node at k.            *)
Moved(L, k) ==
  [j \in 1..Len(L) |-> IF j = 1 THEN L[k] ELSE IF j <= k THEN L[j - 1] ELSE L[j]]

-----------------------------------------------------------------------------

(* The queue the list stands for, thread by thread ...                     *)
LEMMA LineIs ==
  ASSUME TypeOK, NEW L \in Seq(Nodes), Holds(L)
  PROVE  Line = ThreadsOf(L) /\ Line \in Seq(Threads \cup {None}) /\ Len(Line) = Len(L)
<1>1. Line = ThreadsOf(L)
  BY ListedAll, NodesAssumption DEF Line, Holds, ThreadsOf, TypeOK
<1>2. ThreadsOf(L) \in Seq(Threads \cup {None}) /\ Len(ThreadsOf(L)) = Len(L)
  BY DEF ThreadsOf, TypeOK
<1> QED
  BY <1>1, <1>2

(* ... and after a step.                                                   *)
LEMMA LineThen ==
  ASSUME TypeOK', NEW L \in Seq(Nodes), Holds(L)'
  PROVE  Line' = [i \in 1..Len(L) |-> thread'[L[i]]]
<1> QED
  BY ListedAll, NodesAssumption DEF Line, Holds, TypeOK

(* A search in the list finds the first node of a thread, if there is one. *)
LEMMA Searched ==
  ASSUME TypeOK, NEW L \in Seq(Nodes), Holds(L), NEW x \in Threads
  PROVE  /\ Found(x) <=> \E k \in 1..Len(L) : thread[L[k]] = x
         /\ Found(x) => \E k \in 1..Len(L) :
              /\ End(x) = L[k] /\ thread[L[k]] = x
              /\ k # 1 => Before(head, tail, next, Hits(x)) = L[k - 1]
              /\ \A j \in 1..k - 1 : thread[L[j]] # x
<1>1. \A i \in 1..Len(L) : L[i] \in Nodes
  OBVIOUS
<1>2. Len(L) \in Nat
  OBVIOUS
<1>3. CASE Len(L) = 0
  <2>1. head = NULL
    BY <1>3 DEF Holds, Chain
  <2> QED
    BY <1>3, <2>1 DEF Found
<1>4. CASE Len(L) # 0
  <2>1. head # NULL /\ tail = L[Len(L)]
    BY <1>1, <1>2, <1>4, NodesAssumption DEF Holds, Chain
  <2>2. PICK k \in 1..Len(L) :
           /\ End(x) = L[k]
           /\ k # 1 => Before(head, tail, next, Hits(x)) = L[k - 1]
           /\ \A j \in 1..k - 1 : L[j] \notin Hits(x)
           /\ L[k] \in Hits(x) \/ k = Len(L)
    <3>1. Hits(x) \in SUBSET Nodes
      BY DEF Hits
    <3>2. Chain(L, head, next) /\ next \in [Nodes -> Nodes \cup {NULL}]
      BY DEF Holds, TypeOK
    <3> QED
      BY <1>4, <2>1, <3>1, <3>2, Search, NodesAssumption DEF End
  <2>3. Found(x) <=> L[k] \in Hits(x)
    BY <2>1, <2>2 DEF Found
  <2>4. \A i \in 1..Len(L) : L[i] \in Hits(x) <=> thread[L[i]] = x
    BY <1>1 DEF Hits
  <2>5. \A j \in 1..k - 1 : j \in 1..Len(L) /\ thread[L[j]] # x
    BY <1>2, <2>2, <2>4
  <2>6. ASSUME NEW i \in 1..Len(L), thread[L[i]] = x PROVE L[k] \in Hits(x)
    <3>1. ~(i \in 1..k - 1)
      BY <2>5, <2>6
    <3>2. i = k \/ k # Len(L)
      BY <1>2, <2>2, <3>1
    <3> QED
      BY <2>2, <2>4, <2>6, <3>2
  <2> QED
    BY <2>2, <2>3, <2>4, <2>5, <2>6
<1> QED
  BY <1>3, <1>4

-----------------------------------------------------------------------------
(* The operations.                                                         *)

(* enqueue adds a node behind the last one.                                *)
LEMMA EnqueueStep ==
  ASSUME TypeOK, NEW L \in Seq(Nodes), Holds(L), NEW x \in Threads, NEW n \in Nodes,
         Enqueue(x, n)
  PROVE  TypeOK' /\ Holds(Append(L, n))' /\ Line' = Append(Line, x)
<1> DEFINE M == Append(L, n)
<1>1. /\ n \notin heap /\ heap' = heap \cup {n} /\ tail' = n
      /\ thread' = [thread EXCEPT ![n] = x] /\ answer' = None /\ proc' = proc
      /\ head' = (IF head = NULL THEN n ELSE head)
      /\ next' = (IF head = NULL THEN [next EXCEPT ![n] = NULL]
                  ELSE [next EXCEPT ![n] = NULL, ![tail] = n])
  BY DEF Enqueue
<1>2. TypeOK'
  BY <1>1 DEF TypeOK
<1>3. /\ Len(L) \in Nat /\ M \in Seq(Nodes) /\ Len(M) = Len(L) + 1
      /\ M[Len(L) + 1] = n /\ \A i \in 1..Len(L) : M[i] = L[i]
  OBVIOUS
<1> HIDE DEF M
<1>4. \A i \in 1..Len(L) : L[i] \in Nodes /\ L[i] \in heap /\ L[i] # n
  BY <1>1 DEF Holds
<1>5. \A i, j \in 1..Len(M) : M[i] = M[j] => i = j
  <2> SUFFICES ASSUME NEW i \in 1..Len(M), NEW j \in 1..Len(M), M[i] = M[j]
               PROVE  i = j
    OBVIOUS
  <2>1. CASE i \in 1..Len(L) /\ j \in 1..Len(L)
    BY <1>3, <2>1 DEF Holds, Chain
  <2>2. CASE ~(i \in 1..Len(L) /\ j \in 1..Len(L))
    BY <1>3, <1>4, <2>2
  <2> QED
    BY <2>1, <2>2
<1>9. Len(M) # 0 => tail' = M[Len(M)]
  BY <1>1, <1>3
<1>6. ASSUME Len(L) = 0 PROVE Holds(M)'
  <2>1. head = NULL
    BY <1>6 DEF Holds, Chain
  <2>2. head' = n /\ next'[n] = NULL
    BY <1>1, <2>1 DEF TypeOK
  <2>3. Chain(M, head', next')
    BY <1>3, <1>5, <1>6, <2>2 DEF Chain
  <2>4. heap' = {M[i] : i \in 1..Len(M)}
    BY <1>1, <1>3, <1>6 DEF Holds
  <2> QED
    BY <1>9, <2>3, <2>4 DEF Holds, Chain
<1>7. ASSUME Len(L) # 0 PROVE Holds(M)'
  <2>1. head = L[1] /\ head # NULL /\ tail = L[Len(L)] /\ tail \in Nodes /\ tail # n
    BY <1>3, <1>4, <1>7, NodesAssumption DEF Holds, Chain
  <2>2. head' = M[1]
    BY <1>1, <1>3, <1>7, <2>1
  <2>3. /\ next' = [next EXCEPT ![n] = NULL, ![tail] = n]
        /\ next'[n] = NULL /\ next'[tail] = n
        /\ \A m \in Nodes : m # n /\ m # tail => next'[m] = next[m]
    BY <1>1, <2>1 DEF TypeOK
  <2>4. ASSUME NEW i \in 1..Len(M)
        PROVE  next'[M[i]] = IF i = Len(M) THEN NULL ELSE M[i + 1]
    <3>1. CASE i = Len(M)
      BY <1>3, <2>3, <3>1
    <3>2. CASE i = Len(L)
      BY <1>3, <1>7, <2>1, <2>3, <3>2
    <3>3. CASE i \in 1..Len(L) - 1
      <4>1. i \in 1..Len(L) /\ i + 1 \in 1..Len(L) /\ Len(L) \in 1..Len(L) /\ i # Len(L)
        BY <1>3, <3>3
      <4>2. L[i] # tail /\ L[i] # n /\ L[i] \in Nodes
        BY <1>4, <2>1, <4>1 DEF Holds, Chain
      <4>3. next[L[i]] = L[i + 1]
        BY <4>1 DEF Holds, Chain
      <4>4. M[i] = L[i] /\ M[i + 1] = L[i + 1] /\ i # Len(M)
        BY <1>3, <4>1
      <4> QED
        BY <2>3, <4>2, <4>3, <4>4
    <3> QED
      BY <1>3, <3>1, <3>2, <3>3
  <2>5. Chain(M, head', next')
    BY <1>3, <1>5, <2>2, <2>4 DEF Chain
  <2>6. heap' = {M[i] : i \in 1..Len(M)}
    BY <1>1, <1>3 DEF Holds
  <2> QED
    BY <1>9, <2>5, <2>6 DEF Holds, Chain
<1>8. Holds(M)'
  BY <1>6, <1>7 DEF M
<1>10. Line' = Append(Line, x)
  <2>1. Line = [i \in 1..Len(L) |-> thread[L[i]]]
    BY LineIs DEF ThreadsOf
  <2>2. Line' = [i \in 1..Len(M) |-> thread'[M[i]]]
    BY <1>2, <1>3, <1>8, LineThen
  <2>3. \A i \in 1..Len(L) : thread'[M[i]] = thread[L[i]]
    BY <1>1, <1>3, <1>4 DEF TypeOK
  <2>4. thread'[M[Len(L) + 1]] = x
    BY <1>1, <1>3 DEF TypeOK
  <2>5. Line \in Seq(Threads \cup {None}) /\ Len(Line) = Len(L)
    BY LineIs
  <2> QED
    BY <1>3, <2>1, <2>2, <2>3, <2>4, <2>5
<1> QED
  BY <1>2, <1>8, <1>10 DEF M

(* dequeue takes the first node away.                                      *)
LEMMA DequeueStep ==
  ASSUME TypeOK, NEW L \in Seq(Nodes), Holds(L), Dequeue
  PROVE  /\ TypeOK' /\ Holds(Tail(L))'
         /\ Line # <<>> /\ answer' = Head(Line) /\ Line' = Tail(Line)
<1> DEFINE M == Tail(L)
<1>1. /\ head # NULL /\ answer' = thread[head] /\ head' = next[head]
      /\ heap' = heap \ {head} /\ UNCHANGED <<tail, thread, next, proc>>
  BY DEF Dequeue, Taken, Freed
<1>2. Len(L) \in Nat /\ Len(L) # 0 /\ head = L[1] /\ head \in Nodes
  BY <1>1 DEF Holds, Chain
<1>3. TypeOK'
  BY <1>1, <1>2 DEF TypeOK
<1>4. /\ M \in Seq(Nodes) /\ Len(M) = Len(L) - 1 /\ \A i \in 1..Len(M) : M[i] = L[i + 1]
  BY <1>2
<1> HIDE DEF M
<1>5. head' = IF Len(M) = 0 THEN NULL ELSE M[1]
  BY <1>1, <1>2, <1>4 DEF Holds, Chain
<1>6. ASSUME NEW i \in 1..Len(M)
      PROVE  next[M[i]] = IF i = Len(M) THEN NULL ELSE M[i + 1]
  <2>1. i + 1 \in 1..Len(L) /\ M[i] = L[i + 1] /\ (i + 1 = Len(L) <=> i = Len(M))
    BY <1>2, <1>4
  <2>2. i # Len(M) => M[i + 1] = L[i + 1 + 1]
    BY <1>2, <1>4
  <2> QED
    BY <2>1, <2>2 DEF Holds, Chain
<1>7. ASSUME NEW i \in 1..Len(M), NEW j \in 1..Len(M), M[i] = M[j] PROVE i = j
  <2>1. i + 1 \in 1..Len(L) /\ j + 1 \in 1..Len(L) /\ L[i + 1] = L[j + 1]
    BY <1>2, <1>4, <1>7
  <2>2. i + 1 = j + 1
    BY <2>1 DEF Holds, Chain
  <2> QED
    BY <2>2
<1>8. heap' = {M[i] : i \in 1..Len(M)}
  <2>1. ASSUME NEW m \in heap' PROVE \E i \in 1..Len(M) : m = M[i]
    <3>1. PICK i \in 1..Len(L) : m = L[i]
      BY <1>1, <2>1 DEF Holds
    <3>2. i # 1
      BY <1>1, <1>2, <2>1, <3>1
    <3>3. i - 1 \in 1..Len(M) /\ M[i - 1] = L[i]
      BY <1>2, <1>4, <3>1, <3>2
    <3> QED
      BY <3>1, <3>3
  <2>2. ASSUME NEW i \in 1..Len(M) PROVE M[i] \in heap'
    <3>1. i + 1 \in 1..Len(L) /\ 1 \in 1..Len(L) /\ i + 1 # 1 /\ M[i] = L[i + 1]
      BY <1>2, <1>4
    <3>2. L[i + 1] # L[1]
      BY <3>1 DEF Holds, Chain
    <3> QED
      BY <1>1, <1>2, <3>1, <3>2 DEF Holds
  <2> QED
    BY <2>1, <2>2
<1>9. Len(M) # 0 => tail = M[Len(M)]
  BY <1>2, <1>4 DEF Holds
<1>10. Holds(M)'
  BY <1>1, <1>5, <1>6, <1>7, <1>8, <1>9 DEF Holds, Chain
<1>11. Line # <<>> /\ answer' = Head(Line) /\ Line' = Tail(Line)
  <2>1. Line = [i \in 1..Len(L) |-> thread[L[i]]]
    BY LineIs DEF ThreadsOf
  <2>2. Line' = [i \in 1..Len(M) |-> thread[M[i]]]
    BY <1>1, <1>3, <1>4, <1>10, LineThen
  <2>3. Line \in Seq(Threads \cup {None}) /\ Len(Line) = Len(L) /\ Line # <<>>
    BY <1>2, LineIs
  <2>4. Head(Line) = thread[head]
    BY <1>2, <2>1, <2>3
  <2>5. Tail(Line) = [i \in 1..Len(L) - 1 |-> thread[L[i + 1]]]
    BY <1>2, <2>1, <2>3
  <2> QED
    BY <1>1, <1>4, <2>2, <2>3, <2>4, <2>5
<1> QED
  BY <1>3, <1>10, <1>11 DEF M

(* Sequences that have each other's elements have the same.                *)
LEMMA SameElements ==
  ASSUME NEW M, NEW D, NEW L, NEW E,
         \A j \in D : \E i \in E : M[j] = L[i], \A i \in E : \E j \in D : L[i] = M[j]
  PROVE  {M[j] : j \in D} = {L[i] : i \in E}
<1> QED
  OBVIOUS

(* makeheadthread on a thread that is in the list.                         *)
LEMMA MovedList ==
  ASSUME NEW L \in Seq(Nodes), NEW k \in 1..Len(L), k # 1,
         \A i, j \in 1..Len(L) : L[i] = L[j] => i = j
  PROVE  LET M == Moved(L, k) IN
         /\ M \in Seq(Nodes) /\ Len(M) = Len(L)
         /\ \A i, j \in 1..Len(M) : M[i] = M[j] => i = j
         /\ {M[i] : i \in 1..Len(M)} = {L[i] : i \in 1..Len(L)}
<1> DEFINE M == Moved(L, k)
           from(j) == IF j = 1 THEN k ELSE IF j <= k THEN j - 1 ELSE j
           to(i) == IF i = k THEN 1 ELSE IF i < k THEN i + 1 ELSE i
<1>1. Len(L) \in Nat
  OBVIOUS
<1>2. \A j \in 1..Len(L) : from(j) \in 1..Len(L) /\ to(from(j)) = j
  BY <1>1
<1>3. \A i \in 1..Len(L) : to(i) \in 1..Len(L) /\ from(to(i)) = i
  BY <1>1
<1>4. M = [j \in 1..Len(L) |-> L[from(j)]]
  BY DEF Moved
<1> HIDE DEF M, from, to
<1>5. M \in Seq(Nodes) /\ Len(M) = Len(L) /\ \A j \in 1..Len(L) : M[j] = L[from(j)]
  BY <1>1, <1>2, <1>4
<1>6. ASSUME NEW i \in 1..Len(M), NEW j \in 1..Len(M), M[i] = M[j] PROVE i = j
  <2>1. from(i) = from(j)
    BY <1>2, <1>5, <1>6
  <2> QED
    BY <1>2, <1>5, <2>1
<1>7. {M[i] : i \in 1..Len(M)} = {L[i] : i \in 1..Len(L)}
  <2>1. \A j \in 1..Len(M) : \E i \in 1..Len(L) : M[j] = L[i]
    BY <1>2, <1>5
  <2>2. ASSUME NEW i \in 1..Len(L) PROVE \E j \in 1..Len(M) : L[i] = M[j]
    <3>1. to(i) \in 1..Len(M)
      BY <1>3, <1>5
    <3>2. M[to(i)] = L[from(to(i))]
      BY <1>5, <3>1
    <3>3. from(to(i)) = i
      BY <1>3
    <3> QED
      BY <3>1, <3>2, <3>3
  <2> DEFINE D == 1..Len(M)
             E == 1..Len(L)
  <2>3. (\A j \in D : \E i \in E : M[j] = L[i]) /\ (\A i \in E : \E j \in D : L[i] = M[j])
    BY <2>1, <2>2
  <2> HIDE DEF D, E
  <2>4. {M[j] : j \in D} = {L[i] : i \in E}
    BY <2>3, SameElements
  <2> QED
    BY <2>4 DEF D, E
<1> QED
  BY <1>5, <1>6, <1>7 DEF M

(* What makeheadthread leaves of a chain is a chain.                       *)
LEMMA MovedAhead ==
  ASSUME TypeOK, NEW L \in Seq(Nodes), Holds(L), NEW k \in 1..Len(L), k # 1,
         next' = [next EXCEPT ![L[k - 1]] = next[L[k]], ![L[k]] = head],
         tail' = NewTail(L[k], L[k - 1]), head' = L[k], heap' = heap
  PROVE  Holds(Moved(L, k))'
<1> DEFINE M == Moved(L, k)
<1>1. Len(L) \in Nat /\ k \in Nat /\ k > 1 /\ k <= Len(L)
  OBVIOUS
<1>2. /\ M \in Seq(Nodes) /\ Len(M) = Len(L)
      /\ \A i, j \in 1..Len(M) : M[i] = M[j] => i = j
      /\ {M[i] : i \in 1..Len(M)} = {L[i] : i \in 1..Len(L)}
  BY MovedList DEF Holds, Chain
<1>3. \A j \in 1..Len(L) :
        M[j] = IF j = 1 THEN L[k] ELSE IF j <= k THEN L[j - 1] ELSE L[j]
  BY DEF Moved
<1> HIDE DEF M
<1>4. \A i \in 1..Len(L) : L[i] \in Nodes /\ L[i] # NULL
  BY NodesAssumption
<1>5. head = L[1] /\ tail = L[Len(L)]
  BY <1>1 DEF Holds, Chain
<1>6. L[k - 1] \in Nodes /\ L[k] \in Nodes /\ L[k - 1] # L[k]
  <2>1. k - 1 \in 1..Len(L) /\ k - 1 # k
    BY <1>1
  <2> QED
    BY <2>1 DEF Holds, Chain
<1>7. /\ next'[L[k - 1]] = next[L[k]] /\ next'[L[k]] = head
      /\ \A m \in Nodes : m # L[k - 1] /\ m # L[k] => next'[m] = next[m]
  BY <1>6 DEF TypeOK
<1>8. \A i \in 1..Len(L) : i # k - 1 /\ i # k => next'[L[i]] = next[L[i]]
  <2>1. k - 1 \in 1..Len(L)
    BY <1>1
  <2> QED
    BY <1>4, <1>7, <2>1 DEF Holds, Chain
<1>9. ASSUME NEW i \in 1..Len(M)
      PROVE  next'[M[i]] = IF i = Len(M) THEN NULL ELSE M[i + 1]
  <2>1. CASE i = 1
    <3>1. i # Len(M) /\ i + 1 = 2 /\ 1 \in 1..Len(L) /\ 2 \in 1..Len(L) /\ 2 <= k
      BY <1>1, <1>2, <2>1
    <3>2. M[1] = L[k] /\ M[2] = L[1]
      BY <1>3, <3>1
    <3> QED
      BY <1>5, <1>7, <2>1, <3>1, <3>2
  <2>2. CASE i # 1 /\ i < k
    <3>1. /\ M[i] = L[i - 1] /\ i # Len(M) /\ i - 1 \in 1..Len(L)
          /\ i - 1 # k - 1 /\ i - 1 # k /\ i - 1 # Len(L)
      BY <1>1, <1>2, <1>3, <2>2
    <3>2. i + 1 \in 1..Len(L) /\ i + 1 # 1 /\ i + 1 <= k /\ i + 1 - 1 = i
      BY <1>1, <1>2, <2>2
    <3>3. M[i + 1] = L[i]
      BY <1>3, <3>2
    <3>4. next[L[i - 1]] = L[i - 1 + 1] /\ i - 1 + 1 = i
      BY <3>1 DEF Holds, Chain
    <3> QED
      BY <1>8, <3>1, <3>3, <3>4
  <2>3. CASE i = k
    <3>1. M[i] = L[k - 1] /\ (i = Len(M) <=> k = Len(L))
      BY <1>1, <1>2, <1>3, <2>3
    <3>2. next'[M[i]] = IF k = Len(L) THEN NULL ELSE L[k + 1]
      BY <1>7, <3>1 DEF Holds, Chain
    <3>3. k # Len(L) => M[i + 1] = L[k + 1]
      BY <1>1, <1>3, <2>3
    <3> QED
      BY <3>1, <3>2, <3>3
  <2>4. CASE i > k
    <3>1. /\ i \in 1..Len(L) /\ M[i] = L[i] /\ i # k - 1 /\ i # k
          /\ (i # Len(L) => M[i + 1] = L[i + 1])
      BY <1>1, <1>2, <1>3, <2>4
    <3> QED
      BY <1>2, <1>8, <3>1 DEF Holds, Chain
  <2> QED
    BY <1>1, <1>2, <2>1, <2>2, <2>3, <2>4
<1>10. head' = M[1] /\ Len(M) # 0
  BY <1>1, <1>2, <1>3
<1>11. tail' = M[Len(M)]
  <2>1. CASE k = Len(L)
    <3>1. next[L[k]] = NULL
      BY <2>1 DEF Holds, Chain
    <3>2. M[Len(M)] = L[k - 1]
      BY <1>1, <1>2, <1>3, <2>1
    <3> QED
      BY <3>1, <3>2 DEF NewTail
  <2>2. CASE k # Len(L)
    <3>1. next[L[k]] = L[k + 1] /\ k + 1 \in 1..Len(L)
      BY <1>1, <2>2 DEF Holds, Chain
    <3>2. next[L[k]] # NULL
      BY <1>4, <3>1
    <3>3. M[Len(M)] = L[Len(L)]
      BY <1>1, <1>2, <1>3, <2>2
    <3> QED
      BY <1>5, <3>2, <3>3 DEF NewTail
  <2> QED
    BY <2>1, <2>2
<1>12. heap' = {M[i] : i \in 1..Len(M)}
  BY <1>2 DEF Holds
<1>13. Chain(M, head', next')
  BY <1>2, <1>9, <1>10 DEF Chain
<1>14. Holds(M)'
  BY <1>11, <1>12, <1>13 DEF Holds, Chain
<1> QED
  BY <1>14 DEF M

(* makeheadthread moves a node to the front, and changes nothing else.     *)
LEMMA MakeHeadStep ==
  ASSUME TypeOK, NEW L \in Seq(Nodes), Holds(L), NEW x \in Threads, MakeHead(x)
  PROVE  /\ TypeOK' /\ \E M \in Seq(Nodes) : Holds(M)'
         /\ Promise!Contains(Line, x) /\ answer' = x
         /\ Line' = Promise!MakeHead(Line, x)
<1>1. /\ answer' = x /\ UNCHANGED <<thread, heap, proc>> /\ Found(x)
  BY DEF MakeHead
<1>2. PICK k \in 1..Len(L) :
              /\ End(x) = L[k] /\ thread[L[k]] = x
              /\ k # 1 => Before(head, tail, next, Hits(x)) = L[k - 1]
              /\ \A j \in 1..k - 1 : thread[L[j]] # x
  BY <1>1, Searched
<1>3. /\ Line = [i \in 1..Len(L) |-> thread[L[i]]] /\ Len(Line) = Len(L)
      /\ Line \in Seq(Threads \cup {None}) /\ DOMAIN Line = 1..Len(L) /\ Len(L) \in Nat
  BY LineIs DEF ThreadsOf
<1>4. Promise!Contains(Line, x)
  BY <1>2, <1>3 DEF Promise!Contains
<1>5. Promise!FirstOf(Line, x) = k
  <2> DEFINE Is(i) == Line[i] = x /\ \A j \in 1..i - 1 : Line[j] # x
  <2>1. Promise!FirstOf(Line, x) = CHOOSE i \in 1..Len(L) : Is(i)
    <3>1. DOMAIN Line = 1..Len(L)
      BY <1>3
    <3> QED
      BY <3>1 DEF Promise!FirstOf
  <2>2. Is(k)
    BY <1>2, <1>3
  <2>3. ASSUME NEW i \in 1..Len(L), Is(i) PROVE i = k
    <3>1. Len(L) \in Nat
      BY <1>3
    <3>2. ~(i \in 1..k - 1) /\ ~(k \in 1..i - 1)
      BY <2>2, <2>3
    <3> QED
      BY <3>1, <3>2
  <2> HIDE DEF Is
  <2> QED
    BY <2>1, <2>2, <2>3
<1>6. Promise!MakeHead(Line, x) =
        [j \in 1..Len(L) |-> IF j = 1 THEN x ELSE IF j <= k THEN Line[j - 1] ELSE Line[j]]
  BY <1>3, <1>5 DEF Promise!MakeHead
<1>7. head = L[1] /\ tail = L[Len(L)]
  BY <1>2, <1>3 DEF Holds, Chain
<1>8. CASE k = 1
  <2>1. UNCHANGED <<head, tail, next>>
    BY <1>2, <1>7, <1>8 DEF MakeHead
  <2>2. TypeOK' /\ Holds(L)'
    BY <1>1, <2>1 DEF TypeOK, Holds, Chain
  <2>3. Line' = Line
    BY <1>1, <2>1 DEF Line, Listed, Nth
  <2>4. Promise!MakeHead(Line, x) = Line
    <3>1. \A j \in 1..Len(L) :
            (IF j = 1 THEN x ELSE IF j <= 1 THEN Line[j - 1] ELSE Line[j]) = Line[j]
      BY <1>2, <1>3, <1>8
    <3>2. Line = [j \in 1..Len(L) |-> Line[j]]
      BY <1>3
    <3> QED
      BY <1>6, <1>8, <3>1, <3>2
  <2> QED
    BY <1>1, <1>4, <2>2, <2>3, <2>4
<1>9. CASE k # 1
  <2>1. L[k] # L[1] /\ L[k] \in Nodes /\ L[1] \in Nodes /\ L[k - 1] \in Nodes
    <3>1. 1 \in 1..Len(L) /\ k - 1 \in 1..Len(L)
      BY <1>3, <1>9
    <3> QED
      BY <1>9, <3>1 DEF Holds, Chain
  <2>2. /\ next' = [next EXCEPT ![L[k - 1]] = next[L[k]], ![L[k]] = head]
        /\ tail' = NewTail(L[k], L[k - 1]) /\ head' = L[k]
    BY <1>2, <1>7, <1>9, <2>1 DEF MakeHead
  <2>3. TypeOK'
    BY <1>1, <1>7, <2>1, <2>2 DEF TypeOK, NewTail
  <2>4. Holds(Moved(L, k))'
    BY <1>1, <1>9, <2>2, MovedAhead
  <2>5. /\ Moved(L, k) \in Seq(Nodes) /\ Len(Moved(L, k)) = Len(L)
    BY <1>9, MovedList DEF Holds, Chain
  <2>6. Line' = [i \in 1..Len(L) |-> thread[Moved(L, k)[i]]]
    BY <1>1, <2>3, <2>4, <2>5, LineThen
  <2>7. ASSUME NEW j \in 1..Len(L)
        PROVE  thread[Moved(L, k)[j]] =
                 IF j = 1 THEN x ELSE IF j <= k THEN Line[j - 1] ELSE Line[j]
    <3>1. Moved(L, k)[j] = IF j = 1 THEN L[k] ELSE IF j <= k THEN L[j - 1] ELSE L[j]
      BY DEF Moved
    <3>2. j # 1 => j - 1 \in 1..Len(L)
      BY <1>3
    <3> QED
      BY <1>2, <1>3, <3>1, <3>2
  <2>8. Line' = Promise!MakeHead(Line, x)
    BY <1>6, <2>6, <2>7
  <2> QED
    BY <1>1, <1>4, <2>3, <2>4, <2>5, <2>8
<1> QED
  BY <1>8, <1>9

(* Every other step leaves the list as it is.                              *)
LEMMA Kept ==
  ASSUME TypeOK, NEW L \in Seq(Nodes), Holds(L),
         UNCHANGED <<head, tail, thread, next, heap>>
  PROVE  Holds(L)' /\ Line' = Line
<1> QED
  BY DEF Holds, Chain, Line, Listed, Nth

-----------------------------------------------------------------------------

(* A new queue has no nodes.                                               *)
LEMMA QueueInit == Init => QInv
<1> SUFFICES ASSUME Init PROVE QInv
  OBVIOUS
<1>1. TypeOK
  BY DEF Init, TypeOK
<1>2. Holds(<<>>) /\ <<>> \in Seq(Nodes)
  BY DEF Init, Holds, Chain
<1> QED
  BY <1>1, <1>2 DEF QInv

(* Every step keeps the invariant, and is a step of the promised queue or  *)
(* changes neither that nor the answer.                                    *)
LEMMA QueueStep ==
  QInv /\ [Next]_vars => QInv' /\ [Promise!Next]_<<Line, answer>>
<1> SUFFICES ASSUME QInv, [Next]_vars PROVE QInv' /\ [Promise!Next]_<<Line, answer>>
  OBVIOUS
<1>1. PICK L \in Seq(Nodes) : Holds(L)
  BY DEF QInv
<1>2. TypeOK
  BY DEF QInv
<1>3. Line \in Seq(Threads \cup {None}) /\ Len(Line) = Len(L) /\ Line = ThreadsOf(L)
  BY <1>1, <1>2, LineIs
<1>4. ASSUME NEW x \in Threads, NEW n \in Nodes, Enqueue(x, n)
      PROVE  QInv' /\ Promise!Put(x)
  <2>1. Append(L, n) \in Seq(Nodes) /\ answer' = None
    BY <1>4 DEF Enqueue
  <2> QED
    BY <1>1, <1>2, <1>4, <2>1, EnqueueStep DEF QInv, Promise!Put, Promise!Enqueue
<1>5. ASSUME Dequeue PROVE QInv' /\ Promise!Take
  <2>1. Line # <<>>
    BY <1>1, <1>2, <1>5, DequeueStep
  <2>2. Tail(L) \in Seq(Nodes)
    BY <1>3, <2>1
  <2> QED
    BY <1>1, <1>2, <1>5, <2>2, DequeueStep DEF QInv, Promise!Take
<1>6. ASSUME DequeueEmpty PROVE QInv' /\ Promise!Take
  <2>1. /\ head = NULL /\ answer' = None
        /\ UNCHANGED <<head, tail, thread, next, heap, proc>>
    BY <1>6 DEF DequeueEmpty
  <2>2. Len(L) = 0
    BY <1>1, <2>1, NodesAssumption DEF Holds, Chain
  <2>3. Line = <<>>
    BY <1>3, <2>2
  <2>4. TypeOK'
    BY <1>2, <2>1 DEF TypeOK
  <2> QED
    BY <1>1, <1>2, <2>1, <2>3, <2>4, Kept DEF QInv, Promise!Take
<1>7. ASSUME NEW x \in Threads PROVE Found(x) <=> Promise!Contains(Line, x)
  <2>1. DOMAIN Line = 1..Len(L) /\ \A i \in 1..Len(L) : Line[i] = thread[L[i]]
    BY <1>3 DEF ThreadsOf
  <2> QED
    BY <1>1, <1>2, <2>1, Searched DEF Promise!Contains
<1>8. ASSUME NEW x \in Threads, GetThread(x) PROVE QInv' /\ Promise!Find(x)
  <2>1. /\ answer' = (IF Found(x) THEN x ELSE None)
        /\ UNCHANGED <<head, tail, thread, next, heap, proc>>
    BY <1>8 DEF GetThread
  <2>2. TypeOK'
    BY <1>2, <2>1 DEF TypeOK
  <2> QED
    BY <1>1, <1>2, <1>7, <2>1, <2>2, Kept DEF QInv, Promise!Find
<1>9. ASSUME NEW x \in Threads, MakeHead(x) PROVE QInv' /\ Promise!Promote(x)
  BY <1>1, <1>2, <1>9, MakeHeadStep DEF QInv, Promise!Promote
<1>10. ASSUME NEW x \in Threads, MakeHeadMisses(x) PROVE QInv' /\ Promise!Promote(x)
  <2>1. /\ ~Found(x) /\ answer' = None
        /\ UNCHANGED <<head, tail, thread, next, heap, proc>>
    BY <1>10 DEF MakeHeadMisses
  <2>2. TypeOK'
    BY <1>2, <2>1 DEF TypeOK
  <2> QED
    BY <1>1, <1>2, <1>7, <2>1, <2>2, Kept DEF QInv, Promise!Promote
<1>11. ASSUME UNCHANGED <<head, tail, thread, next, heap, answer>>,
              proc' \in {proc, "crashed"}
       PROVE  QInv' /\ UNCHANGED <<Line, answer>>
  <2>1. TypeOK'
    BY <1>2, <1>11 DEF TypeOK
  <2> QED
    BY <1>1, <1>2, <1>11, <2>1, Kept DEF QInv
<1>12. ASSUME NEW x \in Threads, MakeHeadWild(x)
       PROVE  QInv' /\ UNCHANGED <<Line, answer>>
  BY <1>11, <1>12 DEF MakeHeadWild
<1>13. CASE EnqueueFails
  BY <1>11, <1>13 DEF EnqueueFails
<1>14. CASE Over \/ UNCHANGED vars
  BY <1>11, <1>14 DEF Over, vars
<1> QED
  BY <1>4, <1>5, <1>6, <1>8, <1>9, <1>10, <1>12, <1>13, <1>14 DEF Next, Promise!Next

(* The list is one at any time.                                            *)
LEMMA QueueInvariant == Spec => []QInv
<1> QED
  BY QueueInit, QueueStep, PTL DEF Spec

(* The pointers of the list keep to their types.                           *)
THEOREM TypeCorrect == Spec => []TypeOK
<1>1. QInv => TypeOK
  BY DEF QInv
<1> QED
  BY <1>1, QueueInvariant, PTL

(* The members, as the pointers lead to them, are the nodes of the list.   *)
LEMMA MembersAre ==
  ASSUME TypeOK, NEW L \in Seq(Nodes), Holds(L)
  PROVE  Members = {L[i] : i \in 1..Len(L)}
<1>1. /\ Len(L) \in Nat /\ Cardinality(Nodes) \in Nat /\ Len(L) <= Cardinality(Nodes)
      /\ Nth(head, next) = [i \in 1..Cardinality(Nodes) + 1 |->
                              IF i <= Len(L) THEN L[i] ELSE NULL]
  BY Walk, NodesAssumption DEF Holds, TypeOK
<1>2. \A i \in 1..Len(L) : L[i] # NULL
  BY NodesAssumption
<1>3. \A i \in 1..Cardinality(Nodes) + 1 :
        Nth(head, next)[i] = IF i <= Len(L) THEN L[i] ELSE NULL
  BY <1>1
<1> QED
  BY <1>1, <1>2, <1>3 DEF Members

(* No node is lost and none is used after dequeue has freed it.            *)
THEOREM NothingLost == Spec => []ListIsHeap
<1>1. QInv => ListIsHeap
  BY MembersAre DEF QInv, ListIsHeap, Holds
<1> QED
  BY <1>1, QueueInvariant, PTL

(* A search never follows a null pointer: a list that is not empty has its *)
(* tail among its nodes, and it is the last.                               *)
THEOREM SearchesEnd == Spec => []EndsAtTail
<1>1. QInv => EndsAtTail
  <2> SUFFICES ASSUME QInv, head # NULL PROVE tail \in Members /\ next[tail] = NULL
    BY DEF EndsAtTail
  <2>1. PICK L \in Seq(Nodes) : Holds(L)
    BY DEF QInv
  <2>2. Len(L) \in Nat /\ Len(L) # 0
    BY <2>1 DEF Holds, Chain
  <2>3. Len(L) \in 1..Len(L) /\ tail = L[Len(L)] /\ next[tail] = NULL
    BY <2>1, <2>2 DEF Holds, Chain
  <2> QED
    BY <2>1, <2>3, MembersAre DEF QInv
<1> QED
  BY <1>1, QueueInvariant, PTL

(* The linked list implements the queue that the schedulers rely on.       *)
THEOREM KeepsPromise == Spec => ImplementsQueue
<1>1. Init => Promise!Init
  <2> SUFFICES ASSUME Init PROVE Promise!Init
    OBVIOUS
  <2>1. TypeOK /\ Holds(<<>>) /\ <<>> \in Seq(Nodes)
    BY DEF Init, TypeOK, Holds, Chain
  <2>2. Len(Line) = 0 /\ Line \in Seq(Threads \cup {None})
    BY <2>1, LineIs
  <2>3. Line = <<>>
    BY <2>2
  <2> QED
    BY <2>3 DEF Promise!Init, Init
<1>2. QInv /\ [Next]_vars => [Promise!Next]_<<Line, answer>>
  BY QueueStep
<1> QED
  BY <1>1, <1>2, QueueInvariant, PTL DEF Spec, ImplementsQueue, Promise!Spec
=============================================================================

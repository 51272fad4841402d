--------------------------- MODULE ListWalkProofs ---------------------------
(***************************************************************************)
(* What the search loop of queue.c does on a list that is one: a sequence  *)
(* of nodes, each pointing to the next and the last one nowhere.           *)
(***************************************************************************)
EXTENDS ListWalk, WellFoundedInduction, FiniteSetTheorems, TLAPS

(* head and next lead through the nodes of L and end.                      *)
Chain(L, head, next) ==
  /\ head = IF Len(L) = 0 THEN NULL ELSE L[1]
  /\ \A i \in 1..Len(L) : next[L[i]] = IF i = Len(L) THEN NULL ELSE L[i + 1]
  /\ \A i, j \in 1..Len(L) : L[i] = L[j] => i = j

-----------------------------------------------------------------------------

(* A set of numbers that is not empty has a least one.                     *)
LEMMA Least ==
  ASSUME NEW S \in SUBSET Nat, S # {}
  PROVE  \E i \in S : \A j \in S : i <= j
<1>1. \E i \in S : \A j \in S : ~(<<j, i>> \in OpToRel(<, Nat))
  BY WFMin, NatLessThanWellFounded
<1>2. PICK i \in S : \A j \in S : ~(<<j, i>> \in OpToRel(<, Nat))
  BY <1>1
<1>3. ASSUME NEW j \in S, j < i PROVE FALSE
  <2>1. <<j, i>> \in OpToRel(<, Nat)
    BY <1>3 DEF OpToRel
  <2> QED
    BY <1>2, <2>1
<1>4. \A j \in S : i <= j
  <2> SUFFICES ASSUME NEW j \in S PROVE i <= j
    OBVIOUS
  <2>1. ~(j < i)
    BY <1>3
  <2> QED
    BY <2>1
<1> QED
  BY <1>4

(* 1..n has n members.                                                     *)
LEMMA UpTo == ASSUME NEW n \in Nat PROVE Cardinality(1..n) = n
<1>1. 1 \in Int /\ n \in Int /\ (IF 1 > n THEN 0 ELSE n - 1 + 1) = n
  OBVIOUS
<1> QED
  BY <1>1, FS_Interval

(* A sequence that repeats nothing is no longer than there are things.     *)
LEMMA NoLonger ==
  ASSUME NEW S, IsFiniteSet(S), NEW L \in Seq(S),
         \A i, j \in 1..Len(L) : L[i] = L[j] => i = j
  PROVE  Len(L) \in Nat /\ Cardinality(S) \in Nat /\ Len(L) <= Cardinality(S)
<1>1. Len(L) \in Nat /\ L \in [1..Len(L) -> S]
  OBVIOUS
<1>2. Cardinality(S) \in Nat
  BY FS_CardinalityType
<1>3. Cardinality(1..Len(L)) = Len(L)
  BY <1>1, UpTo
<1>4. Cardinality(1..Len(L)) <= Cardinality(S)
  <2>1. L \in Injection(1..Len(L), S)
    BY <1>1 DEF Injection, IsInjective
  <2> QED
    BY <2>1, FS_Injection
<1> QED
  BY <1>1, <1>2, <1>3, <1>4

(* The pointers lead through L, and then nowhere.                          *)
LEMMA Walk ==
  ASSUME NEW S, IsFiniteSet(S), NULL \notin S, NEW next \in [S -> S \cup {NULL}],
         NEW L \in Seq(S), NEW head, Chain(L, head, next)
  PROVE  /\ Len(L) <= Cardinality(S) /\ Cardinality(S) \in Nat
         /\ Nth(head, next) = [i \in 1..Cardinality(S) + 1 |->
                                IF i <= Len(L) THEN L[i] ELSE NULL]
<1> DEFINE D == 1..Cardinality(S) + 1
           w == [i \in D |-> IF i <= Len(L) THEN L[i] ELSE NULL]
           step(f) == [i \in D |-> IF i = 1 THEN head
                                   ELSE IF f[i - 1] = NULL THEN NULL
                                   ELSE next[f[i - 1]]]
           node == CHOOSE f : f = step(f)
<1>1. Len(L) \in Nat /\ Cardinality(S) \in Nat /\ Len(L) <= Cardinality(S)
  BY NoLonger DEF Chain
<1>2. DOMAIN next = S
  OBVIOUS
<1>3. Nth(head, next) = node
  BY <1>2 DEF Nth
<1>4. w = step(w)
  <2>1. ASSUME NEW i \in D PROVE w[i] = step(w)[i]
    BY <1>1, <2>1 DEF Chain
  <2> HIDE DEF D
  <2> QED
    BY <2>1
<1>5. node = step(node)
  <2> HIDE DEF w, step
  <2> QED
    BY <1>4
<1> HIDE DEF node
<1>6. ASSUME NEW i \in D PROVE node[i] = w[i]
  <2> DEFINE Bad == {k \in D : node[k] # w[k]}
  <2> SUFFICES ASSUME Bad # {} PROVE FALSE
    OBVIOUS
  <2>1. Bad \in SUBSET Nat
    BY <1>1
  <2>2. PICK k \in Bad : \A j \in Bad : k <= j
    <3> HIDE DEF Bad
    <3> QED
      BY <2>1, Least
  <2>3. k \in D /\ k \in Nat /\ node[k] = step(node)[k] /\ w[k] = step(w)[k]
    <3>1. k \in D /\ k \in Nat
      BY <1>1, <2>2
    <3>2. node[k] = step(node)[k] /\ w[k] = step(w)[k]
      <4> HIDE DEF step, w
      <4> QED
        BY <1>4, <1>5
    <3> QED
      BY <3>1, <3>2
  <2>4. CASE k = 1
    BY <2>2, <2>3, <2>4
  <2>5. CASE k # 1
    <3>1. k - 1 \in D /\ ~(k - 1 \in Bad)
      BY <1>1, <2>2, <2>3, <2>5
    <3>2. node[k - 1] = w[k - 1]
      BY <3>1
    <3>3. node[k] = w[k]
      BY <2>3, <3>2
    <3> QED
      BY <2>2, <3>3
  <2> QED
    BY <2>4, <2>5
<1>7. node = w
  <2>1. node = [i \in D |-> node[i]]
    BY <1>5
  <2> HIDE DEF D
  <2> QED
    BY <1>6, <2>1
<1> QED
  BY <1>1, <1>3, <1>7

(* The loop stops at the first place where it has a reason to.             *)
LEMMA Stop ==
  ASSUME NEW head, NEW tail, NEW next, NEW hits, NEW n \in Nat,
         DOMAIN Nth(head, next) = 1..n, NEW k \in 1..n,
         Nth(head, next)[k] \in Stops(tail, hits),
         \A j \in 1..k - 1 : Nth(head, next)[j] \notin Stops(tail, hits)
  PROVE  LastStep(head, tail, next, hits) = k
<1> DEFINE node == Nth(head, next)
           First(i) == /\ node[i] \in Stops(tail, hits)
                       /\ \A j \in 1..i - 1 : node[j] \notin Stops(tail, hits)
<1>1. LastStep(head, tail, next, hits) = CHOOSE i \in 1..n : First(i)
  BY DEF LastStep
<1>2. First(k)
  OBVIOUS
<1>3. \A i \in 1..n : First(i) => i = k
  <2> SUFFICES ASSUME NEW i \in 1..n, First(i) PROVE i = k
    OBVIOUS
  <2> QED
    OBVIOUS
<1> HIDE DEF First
<1> QED
  BY <1>1, <1>2, <1>3

(* The list as it is printed from the pointers has the threads of L.       *)
LEMMA ListedAll ==
  ASSUME NEW S, IsFiniteSet(S), NULL \notin S, NEW next \in [S -> S \cup {NULL}],
         NEW L \in Seq(S), NEW head, Chain(L, head, next), NEW thread
  PROVE  Listed(head, next, thread) = [i \in 1..Len(L) |-> thread[L[i]]]
<1> DEFINE node == Nth(head, next)
           there == {i \in DOMAIN node : node[i] # NULL}
<1>1. Len(L) \in Nat /\ Cardinality(S) \in Nat /\ Len(L) <= Cardinality(S)
  BY NoLonger DEF Chain
<1>2. node = [i \in 1..Cardinality(S) + 1 |-> IF i <= Len(L) THEN L[i] ELSE NULL]
  BY Walk
<1>3. \A i \in 1..Len(L) : L[i] \in S
  OBVIOUS
<1>4. there = 1..Len(L)
  <2> HIDE DEF node
  <2> QED
    BY <1>1, <1>2, <1>3
<1>5. Cardinality(there) = Len(L)
  <2>1. Cardinality(1..Len(L)) = Len(L)
    BY <1>1, UpTo
  <2> HIDE DEF there
  <2> QED
    BY <1>4, <2>1
<1>6. Listed(head, next, thread) = [i \in 1..Cardinality(there) |-> thread[node[i]]]
  BY DEF Listed
<1>7. \A i \in 1..Len(L) : node[i] = L[i]
  <2> HIDE DEF node
  <2> QED
    BY <1>1, <1>2
<1> HIDE DEF node, there
<1> QED
  BY <1>5, <1>6, <1>7

(* A search ends at the first node of L at which it has a reason to stop.  *)
LEMMA EndsAt ==
  ASSUME NEW S, IsFiniteSet(S), NULL \notin S, NEW next \in [S -> S \cup {NULL}],
         NEW L \in Seq(S), NEW head, Chain(L, head, next), NEW tail, NEW hits,
         NEW k \in 1..Len(L), L[k] \in Stops(tail, hits),
         \A j \in 1..k - 1 : L[j] \notin Stops(tail, hits)
  PROVE  /\ Ends(head, tail, next, hits) = L[k]
         /\ k # 1 => Before(head, tail, next, hits) = L[k - 1]
<1> DEFINE node == Nth(head, next)
<1>1. Len(L) \in Nat /\ Cardinality(S) \in Nat /\ Len(L) <= Cardinality(S)
  BY NoLonger DEF Chain
<1>2. node = [i \in 1..Cardinality(S) + 1 |-> IF i <= Len(L) THEN L[i] ELSE NULL]
  BY Walk
<1>3. \A i \in 1..Len(L) : node[i] = L[i]
  <2> HIDE DEF node
  <2> QED
    BY <1>1, <1>2
<1>4. LastStep(head, tail, next, hits) = k
  <2>1. DOMAIN node = 1..Cardinality(S) + 1 /\ k \in 1..Cardinality(S) + 1
    <3> HIDE DEF node
    <3> QED
      BY <1>1, <1>2
  <2>2. node[k] \in Stops(tail, hits)
    BY <1>3
  <2>3. \A j \in 1..k - 1 : node[j] \notin Stops(tail, hits)
    BY <1>1, <1>3
  <2> QED
    BY <1>1, <2>1, <2>2, <2>3, Stop
<1>5. k # 1 => k - 1 \in 1..Len(L)
  BY <1>1
<1> QED
  BY <1>3, <1>4, <1>5 DEF Ends, Before

(* A search whose tail is a node of L ends no later than there, at the     *)
(* first hit or at the tail, and the node before is the one before in L.   *)
LEMMA Search ==
  ASSUME NEW S, IsFiniteSet(S), NULL \notin S, NEW next \in [S -> S \cup {NULL}],
         NEW L \in Seq(S), NEW head, Chain(L, head, next), NEW m \in 1..Len(L),
         NEW hits \in SUBSET S
  PROVE  \E k \in 1..m :
           /\ Ends(head, L[m], next, hits) = L[k]
           /\ k # 1 => Before(head, L[m], next, hits) = L[k - 1]
           /\ \A j \in 1..k - 1 : L[j] \notin hits
           /\ L[k] \in hits \/ k = m
<1> DEFINE tail == L[m]
           stops == {i \in 1..m : L[i] \in Stops(tail, hits)}
<1>1. Len(L) \in Nat /\ 1..m \subseteq 1..Len(L)
  OBVIOUS
<1>2. stops \in SUBSET Nat /\ m \in stops
  BY <1>1 DEF Stops
<1>3. PICK k \in stops : \A j \in stops : k <= j
  <2> HIDE DEF stops
  <2> QED
    BY <1>2, Least
<1>4. k \in 1..m /\ L[k] \in Stops(tail, hits)
  <2>1. k \in stops
    BY <1>3
  <2> HIDE DEF tail
  <2> QED
    BY <2>1
<1>5. \A j \in 1..k - 1 : L[j] \notin Stops(tail, hits)
  BY <1>1, <1>3
<1>6. \A i \in 1..Len(L) : L[i] # NULL
  OBVIOUS
<1>7. /\ Ends(head, tail, next, hits) = L[k]
      /\ k # 1 => Before(head, tail, next, hits) = L[k - 1]
  <2> HIDE DEF tail
  <2> QED
    BY <1>1, <1>4, <1>5, EndsAt
<1>8. \A j \in 1..k - 1 : L[j] \notin hits
  BY <1>5 DEF Stops
<1>9. L[k] \in hits \/ k = m
  BY <1>1, <1>4, <1>6 DEF Stops, Chain
<1> QED
  BY <1>4, <1>7, <1>8, <1>9
=============================================================================

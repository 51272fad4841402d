------------------------- MODULE TestProgramsProofs -------------------------
(***************************************************************************)
(* What the test programs print and when they exit is right, on each       *)
(* library, for any number of threads up to ten, any loops and any number  *)
(* of failing allocations.                                                 *)
(*                                                                         *)
(* First the programs: what all of them have in common, and what those     *)
(* that join every thread have.  Then what holds while one of them runs.   *)
(* The total follows from a sum that each addition keeps; that no thread   *)
(* is still counting, and that a status is the thread's own, from what     *)
(* main() knows of its threads by the statements it has passed.            *)
(***************************************************************************)
EXTENDS TestPrograms, WellFoundedInduction, FiniteSetTheorems, TLAPS

Lists == INSTANCE SequenceTheorems

(* What all routines have in common.                                       *)
Sound(r) ==
  r.rounds \in Nat /\ r.times \in Nat /\ r.step \in Int /\ r.leaves \in Values

(* What all programs have in common.                                       *)
Proper(p) ==
  /\ Len(p.main) \in Nat
  /\ DOMAIN p.routine \subseteq Workers
  /\ \A w \in DOMAIN p.routine : Sound(p.routine[w])
  /\ p.status \in {Garbage, Buffer}
  /\ \A i \in 1..Len(p.main) :
       LET m == p.main[i] IN
       /\ m.op \in {"create", "join", "kill", "show", "follow", "total"}
       /\ m.op = "create" => m.id \in Workers /\ m.worker \in DOMAIN p.routine
       /\ m.op \in {"join", "kill", "show", "follow"} => m.id \in Workers
       /\ m.op = "kill" => m.sig \in {"INT", "STOP", "USR1", "invalid"}

(* What those have in common that join all they create: thread and         *)
(* variable have one number, every thread is joined, after it is created,  *)
(* the total is printed last and a status after the join that keeps it.    *)
Tidy(p) ==
  LET is(i, op) == i \in 1..Len(p.main) /\ p.main[i].op = op IN
  /\ \A c : is(c, "create") => p.main[c].worker = p.main[c].id
  /\ \A c, j : is(c, "create") /\ is(j, "join") /\ p.main[j].id = p.main[c].id => c < j
  /\ \A c : is(c, "create") => \E j : is(j, "join") /\ p.main[j].id = p.main[c].id
  /\ \A i : is(i, "total") => i = Len(p.main)
  /\ \A i : is(i, "show") \/ is(i, "follow") =>
       \E j : is(j, "join") /\ p.main[j].keeps /\ p.main[j].id = p.main[i].id /\ j < i

(* What the others have: they print neither.                               *)
Plain(p) == \A i \in 1..Len(p.main) : p.main[i].op \notin {"total", "show", "follow"}

(* The statements' fields.                                                 *)
LEMMA Fields ==
  /\ \A i, w : Create(i, w).op = "create" /\ Create(i, w).id = i /\ Create(i, w).worker = w
  /\ \A i : Join(i).op = "join" /\ Join(i).id = i
  /\ Total.op = "total"
  BY DEF Create, Join, Total

(* CreateAll and JoinAll as sequences.                                     *)
LEMMA Batched ==
  ASSUME NEW n \in 1..10
  PROVE  LET s == CreateAll(n) \o JoinAll(n) IN
         /\ Len(s) = 2 * n /\ \E S : s \in Seq(S)
         /\ \A i \in 1..n : s[i] = Create(i, i)
         /\ \A i \in n + 1..2 * n : s[i] = Join(i - n)
<1> DEFINE S == {Create(w, w) : w \in 1..n} \cup {Join(w) : w \in 1..n}
           a == CreateAll(n)
           b == JoinAll(n)
<1>1. a \in Seq(S) /\ Len(a) = n /\ \A i \in 1..n : a[i] = Create(i, i)
  <2>1. a \in [1..n -> S] /\ n \in Nat /\ \A i \in 1..n : a[i] = Create(i, i)
    BY DEF CreateAll
  <2> HIDE DEF a, S
  <2> QED
    BY <2>1, Lists!SeqDef
<1>2. b \in Seq(S) /\ Len(b) = n /\ \A i \in 1..n : b[i] = Join(i)
  <2>1. b \in [1..n -> S] /\ n \in Nat /\ \A i \in 1..n : b[i] = Join(i)
    BY DEF JoinAll
  <2> HIDE DEF b, S
  <2> QED
    BY <2>1, Lists!SeqDef
<1>3. /\ a \o b \in Seq(S) /\ Len(a \o b) = 2 * n
      /\ \A i \in 1..n : (a \o b)[i] = a[i]
      /\ \A i \in n + 1..2 * n : (a \o b)[i] = b[i - n]
  <2> HIDE DEF a, b, S
  <2> QED
    BY <1>1, <1>2, Lists!ConcatProperties
<1> HIDE DEF S
<1>4. \A i \in 1..n : (a \o b)[i] = Create(i, i)
  <2> HIDE DEF a, b
  <2> QED
    BY <1>1, <1>3
<1>5. \A i \in n + 1..2 * n : (a \o b)[i] = Join(i - n)
  <2> HIDE DEF a, b
  <2>1. ASSUME NEW i \in n + 1..2 * n PROVE i - n \in 1..n
    OBVIOUS
  <2> QED
    BY <1>2, <1>3, <2>1
<1> QED
  BY <1>3, <1>4, <1>5

(* The programs that create all threads and then join all.                 *)
LEMMA AllTidy ==
  ASSUME NEW n \in 1..10, NEW p, DOMAIN p.routine = 1..n,
         \A w \in 1..n : Sound(p.routine[w]), p.status \in {Garbage, Buffer},
         \/ p.main = CreateAll(n) \o JoinAll(n)
         \/ p.main = CreateAll(n) \o JoinAll(n) \o <<Total>>
  PROVE  Proper(p) /\ Tidy(p)
<1> DEFINE s == CreateAll(n) \o JoinAll(n)
<1>1. /\ Len(s) = 2 * n /\ \E S : s \in Seq(S)
      /\ \A i \in 1..n : s[i] = Create(i, i)
      /\ \A i \in n + 1..2 * n : s[i] = Join(i - n)
  BY Batched
<1>2. PICK m \in {0, 1} :
        /\ Len(p.main) = 2 * n + m
        /\ \A i \in 1..2 * n : p.main[i] = s[i]
        /\ m = 1 => p.main[2 * n + 1] = Total
  <2> HIDE DEF s
  <2>1. CASE p.main = s
    BY <1>1, <2>1
  <2>2. CASE p.main = s \o <<Total>>
    <3>1. PICK S : s \in Seq(S)
      BY <1>1
    <3>2. s \in Seq(S \cup {Total}) /\ <<Total>> \in Seq(S \cup {Total})
      BY <3>1
    <3> QED
      BY <1>1, <2>2, <3>2, Lists!ConcatProperties
  <2> QED
    BY <2>1, <2>2 DEF s
<1> HIDE DEF s
<1>3. /\ Len(p.main) \in {2 * n, 2 * n + 1} /\ n \in Nat
      /\ \A i \in 1..n :
           p.main[i].op = "create" /\ p.main[i].id = i /\ p.main[i].worker = i
      /\ \A i \in n + 1..2 * n : p.main[i].op = "join" /\ p.main[i].id = i - n
      /\ \A i \in 1..Len(p.main) : i \in 1..2 * n \/ (i = Len(p.main) /\ p.main[i].op = "total")
  <2>1. n \in Nat /\ Len(p.main) \in {2 * n, 2 * n + 1}
    BY <1>2
  <2>2. ASSUME NEW i \in 1..n PROVE p.main[i] = Create(i, i)
    <3>1. i \in 1..2 * n
      OBVIOUS
    <3> QED
      BY <1>1, <1>2, <3>1
  <2>3. ASSUME NEW i \in n + 1..2 * n PROVE p.main[i] = Join(i - n)
    <3>1. i \in 1..2 * n
      OBVIOUS
    <3> QED
      BY <1>1, <1>2, <3>1
  <2>4. ASSUME NEW i \in 1..Len(p.main), i \notin 1..2 * n
        PROVE  i = Len(p.main) /\ p.main[i].op = "total"
    <3>1. i = 2 * n + 1 /\ Len(p.main) = 2 * n + 1
      BY <2>1, <2>4
    <3> QED
      BY <1>2, <3>1, Fields
  <2>5. \A i \in 1..n : p.main[i].op = "create" /\ p.main[i].id = i /\ p.main[i].worker = i
    BY <2>2, Fields
  <2>6. \A i \in n + 1..2 * n : p.main[i].op = "join" /\ p.main[i].id = i - n
    BY <2>3, Fields
  <2>7. \A i \in 1..Len(p.main) : i \in 1..2 * n \/ (i = Len(p.main) /\ p.main[i].op = "total")
    BY <2>4
  <2> QED
    BY <2>1, <2>5, <2>6, <2>7, Zenon
<1>4. \A i \in 1..Len(p.main) :
        LET st == p.main[i] IN
        \/ st.op = "create" /\ st.id \in 1..n /\ st.worker = st.id /\ i = st.id
        \/ st.op = "join" /\ st.id \in 1..n /\ i = n + st.id
        \/ st.op = "total" /\ i = Len(p.main)
  <2> TAKE i \in 1..Len(p.main)
  <2>1. \/ i \in 1..n
        \/ i \in n + 1..2 * n
        \/ (i = Len(p.main) /\ p.main[i].op = "total")
    BY <1>3
  <2>2. i \in n + 1..2 * n => i - n \in 1..n /\ i = n + (i - n)
    OBVIOUS
  <2> QED
    BY <1>3, <2>1, <2>2
<1>5. Len(p.main) \in Nat /\ 1..n \subseteq Workers
  BY <1>3 DEF Workers
<1>6. Proper(p)
  BY <1>4, <1>5 DEF Proper
<1>7. Tidy(p)
  <2>1. ASSUME NEW c \in 1..Len(p.main), p.main[c].op = "create"
        PROVE  \E j \in 1..Len(p.main) : p.main[j].op = "join" /\ p.main[j].id = p.main[c].id
    <3>1. c \in 1..n /\ p.main[c].id = c
      BY <1>4, <2>1
    <3>2. n + c \in n + 1..2 * n /\ (n + c) - n = c /\ n + c \in 1..Len(p.main)
      BY <1>3, <3>1
    <3>3. p.main[n + c].op = "join" /\ p.main[n + c].id = c
      BY <1>3, <3>2
    <3> QED
      BY <3>1, <3>2, <3>3
  <2>2. ASSUME NEW c \in 1..Len(p.main), p.main[c].op = "create",
               NEW j \in 1..Len(p.main), p.main[j].op = "join", p.main[j].id = p.main[c].id
        PROVE  c < j
    BY <1>4, <2>2
  <2> QED
    BY <1>4, <2>1, <2>2 DEF Tidy
<1> QED
  BY <1>6, <1>7

(* The programs that join each thread before they create the next.         *)
LEMMA InTurnTidy ==
  ASSUME NEW n \in 1..10, NEW p, DOMAIN p.routine = 1..n,
         \A w \in 1..n : Sound(p.routine[w]), p.status \in {Garbage, Buffer},
         p.main = InTurn(n) \/ p.main = InTurn(n) \o <<Total>>
  PROVE  Proper(p) /\ Tidy(p)
<1> DEFINE s == InTurn(n)
           S == {Create(w, w) : w \in 1..10} \cup {Join(w) : w \in 1..10} \cup {Total}
<1>1. /\ s \in [1..2 * n -> S] /\ 2 * n \in Nat
      /\ \A i \in 1..n : s[2 * i - 1] = Create(i, i) /\ s[2 * i] = Join(i)
  <2>1. ASSUME NEW i \in 1..2 * n
        PROVE  IF i % 2 = 1 THEN (i + 1) \div 2 \in 1..10 ELSE i \div 2 \in 1..10
    OBVIOUS
  <2>2. s \in [1..2 * n -> S]
    BY <2>1 DEF InTurn
  <2>3. ASSUME NEW i \in 1..n PROVE s[2 * i - 1] = Create(i, i) /\ s[2 * i] = Join(i)
    <3>1. /\ 2 * i - 1 \in 1..2 * n /\ 2 * i \in 1..2 * n
          /\ (2 * i - 1) % 2 = 1 /\ (2 * i) % 2 # 1
          /\ ((2 * i - 1) + 1) \div 2 = i /\ (2 * i) \div 2 = i
      OBVIOUS
    <3> QED
      BY <3>1 DEF InTurn
  <2> QED
    BY <2>2, <2>3
<1>2. s \in Seq(S) /\ Len(s) = 2 * n /\ <<Total>> \in Seq(S)
  <2>1. Total \in S
    OBVIOUS
  <2> HIDE DEF s, S
  <2> QED
    BY <1>1, <2>1, Lists!SeqDef
<1>3. /\ Len(p.main) \in {2 * n, 2 * n + 1}
      /\ \A i \in 1..2 * n : p.main[i] = s[i]
      /\ Len(p.main) = 2 * n + 1 => p.main[2 * n + 1] = Total
  <2> HIDE DEF s, S
  <2>1. CASE p.main = s
    BY <1>2, <2>1
  <2>2. CASE p.main = s \o <<Total>>
    <3>1. Len(<<Total>>) = 1 /\ <<Total>>[1] = Total /\ n \in Nat
      OBVIOUS
    <3>2. /\ Len(p.main) = Len(s) + 1
          /\ \A i \in 1..Len(s) + 1 :
               p.main[i] = IF i <= Len(s) THEN s[i] ELSE <<Total>>[i - Len(s)]
      BY <1>2, <2>2, <3>1, Lists!ConcatProperties
    <3>3. Len(p.main) = 2 * n + 1 /\ 2 * n + 1 \in 1..2 * n + 1 /\ ~(2 * n + 1 <= 2 * n)
      BY <1>2, <3>1, <3>2
    <3>4. p.main[2 * n + 1] = <<Total>>[(2 * n + 1) - 2 * n] /\ (2 * n + 1) - 2 * n = 1
      BY <1>2, <3>2, <3>3
    <3>5. \A i \in 1..2 * n : i \in 1..2 * n + 1 /\ i <= 2 * n
      BY <3>1
    <3>6. \A i \in 1..2 * n : p.main[i] = s[i]
      BY <1>2, <3>2, <3>5
    <3> QED
      BY <3>1, <3>3, <3>4, <3>6
  <2> QED
    BY <2>1, <2>2 DEF s
<1> HIDE DEF s, S
<1>4. ASSUME NEW i \in 1..2 * n
      PROVE  (\E w \in 1..n : i = 2 * w - 1) \/ (\E w \in 1..n : i = 2 * w)
  <2>1. CASE i % 2 = 1
    <3>1. (i + 1) \div 2 \in 1..n /\ i = 2 * ((i + 1) \div 2) - 1
      BY <2>1
    <3> QED
      BY <3>1
  <2>2. CASE i % 2 # 1
    <3>1. i \div 2 \in 1..n /\ i = 2 * (i \div 2)
      BY <2>2
    <3> QED
      BY <3>1
  <2> QED
    BY <2>1, <2>2
<1>5. \A w \in 1..n :
        /\ 2 * w - 1 \in 1..Len(p.main) /\ 2 * w \in 1..Len(p.main)
        /\ p.main[2 * w - 1].op = "create" /\ p.main[2 * w - 1].id = w
        /\ p.main[2 * w - 1].worker = w
        /\ p.main[2 * w].op = "join" /\ p.main[2 * w].id = w
  <2> TAKE w \in 1..n
  <2>1. 2 * w - 1 \in 1..2 * n /\ 2 * w \in 1..2 * n /\ n \in Nat
    OBVIOUS
  <2>2. p.main[2 * w - 1] = Create(w, w) /\ p.main[2 * w] = Join(w)
    BY <1>1, <1>3, <2>1
  <2> QED
    BY <1>3, <2>1, <2>2, Fields
<1>6. \A i \in 1..Len(p.main) :
        LET m == p.main[i] IN
        \/ m.op = "create" /\ m.id \in 1..n /\ m.worker = m.id /\ i = 2 * m.id - 1
        \/ m.op = "join" /\ m.id \in 1..n /\ i = 2 * m.id
        \/ m.op = "total" /\ i = Len(p.main)
  <2> TAKE i \in 1..Len(p.main)
  <2>1. i \in 1..2 * n \/ (i = 2 * n + 1 /\ Len(p.main) = 2 * n + 1)
    BY <1>3
  <2>2. ASSUME NEW w \in 1..n, i = 2 * w - 1
        PROVE  p.main[i].op = "create" /\ p.main[i].id = w /\ p.main[i].worker = w
    BY <1>5, <2>2
  <2>3. ASSUME NEW w \in 1..n, i = 2 * w PROVE p.main[i].op = "join" /\ p.main[i].id = w
    BY <1>5, <2>3
  <2>4. CASE i = 2 * n + 1 /\ Len(p.main) = 2 * n + 1
    BY <1>3, <2>4, Fields
  <2> QED
    BY <1>4, <2>1, <2>2, <2>3, <2>4
<1>7. Len(p.main) \in Nat /\ 1..n \subseteq Workers
  BY <1>3 DEF Workers
<1>8. Proper(p)
  BY <1>6, <1>7 DEF Proper
<1>9. Tidy(p)
  <2>1. ASSUME NEW c \in 1..Len(p.main), p.main[c].op = "create"
        PROVE  \E j \in 1..Len(p.main) : p.main[j].op = "join" /\ p.main[j].id = p.main[c].id
    BY <1>5, <1>6, <2>1
  <2>2. ASSUME NEW c \in 1..Len(p.main), p.main[c].op = "create",
               NEW j \in 1..Len(p.main), p.main[j].op = "join", p.main[j].id = p.main[c].id
        PROVE  c < j
    BY <1>6, <2>2
  <2> QED
    BY <1>6, <2>1, <2>2 DEF Tidy
<1> QED
  BY <1>8, <1>9

(* What the threads do, and what a program is made of.                     *)
LEMMA Routines ==
  /\ \A r, n \in Nat, s \in Int :
       Sound(Adds(r, n, s)) /\ Sound([Adds(r, n, s) EXCEPT !.leaves = Garbage])
  /\ \A v \in Values : Sound(Leaves(v))
  /\ Sound(RunsOn) /\ Sound(Mallocs(1)) /\ Sound(Mallocs(2))
  BY DEF Sound, Adds, Leaves, RunsOn, Mallocs, Values, NULL, Garbage, Stored

(* The fields of a program.                                                *)
LEMMA Parts ==
  ASSUME NEW m, NEW r
  PROVE  /\ Run(m, r).main = m /\ Run(m, r).routine = r /\ Run(m, r).status = Garbage
         /\ OnHeap(Run(m, r)).main = m /\ OnHeap(Run(m, r)).routine = r
         /\ OnHeap(Run(m, r)).status = Garbage
  BY DEF Run, OnHeap

(* The shapes of the programs of the suites.                               *)
LEMMA CountingTidy ==
  ASSUME NEW n \in 1..10, NEW r, Sound(r)
  PROVE  Proper(Counting(n, r)) /\ Tidy(Counting(n, r))
<1> DEFINE p == Counting(n, r)
<1>1. /\ p.main = CreateAll(n) \o JoinAll(n) \o <<Total>>
      /\ p.routine = [w \in 1..n |-> r] /\ p.status = Garbage
  BY DEF Counting, Run, OnHeap
<1> HIDE DEF p
<1>2. Proper(p) /\ Tidy(p)
  BY <1>1, AllTidy
<1> QED
  BY <1>2 DEF p

(* Those that join each thread before the next, and print the total.       *)
LEMMA OneByOneTidy ==
  ASSUME NEW n \in 1..10, NEW r, Sound(r)
  PROVE  Proper(OneByOne(n, r)) /\ Tidy(OneByOne(n, r))
<1> DEFINE p == OneByOne(n, r)
<1>1. /\ p.main = InTurn(n) \o <<Total>>
      /\ p.routine = [w \in 1..n |-> r] /\ p.status = Garbage
  BY DEF OneByOne, Run, OnHeap
<1> HIDE DEF p
<1>2. Proper(p) /\ Tidy(p)
  BY <1>1, InTurnTidy
<1> QED
  BY <1>2 DEF p

(* Those that print nothing.                                               *)
LEMMA AllsTidy ==
  ASSUME NEW n \in 1..10, NEW r, Sound(r)
  PROVE  /\ Proper(All(n, r)) /\ Tidy(All(n, r))
         /\ \A h : LET q == [All(n, r) EXCEPT !.heap = h] IN Proper(q) /\ Tidy(q)
<1> SUFFICES ASSUME NEW p, NEW h, p = All(n, r) \/ p = [All(n, r) EXCEPT !.heap = h]
             PROVE  Proper(p) /\ Tidy(p)
  OBVIOUS
<1>1. /\ p.main = CreateAll(n) \o JoinAll(n)
      /\ p.routine = [w \in 1..n |-> r] /\ p.status = Garbage
  <2>1. PICK q : q = All(n, r)
    OBVIOUS
  <2>2. /\ q.main = CreateAll(n) \o JoinAll(n)
        /\ q.routine = [w \in 1..n |-> r] /\ q.status = Garbage
        /\ {"main", "routine", "status"} \subseteq DOMAIN q
    BY <2>1 DEF All, Run
  <2>3. p = q \/ p = [q EXCEPT !.heap = h]
    BY <2>1
  <2> QED
    BY <2>2, <2>3
<1> QED
  BY <1>1, AllTidy

(* One thread adds, the other subtracts.                                   *)
LEMMA UpAndDownTidy ==
  /\ Proper(UpAndDown) /\ Tidy(UpAndDown)
  /\ LET q == [UpAndDown EXCEPT !.alarm = TRUE] IN Proper(q) /\ Tidy(q)
<1> SUFFICES ASSUME NEW p, p = UpAndDown \/ p = [UpAndDown EXCEPT !.alarm = TRUE]
             PROVE  Proper(p) /\ Tidy(p)
  OBVIOUS
<1>1. /\ p.main = CreateAll(2) \o JoinAll(2) \o <<Total>>
      /\ p.routine = <<Adds(1, 10, 1), Adds(1, 10, -1)>> /\ p.status = Garbage
  BY DEF UpAndDown, Run, OnHeap
<1>2. DOMAIN p.routine = 1..2 /\ \A w \in 1..2 : Sound(p.routine[w])
  <2>1. Sound(Adds(1, 10, 1)) /\ Sound(Adds(1, 10, -1))
    BY DEF Sound, Adds, Values
  <2> QED
    BY <1>1, <2>1
<1>3. 2 \in 1..10
  OBVIOUS
<1> QED
  BY <1>1, <1>2, <1>3, AllTidy

(* CreateAll(2) and what follows it.                                       *)
LEMMA TwoCreated ==
  ASSUME NEW rest, NEW S, rest \in Seq(S)
  PROVE  LET s == CreateAll(2) \o rest IN
         /\ Len(s) = Len(rest) + 2 /\ s[1] = Create(1, 1) /\ s[2] = Create(2, 2)
         /\ \A i \in 1..Len(rest) : s[i + 2] = rest[i]
<1>1. CreateAll(2) = <<Create(1, 1), Create(2, 2)>>
  <2>1. CreateAll(2) = [w \in 1..2 |-> Create(w, w)]
    BY DEF CreateAll
  <2> QED
    BY <2>1
<1>2. PICK A : A = S \cup {Create(1, 1), Create(2, 2)}
  OBVIOUS
<1>3. CreateAll(2) \in Seq(A) /\ rest \in Seq(A) /\ Len(CreateAll(2)) = 2
  <2>1. Create(1, 1) \in A /\ Create(2, 2) \in A /\ S \subseteq A
    BY <1>2
  <2>2. <<Create(1, 1), Create(2, 2)>> \in Seq(A)
    BY <2>1
  <2>3. rest \in Seq(A)
    BY <2>1
  <2> QED
    BY <1>1, <2>2, <2>3
<1>4. PICK a : a = CreateAll(2)
  OBVIOUS
<1>5. /\ a \in Seq(A) /\ rest \in Seq(A) /\ Len(a) = 2
      /\ a[1] = Create(1, 1) /\ a[2] = Create(2, 2)
  BY <1>1, <1>3, <1>4
<1>6. /\ Len(a \o rest) = Len(rest) + 2 /\ (a \o rest)[1] = a[1] /\ (a \o rest)[2] = a[2]
      /\ \A i \in 1..Len(rest) : (a \o rest)[i + 2] = rest[i]
  <2>0. /\ Len(a \o rest) = Len(a) + Len(rest)
        /\ \A i \in 1..Len(a) + Len(rest) :
             (a \o rest)[i] = IF i <= Len(a) THEN a[i] ELSE rest[i - Len(a)]
    <3>1. a \in Seq(A) /\ rest \in Seq(A)
      BY <1>5
    <3> QED
      BY <3>1, Lists!ConcatProperties, Zenon
  <2>1. /\ Len(a \o rest) = Len(rest) + 2 /\ Len(rest) \in Nat
        /\ \A i \in 1..Len(rest) + 2 : (a \o rest)[i] = IF i <= 2 THEN a[i] ELSE rest[i - 2]
    BY <1>5, <2>0
  <2>2. ASSUME NEW i \in 1..Len(rest) PROVE (a \o rest)[i + 2] = rest[i]
    <3>1. i + 2 \in 1..Len(rest) + 2 /\ ~(i + 2 <= 2) /\ (i + 2) - 2 = i
      BY <2>1
    <3> QED
      BY <2>1, <3>1
  <2> QED
    BY <2>1, <2>2
<1> QED
  BY <1>4, <1>5, <1>6

(* The others are short.                                                   *)
LEMMA MoreFields ==
  /\ \A i : /\ JoinStatus(i).op = "join" /\ JoinStatus(i).id = i /\ JoinStatus(i).keeps
           /\ Show(i).op = "show" /\ Show(i).id = i
           /\ Follow(i).op = "follow" /\ Follow(i).id = i
  /\ \A i, s : Kill(i, s).op = "kill" /\ Kill(i, s).id = i /\ Kill(i, s).sig = s
  BY DEF JoinStatus, Join, Show, Follow, Kill

(* test3: two statuses are joined, then followed.                          *)
LEMMA PointersTidy ==
  ASSUME NEW p, p.main = Pointers.main, p.routine = Pointers.routine,
         p.status \in {Garbage, Buffer}
  PROVE  Proper(p) /\ Tidy(p)
<1> DEFINE rest == <<JoinStatus(1), JoinStatus(2), Follow(1), Follow(2)>>
           S == {JoinStatus(1), JoinStatus(2), Follow(1), Follow(2)}
<1>1. p.main = CreateAll(2) \o rest /\ p.routine = <<Mallocs(1), Mallocs(2)>>
  BY DEF Pointers, Run, OnHeap
<1>2. /\ rest \in Seq(S) /\ Len(rest) = 4
      /\ rest[1] = JoinStatus(1) /\ rest[2] = JoinStatus(2)
      /\ rest[3] = Follow(1) /\ rest[4] = Follow(2)
  OBVIOUS
<1> HIDE DEF rest, S
<1>3. /\ Len(p.main) = 6 /\ p.main[1] = Create(1, 1) /\ p.main[2] = Create(2, 2)
      /\ p.main[3] = JoinStatus(1) /\ p.main[4] = JoinStatus(2)
      /\ p.main[5] = Follow(1) /\ p.main[6] = Follow(2)
  <2>1. /\ Len(p.main) = Len(rest) + 2 /\ p.main[1] = Create(1, 1)
        /\ p.main[2] = Create(2, 2) /\ \A i \in 1..Len(rest) : p.main[i + 2] = rest[i]
    BY <1>1, <1>2, TwoCreated
  <2>2. p.main[1 + 2] = rest[1] /\ p.main[2 + 2] = rest[2]
        /\ p.main[3 + 2] = rest[3] /\ p.main[4 + 2] = rest[4]
    BY <1>2, <2>1
  <2> QED
    BY <1>2, <2>1, <2>2
<1>4. /\ p.main[1].op = "create" /\ p.main[1].id = 1 /\ p.main[1].worker = 1
      /\ p.main[2].op = "create" /\ p.main[2].id = 2 /\ p.main[2].worker = 2
      /\ p.main[3].op = "join" /\ p.main[3].id = 1 /\ p.main[3].keeps
      /\ p.main[4].op = "join" /\ p.main[4].id = 2 /\ p.main[4].keeps
      /\ p.main[5].op = "follow" /\ p.main[5].id = 1
      /\ p.main[6].op = "follow" /\ p.main[6].id = 2
  BY <1>3, Fields, MoreFields
<1>5. DOMAIN p.routine = 1..2 /\ \A w \in 1..2 : Sound(p.routine[w])
  BY <1>1, Routines
<1>6. Len(p.main) = 6 /\ 1..2 \subseteq Workers
  BY <1>3 DEF Workers
<1>7. Proper(p)
  BY <1>4, <1>5, <1>6 DEF Proper
<1>8. Tidy(p)
  BY <1>4, <1>6 DEF Tidy
<1> QED
  BY <1>7, <1>8

(* One thread, whose status is printed.                                    *)
LEMMA OneStatusTidy ==
  ASSUME NEW r, Sound(r), NEW print \in {Show(1), Follow(1)}
  PROVE  Proper(OneStatus(r, print)) /\ Tidy(OneStatus(r, print))
<1> DEFINE p == OneStatus(r, print)
<1>1. /\ p.main = <<Create(1, 1), JoinStatus(1), print>>
      /\ p.routine = <<r>> /\ p.status = Garbage
  BY DEF OneStatus, Run
<1> HIDE DEF p
<1>2. Len(p.main) = 3 /\ 1..1 \subseteq Workers /\ DOMAIN p.routine = 1..1
      /\ \A w \in 1..1 : Sound(p.routine[w])
  BY <1>1 DEF Workers
<1>3. /\ p.main[1].op = "create" /\ p.main[1].id = 1 /\ p.main[1].worker = 1
      /\ p.main[2].op = "join" /\ p.main[2].id = 1 /\ p.main[2].keeps
      /\ p.main[3].op \in {"show", "follow"} /\ p.main[3].id = 1
  BY <1>1, Fields, MoreFields
<1>4. Proper(p)
  BY <1>1, <1>2, <1>3 DEF Proper
<1>5. Tidy(p)
  BY <1>2, <1>3 DEF Tidy
<1> QED
  BY <1>4, <1>5 DEF p

(* One thread, whose status is not.                                        *)
LEMMA Test9Tidy == Proper(Test9) /\ Tidy(Test9)
<1> DEFINE p == Test9
<1>1. /\ p.main = <<Create(1, 1), JoinStatus(1)>>
      /\ p.routine = <<Leaves(Garbage)>> /\ p.status = Garbage
  BY DEF Test9, Run
<1> HIDE DEF p
<1>2. Sound(Leaves(Garbage))
  BY Routines DEF Values
<1>3. Len(p.main) = 2 /\ 1..1 \subseteq Workers /\ DOMAIN p.routine = 1..1
      /\ \A w \in 1..1 : Sound(p.routine[w])
  BY <1>1, <1>2 DEF Workers
<1>4. /\ p.main[1].op = "create" /\ p.main[1].id = 1 /\ p.main[1].worker = 1
      /\ p.main[2].op = "join" /\ p.main[2].id = 1
  BY <1>1, Fields, MoreFields
<1>5. Proper(p)
  BY <1>1, <1>3, <1>4 DEF Proper
<1>6. Tidy(p)
  BY <1>3, <1>4 DEF Tidy
<1> QED
  BY <1>5, <1>6 DEF p

(* One thread, that is sent a signal.                                      *)
LEMMA OneTidy == Proper(One) /\ Tidy(One)
<1> DEFINE p == One
<1>1. /\ p.main = <<Create(1, 1), Kill(1, "USR1"), JoinStatus(1), Show(1)>>
      /\ p.routine = <<RunsOn>> /\ p.status = Garbage
  BY DEF One, Run
<1> HIDE DEF p
<1>2. Len(p.main) = 4 /\ 1..1 \subseteq Workers /\ DOMAIN p.routine = 1..1
      /\ \A w \in 1..1 : Sound(p.routine[w])
  BY <1>1, Routines DEF Workers
<1>3. /\ p.main[1].op = "create" /\ p.main[1].id = 1 /\ p.main[1].worker = 1
      /\ p.main[2].op = "kill" /\ p.main[2].id = 1 /\ p.main[2].sig = "USR1"
      /\ p.main[3].op = "join" /\ p.main[3].id = 1 /\ p.main[3].keeps
      /\ p.main[4].op = "show" /\ p.main[4].id = 1
  BY <1>1, Fields, MoreFields
<1>4. Proper(p)
  BY <1>1, <1>2, <1>3 DEF Proper
<1>5. Tidy(p)
  BY <1>2, <1>3 DEF Tidy
<1> QED
  BY <1>4, <1>5 DEF p

-----------------------------------------------------------------------------
(* Ten numbers, added up.                                                  *)
Low(f) == f[1] + f[2] + f[3] + f[4] + f[5]
High(f) == f[6] + f[7] + f[8] + f[9] + f[10]
Ten(f) == Low(f) + High(f)

(* The sum is a number.                                                    *)
LEMMA TenInt ==
  ASSUME NEW f \in [Workers -> Int]
  PROVE  Low(f) \in Int /\ High(f) \in Int /\ Ten(f) \in Int
<1>1. \A i \in 1..10 : f[i] \in Int
  BY DEF Workers
<1>2. Low(f) \in Int /\ High(f) \in Int
  BY <1>1 DEF Low, High
<1> QED
  BY <1>2 DEF Ten

(* The first five, when one of the ten grows by d.                         *)
LEMMA LowGrows ==
  ASSUME NEW f \in [Workers -> Int], NEW g \in [Workers -> Int],
         NEW w \in Workers, NEW d \in Int,
         g[w] = f[w] + d, \A v \in Workers \ {w} : g[v] = f[v]
  PROVE  Low(g) = IF w \in 1..5 THEN Low(f) + d ELSE Low(f)
<1>1. /\ \A i \in {1, 2, 3, 4, 5} : i # w => g[i] = f[i]
      /\ f[1] \in Int /\ f[2] \in Int /\ f[3] \in Int /\ f[4] \in Int /\ f[5] \in Int
      /\ g[w] = f[w] + d
  BY DEF Workers
<1>2. CASE w = 1
  <2>1. g[1] = f[1] + d /\ g[2] = f[2] /\ g[3] = f[3] /\ g[4] = f[4] /\ g[5] = f[5]
    BY <1>1, <1>2
  <2> QED
    BY <1>1, <1>2, <2>1 DEF Low
<1>3. CASE w = 2
  <2>1. g[2] = f[2] + d /\ g[1] = f[1] /\ g[3] = f[3] /\ g[4] = f[4] /\ g[5] = f[5]
    BY <1>1, <1>3
  <2> QED
    BY <1>1, <1>3, <2>1 DEF Low
<1>4. CASE w = 3
  <2>1. g[3] = f[3] + d /\ g[1] = f[1] /\ g[2] = f[2] /\ g[4] = f[4] /\ g[5] = f[5]
    BY <1>1, <1>4
  <2> QED
    BY <1>1, <1>4, <2>1 DEF Low
<1>5. CASE w = 4
  <2>1. g[4] = f[4] + d /\ g[1] = f[1] /\ g[2] = f[2] /\ g[3] = f[3] /\ g[5] = f[5]
    BY <1>1, <1>5
  <2> QED
    BY <1>1, <1>5, <2>1 DEF Low
<1>6. CASE w = 5
  <2>1. g[5] = f[5] + d /\ g[1] = f[1] /\ g[2] = f[2] /\ g[3] = f[3] /\ g[4] = f[4]
    BY <1>1, <1>6
  <2> QED
    BY <1>1, <1>6, <2>1 DEF Low
<1>7. CASE w \notin 1..5
  <2>1. g[1] = f[1] /\ g[2] = f[2] /\ g[3] = f[3] /\ g[4] = f[4] /\ g[5] = f[5]
    BY <1>1, <1>7
  <2> QED
    BY <1>7, <2>1 DEF Low
<1> QED
  BY <1>2, <1>3, <1>4, <1>5, <1>6, <1>7

(* The same for the other five.                                            *)
LEMMA HighGrows ==
  ASSUME NEW f \in [Workers -> Int], NEW g \in [Workers -> Int],
         NEW w \in Workers, NEW d \in Int,
         g[w] = f[w] + d, \A v \in Workers \ {w} : g[v] = f[v]
  PROVE  High(g) = IF w \in 6..10 THEN High(f) + d ELSE High(f)
<1>1. /\ \A i \in {6, 7, 8, 9, 10} : i # w => g[i] = f[i]
      /\ f[6] \in Int /\ f[7] \in Int /\ f[8] \in Int /\ f[9] \in Int /\ f[10] \in Int
      /\ g[w] = f[w] + d
  BY DEF Workers
<1>2. CASE w = 6
  <2>1. g[6] = f[6] + d /\ g[7] = f[7] /\ g[8] = f[8] /\ g[9] = f[9] /\ g[10] = f[10]
    BY <1>1, <1>2
  <2> QED
    BY <1>1, <1>2, <2>1 DEF High
<1>3. CASE w = 7
  <2>1. g[7] = f[7] + d /\ g[6] = f[6] /\ g[8] = f[8] /\ g[9] = f[9] /\ g[10] = f[10]
    BY <1>1, <1>3
  <2> QED
    BY <1>1, <1>3, <2>1 DEF High
<1>4. CASE w = 8
  <2>1. g[8] = f[8] + d /\ g[6] = f[6] /\ g[7] = f[7] /\ g[9] = f[9] /\ g[10] = f[10]
    BY <1>1, <1>4
  <2> QED
    BY <1>1, <1>4, <2>1 DEF High
<1>5. CASE w = 9
  <2>1. g[9] = f[9] + d /\ g[6] = f[6] /\ g[7] = f[7] /\ g[8] = f[8] /\ g[10] = f[10]
    BY <1>1, <1>5
  <2> QED
    BY <1>1, <1>5, <2>1 DEF High
<1>6. CASE w = 10
  <2>1. g[10] = f[10] + d /\ g[6] = f[6] /\ g[7] = f[7] /\ g[8] = f[8] /\ g[9] = f[9]
    BY <1>1, <1>6
  <2> QED
    BY <1>1, <1>6, <2>1 DEF High
<1>7. CASE w \notin 6..10
  <2>1. g[6] = f[6] /\ g[7] = f[7] /\ g[8] = f[8] /\ g[9] = f[9] /\ g[10] = f[10]
    BY <1>1, <1>7
  <2> QED
    BY <1>7, <2>1 DEF High
<1> QED
  BY <1>2, <1>3, <1>4, <1>5, <1>6, <1>7

(* And all ten.                                                            *)
LEMMA TenGrows ==
  ASSUME NEW f \in [Workers -> Int], NEW g \in [Workers -> Int],
         NEW w \in Workers, NEW d \in Int,
         g[w] = f[w] + d, \A v \in Workers \ {w} : g[v] = f[v]
  PROVE  Ten(g) = Ten(f) + d
<1>1. Low(g) = IF w \in 1..5 THEN Low(f) + d ELSE Low(f)
  BY LowGrows
<1>2. High(g) = IF w \in 6..10 THEN High(f) + d ELSE High(f)
  BY HighGrows
<1>3. Low(f) \in Int /\ High(f) \in Int
  BY TenInt
<1>4. w \in 1..5 \/ w \in 6..10
  BY DEF Workers
<1> QED
  BY <1>1, <1>2, <1>3, <1>4 DEF Ten

(* The sum is the same if the terms are.                                   *)
LEMMA TenSame ==
  ASSUME NEW f, NEW g, \A w \in Workers : g[w] = f[w]
  PROVE  Ten(g) = Ten(f)
  BY DEF Ten, Low, High, Workers

(* The sum over a set of threads, as the ten terms.                        *)
LEMMA SumIsTen ==
  ASSUME NEW S \in SUBSET Workers, NEW f \in [Workers -> Int],
         \A w \in S : f[w] = Sum(w), \A w \in Workers \ S : f[w] = 0
  PROVE  MapThenSumSet(Sum, S) = Ten(f)
<1> DEFINE x(s) == CHOOSE y \in s : TRUE
           on(s) == [w \in Workers |-> IF w \in s THEN f[w] ELSE 0]
           adds(R) == [s \in SUBSET S |->
                        IF s = {} THEN 0 ELSE Sum(x(s)) + R[s \ {x(s)}]]
           iter == CHOOSE R : R = adds(R)
           tot == [s \in SUBSET S |-> Ten(on(s))]
<1>1. MapThenSumSet(Sum, S) = iter[S]
  BY DEF MapThenSumSet, MapThenFoldSet
<1>2. \A s \in SUBSET S : on(s) \in [Workers -> Int]
  OBVIOUS
<1>3. ASSUME NEW s \in SUBSET S, s # {}
      PROVE  x(s) \in s /\ Ten(on(s)) = Sum(x(s)) + Ten(on(s \ {x(s)}))
  <2>1. x(s) \in s
    BY <1>3
  <2>2. PICK v : v = x(s)
    OBVIOUS
  <2>3. v \in s /\ v \in Workers /\ f[v] = Sum(v) /\ f[v] \in Int
    BY <2>1, <2>2
  <2>4. on(s)[v] = on(s \ {v})[v] + f[v] /\ \A u \in Workers \ {v} : on(s)[u] = on(s \ {v})[u]
    BY <2>3
  <2>5. on(s) \in [Workers -> Int] /\ on(s \ {v}) \in [Workers -> Int]
    BY <1>2
  <2>6. Ten(on(s)) = Ten(on(s \ {v})) + f[v] /\ Ten(on(s \ {v})) \in Int
    <3> HIDE DEF on
    <3> QED
      BY <2>3, <2>4, <2>5, TenGrows, TenInt
  <2>7. Ten(on(s)) = Sum(v) + Ten(on(s \ {v}))
    <3> HIDE DEF on
    <3> QED
      BY <2>3, <2>6
  <2> QED
    BY <2>1, <2>2, <2>7
<1>4. Ten(on({})) = 0
  <2>1. \A i \in 1..10 : on({})[i] = 0
    BY DEF Workers
  <2> HIDE DEF on
  <2> QED
    BY <2>1 DEF Ten, Low, High
<1>5. tot = adds(tot)
  <2> HIDE DEF x, on
  <2>1. ASSUME NEW s \in SUBSET S
        PROVE  Ten(on(s)) = IF s = {} THEN 0 ELSE Sum(x(s)) + tot[s \ {x(s)}]
    <3>1. CASE s = {}
      BY <1>4, <3>1
    <3>2. CASE s # {}
      <4>1. s \ {x(s)} \in SUBSET S
        OBVIOUS
      <4> QED
        BY <1>3, <3>2, <4>1
    <3> QED
      BY <3>1, <3>2
  <2> QED
    BY <2>1
<1>6. iter = adds(iter)
  <2> HIDE DEF adds, tot
  <2> QED
    BY <1>5
<1> HIDE DEF iter
<1>7. \A s \in SUBSET S : iter[s] = Ten(on(s))
  <2> DEFINE bad == {s \in SUBSET S : iter[s] # Ten(on(s))}
  <2> SUFFICES ASSUME bad # {} PROVE FALSE
    OBVIOUS
  <2>1. IsFiniteSet(S)
    <3>1. IsFiniteSet(1..10) /\ Workers = 1..10
      <4>1. 1 \in Int /\ 10 \in Int
        OBVIOUS
      <4>2. IsFiniteSet(1..10)
        BY <4>1, FS_Interval, Zenon
      <4> QED
        BY <4>2 DEF Workers
    <3> QED
      BY <3>1, FS_Subset
  <2>2. IsWellFoundedOn(StrictSubsetOrdering(S), SUBSET S)
    BY <2>1, FS_StrictSubsetOrderingWellFounded, FS_FiniteSubsetsOfFinite
  <2>3. PICK s \in bad : \A r \in bad : ~(<<r, s>> \in StrictSubsetOrdering(S))
    <3>1. bad \subseteq SUBSET S
      OBVIOUS
    <3> HIDE DEF bad
    <3> QED
      BY <2>2, <3>1, WFMin
  <2>4. s \in SUBSET S /\ iter[s] # Ten(on(s))
    OBVIOUS
  <2> HIDE DEF on, x
  <2>5. s # {}
    <3>1. s = {} => iter[s] = 0
      BY <1>6, <2>4
    <3> QED
      BY <1>4, <2>4, <3>1
  <2>6. x(s) \in s /\ Ten(on(s)) = Sum(x(s)) + Ten(on(s \ {x(s)}))
    BY <1>3, <2>4, <2>5
  <2>7. iter[s] = Sum(x(s)) + iter[s \ {x(s)}]
    BY <1>6, <2>4, <2>5
  <2>8. s \ {x(s)} \notin bad
    <3>1. <<s \ {x(s)}, s>> \in StrictSubsetOrdering(S)
      BY <2>4, <2>6 DEF StrictSubsetOrdering
    <3> QED
      BY <2>3, <3>1
  <2>9. iter[s \ {x(s)}] = Ten(on(s \ {x(s)}))
    BY <2>4, <2>8
  <2> QED
    BY <2>4, <2>6, <2>7, <2>9
<1>8. Ten(on(S)) = Ten(f)
  <2>1. \A w \in Workers : f[w] = on(S)[w]
    OBVIOUS
  <2> HIDE DEF on
  <2> QED
    BY <2>1, TenSame
<1> QED
  <2> HIDE DEF on
  <2> QED
    BY <1>1, <1>7, <1>8

-----------------------------------------------------------------------------
(* test7, test8 and third, which leave threads unjoined.                   *)
LEMMA Test7Plain == Proper(Test7) /\ Plain(Test7)
<1> DEFINE p == Test7
           rest == <<Kill(1, "INT"), Kill(2, "STOP")>>
           S == {Kill(1, "INT"), Kill(2, "STOP")}
<1>1. p.main = CreateAll(2) \o rest /\ p.routine = <<RunsOn, RunsOn>> /\ p.status = Garbage
  BY DEF Test7, Run
<1>2. rest \in Seq(S) /\ Len(rest) = 2 /\ rest[1] = Kill(1, "INT") /\ rest[2] = Kill(2, "STOP")
  OBVIOUS
<1> HIDE DEF p, rest, S
<1>3. /\ Len(p.main) = 4 /\ p.main[1] = Create(1, 1) /\ p.main[2] = Create(2, 2)
      /\ p.main[3] = Kill(1, "INT") /\ p.main[4] = Kill(2, "STOP")
  <2>1. /\ Len(p.main) = Len(rest) + 2 /\ p.main[1] = Create(1, 1)
        /\ p.main[2] = Create(2, 2) /\ \A i \in 1..Len(rest) : p.main[i + 2] = rest[i]
    BY <1>1, <1>2, TwoCreated
  <2>2. p.main[1 + 2] = rest[1] /\ p.main[2 + 2] = rest[2]
    BY <1>2, <2>1
  <2> QED
    BY <1>2, <2>1, <2>2
<1>4. /\ p.main[1].op = "create" /\ p.main[1].id = 1 /\ p.main[1].worker = 1
      /\ p.main[2].op = "create" /\ p.main[2].id = 2 /\ p.main[2].worker = 2
      /\ p.main[3].op = "kill" /\ p.main[3].id = 1 /\ p.main[3].sig = "INT"
      /\ p.main[4].op = "kill" /\ p.main[4].id = 2 /\ p.main[4].sig = "STOP"
  BY <1>3, Fields, MoreFields
<1>5. DOMAIN p.routine = 1..2 /\ \A w \in 1..2 : Sound(p.routine[w])
  BY <1>1, Routines
<1>6. Len(p.main) = 4 /\ 1..2 \subseteq Workers
  BY <1>3 DEF Workers
<1>7. Proper(p)
  BY <1>1, <1>4, <1>5, <1>6 DEF Proper
<1>8. Plain(p)
  BY <1>4, <1>6 DEF Plain
<1> QED
  BY <1>7, <1>8 DEF p

(* test8 creates its third thread into the first variable.                 *)
LEMMA Test8Plain == Proper(Test8) /\ Plain(Test8)
<1> DEFINE p == Test8
           rest == <<Kill(3, "INT"), Create(1, 3), Kill(1, "invalid")>>
           S == {Kill(3, "INT"), Create(1, 3), Kill(1, "invalid")}
<1>1. /\ p.main = CreateAll(2) \o rest /\ p.status = Garbage
      /\ p.routine = [w \in 1..3 |-> Leaves(Garbage)]
  BY DEF Test8, Run
<1>2. /\ rest \in Seq(S) /\ Len(rest) = 3 /\ rest[1] = Kill(3, "INT")
      /\ rest[2] = Create(1, 3) /\ rest[3] = Kill(1, "invalid")
  OBVIOUS
<1> HIDE DEF p, rest, S
<1>3. /\ Len(p.main) = 5 /\ p.main[1] = Create(1, 1) /\ p.main[2] = Create(2, 2)
      /\ p.main[3] = Kill(3, "INT") /\ p.main[4] = Create(1, 3)
      /\ p.main[5] = Kill(1, "invalid")
  <2>1. /\ Len(p.main) = Len(rest) + 2 /\ p.main[1] = Create(1, 1)
        /\ p.main[2] = Create(2, 2) /\ \A i \in 1..Len(rest) : p.main[i + 2] = rest[i]
    <3>1. rest \in Seq(S) /\ Len(rest) = 3
      BY <1>2
    <3>2. LET s == CreateAll(2) \o rest IN
          /\ Len(s) = Len(rest) + 2 /\ s[1] = Create(1, 1) /\ s[2] = Create(2, 2)
          /\ \A i \in 1..Len(rest) : s[i + 2] = rest[i]
      BY <3>1, TwoCreated
    <3> QED
      BY <1>1, <3>2
  <2>2. p.main[1 + 2] = rest[1] /\ p.main[2 + 2] = rest[2] /\ p.main[3 + 2] = rest[3]
    BY <1>2, <2>1
  <2> QED
    BY <1>2, <2>1, <2>2
<1>4. /\ p.main[1].op = "create" /\ p.main[1].id = 1 /\ p.main[1].worker = 1
      /\ p.main[2].op = "create" /\ p.main[2].id = 2 /\ p.main[2].worker = 2
      /\ p.main[3].op = "kill" /\ p.main[3].id = 3 /\ p.main[3].sig = "INT"
      /\ p.main[4].op = "create" /\ p.main[4].id = 1 /\ p.main[4].worker = 3
      /\ p.main[5].op = "kill" /\ p.main[5].id = 1 /\ p.main[5].sig = "invalid"
  BY <1>3, Fields, MoreFields
<1>5. DOMAIN p.routine = 1..3 /\ \A w \in 1..3 : Sound(p.routine[w])
  BY <1>1, Routines DEF Values
<1>6. Len(p.main) = 5 /\ 1..3 \subseteq Workers
  BY <1>3 DEF Workers
<1>7. Proper(p)
  <2>1. /\ Len(p.main) \in Nat /\ DOMAIN p.routine \subseteq Workers
        /\ \A w \in DOMAIN p.routine : Sound(p.routine[w])
        /\ p.status \in {Garbage, Buffer}
    BY <1>1, <1>5, <1>6
  <2>2. ASSUME NEW i \in 1..Len(p.main)
        PROVE  \/ /\ p.main[i].op = "create"
                  /\ p.main[i].id \in 1..3 /\ p.main[i].worker \in 1..3
               \/ /\ p.main[i].op = "kill" /\ p.main[i].id \in 1..3
                  /\ p.main[i].sig \in {"INT", "invalid"}
    <3>1. i = 1 \/ i = 2 \/ i = 3 \/ i = 4 \/ i = 5
      BY <1>6
    <3> QED
      BY <1>4, <3>1
  <2> QED
    BY <1>5, <1>6, <2>1, <2>2 DEF Proper
<1>8. Plain(p)
  BY <1>4, <1>6 DEF Plain
<1> QED
  BY <1>7, <1>8 DEF p

(* third joins a variable that it has not set.                             *)
LEMMA ThirdPlain == Proper(Third) /\ Plain(Third)
<1> DEFINE p == Third
<1>1. /\ p.main = <<Create(1, 1), Create(1, 2), Join(1), Join(2)>> /\ p.status = Garbage
      /\ p.routine = <<[Adds(10, 1, 1) EXCEPT !.leaves = Garbage],
                       [Adds(10, 1, -1) EXCEPT !.leaves = Garbage]>>
  BY DEF Third, Run
<1> HIDE DEF p
<1>2. DOMAIN p.routine = 1..2 /\ \A w \in 1..2 : Sound(p.routine[w])
  <2>1. 10 \in Nat /\ 1 \in Nat /\ 1 \in Int /\ -1 \in Int
    OBVIOUS
  <2>2. /\ Sound([Adds(10, 1, 1) EXCEPT !.leaves = Garbage])
        /\ Sound([Adds(10, 1, -1) EXCEPT !.leaves = Garbage])
    BY <2>1, Routines
  <2> QED
    BY <1>1, <2>2
<1>3. Len(p.main) = 4 /\ 1..2 \subseteq Workers
  BY <1>1 DEF Workers
<1>4. /\ p.main[1].op = "create" /\ p.main[1].id = 1 /\ p.main[1].worker = 1
      /\ p.main[2].op = "create" /\ p.main[2].id = 1 /\ p.main[2].worker = 2
      /\ p.main[3].op = "join" /\ p.main[3].id = 1
      /\ p.main[4].op = "join" /\ p.main[4].id = 2
  BY <1>1, Fields
<1>5. Proper(p)
  BY <1>1, <1>2, <1>3, <1>4 DEF Proper
<1>6. Plain(p)
  BY <1>3, <1>4 DEF Plain
<1> QED
  BY <1>5, <1>6 DEF p

(* Each program of the two suites is proper, and tidy or one of three that *)
(* do not join all threads.                                                *)
Fit(p) == Proper(p) /\ (Tidy(p) \/ (Plain(p) /\ p \in {Test7, Test8, Third}))

(* test2 of test_code/pthreads joins one by one, and prints nothing.       *)
LEMMA PosixTest2Fit == Fit(PosixTest2)
<1> DEFINE p == PosixTest2
<1>1. /\ p.main = InTurn(10) /\ p.status = Garbage
      /\ p.routine = [w \in 1..10 |-> Leaves(Garbage)]
  BY DEF PosixTest2, Run
<1> HIDE DEF p
<1>2. /\ 10 \in 1..10 /\ DOMAIN p.routine = 1..10 /\ \A w \in 1..10 : Sound(p.routine[w])
  BY <1>1, Routines DEF Values
<1>3. Proper(p) /\ Tidy(p)
  BY <1>1, <1>2, InTurnTidy
<1> QED
  BY <1>3 DEF p, Fit

(* All programs of the suites.                                             *)
LEMMA Fits == \A l : \A p \in Programs(l) : Fit(p)
<1>1. /\ numThreads \in 1..10 /\ Turns \in Nat /\ 1 \in Nat /\ 10 \in Nat /\ 1 \in Int
      /\ 2 \in 1..10 /\ 3 \in 1..10 /\ 6 \in 1..10 /\ 10 \in 1..10
  BY BoundsAssumption
<1>2. /\ Sound(Adds(Turns, Turns, 1)) /\ Sound(Adds(1, 10, 1))
      /\ \A v \in {NULL, 5, 50, Stored(1), Stored(2), Garbage} : Sound(Leaves(v))
      /\ Sound(Mallocs(1)) /\ Sound(Mallocs(2))
  BY <1>1, Routines DEF Values
<1>3. Fit(Test5) /\ Fit(Test11) /\ Fit(Fourth) /\ Fit(PosixTest5) /\ Fit(PosixFourth)
  BY <1>1, <1>2, CountingTidy DEF Test5, Test11, Fourth, PosixTest5, PosixFourth, Fit
<1>4. Fit(Test10) /\ Fit(Test12) /\ Fit(PosixTest10)
  BY <1>1, <1>2, OneByOneTidy DEF Test10, Test12, PosixTest10, Fit
<1>5. Fit(Test1) /\ Fit(Test2) /\ Fit(PosixTest1)
  BY <1>1, <1>2, AllsTidy DEF Test1, Test2, PosixTest1, Fit
<1>6. Fit(Test6) /\ Fit(Test13) /\ Fit(PosixTest6)
  BY UpAndDownTidy DEF Test6, Test13, PosixTest6, Fit
<1>7. Fit(Test4) /\ Fit(Two) /\ Fit(PosixTest4) /\ Fit(PosixTwo)
  BY <1>2, OneStatusTidy DEF Test4, Two, PosixTest4, PosixTwo, Fit
<1>8. Fit(Test3) /\ Fit(PosixTest3)
  <2>1. /\ Test3.main = Pointers.main /\ Test3.routine = Pointers.routine
        /\ Test3.status = Buffer /\ Pointers.status = Garbage
    BY DEF Test3, Pointers, OnHeap, Run
  <2> QED
    BY <2>1, PointersTidy DEF PosixTest3, Fit
<1>9. Fit(Test9) /\ Fit(PosixTest9) /\ Fit(One) /\ Fit(PosixOne)
  BY Test9Tidy, OneTidy DEF PosixTest9, PosixOne, Fit
<1>10. /\ Fit(Test7) /\ Fit(Test8) /\ Fit(Third)
       /\ Fit(PosixTest7) /\ Fit(PosixTest8) /\ Fit(PosixThird)
  BY Test7Plain, Test8Plain, ThirdPlain DEF PosixTest7, PosixTest8, PosixThird, Fit
<1>11. \A p \in Suite : Fit(p)
  BY <1>3, <1>4, <1>5, <1>6, <1>7, <1>8, <1>9, <1>10 DEF Suite
<1>12. \A p \in PosixSuite : Fit(p)
  BY <1>3, <1>4, <1>5, <1>6, <1>7, <1>8, <1>9, <1>10, PosixTest2Fit DEF PosixSuite
<1> QED
  BY <1>11, <1>12 DEF Programs

-----------------------------------------------------------------------------

(* How a process may be.                                                   *)
Outcomes == {"up", "exited", "failed", "crashed", "signalled"}

(* What is of which type.                                                  *)
Types ==
  /\ library \in Libraries /\ Fit(program)
  /\ pc \in 1..Len(program.main) + 1
  /\ id \in [Workers -> Workers \cup {Nobody}]
  /\ status \in [Workers -> Values \cup {Buffer}]
  /\ phase \in [Threads -> {"unborn", "live", "ended"}]
  /\ value \in [Threads -> Values]
  /\ join \in [Threads -> [of : Threads \cup {Nobody},
                           code : {"none", "ok", "ESRCH", "EDEADLK"}, val : Values]]
  /\ lock \in [Workers -> {"out", "waiting", "in"}]
  /\ round \in [Workers -> Nat] /\ k \in [Workers -> Nat]
  /\ reg \in [Workers -> Seq(Int)] /\ counter \in Int
  /\ signals \subseteq {"INT", "STOP", "USR1"}
  /\ outcome \in Outcomes /\ fails \in 0..Fails
  /\ \A w \in Workers : phase[w] # "unborn" => w \in DOMAIN program.routine

(* The steps, by what they change.                                         *)
ProcessTyped ==
  signals' \subseteq {"INT", "STOP", "USR1"} /\ outcome' \in Outcomes /\ fails' \in 0..Fails

Ends ==
  /\ UNCHANGED <<choice, mainVars, threadVars, loopVars>> /\ ProcessTyped
  /\ outcome' = "exited" => outcome = "exited" \/ AtEnd \/ pc = 1

Goes ==
  /\ outcome = "up" /\ ~AtEnd /\ Statement.op # "join" /\ pc' = pc + 1
  /\ UNCHANGED <<choice, id, status, threadVars, loopVars>>
  /\ ProcessTyped /\ outcome' # "exited"

Empties ==
  /\ outcome = "up" /\ pc = 1
  /\ \E i \in Workers : status' = [status EXCEPT ![i] = NULL]
  /\ UNCHANGED <<choice, pc, id, threadVars, loopVars, signals, outcome>> /\ ProcessTyped

Turn(w) == Lock(w) \/ Locked(w) \/ Load(w) \/ Store(w) \/ Unlock(w) \/ Leave(w)

(* What main() is at.                                                      *)
LEMMA Statements ==
  ASSUME Types, ~AtEnd
  PROVE  /\ pc \in 1..Len(program.main) /\ pc + 1 \in 1..Len(program.main) + 1
         /\ Len(program.main) \in Nat /\ pc \in Nat
         /\ Statement.op \in {"create", "join", "kill", "show", "follow", "total"}
         /\ Statement.op = "create" =>
              Statement.id \in Workers /\ Statement.worker \in DOMAIN program.routine
         /\ Statement.op \in {"join", "kill", "show", "follow"} => Statement.id \in Workers
         /\ Statement.op = "kill" => Statement.sig \in {"INT", "STOP", "USR1", "invalid"}
<1>1. Proper(program) /\ pc \in 1..Len(program.main) + 1
  BY DEF Types, Fit
<1>2. Len(program.main) \in Nat
  BY <1>1 DEF Proper
<1>3. pc \in 1..Len(program.main) /\ pc + 1 \in 1..Len(program.main) + 1
  BY <1>1, <1>2 DEF AtEnd
<1> QED
  BY <1>1, <1>2, <1>3 DEF Proper, Statement

(* Routines are those of workers.                                          *)
LEMMA Domain ==
  ASSUME Types
  PROVE  /\ DOMAIN program.routine \subseteq Workers
         /\ \A w \in DOMAIN program.routine : Sound(Routine(w))
  BY DEF Types, Fit, Proper, Routine

(* Every step is one of these.                                             *)
LEMMA Steps ==
  ASSUME Types, Next
  PROVE  \/ Ends \/ Goes \/ Empties \/ MainCreates \/ CallJoin \/ JoinReturns
         \/ \E w \in Workers : Turn(w)
<1>1. /\ signals \subseteq {"INT", "STOP", "USR1"} /\ outcome \in Outcomes
      /\ fails \in 0..Fails /\ Fails \in Nat
  BY BoundsAssumption DEF Types
<1>2. fails < Fails /\ fails' = fails + 1 => fails' \in 0..Fails
  BY <1>1
<1>3. ASSUME NEW how \in Outcomes, End(how), fails' \in 0..Fails,
             how = "exited" => AtEnd \/ pc = 1
      PROVE  Ends
  BY <1>1, <1>3 DEF End, Ends, ProcessTyped
<1>4. ASSUME CreateFails PROVE Ends \/ Goes
  <2>1. fails' \in 0..Fails /\ At("create")
    BY <1>2, <1>4 DEF CreateFails
  <2>2. CASE End("failed") \/ End("crashed")
    BY <1>3, <2>1, <2>2 DEF Outcomes
  <2>3. CASE Step /\ UNCHANGED <<choice, id, status, threadVars, loopVars, signals, outcome>>
    BY <1>1, <2>1, <2>3 DEF Goes, ProcessTyped, Step, At
  <2> QED
    BY <1>4, <2>2, <2>3 DEF CreateFails
<1>5. ASSUME MallocFails PROVE Ends \/ Empties
  <2>1. fails' \in 0..Fails /\ At("create")
    BY <1>2, <1>5 DEF MallocFails
  <2>2. CASE End("crashed") \/ (pc = 1 /\ End("exited"))
    BY <1>3, <2>1, <2>2 DEF Outcomes
  <2>3. CASE /\ pc = 1
             /\ \E i \in DOMAIN program.routine : status' = [status EXCEPT ![i] = NULL]
             /\ UNCHANGED <<choice, pc, id, threadVars, loopVars, signals, outcome>>
    BY <1>1, <2>1, <2>3, Domain DEF Empties, ProcessTyped, At
  <2> QED
    BY <1>5, <2>2, <2>3 DEF MallocFails
<1>6. ASSUME UNCHANGED fails, \E how \in {"crashed", "signalled"} : End(how) PROVE Ends
  BY <1>1, <1>3, <1>6 DEF Outcomes
<1>7. WildThread \/ SignalRaised \/ AlarmRings \/ FollowsWild => Ends
  BY <1>6 DEF WildThread, SignalRaised, AlarmRings, FollowsWild
<1>8. ASSUME MainEnds PROVE Ends
  BY <1>1, <1>3, <1>8 DEF MainEnds, Outcomes
<1>9. ASSUME NEW w \in Workers, RoutineFails(w) PROVE Ends
  <2>1. fails' \in 0..Fails /\ End("failed")
    BY <1>2, <1>9 DEF RoutineFails
  <2> QED
    BY <1>3, <2>1 DEF Outcomes
<1>10. ASSUME Over PROVE Ends
  BY <1>1, <1>10 DEF Over, Ends, ProcessTyped, vars, process
<1>11. ASSUME MainPrints PROVE Goes
  <2>1. \/ At("show") \/ At("total") \/ At("follow")
    BY <1>11 DEF MainPrints
  <2> QED
    BY <1>1, <1>11, <2>1 DEF MainPrints, Goes, ProcessTyped, process, Step, At
<1>12. ASSUME MainKills PROVE Goes
  <2>1. /\ At("kill") /\ Step /\ UNCHANGED <<choice, id, status, threadVars, loopVars, fails>>
        /\ Statement.sig \in {"INT", "STOP", "USR1", "invalid"}
    BY <1>12, Statements DEF MainKills, At
  <2>2. \E t \in Named(Statement.id) :
          \/ UNCHANGED <<signals, outcome>>
          \/ /\ Statement.sig # "invalid"
             /\ \/ signals' = signals \cup {Statement.sig} /\ UNCHANGED outcome
                \/ outcome' \in Effect(Statement.sig) /\ UNCHANGED signals
    BY <1>12 DEF MainKills
  <2>3. signals' \subseteq {"INT", "STOP", "USR1"} /\ outcome' \in {outcome, "crashed", "signalled"}
    BY <1>1, <2>1, <2>2 DEF Effect
  <2> QED
    BY <1>1, <2>1, <2>3 DEF Goes, ProcessTyped, Step, At, Outcomes
<1> QED
  BY <1>4, <1>5, <1>7, <1>8, <1>9, <1>10, <1>11, <1>12 DEF Next, MainStep, Worker, Turn

(* The types hold at first.                                                *)
LEMMA TypesInit == Init => Types
<1> SUFFICES ASSUME Init PROVE Types
  OBVIOUS
<1>1. library \in Libraries /\ Fit(program) /\ Proper(program)
  BY Fits DEF Init, Fit
<1>2. pc \in 1..Len(program.main) + 1 /\ program.status \in Values \cup {Buffer}
  BY <1>1 DEF Init, Proper, Values
<1>3. /\ phase \in [Threads -> {"unborn", "live", "ended"}]
      /\ value \in [Threads -> Values]
      /\ join \in [Threads -> [of : Threads \cup {Nobody},
                               code : {"none", "ok", "ESRCH", "EDEADLK"}, val : Values]]
  BY DEF Init, T!Init, T!NoJoin, Values
<1>4. /\ lock \in [Workers -> {"out", "waiting", "in"}]
      /\ round \in [Workers -> Nat] /\ k \in [Workers -> Nat]
      /\ reg \in [Workers -> Seq(Int)] /\ counter \in Int
  BY DEF Init, L!Init
<1>5. /\ signals \subseteq {"INT", "STOP", "USR1"} /\ outcome \in Outcomes
      /\ fails \in 0..Fails
  BY BoundsAssumption DEF Init, Outcomes
<1>6. /\ id \in [Workers -> Workers \cup {Nobody}]
      /\ status \in [Workers -> Values \cup {Buffer}]
  BY <1>2 DEF Init
<1>7. \A w \in Workers : phase[w] = "unborn"
  BY DEF Init, T!Init, Workers, Main, Threads
<1> QED
  BY <1>1, <1>2, <1>3, <1>4, <1>5, <1>6, <1>7 DEF Types

(* Every step keeps the types.                                             *)
LEMMA TypesKept == Types /\ [Next]_vars => Types'
<1> SUFFICES ASSUME Types, [Next]_vars PROVE Types'
  OBVIOUS
<1>0. /\ library \in Libraries /\ Fit(program)
      /\ pc \in 1..Len(program.main) + 1
      /\ id \in [Workers -> Workers \cup {Nobody}]
      /\ status \in [Workers -> Values \cup {Buffer}]
      /\ phase \in [Threads -> {"unborn", "live", "ended"}]
      /\ value \in [Threads -> Values]
      /\ join \in [Threads -> [of : Threads \cup {Nobody},
                               code : {"none", "ok", "ESRCH", "EDEADLK"}, val : Values]]
      /\ lock \in [Workers -> {"out", "waiting", "in"}]
      /\ round \in [Workers -> Nat] /\ k \in [Workers -> Nat]
      /\ reg \in [Workers -> Seq(Int)] /\ counter \in Int
      /\ signals \subseteq {"INT", "STOP", "USR1"}
      /\ outcome \in Outcomes /\ fails \in 0..Fails
      /\ \A w \in Workers : phase[w] # "unborn" => w \in DOMAIN program.routine
  BY DEF Types
<1>1. Workers \subseteq Threads /\ Main \in Threads /\ Stranger \in Threads /\ NULL \in Values
  BY DEF Threads, Values
<1>2. CASE UNCHANGED vars
  BY <1>0, <1>2 DEF vars, choice, mainVars, threadVars, loopVars, process, Types
<1>3. CASE Ends
  BY <1>0, <1>3 DEF Ends, ProcessTyped, choice, mainVars, threadVars, loopVars, Types
<1>4. CASE Goes
  <2>1. pc' \in 1..Len(program.main) + 1
    BY <1>4, Statements DEF Goes
  <2> QED
    BY <1>0, <1>4, <2>1 DEF Goes, ProcessTyped, choice, threadVars, loopVars, Types
<1>5. CASE Empties
  <2>1. status' \in [Workers -> Values \cup {Buffer}]
    BY <1>0, <1>1, <1>5 DEF Empties
  <2> QED
    BY <1>0, <1>5, <2>1 DEF Empties, ProcessTyped, choice, threadVars, loopVars, Types
<1>6. CASE MainCreates
  <2>1. /\ ~AtEnd /\ pc' = pc + 1 /\ Statement.op = "create"
        /\ T!Create(Statement.worker) /\ id' = [id EXCEPT ![Statement.id] = Statement.worker]
        /\ UNCHANGED <<choice, status, loopVars, process>>
    BY <1>6 DEF MainCreates, At, Step
  <2>2. /\ pc' \in 1..Len(program.main) + 1 /\ Statement.id \in Workers
        /\ Statement.worker \in Workers
    BY <2>1, Statements, Domain
  <2>3. id' \in [Workers -> Workers \cup {Nobody}]
    BY <1>0, <2>1, <2>2
  <2>4. phase' \in [Threads -> {"unborn", "live", "ended"}] /\ UNCHANGED <<value, join>>
    BY <1>0, <1>1, <2>1, <2>2 DEF T!Create
  <2>5. \A w \in Workers : phase'[w] # "unborn" => w \in DOMAIN program.routine
    BY <1>0, <2>1, Statements DEF T!Create
  <2> QED
    BY <1>0, <2>1, <2>2, <2>3, <2>4, <2>5 DEF choice, loopVars, process, Types
<1>7. CASE CallJoin
  <2>1. PICK t \in Named(Statement.id) : T!Ask(Main, t)
    BY <1>7 DEF CallJoin
  <2>2. t \in Threads
    <3>1. Statement.id \in Workers
      BY <1>7, Statements DEF CallJoin, At
    <3> QED
      BY <1>0, <1>1, <3>1, Domain DEF Named
  <2>3. /\ join' \in [Threads -> [of : Threads \cup {Nobody},
                                  code : {"none", "ok", "ESRCH", "EDEADLK"}, val : Values]]
        /\ UNCHANGED <<phase, value>>
    BY <1>0, <1>1, <2>1, <2>2 DEF T!Ask
  <2>4. UNCHANGED <<choice, mainVars, loopVars, process>>
    BY <1>7 DEF CallJoin
  <2> QED
    BY <1>0, <2>3, <2>4 DEF choice, mainVars, loopVars, process, Types
<1>8. CASE JoinReturns
  <2>1. /\ ~AtEnd /\ pc' = pc + 1 /\ UNCHANGED <<choice, id, loopVars, process>>
        /\ T!Answer(Main) \/ T!AnswerLost(Main)
        /\ \/ status' = status
           \/ status' = [status EXCEPT ![StatusVariable(Statement.id)] = join'[Main].val]
    BY <1>8 DEF JoinReturns, At, AfterJoin
  <2>2. pc' \in 1..Len(program.main) + 1
    BY <2>1, Statements
  <2>3. PICK code \in {"none", "ok", "ESRCH", "EDEADLK"}, v \in Values : T!Reply(Main, code, v)
    <3>1. CASE T!Answer(Main)
      <4>1. join[Main].of # Nobody /\ join[Main] \in [of : Threads \cup {Nobody},
              code : {"none", "ok", "ESRCH", "EDEADLK"}, val : Values]
        BY <1>0, <1>1, <3>1 DEF T!Answer, T!Waits
      <4>2. join[Main].of \in Threads
        BY <4>1
      <4>3. value[join[Main].of] \in Values
        BY <1>0, <4>2
      <4> QED
        BY <1>1, <3>1, <4>3 DEF T!Answer
    <3>2. CASE T!AnswerLost(Main)
      BY <3>2 DEF T!AnswerLost
    <3> QED
      BY <2>1, <3>1, <3>2
  <2>4. /\ join' \in [Threads -> [of : Threads \cup {Nobody},
                                  code : {"none", "ok", "ESRCH", "EDEADLK"}, val : Values]]
        /\ UNCHANGED <<phase, value>>
    <3>1. PICK r : r = [join[Main] EXCEPT !.code = code, !.val = v]
      OBVIOUS
    <3>2. r \in [of : Threads \cup {Nobody},
                 code : {"none", "ok", "ESRCH", "EDEADLK"}, val : Values]
      <4>1. PICK q : q = join[Main]
        OBVIOUS
      <4>2. q \in [of : Threads \cup {Nobody},
                   code : {"none", "ok", "ESRCH", "EDEADLK"}, val : Values]
        BY <1>0, <1>1, <4>1
      <4>3. r = [q EXCEPT !.code = code, !.val = v]
        BY <3>1, <4>1
      <4> QED
        BY <2>3, <4>2, <4>3
    <3>3. join' = [join EXCEPT ![Main] = r]
      BY <1>0, <1>1, <2>3, <3>1 DEF T!Reply
    <3>4. UNCHANGED <<phase, value>>
      BY <2>3 DEF T!Reply
    <3>5. join' \in [Threads -> [of : Threads \cup {Nobody},
                                code : {"none", "ok", "ESRCH", "EDEADLK"}, val : Values]]
      BY <1>0, <1>1, <3>2, <3>3
    <3> QED
      BY <3>4, <3>5
  <2>5. join'[Main].val \in Values
    BY <1>1, <2>4
  <2>6. status' \in [Workers -> Values \cup {Buffer}]
    BY <1>0, <2>1, <2>5
  <2> QED
    BY <1>0, <2>1, <2>2, <2>4, <2>6 DEF choice, loopVars, process, Types
<1>9. ASSUME NEW w \in Workers, Turn(w) PROVE Types'
  <2>1. UNCHANGED choice /\ phase[w] = "live"
    BY <1>9 DEF Turn, Lock, Locked, Load, Store, Unlock, Leave, Runs, Rest
  <2>2. w \in Threads /\ w \in DOMAIN program.routine /\ Sound(Routine(w))
    BY <1>0, <1>1, <2>1, Domain
  <2>3. Routine(w).step \in Int /\ Routine(w).leaves \in Values
    BY <2>2 DEF Sound
  <2>4. CASE Leave(w)
    <3>1. /\ T!End(w, Routine(w).leaves) /\ UNCHANGED <<choice, mainVars, loopVars, process>>
      BY <2>4 DEF Leave
    <3>2. /\ phase' = [phase EXCEPT ![w] = "ended"]
          /\ value' = [value EXCEPT ![w] = Routine(w).leaves]
          /\ join' = [join EXCEPT ![w] = [of |-> Nobody, code |-> "none", val |-> NULL]]
      BY <3>1 DEF T!End, T!NoJoin
    <3>3. /\ phase' \in [Threads -> {"unborn", "live", "ended"}]
          /\ value' \in [Threads -> Values]
          /\ join' \in [Threads -> [of : Threads \cup {Nobody},
                                    code : {"none", "ok", "ESRCH", "EDEADLK"}, val : Values]]
      BY <1>0, <1>1, <2>3, <3>2
    <3>4. \A v \in Workers : phase'[v] # "unborn" => v \in DOMAIN program.routine
      BY <1>0, <1>1, <2>2, <3>2
    <3> QED
      BY <1>0, <3>1, <3>3, <3>4 DEF choice, mainVars, loopVars, process, Types
  <2>5. CASE ~Leave(w)
    <3>1. /\ UNCHANGED <<choice, mainVars, threadVars, process>>
      BY <1>9, <2>5 DEF Turn, Lock, Locked, Load, Store, Unlock, Rest
    <3>2. /\ lock' \in [Workers -> {"out", "waiting", "in"}]
          /\ round' \in [Workers -> Nat] /\ k' \in [Workers -> Nat]
          /\ reg' \in [Workers -> Seq(Int)] /\ counter' \in Int
      <4>1. CASE Lock(w)
        BY <1>0, <4>1 DEF Lock, L!Request
      <4>2. CASE Locked(w)
        BY <1>0, <4>2 DEF Locked, L!Acquire
      <4>3. CASE Load(w)
        BY <1>0, <4>3 DEF Load
      <4>4. CASE Store(w)
        <5>1. reg[w] \in Seq(Int) /\ reg[w] # <<>>
          BY <1>0, <4>4 DEF Store
        <5>2. Head(reg[w]) \in Int
          BY <5>1
        <5> QED
          BY <1>0, <2>3, <4>4, <5>2 DEF Store
      <4>5. CASE Unlock(w)
        BY <1>0, <4>5 DEF Unlock, L!Release
      <4> QED
        BY <1>9, <2>5, <4>1, <4>2, <4>3, <4>4, <4>5 DEF Turn
    <3> QED
      BY <1>0, <3>1, <3>2 DEF choice, mainVars, threadVars, process, Types
  <2> QED
    BY <2>4, <2>5
<1> QED
  BY <1>2, <1>3, <1>4, <1>5, <1>6, <1>7, <1>8, <1>9, Steps

(* What a thread has added to the counter.                                 *)
Share(w) ==
  IF phase[w] = "unborn" THEN 0
  ELSE (round[w] * Routine(w).times + k[w]) * Routine(w).step
Shares == [w \in Workers |-> Share(w)]

(* The loops of a thread: it counts only inside the lock, on the counter   *)
(* as it is, and ends when it has gone through all of them.                *)
Loop(w) ==
  /\ phase[w] = "unborn" => lock[w] = "out" /\ round[w] = 0
  /\ lock[w] # "in" => k[w] = 0 /\ reg[w] = <<>>
  /\ lock[w] # "out" => round[w] < Routine(w).rounds
  /\ reg[w] # <<>> => reg[w] = <<counter>> /\ k[w] < Routine(w).times
  /\ phase[w] # "unborn" => round[w] <= Routine(w).rounds /\ k[w] <= Routine(w).times
  /\ phase[w] = "ended" =>
       /\ lock[w] = "out" /\ round[w] = Routine(w).rounds
       /\ value[w] = Routine(w).leaves

(* And of all: one counts at a time, and the counter is what they added.   *)
Loops ==
  /\ \A w \in Workers : Loop(w)
  /\ \A v, w \in Workers : lock[v] = "in" /\ lock[w] = "in" => v = w
  /\ counter = Ten(Shares)

(* Shares are numbers.                                                     *)
LEMMA SharesTyped == Types => Shares \in [Workers -> Int]
<1> SUFFICES ASSUME Types, NEW w \in Workers PROVE Share(w) \in Int
  BY DEF Shares
<1>1. /\ phase[w] # "unborn" => w \in DOMAIN program.routine
      /\ round[w] \in Nat /\ k[w] \in Nat
  BY DEF Types
<1>2. CASE phase[w] = "unborn"
  BY <1>2 DEF Share
<1>3. CASE phase[w] # "unborn"
  <2>1. Routine(w).times \in Nat /\ Routine(w).step \in Int
    BY <1>1, <1>3, Domain DEF Sound
  <2> QED
    BY <1>1, <1>3, <2>1 DEF Share
<1> QED
  BY <1>2, <1>3

(* And after a step.                                                       *)
LEMMA SharesTypedNext ==
  ASSUME Types, Types', UNCHANGED program
  PROVE  Shares' \in [Workers -> Int]
<1> SUFFICES ASSUME NEW w \in Workers PROVE Share(w)' \in Int
  BY DEF Shares
<1>1. /\ phase'[w] # "unborn" => w \in DOMAIN program.routine
      /\ round'[w] \in Nat /\ k'[w] \in Nat
  BY DEF Types
<1>2. Routine(w)' = Routine(w)
  BY DEF Routine
<1>3. CASE phase'[w] = "unborn"
  BY <1>3 DEF Share
<1>4. CASE phase'[w] # "unborn"
  <2>1. Routine(w).times \in Nat /\ Routine(w).step \in Int
    BY <1>1, <1>4, Domain DEF Sound
  <2>2. Share(w)' = (round'[w] * Routine(w).times + k'[w]) * Routine(w).step
    BY <1>2, <1>4 DEF Share
  <2> QED
    BY <1>1, <2>1, <2>2
<1> QED
  BY <1>3, <1>4

(* The loops at first.                                                     *)
LEMMA LoopsInit == Init => Loops
<1> SUFFICES ASSUME Init PROVE Loops
  OBVIOUS
<1>1. Types
  BY TypesInit
<1>2. /\ \A w \in Workers : phase[w] = "unborn"
      /\ lock = [w \in Workers |-> "out"] /\ counter = 0
      /\ round = [w \in Workers |-> 0] /\ k = [w \in Workers |-> 0]
      /\ reg = [w \in Workers |-> <<>>]
  BY DEF Init, T!Init, L!Init, Workers, Main, Threads
<1>3. \A w \in Workers : Loop(w)
  BY <1>2 DEF Loop
<1>4. Ten(Shares) = 0
  <2>1. \A i \in 1..10 : Shares[i] = 0
    BY <1>2 DEF Shares, Share, Workers
  <2> QED
    BY <2>1 DEF Ten, Low, High
<1> QED
  BY <1>2, <1>3, <1>4 DEF Loops

(* A step that leaves the threads and their loops alone.                   *)
LEMMA LoopsStay ==
  Loops /\ UNCHANGED <<program, phase, value, loopVars>> => Loops'
<1> SUFFICES ASSUME Loops, UNCHANGED <<program, phase, value, loopVars>> PROVE Loops'
  OBVIOUS
<1>1. UNCHANGED <<program, phase, value, lock, round, k, reg, counter>>
  BY DEF loopVars
<1>2. Shares' = Shares
  BY <1>1 DEF Shares, Share, Routine
<1> QED
  BY <1>1, <1>2 DEF Loops, Loop, Routine

(* A step of one thread, as far as the others' loops go.                   *)
LEMMA OtherLoops ==
  ASSUME Loops, NEW w \in Workers, UNCHANGED program,
         \A v \in Workers \ {w} :
           /\ phase'[v] = phase[v] /\ value'[v] = value[v] /\ lock'[v] = lock[v]
           /\ round'[v] = round[v] /\ k'[v] = k[v] /\ reg'[v] = reg[v],
         counter' = counter \/ lock[w] = "in"
  PROVE  /\ \A v \in Workers \ {w} : Loop(v)' /\ Shares'[v] = Shares[v]
<1> SUFFICES ASSUME NEW v \in Workers \ {w} PROVE Loop(v)' /\ Shares'[v] = Shares[v]
  OBVIOUS
<1>1. Loop(v) /\ (lock[w] = "in" => lock[v] # "in")
  BY DEF Loops
<1>2. reg[v] # <<>> => counter' = counter
  BY <1>1 DEF Loop
<1> QED
  BY <1>1, <1>2 DEF Loop, Shares, Share, Routine

(* A step of a thread.                                                     *)
LEMMA TurnKeepsLoops ==
  ASSUME Types, Types', Loops, NEW w \in Workers, Turn(w)
  PROVE  Loops'
<1>1. UNCHANGED program /\ phase[w] = "live"
  BY DEF Turn, Lock, Locked, Load, Store, Unlock, Leave, Runs, Rest, choice
<1>2. /\ Loop(w) /\ counter = Ten(Shares)
      /\ \A u, v \in Workers : lock[u] = "in" /\ lock[v] = "in" => u = v
  BY DEF Loops
<1>3. /\ Routine(w).rounds \in Nat /\ Routine(w).times \in Nat /\ Routine(w).step \in Int
      /\ round[w] \in Nat /\ k[w] \in Nat /\ counter \in Int
  BY <1>1, Domain DEF Types, Sound
<1>4. /\ lock \in [Workers -> {"out", "waiting", "in"}]
      /\ round \in [Workers -> Nat] /\ k \in [Workers -> Nat] /\ reg \in [Workers -> Seq(Int)]
      /\ phase \in [Threads -> {"unborn", "live", "ended"}] /\ value \in [Threads -> Values]
      /\ Workers \subseteq Threads
  BY DEF Types, Threads
<1>5. Shares \in [Workers -> Int] /\ Shares' \in [Workers -> Int]
  BY <1>1, SharesTyped, SharesTypedNext
<1>6. Routine(w)' = Routine(w)
  BY <1>1 DEF Routine
<1>7. \A v \in Workers : Shares[v] = Share(v) /\ Shares'[v] = Share(v)'
  BY DEF Shares
<1>8. Share(w) = (round[w] * Routine(w).times + k[w]) * Routine(w).step
  BY <1>1 DEF Share
<1>9. ASSUME \A v \in Workers \ {w} :
               /\ phase'[v] = phase[v] /\ value'[v] = value[v] /\ lock'[v] = lock[v]
               /\ round'[v] = round[v] /\ k'[v] = k[v] /\ reg'[v] = reg[v],
             counter' = counter \/ lock[w] = "in",
             Loop(w)', Share(w)' = Share(w) + (counter' - counter),
             lock'[w] = "in" => lock[w] = "in" \/ \A v \in Workers : lock[v] # "in"
      PROVE  Loops'
  <2>1. \A v \in Workers \ {w} : Loop(v)' /\ Shares'[v] = Shares[v]
    BY <1>1, <1>9, OtherLoops
  <2>2. \A v \in Workers : Loop(v)'
    BY <1>9, <2>1
  <2>3. \A u, v \in Workers : lock'[u] = "in" /\ lock'[v] = "in" => u = v
    BY <1>2, <1>9
  <2>4. counter' = Ten(Shares')
    <3>1. counter' \in Int /\ counter' - counter \in Int
      BY <1>3 DEF Types
    <3>2. Shares'[w] = Shares[w] + (counter' - counter)
      BY <1>7, <1>9
    <3>3. Ten(Shares') = Ten(Shares) + (counter' - counter)
      BY <1>5, <2>1, <3>1, <3>2, TenGrows
    <3> QED
      BY <1>2, <1>3, <3>1, <3>3
  <2> QED
    BY <2>2, <2>3, <2>4 DEF Loops, Ten, Low, High
<1>10. CASE Lock(w)
  <2>1. /\ UNCHANGED <<phase, value, round, k, reg, counter>>
        /\ lock[w] = "out" /\ lock' = [lock EXCEPT ![w] = "waiting"]
        /\ round[w] < Routine(w).rounds
    BY <1>10 DEF Lock, L!Request, MoreRounds, Rest, threadVars
  <2>2. Loop(w)'
    BY <1>1, <1>2, <1>4, <1>6, <2>1 DEF Loop
  <2>3. Share(w)' = Share(w) + (counter' - counter)
    BY <1>3, <1>5, <1>6, <1>7, <2>1 DEF Share
  <2> QED
    BY <1>4, <1>9, <2>1, <2>2, <2>3
<1>11. CASE Locked(w)
  <2>1. /\ UNCHANGED <<phase, value, round, k, reg, counter>>
        /\ lock[w] = "waiting" /\ lock' = [lock EXCEPT ![w] = "in"]
        /\ \A v \in Workers : lock[v] # "in"
    BY <1>11 DEF Locked, L!Acquire, L!In, Rest, threadVars
  <2>2. Loop(w)'
    BY <1>1, <1>2, <1>4, <1>6, <2>1 DEF Loop
  <2>3. Share(w)' = Share(w) + (counter' - counter)
    BY <1>3, <1>5, <1>6, <1>7, <2>1 DEF Share
  <2> QED
    BY <1>4, <1>9, <2>1, <2>2, <2>3
<1>12. CASE Load(w)
  <2>1. /\ UNCHANGED <<phase, value, lock, round, k, counter>>
        /\ lock[w] = "in" /\ k[w] < Routine(w).times
        /\ reg' = [reg EXCEPT ![w] = <<counter>>]
    BY <1>12 DEF Load, Inside, Rest, threadVars
  <2>2. Loop(w)'
    BY <1>1, <1>2, <1>4, <1>6, <2>1 DEF Loop
  <2>3. Share(w)' = Share(w) + (counter' - counter)
    BY <1>3, <1>5, <1>6, <1>7, <2>1 DEF Share
  <2> QED
    BY <1>4, <1>9, <2>1, <2>2, <2>3
<1>13. CASE Store(w)
  <2>1. /\ UNCHANGED <<phase, value, lock, round>> /\ reg[w] # <<>>
        /\ counter' = Head(reg[w]) + Routine(w).step
        /\ reg' = [reg EXCEPT ![w] = <<>>] /\ k' = [k EXCEPT ![w] = @ + 1]
    BY <1>13 DEF Store, Rest, threadVars
  <2>2. lock[w] = "in" /\ reg[w] = <<counter>> /\ k[w] < Routine(w).times
    BY <1>2, <1>4, <2>1 DEF Loop
  <2>3. counter' = counter + Routine(w).step /\ k'[w] = k[w] + 1
    BY <1>3, <1>4, <2>1, <2>2
  <2>4. Loop(w)'
    BY <1>1, <1>2, <1>3, <1>4, <1>6, <2>1, <2>2, <2>3 DEF Loop
  <2>5. Share(w)' = (round[w] * Routine(w).times + (k[w] + 1)) * Routine(w).step
    BY <1>1, <1>6, <2>1, <2>3 DEF Share
  <2>6. Share(w)' = Share(w) + (counter' - counter)
    <3>1. \A a \in Nat, s, c \in Int : (a + 1) * s = a * s + ((c + s) - c)
      OBVIOUS
    <3>2. PICK a \in Nat : a = round[w] * Routine(w).times + k[w]
      BY <1>3
    <3>3. round[w] * Routine(w).times + (k[w] + 1) = a + 1
      BY <1>3, <3>2
    <3>4. Share(w)' = (a + 1) * Routine(w).step /\ Share(w) = a * Routine(w).step
      BY <1>8, <2>5, <3>2, <3>3
    <3> QED
      BY <1>3, <2>3, <3>1, <3>4
  <2> QED
    BY <1>4, <1>9, <2>1, <2>2, <2>4, <2>6
<1>14. CASE Unlock(w)
  <2>1. /\ UNCHANGED <<phase, value, reg, counter>>
        /\ lock[w] = "in" /\ lock' = [lock EXCEPT ![w] = "out"]
        /\ k[w] = Routine(w).times
        /\ k' = [k EXCEPT ![w] = 0] /\ round' = [round EXCEPT ![w] = @ + 1]
    BY <1>14 DEF Unlock, L!Release, Rest, threadVars
  <2>2. k'[w] = 0 /\ round'[w] = round[w] + 1 /\ round[w] < Routine(w).rounds /\ reg[w] = <<>>
    BY <1>2, <1>3, <1>4, <2>1 DEF Loop
  <2>3. Loop(w)'
    BY <1>1, <1>2, <1>3, <1>4, <1>6, <2>1, <2>2 DEF Loop
  <2>4. Share(w)' = ((round[w] + 1) * Routine(w).times + 0) * Routine(w).step
    BY <1>1, <1>6, <2>1, <2>2 DEF Share
  <2>5. (round[w] + 1) * Routine(w).times + 0 = round[w] * Routine(w).times + k[w]
    <3>1. \A r, t \in Nat : (r + 1) * t + 0 = r * t + t
      OBVIOUS
    <3> QED
      BY <1>3, <2>1, <3>1
  <2>6. Share(w)' = Share(w)
    BY <1>8, <2>4, <2>5
  <2>7. Share(w)' = Share(w) + (counter' - counter)
    BY <1>3, <1>5, <1>7, <2>1, <2>6
  <2> QED
    BY <1>4, <1>9, <2>1, <2>3, <2>7
<1>15. CASE Leave(w)
  <2>1. /\ UNCHANGED <<lock, round, k, reg, counter>> /\ lock[w] = "out"
        /\ ~(round[w] < Routine(w).rounds)
        /\ phase' = [phase EXCEPT ![w] = "ended"]
        /\ value' = [value EXCEPT ![w] = Routine(w).leaves]
    BY <1>15 DEF Leave, T!End, MoreRounds, loopVars
  <2>2. round[w] = Routine(w).rounds /\ phase'[w] = "ended" /\ value'[w] = Routine(w).leaves
    BY <1>1, <1>2, <1>3, <1>4, <2>1 DEF Loop
  <2>3. Loop(w)'
    BY <1>1, <1>2, <1>3, <1>6, <2>1, <2>2 DEF Loop
  <2>4. Share(w)' = Share(w)
    BY <1>1, <1>6, <1>8, <2>1, <2>2 DEF Share
  <2>5. Share(w)' = Share(w) + (counter' - counter)
    BY <1>3, <1>5, <1>7, <2>1, <2>4
  <2> QED
    BY <1>4, <1>9, <2>1, <2>3, <2>5
<1> QED
  BY <1>10, <1>11, <1>12, <1>13, <1>14, <1>15 DEF Turn

(* Every step.                                                             *)
LEMMA LoopsKept == Types /\ Types' /\ Loops /\ [Next]_vars => Loops'
<1> SUFFICES ASSUME Types, Types', Loops, [Next]_vars PROVE Loops'
  OBVIOUS
<1>1. ASSUME UNCHANGED <<program, phase, value, loopVars>> PROVE Loops'
  BY <1>1, LoopsStay
<1>2. CASE UNCHANGED vars
  BY <1>1, <1>2 DEF vars, choice, threadVars
<1>3. CASE Ends \/ Goes \/ Empties
  BY <1>1, <1>3 DEF Ends, Goes, Empties, choice, threadVars
<1>4. CASE CallJoin
  BY <1>1, <1>4 DEF CallJoin, T!Ask, choice
<1>5. CASE JoinReturns
  BY <1>1, <1>5 DEF JoinReturns, T!Answer, T!AnswerLost, T!Reply, choice
<1>6. CASE MainCreates
  <2>1. PICK w \in Workers : w = Statement.worker
    BY <1>6, Statements, Domain DEF MainCreates, At
  <2>2. /\ phase[w] = "unborn" /\ phase' = [phase EXCEPT ![w] = "live"]
        /\ UNCHANGED <<program, value, lock, round, k, reg, counter>>
    BY <1>6, <2>1 DEF MainCreates, T!Create, choice, loopVars
  <2>3. /\ Loop(w) /\ Workers \subseteq Threads /\ w \in DOMAIN program.routine
        /\ phase \in [Threads -> {"unborn", "live", "ended"}] /\ k[w] = 0 /\ round[w] = 0
    BY <1>6, <2>1, <2>2, Statements DEF Types, Loops, Loop, Threads, MainCreates, At
  <2>4. /\ phase'[w] = "live"
        /\ \A v \in Workers \ {w} : phase'[v] = phase[v]
    BY <2>2, <2>3
  <2>5. Routine(w)' = Routine(w) /\ Sound(Routine(w))
    BY <2>2, <2>3, Domain DEF Routine
  <2>6. Loop(w)'
    BY <2>2, <2>3, <2>4, <2>5 DEF Loop, Sound
  <2>7. \A v \in Workers \ {w} : Loop(v)' /\ Shares'[v] = Shares[v]
    BY <2>2, <2>4, OtherLoops
  <2>8. Shares'[w] = Shares[w]
    <3>1. Share(w) = 0
      BY <2>2 DEF Share
    <3>2. Share(w)' = (0 * Routine(w).times + 0) * Routine(w).step
      BY <2>2, <2>3, <2>4, <2>5 DEF Share
    <3>3. \A t \in Nat, s \in Int : (0 * t + 0) * s = 0
      OBVIOUS
    <3>4. Share(w)' = 0
      BY <2>5, <3>2, <3>3 DEF Sound
    <3> QED
      BY <3>1, <3>4 DEF Shares
  <2>9. Ten(Shares') = Ten(Shares)
    BY <2>7, <2>8, TenSame
  <2>10. \A v \in Workers : Loop(v)'
    BY <2>6, <2>7
  <2> QED
    BY <2>2, <2>9, <2>10 DEF Loops, Ten, Low, High
<1>7. ASSUME NEW w \in Workers, Turn(w) PROVE Loops'
  BY <1>7, TurnKeepsLoops
<1> QED
  BY <1>2, <1>3, <1>4, <1>5, <1>6, <1>7, Steps

(* What main() waits for is the thread its statement names.                *)
Asked ==
  T!Waits(Main) =>
    /\ ~AtEnd /\ Statement.op = "join"
    /\ id[Statement.id] # Nobody => join[Main].of = id[Statement.id]

(* Statement i of main() does op.                                          *)
Is(i, op) == i \in 1..Len(program.main) /\ program.main[i].op = op

(* What main() knows of its threads from the statements it has passed.     *)
NamedRight == \A x \in Workers : id[x] = IF phase[x] = "unborn" THEN Nobody ELSE x
CreatedBefore ==
  \A x \in Workers : phase[x] # "unborn" =>
    \E c : Is(c, "create") /\ c < pc /\ program.main[c].id = x
JoinedBefore ==
  \A j : Is(j, "join") /\ j < pc => phase[program.main[j].id] # "live"
KeptRight ==
  ~Lossy =>
    \A j : Is(j, "join") /\ program.main[j].keeps /\ j < pc =>
      LET x == program.main[j].id IN
      phase[x] # "unborn" => status[x] = Routine(x).leaves
ExitsLate == outcome = "exited" => AtEnd \/ pc = 1

Ordered ==
  /\ NamedRight /\ CreatedBefore /\ JoinedBefore /\ KeptRight /\ ExitsLate

(* The inductive invariant.                                                *)
Inv == Types /\ Loops /\ Asked /\ (Tidy(program) => Ordered)

(* main() at first.                                                        *)
LEMMA MainInit == Init => Asked /\ Ordered
<1> SUFFICES ASSUME Init PROVE Asked /\ Ordered
  OBVIOUS
<1>1. /\ pc = 1 /\ id = [i \in Workers |-> Nobody] /\ outcome = "up"
      /\ \A w \in Workers : phase[w] = "unborn"
      /\ join[Main].of = Nobody
  BY DEF Init, T!Init, T!NoJoin, Workers, Main, Threads
<1>2. Asked
  BY <1>1 DEF Asked, T!Waits
<1>3. \A j, op : ~(Is(j, op) /\ j < pc)
  BY <1>1 DEF Is
<1> QED
  BY <1>1, <1>2, <1>3 DEF Ordered, NamedRight, CreatedBefore, JoinedBefore,
    KeptRight, ExitsLate

(* Any step but a thread_create or an answered thread_join.                *)
LEMMA OrderedStays ==
  ASSUME Types, Types', Ordered, UNCHANGED <<choice, id>>,
         pc' = pc \/ (pc' = pc + 1 /\ ~AtEnd /\ Statement.op # "join"),
         UNCHANGED status \/ (pc = 1 /\ pc' = 1),
         \A x \in Workers : phase'[x] = phase[x] \/ (phase[x] = "live" /\ phase'[x] = "ended"),
         outcome' = "exited" => pc' = pc /\ (outcome = "exited" \/ AtEnd \/ pc = 1)
  PROVE  Ordered'
<1>0. UNCHANGED <<library, program>>
  BY DEF choice
<1>1. /\ pc \in Nat /\ pc' \in Nat /\ Len(program.main) \in Nat
      /\ \A j, op : Is(j, op) => j \in 1..Len(program.main)
      /\ \A j : Is(j, "join") => program.main[j].id \in Workers
      /\ \A j, op : Is(j, op)' = Is(j, op)
      /\ \A x : Routine(x)' = Routine(x)
  BY <1>0 DEF Types, Fit, Proper, Is, Routine
<1>2. /\ \A j : Is(j, "join") /\ j < pc' => j < pc
      /\ \A j : j \in Nat /\ j < pc => j < pc'
  <2>1. CASE pc' = pc
    BY <2>1
  <2>2. CASE pc' = pc + 1 /\ ~AtEnd /\ Statement.op # "join"
    <3>1. ~Is(pc, "join")
      BY <2>2 DEF Is, Statement
    <3>2. \A j \in Nat : j < pc' => j < pc \/ j = pc
      BY <1>1, <2>2
    <3> QED
      BY <1>1, <2>2, <3>1, <3>2 DEF Is
  <2> QED
    BY <2>1, <2>2
<1>3. NamedRight'
  BY <1>0 DEF Ordered, NamedRight
<1>4. CreatedBefore'
  <2> SUFFICES ASSUME NEW x \in Workers, phase'[x] # "unborn"
               PROVE  \E c : Is(c, "create") /\ c < pc' /\ program.main[c].id = x
    BY <1>0, <1>1 DEF CreatedBefore
  <2>1. phase[x] # "unborn"
    OBVIOUS
  <2>2. PICK c : Is(c, "create") /\ c < pc /\ program.main[c].id = x
    BY <2>1 DEF Ordered, CreatedBefore
  <2>3. c \in Nat
    BY <1>1, <2>2
  <2> QED
    BY <1>2, <2>2, <2>3
<1>5. JoinedBefore'
  <2> SUFFICES ASSUME NEW j, Is(j, "join"), j < pc' PROVE phase'[program.main[j].id] # "live"
    BY <1>0, <1>1 DEF JoinedBefore
  <2> QED
    BY <1>1, <1>2 DEF Ordered, JoinedBefore
<1>6. KeptRight'
  <2> SUFFICES ASSUME ~Lossy, NEW j, Is(j, "join"), program.main[j].keeps, j < pc',
                      NEW x, x = program.main[j].id, phase'[x] # "unborn"
               PROVE  status'[x] = Routine(x).leaves
    BY <1>0, <1>1 DEF KeptRight, Lossy
  <2>1. j < pc /\ x \in Workers /\ phase[x] # "unborn"
    BY <1>1, <1>2
  <2>2. status[x] = Routine(x).leaves
    BY <2>1 DEF Ordered, KeptRight
  <2>3. UNCHANGED status
    BY <1>1, <2>1
  <2> QED
    BY <2>2, <2>3
<1>7. ExitsLate'
  BY <1>0 DEF Ordered, ExitsLate, AtEnd
<1> QED
  BY <1>3, <1>4, <1>5, <1>6, <1>7 DEF Ordered

(* A thread_create: no join of that thread has been passed.                *)
LEMMA CreateKeepsOrdered ==
  ASSUME Types, Types', Ordered, Tidy(program), MainCreates
  PROVE  Ordered'
<1>1. /\ ~AtEnd /\ Statement.op = "create" /\ pc' = pc + 1 /\ outcome = "up"
      /\ T!Create(Statement.worker) /\ id' = [id EXCEPT ![Statement.id] = Statement.worker]
      /\ UNCHANGED <<library, program, status, outcome>>
  BY DEF MainCreates, At, Step, choice, process
<1>2. /\ pc \in 1..Len(program.main) /\ Len(program.main) \in Nat
      /\ Statement.id \in Workers
  BY <1>1, Statements
<1>3. PICK w \in Workers : w = Statement.id
  BY <1>2
<1>4. Is(pc, "create") /\ program.main[pc].id = w /\ Statement.worker = w
  BY <1>1, <1>2, <1>3 DEF Is, Statement, Tidy
<1>5. /\ phase[w] = "unborn" /\ phase' = [phase EXCEPT ![w] = "live"]
      /\ id' = [id EXCEPT ![w] = w] /\ id \in [Workers -> Workers \cup {Nobody}]
      /\ phase \in [Threads -> {"unborn", "live", "ended"}] /\ Workers \subseteq Threads
  BY <1>1, <1>3, <1>4 DEF T!Create, Types, Threads
<1>6. /\ phase'[w] = "live" /\ id'[w] = w
      /\ \A x \in Workers \ {w} : phase'[x] = phase[x] /\ id'[x] = id[x]
  BY <1>5
<1>7. /\ \A j : Is(j, "join") => j \in Nat /\ program.main[j].id \in Workers
      /\ \A j, op : Is(j, op)' = Is(j, op)
      /\ \A x : Routine(x)' = Routine(x)
      /\ \A c, op : Is(c, op) => c \in Nat
  <2>1. /\ \A j, op : Is(j, op) => j \in 1..Len(program.main)
        /\ \A j : Is(j, "join") => program.main[j].id \in Workers
        /\ \A j, op : Is(j, op)' = Is(j, op)
        /\ \A x : Routine(x)' = Routine(x)
    BY <1>1 DEF Types, Fit, Proper, Is, Routine
  <2>2. \A j \in 1..Len(program.main) : j \in Nat
    BY <1>2
  <2> QED
    BY <2>1, <2>2
<1>8. ASSUME NEW j, Is(j, "join"), j < pc'
      PROVE  j < pc /\ program.main[j].id \in Workers \ {w}
  <2>1. ~Is(pc, "join")
    BY <1>4 DEF Is
  <2>2. j < pc
    BY <1>1, <1>2, <1>7, <1>8, <2>1
  <2>3. program.main[j].id = w => pc < j
    BY <1>4, <1>8 DEF Tidy, Is
  <2> QED
    BY <1>2, <1>7, <1>8, <2>2, <2>3
<1>9. NamedRight'
  BY <1>5, <1>6 DEF Ordered, NamedRight
<1>10. CreatedBefore'
  <2> SUFFICES ASSUME NEW x \in Workers, phase'[x] # "unborn"
               PROVE  \E c : Is(c, "create") /\ c < pc' /\ program.main[c].id = x
    BY <1>1, <1>7 DEF CreatedBefore
  <2>1. CASE x = w
    BY <1>1, <1>2, <1>4, <2>1
  <2>2. CASE x # w
    <3>1. PICK c : Is(c, "create") /\ c < pc /\ program.main[c].id = x
      BY <1>6, <2>2 DEF Ordered, CreatedBefore
    <3> QED
      BY <1>1, <1>2, <1>7, <3>1
  <2> QED
    BY <2>1, <2>2
<1>11. JoinedBefore'
  <2> SUFFICES ASSUME NEW j, Is(j, "join"), j < pc' PROVE phase'[program.main[j].id] # "live"
    BY <1>1, <1>7 DEF JoinedBefore
  <2> QED
    BY <1>6, <1>8 DEF Ordered, JoinedBefore
<1>12. KeptRight'
  <2> SUFFICES ASSUME ~Lossy, NEW j, Is(j, "join"), program.main[j].keeps, j < pc',
                      NEW x, x = program.main[j].id, phase'[x] # "unborn"
               PROVE  status'[x] = Routine(x).leaves
    BY <1>1, <1>7 DEF KeptRight, Lossy
  <2>1. j < pc /\ x \in Workers \ {w}
    BY <1>8
  <2>2. phase[x] # "unborn"
    BY <1>6, <2>1
  <2> QED
    BY <1>1, <2>1, <2>2 DEF Ordered, KeptRight
<1>13. ExitsLate'
  BY <1>1 DEF ExitsLate
<1> QED
  BY <1>9, <1>10, <1>11, <1>12, <1>13 DEF Ordered

(* An answered join: the thread has ended, if there is one.                *)
LEMMA JoinKeepsOrdered ==
  ASSUME Types, Types', Loops, Asked, Ordered, JoinReturns
  PROVE  Ordered'
<1>1. /\ ~AtEnd /\ Statement.op = "join" /\ pc' = pc + 1 /\ outcome = "up"
      /\ UNCHANGED <<library, program, id, outcome>>
      /\ T!Waits(Main) /\ UNCHANGED phase
  BY DEF JoinReturns, At, AfterJoin, choice, process, T!Answer, T!AnswerLost, T!Reply
<1>2. /\ pc \in 1..Len(program.main) /\ Len(program.main) \in Nat
      /\ Statement.id \in Workers
  BY <1>1, Statements
<1>3. PICK w \in Workers : w = Statement.id
  BY <1>2
<1>4. Is(pc, "join") /\ program.main[pc].id = w
  BY <1>1, <1>2, <1>3 DEF Is, Statement
<1>5. phase[w] # "unborn" => id[w] = w /\ join[Main].of = w /\ w # Nobody
  BY <1>1, <1>3 DEF Asked, Ordered, NamedRight, Workers, Nobody
<1>6. Main \in Threads /\ Main # w /\ w \in Threads
  BY DEF Threads, Main, Workers
<1>7. ASSUME phase[w] # "unborn" PROVE phase[w] = "ended"
  <2>1. join[Main].of = w
    BY <1>5, <1>7
  <2> QED
    BY <1>6, <1>7, <2>1 DEF JoinReturns, T!Answer, T!AnswerLost
<1>8. ASSUME phase[w] # "unborn", ~Lossy
      PROVE  join'[Main].code = "ok" /\ join'[Main].val = Routine(w).leaves
  <2>1. join[Main].of = w /\ phase[w] = "ended" /\ value[w] = Routine(w).leaves
    BY <1>5, <1>7, <1>8 DEF Loops, Loop
  <2>2. T!Answer(Main)
    BY <1>8 DEF JoinReturns
  <2>3. T!Reply(Main, "ok", value[w])
    BY <1>6, <2>1, <2>2 DEF T!Answer
  <2>4. /\ join \in [Threads -> [of : Threads \cup {Nobody},
              code : {"none", "ok", "ESRCH", "EDEADLK"}, val : Values]]
    BY DEF Types
  <2>5. PICK q, v : q = join[Main] /\ v = value[w]
    OBVIOUS
  <2>6. q \in [of : Threads \cup {Nobody},
              code : {"none", "ok", "ESRCH", "EDEADLK"}, val : Values]
    BY <1>6, <2>4, <2>5
  <2>7. join'[Main] = [q EXCEPT !.code = "ok", !.val = v]
    BY <1>6, <2>3, <2>4, <2>5 DEF T!Reply
  <2> QED
    BY <2>1, <2>5, <2>6, <2>7
<1>9. /\ \A j, op : Is(j, op)' = Is(j, op)
      /\ \A x : Routine(x)' = Routine(x)
      /\ \A j : Is(j, "join") => j \in Nat /\ program.main[j].id \in Workers
      /\ \A c, op : Is(c, op) => c \in Nat
  <2>1. /\ \A j, op : Is(j, op) => j \in 1..Len(program.main)
        /\ \A j : Is(j, "join") => program.main[j].id \in Workers
        /\ \A j, op : Is(j, op)' = Is(j, op)
        /\ \A x : Routine(x)' = Routine(x)
    BY <1>1 DEF Types, Fit, Proper, Is, Routine
  <2>2. \A j \in 1..Len(program.main) : j \in Nat
    BY <1>2
  <2> QED
    BY <2>1, <2>2
<1>10. NamedRight'
  BY <1>1 DEF Ordered, NamedRight
<1>11. CreatedBefore'
  <2> SUFFICES ASSUME NEW x \in Workers, phase'[x] # "unborn"
               PROVE  \E c : Is(c, "create") /\ c < pc' /\ program.main[c].id = x
    BY <1>1, <1>9 DEF CreatedBefore
  <2>1. PICK c : Is(c, "create") /\ c < pc /\ program.main[c].id = x
    BY <1>1 DEF Ordered, CreatedBefore
  <2> QED
    BY <1>1, <1>2, <1>9, <2>1
<1>12. JoinedBefore'
  <2> SUFFICES ASSUME NEW j, Is(j, "join"), j < pc' PROVE phase[program.main[j].id] # "live"
    BY <1>1, <1>9 DEF JoinedBefore
  <2>1. j < pc \/ j = pc
    BY <1>1, <1>2, <1>9
  <2>2. CASE j < pc
    BY <2>2 DEF Ordered, JoinedBefore
  <2>3. CASE j = pc
    BY <1>4, <1>7, <2>3
  <2> QED
    BY <2>1, <2>2, <2>3
<1>13. KeptRight'
  <2> SUFFICES ASSUME ~Lossy, NEW j, Is(j, "join"), program.main[j].keeps, j < pc',
                      NEW x, x = program.main[j].id, phase[x] # "unborn"
               PROVE  status'[x] = Routine(x).leaves
    BY <1>1, <1>9 DEF KeptRight, Lossy
  <2>1. x \in Workers /\ (j < pc \/ j = pc)
    BY <1>1, <1>2, <1>9
  <2>2. status \in [Workers -> Values \cup {Buffer}]
    BY DEF Types
  <2>3. ASSUME x # w PROVE status'[x] = status[x]
    BY <1>3, <2>1, <2>2, <2>3 DEF JoinReturns, StatusVariable
  <2>4. CASE x # w
    <3>1. j < pc
      BY <1>4, <2>1, <2>4
    <3> QED
      BY <2>3, <2>4, <3>1 DEF Ordered, KeptRight
  <2>5. CASE x = w
    <3>1. join'[Main].code = "ok" /\ join'[Main].val = Routine(w).leaves
      BY <1>8, <2>5
    <3>2. Statement.keeps => status' = [status EXCEPT ![w] = Routine(w).leaves]
      BY <1>3, <3>1 DEF JoinReturns, StatusVariable
    <3>3. ~Statement.keeps => UNCHANGED status /\ j < pc
      BY <2>1 DEF JoinReturns, Statement
    <3>4. CASE Statement.keeps
      BY <2>1, <2>2, <2>5, <3>2, <3>4
    <3>5. CASE ~Statement.keeps
      BY <2>5, <3>3, <3>5 DEF Ordered, KeptRight
    <3> QED
      BY <3>4, <3>5
  <2> QED
    BY <2>4, <2>5
<1>14. ExitsLate'
  BY <1>1 DEF ExitsLate
<1> QED
  BY <1>10, <1>11, <1>12, <1>13, <1>14 DEF Ordered

(* Every step keeps what main() waits for.                                 *)
LEMMA AskedKept == Types /\ Types' /\ Asked /\ [Next]_vars => Asked'
<1> SUFFICES ASSUME Types, Types', Asked, [Next]_vars PROVE Asked'
  OBVIOUS
<1>1. ASSUME UNCHANGED <<program, pc, id>>, join'[Main] = join[Main] PROVE Asked'
  BY <1>1 DEF Asked, T!Waits, AtEnd, Statement
<1>2. CASE UNCHANGED vars
  BY <1>1, <1>2 DEF vars, choice, mainVars, threadVars
<1>3. CASE Ends \/ Empties
  BY <1>1, <1>3 DEF Ends, Empties, choice, mainVars, threadVars
<1>4. CASE Goes \/ MainCreates
  <2>1. ~T!Waits(Main)
    BY <1>4 DEF Goes, MainCreates, At, Asked
  <2>2. UNCHANGED join
    BY <1>4 DEF Goes, MainCreates, T!Create, threadVars
  <2> QED
    BY <2>1, <2>2 DEF Asked, T!Waits
<1>5. CASE CallJoin
  <2>1. /\ ~AtEnd /\ Statement.op = "join" /\ UNCHANGED <<program, pc, id>>
    BY <1>5 DEF CallJoin, At, choice, mainVars
  <2>2. PICK t \in Named(Statement.id) : T!Ask(Main, t)
    BY <1>5 DEF CallJoin
  <2>3. join'[Main].of = t
    BY <2>2 DEF T!Ask, Types, Threads
  <2>4. id[Statement.id] # Nobody => t = id[Statement.id]
    BY <2>2 DEF Named
  <2> QED
    BY <2>1, <2>3, <2>4 DEF Asked, AtEnd, Statement
<1>6. CASE JoinReturns
  <2>1. \E code \in {"ok", "ESRCH", "EDEADLK"} : \E v : T!Reply(Main, code, v)
    BY <1>6 DEF JoinReturns, T!Answer, T!AnswerLost
  <2>2. PICK code \in {"ok", "ESRCH", "EDEADLK"} : \E v : T!Reply(Main, code, v)
    BY <2>1
  <2>8. PICK v : T!Reply(Main, code, v)
    BY <2>2
  <2>3. Main \in Threads /\ join \in [Threads -> [of : Threads \cup {Nobody},
              code : {"none", "ok", "ESRCH", "EDEADLK"}, val : Values]]
    BY DEF Types, Threads
  <2>4. PICK q : q = join[Main]
    OBVIOUS
  <2>5. q \in [of : Threads \cup {Nobody},
              code : {"none", "ok", "ESRCH", "EDEADLK"}, val : Values]
    BY <2>3, <2>4
  <2>6. join'[Main] = [q EXCEPT !.code = code, !.val = v]
    BY <2>8, <2>3, <2>4 DEF T!Reply
  <2>7. join'[Main].code # "none"
    BY <2>2, <2>5, <2>6
  <2> QED
    BY <2>7 DEF Asked, T!Waits
<1>7. ASSUME NEW w \in Workers, Turn(w) PROVE Asked'
  <2>1. UNCHANGED <<program, pc, id>>
    BY <1>7 DEF Turn, Lock, Locked, Load, Store, Unlock, Leave, Rest, choice, mainVars
  <2>2. UNCHANGED join \/ \E r : join' = [join EXCEPT ![w] = r]
    BY <1>7 DEF Turn, Lock, Locked, Load, Store, Unlock, Leave, Rest, threadVars, T!End
  <2>3. join'[Main] = join[Main]
    <3>1. Main \in Threads /\ Main # w
      BY DEF Threads, Main, Workers
    <3>2. \A r : [join EXCEPT ![w] = r][Main] = join[Main]
      BY <3>1 DEF Types
    <3> QED
      BY <2>2, <3>2
  <2> QED
    BY <1>1, <2>1, <2>3
<1> QED
  BY <1>2, <1>3, <1>4, <1>5, <1>6, <1>7, Steps

(* Every step of a program that joins all threads.                         *)
LEMMA OrderedKept ==
  Types /\ Types' /\ Loops /\ Asked /\ (Tidy(program) => Ordered) /\ [Next]_vars
    => (Tidy(program) => Ordered)'
<1> SUFFICES ASSUME Types, Types', Loops, Asked, Tidy(program) => Ordered, [Next]_vars,
                    Tidy(program')
             PROVE  Ordered'
  OBVIOUS
<1>1. UNCHANGED choice
  BY Steps DEF vars, Ends, Goes, Empties, MainCreates, CallJoin, JoinReturns, Turn,
    Lock, Locked, Load, Store, Unlock, Leave, Rest
<1>2. Tidy(program) /\ Ordered
  BY <1>1 DEF choice
<1>3. CASE UNCHANGED vars
  <2>1. UNCHANGED <<id, pc, status, phase, outcome>>
    BY <1>1, <1>3 DEF vars, mainVars, threadVars, process
  <2> QED
    BY <1>1, <1>2, <2>1, OrderedStays
<1>4. CASE Ends
  <2>1. /\ UNCHANGED <<id, pc, status, phase>>
        /\ outcome' = "exited" => outcome = "exited" \/ AtEnd \/ pc = 1
    BY <1>1, <1>4 DEF Ends, mainVars, threadVars
  <2> QED
    BY <1>1, <1>2, <2>1, OrderedStays
<1>5. CASE Goes
  <2>1. /\ pc' = pc + 1 /\ ~AtEnd /\ Statement.op # "join"
        /\ UNCHANGED <<id, status, phase>> /\ outcome' # "exited"
    BY <1>1, <1>5 DEF Goes, threadVars
  <2> QED
    BY <1>1, <1>2, <2>1, OrderedStays
<1>6. CASE Empties
  <2>1. /\ pc = 1 /\ outcome = "up" /\ UNCHANGED <<id, pc, phase, outcome>>
    BY <1>1, <1>6 DEF Empties, threadVars
  <2> QED
    BY <1>1, <1>2, <2>1, OrderedStays
<1>7. CASE MainCreates
  BY <1>2, <1>7, CreateKeepsOrdered
<1>8. CASE CallJoin
  <2>1. UNCHANGED <<id, pc, status, phase, outcome>>
    BY <1>1, <1>8 DEF CallJoin, T!Ask, mainVars, process
  <2> QED
    BY <1>1, <1>2, <2>1, OrderedStays
<1>9. CASE JoinReturns
  BY <1>2, <1>9, JoinKeepsOrdered
<1>10. ASSUME NEW w \in Workers, Turn(w) PROVE Ordered'
  <2>1. UNCHANGED <<mainVars, process>> /\ phase[w] = "live"
    BY <1>10 DEF Turn, Lock, Locked, Load, Store, Unlock, Leave, Rest, Runs
  <2>2. UNCHANGED phase \/ phase' = [phase EXCEPT ![w] = "ended"]
    BY <1>10 DEF Turn, Lock, Locked, Load, Store, Unlock, Leave, Rest, threadVars, T!End
  <2>3. \A x \in Workers : phase'[x] = phase[x] \/ (phase[x] = "live" /\ phase'[x] = "ended")
    BY <2>1, <2>2 DEF Types, Threads
  <2>4. UNCHANGED <<id, pc, status, outcome>>
    BY <2>1 DEF mainVars, process
  <2> QED
    BY <1>1, <1>2, <2>3, <2>4, OrderedStays
<1> QED
  BY <1>3, <1>4, <1>5, <1>6, <1>7, <1>8, <1>9, <1>10, Steps

(* The invariant holds in every state of every program of test_code.       *)
THEOREM Invariance == Spec => []Inv
<1>1. Init => Inv
  BY TypesInit, LoopsInit, MainInit DEF Inv
<1>2. Inv /\ [Next]_vars => Inv'
  <2> SUFFICES ASSUME Inv, [Next]_vars PROVE Inv'
    OBVIOUS
  <2>1. Types'
    BY TypesKept DEF Inv
  <2>2. Loops'
    BY <2>1, LoopsKept DEF Inv
  <2>3. Asked'
    BY <2>1, AskedKept DEF Inv
  <2>4. (Tidy(program) => Ordered)'
    BY <2>1, OrderedKept DEF Inv
  <2> QED
    BY <2>1, <2>2, <2>3, <2>4 DEF Inv
<1> QED
  BY <1>1, <1>2, PTL DEF Spec

(* Every variable keeps its type, no thread counts a round or an addition  *)
(* too many, and its register holds at most one copy of the counter.       *)
THEOREM TypeCorrect == Spec => []TypeOK
<1>1. Inv => TypeOK
  <2> SUFFICES ASSUME Inv PROVE TypeOK
    OBVIOUS
  <2>1. Types /\ Loops
    BY DEF Inv
  <2>2. ASSUME NEW w \in Workers
        PROVE  /\ reg[w] \in Seq(Int) /\ Len(reg[w]) <= 1
               /\ phase[w] = "unborn" => round[w] = 0 /\ k[w] = 0
               /\ phase[w] # "unborn" =>
                    round[w] \in 0..Routine(w).rounds /\ k[w] \in 0..Routine(w).times
    <3>1. Loop(w) /\ reg[w] \in Seq(Int) /\ round[w] \in Nat /\ k[w] \in Nat
      BY <2>1 DEF Types, Loops
    <3>2. phase[w] # "unborn" => Routine(w).rounds \in Nat /\ Routine(w).times \in Nat
      BY <2>1, Domain DEF Types, Sound
    <3>3. reg[w] = <<>> \/ reg[w] = <<counter>>
      BY <3>1 DEF Loop
    <3>4. Len(reg[w]) <= 1
      <4>1. 0 \in {0, 1} /\ 1 \in {0, 1} /\ Len(<<>>) = 0 /\ Len(<<counter>>) = 1
        OBVIOUS
      <4>2. PICK n \in {0, 1} : Len(reg[w]) = n
        BY <3>3, <4>1, Zenon
      <4> QED
        BY <4>2
    <3> QED
      BY <3>1, <3>2, <3>4 DEF Loop
  <2> QED
    BY <2>1, <2>2 DEF TypeOK, Types, Outcomes
<1> QED
  BY <1>1, Invariance, PTL

(* A thread whose join main() has passed has ended.                        *)
LEMMA AllJoined ==
  ASSUME Inv, Tidy(program), NEW x \in Workers, phase[x] # "unborn",
         AtEnd \/ pc = Len(program.main), AtEnd \/ Statement.op # "join"
  PROVE  phase[x] = "ended"
<1>1. PICK c : Is(c, "create") /\ c < pc /\ program.main[c].id = x
  BY DEF Inv, Ordered, CreatedBefore
<1>2. PICK j : Is(j, "join") /\ program.main[j].id = x
  BY <1>1 DEF Tidy, Is
<1>3. j < pc
  <2>1. pc \in Nat /\ Len(program.main) \in Nat /\ j \in 1..Len(program.main)
    BY <1>2 DEF Inv, Types, Fit, Proper, Is
  <2>2. ~AtEnd => j # pc
    BY <1>2 DEF Is, Statement
  <2> QED
    BY <2>1, <2>2 DEF AtEnd
<1>4. phase[x] # "live"
  BY <1>2, <1>3 DEF Inv, Ordered, JoinedBefore
<1> QED
  BY <1>4 DEF Inv, Types, Threads

(* A program that is not tidy neither prints nor joins all its threads.    *)
LEMMA Suited == Inv /\ ~Tidy(program) => Plain(program) /\ program \in {Test7, Test8, Third}
  BY DEF Inv, Types, Fit

(* The programs that join all their threads do not exit before the last of *)
(* them has ended, whichever thread_create has failed.                     *)
THEOREM MainLast == Spec => []MainEndsLast
<1>1. Inv => MainEndsLast
  <2> SUFFICES ASSUME Inv, outcome = "exited", JoinsAll, NEW w \in Created
               PROVE  phase[w] = "ended"
    BY DEF MainEndsLast
  <2>1. Tidy(program) /\ w \in Workers /\ phase[w] # "unborn"
    BY Suited DEF JoinsAll, Created
  <2>2. AtEnd \/ pc = 1
    BY <2>1 DEF Inv, Ordered, ExitsLate
  <2>3. pc # 1
    <3>1. PICK c : Is(c, "create") /\ c < pc
      BY <2>1 DEF Inv, Ordered, CreatedBefore
    <3> QED
      BY <3>1 DEF Is, Inv, Types, Fit, Proper
  <2> QED
    BY <2>1, <2>2, <2>3, AllJoined
<1> QED
  BY <1>1, Invariance, PTL

(* Where the library does not lose a value, the status that main() prints  *)
(* or follows is what the thread left.                                     *)
THEOREM StatusesRight == Spec => []PrintsStatuses
<1>1. Inv => PrintsStatuses
  <2> SUFFICES ASSUME Inv, ~Lossy, At("show") \/ At("follow"),
                      NEW w, w = id[Statement.id], w # Nobody
               PROVE  status[Statement.id] = Routine(w).leaves
    BY DEF PrintsStatuses
  <2>1. pc \in 1..Len(program.main) /\ Statement.id \in Workers
    BY Statements DEF Inv, At
  <2>2. Tidy(program)
    BY <2>1, Suited DEF Plain, At, Statement
  <2>3. phase[Statement.id] # "unborn" /\ w = Statement.id
    BY <2>1, <2>2 DEF Inv, Ordered, NamedRight
  <2>4. PICK j : /\ Is(j, "join") /\ program.main[j].keeps
                 /\ program.main[j].id = Statement.id /\ j < pc
    BY <2>1, <2>2 DEF Tidy, Is, At, Statement
  <2> QED
    BY <2>2, <2>3, <2>4 DEF Inv, Ordered, KeptRight
<1> QED
  BY <1>1, Invariance, PTL

(* The counter that main() prints is the sum of what the loops of the      *)
(* created threads add, for any number of threads and turns.               *)
THEOREM TotalsRight == Spec => []PrintsTotal
<1>1. Inv => PrintsTotal
  <2> SUFFICES ASSUME Inv, At("total") PROVE counter = MapThenSumSet(Sum, Created)
    BY DEF PrintsTotal
  <2>1. /\ pc \in 1..Len(program.main) /\ Statement.op = "total"
        /\ Types /\ Loops
    BY Statements DEF Inv, At
  <2>2. Tidy(program)
    BY <2>1, Suited DEF Plain, Statement
  <2>3. pc = Len(program.main)
    BY <2>1, <2>2 DEF Tidy, Statement
  <2>4. ASSUME NEW w \in Created PROVE Shares[w] = Sum(w)
    <3>1. w \in Workers /\ phase[w] # "unborn"
      BY DEF Created
    <3>2. phase[w] = "ended"
      BY <2>1, <2>2, <2>3, <3>1, AllJoined
    <3>3. round[w] = Routine(w).rounds /\ k[w] = 0
      BY <2>1, <3>1, <3>2 DEF Loops, Loop
    <3>4. Routine(w).rounds \in Nat /\ Routine(w).times \in Nat /\ Routine(w).step \in Int
      BY <2>1, <3>1, Domain DEF Types, Sound
    <3>5. Share(w) = (Routine(w).rounds * Routine(w).times + 0) * Routine(w).step
      BY <3>1, <3>3 DEF Share
    <3>6. \A r, t \in Nat, s \in Int : (r * t + 0) * s = r * t * s
      OBVIOUS
    <3> QED
      BY <3>1, <3>4, <3>5, <3>6 DEF Shares, Sum
  <2>5. ASSUME NEW w \in Workers \ Created PROVE Shares[w] = 0
    BY DEF Created, Shares, Share
  <2>6. Shares \in [Workers -> Int] /\ Created \in SUBSET Workers
    BY <2>1, SharesTyped DEF Created
  <2>7. MapThenSumSet(Sum, Created) = Ten(Shares)
    BY <2>4, <2>5, <2>6, SumIsTen
  <2> QED
    BY <2>1, <2>7 DEF Loops
<1> QED
  BY <1>1, Invariance, PTL
=============================================================================

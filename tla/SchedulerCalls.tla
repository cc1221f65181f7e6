----------------------------- MODULE SchedulerCalls ----------------------------
(***************************************************************************)
(* The inductive invariant IInv of Scheduler.tla, and the lemmas that      *)
(* Init establishes it and that the interrupt and the calls of a thread    *)
(* keep it.  scheduler_process() itself and the theorems are in            *)
(* SchedulerProofs.tla.                                                    *)
(*                                                                         *)
(* The first part is about the queues of scheduler.c, seen as sequences    *)
(* without duplicates: what the list operations do to the set of elements  *)
(* queued.  The frame lemmas after it say what an action that leaves a     *)
(* queue and its threads alone does not have to prove again.               *)
(***************************************************************************)
EXTENDS Scheduler, Functions, FiniteSetTheorems, TLAPS

\* A leaf that names no prover is given to Zenon.
USE ZenonT(60)

-----------------------------------------------------------------------------
(* Queues *)

\* The empty queue is the one of length 0.
LEMMA EmptyFacts ==
  ASSUME NEW S
  PROVE  << >> \in Seq(S) /\ \A q \in Seq(S) : (q = << >>) <=> (Len(q) = 0)
  BY SMTT(60)

\* A queue is a function from its positions to its elements.
LEMMA SeqFacts ==
  ASSUME NEW S, NEW q \in Seq(S)
  PROVE  /\ Len(q) \in Nat /\ q \in [1..Len(q) -> S] /\ DOMAIN q = 1..Len(q)
         /\ \A i \in 1..Len(q) : q[i] \in S
  BY SMTT(60)

\* Queues with the same elements are the same.
LEMMA SameSeq ==
  ASSUME NEW S, NEW q \in Seq(S), NEW r \in Seq(S), Len(q) = Len(r),
         \A i \in 1..Len(q) : q[i] = r[i]
  PROVE  q = r
  BY SMTT(60)

\* A queue with one element more.
LEMMA AppendFacts ==
  ASSUME NEW S, NEW q \in Seq(S), NEW e \in S
  PROVE  /\ Append(q, e) \in Seq(S) /\ Len(Append(q, e)) = Len(q) + 1
         /\ \A i \in 1..Len(q) : Append(q, e)[i] = q[i]
         /\ Append(q, e)[Len(q) + 1] = e
  BY SMTT(60)

\* A queue without its first element.
LEMMA TailFacts ==
  ASSUME NEW S, NEW q \in Seq(S), q # << >>
  PROVE  /\ Head(q) = q[1] /\ Head(q) \in S
         /\ Tail(q) \in Seq(S) /\ Len(Tail(q)) = Len(q) - 1
         /\ \A i \in 1..Len(Tail(q)) : Tail(q)[i] = q[i + 1]
  BY SMTT(60)

\* Two queues after one another.
LEMMA ConcatFacts ==
  ASSUME NEW S, NEW q \in Seq(S), NEW r \in Seq(S)
  PROVE  /\ q \o r \in Seq(S) /\ Len(q \o r) = Len(q) + Len(r)
         /\ \A i \in 1..(Len(q) + Len(r)) :
              (q \o r)[i] = IF i <= Len(q) THEN q[i] ELSE r[i - Len(q)]
  BY SMTT(60)

\* The part of a queue from one position to another.
LEMMA PartFacts ==
  ASSUME NEW S, NEW q, NEW m \in Int, NEW n \in Int, \A i \in m..n : q[i] \in S
  PROVE  /\ SubSeq(q, m, n) \in Seq(S)
         /\ Len(SubSeq(q, m, n)) = IF m <= n THEN n - m + 1 ELSE 0
         /\ \A i \in 1..(n - m + 1) : SubSeq(q, m, n)[i] = q[m + i - 1]
  BY SMTT(60)

\* A queue holds exactly the elements at its positions.
LEMMA RangeOfQueue ==
  ASSUME NEW S, NEW q \in Seq(S)
  PROVE  /\ Range(q) = {q[i] : i \in 1..Len(q)}
         /\ Range(q) \subseteq S
         /\ IsInjective(q) <=> \A i, j \in 1..Len(q) : q[i] = q[j] => i = j
<1>1. DOMAIN q = 1..Len(q) /\ \A i \in 1..Len(q) : q[i] \in S
  BY SeqFacts
<1>2. QED BY <1>1 DEF Range, IsInjective

\* ready_append(): appending a new element keeps a queue free of duplicates.
LEMMA AppendQueue ==
  ASSUME NEW S, NEW q \in Seq(S), NEW x \in S, IsInjective(q), x \notin Range(q)
  PROVE  /\ Append(q, x) \in Seq(S)
         /\ IsInjective(Append(q, x))
         /\ Range(Append(q, x)) = Range(q) \cup {x}
<1> DEFINE r == Append(q, x)
<1>1. /\ r \in Seq(S) /\ Len(r) = Len(q) + 1 /\ Len(q) \in Nat
      /\ \A i \in 1..Len(q) : r[i] = q[i]
      /\ r[Len(q) + 1] = x
  BY AppendFacts, SeqFacts, SMTT(60)
<1> HIDE DEF r
<1>2. \A i \in 1..Len(q) : q[i] # x
  BY RangeOfQueue, SMTT(60)
<1>3. IsInjective(r)
  <2> SUFFICES ASSUME NEW i \in 1..Len(r), NEW j \in 1..Len(r), r[i] = r[j]
               PROVE  i = j
    BY <1>1, RangeOfQueue
  <2>1. \A a, b \in 1..Len(q) : q[a] = q[b] => a = b
    BY RangeOfQueue
  <2>2. QED BY <1>1, <1>2, <2>1, SMTT(60)
<1>4. Range(r) = Range(q) \cup {x}
  <2>1. Range(r) = {r[i] : i \in 1..(Len(q) + 1)}
    BY <1>1, RangeOfQueue, SMTT(60)
  <2>2. Range(q) = {q[i] : i \in 1..Len(q)}
    BY RangeOfQueue, SMTT(60)
  <2>3. QED BY <2>1, <2>2, <1>1, SMTT(60)
<1>5. QED BY <1>1, <1>3, <1>4 DEF r

\* ready_pop(): taking the head off removes exactly the head.
LEMMA TailQueue ==
  ASSUME NEW S, NEW q \in Seq(S), q # <<>>, IsInjective(q)
  PROVE  /\ Head(q) \in S
         /\ Head(q) \in Range(q)
         /\ Tail(q) \in Seq(S)
         /\ IsInjective(Tail(q))
         /\ Range(Tail(q)) = Range(q) \ {Head(q)}
<1> DEFINE r == Tail(q)
<1>1. /\ Head(q) \in S /\ r \in Seq(S) /\ Len(r) = Len(q) - 1
      /\ Len(q) \in Nat /\ Len(q) # 0 /\ Head(q) = q[1]
      /\ \A i \in 1..Len(r) : r[i] = q[i + 1]
  BY TailFacts, SeqFacts, EmptyFacts, SMTT(60)
<1> HIDE DEF r
<1>2. \A a, b \in 1..Len(q) : q[a] = q[b] => a = b
  BY RangeOfQueue
<1>3. Range(q) = {q[i] : i \in 1..Len(q)} /\ Range(r) = {r[i] : i \in 1..(Len(q) - 1)}
  BY <1>1, RangeOfQueue, SMTT(60)
<1>4. IsInjective(r)
  <2> SUFFICES ASSUME NEW i \in 1..Len(r), NEW j \in 1..Len(r), r[i] = r[j]
               PROVE  i = j
    BY <1>1, RangeOfQueue
  <2>1. q[i + 1] = q[j + 1] /\ i + 1 \in 1..Len(q) /\ j + 1 \in 1..Len(q)
    BY <1>1, SMTT(60)
  <2>2. QED BY <1>2, <2>1, SMTT(60)
<1>5. Range(r) = Range(q) \ {Head(q)}
  <2>1. ASSUME NEW y \in Range(r) PROVE y \in Range(q) \ {Head(q)}
    <3>1. PICK i \in 1..(Len(q) - 1) : y = r[i] BY <1>3
    <3>2. y = q[i + 1] /\ i + 1 \in 1..Len(q) /\ i + 1 # 1 BY <1>1, <3>1, SMTT(60)
    <3>3. QED BY <3>2, <1>1, <1>2, <1>3, SMTT(60)
  <2>2. ASSUME NEW y \in Range(q) \ {Head(q)} PROVE y \in Range(r)
    <3>1. PICK i \in 1..Len(q) : y = q[i] BY <1>3
    <3>2. i # 1 /\ i - 1 \in 1..(Len(q) - 1) BY <3>1, <1>1, SMTT(60)
    <3>3. y = r[i - 1] BY <3>1, <3>2, <1>1, SMTT(60)
    <3>4. QED BY <3>2, <3>3, <1>3
  <2>3. QED BY <2>1, <2>2
<1>6. QED BY <1>1, <1>3, <1>4, <1>5, SMTT(60) DEF r

\* Joining two queues without a common element.
LEMMA ConcatQueue ==
  ASSUME NEW S, NEW q \in Seq(S), NEW r \in Seq(S),
         IsInjective(q), IsInjective(r), Range(q) \cap Range(r) = {}
  PROVE  /\ q \o r \in Seq(S)
         /\ IsInjective(q \o r)
         /\ Range(q \o r) = Range(q) \cup Range(r)
<1> DEFINE c == q \o r
<1>1. /\ c \in Seq(S) /\ Len(c) = Len(q) + Len(r) /\ Len(q) \in Nat /\ Len(r) \in Nat
      /\ \A i \in 1..Len(c) : c[i] = IF i <= Len(q) THEN q[i] ELSE r[i - Len(q)]
  BY ConcatFacts, SeqFacts, SMTT(60)
<1> HIDE DEF c
<1>2. /\ Range(q) = {q[i] : i \in 1..Len(q)}
      /\ Range(r) = {r[i] : i \in 1..Len(r)}
      /\ Range(c) = {c[i] : i \in 1..Len(c)}
      /\ \A a, b \in 1..Len(q) : q[a] = q[b] => a = b
      /\ \A a, b \in 1..Len(r) : r[a] = r[b] => a = b
  <2>1. Range(q) = {q[i] : i \in 1..Len(q)} /\ \A a, b \in 1..Len(q) : q[a] = q[b] => a = b
    BY RangeOfQueue, SMTT(60)
  <2>2. Range(r) = {r[i] : i \in 1..Len(r)} /\ \A a, b \in 1..Len(r) : r[a] = r[b] => a = b
    BY RangeOfQueue
  <2>3. Range(c) = {c[i] : i \in 1..Len(c)}
    <3>1. c \in Seq(S) BY <1>1
    <3>2. QED BY <3>1, RangeOfQueue, SMTT(60)
  <2>4. QED BY <2>1, <2>2, <2>3
<1>3. IsInjective(c)
  <2> SUFFICES ASSUME NEW i \in 1..Len(c), NEW j \in 1..Len(c), c[i] = c[j]
               PROVE  i = j
    BY <1>1, RangeOfQueue
  <2>1. CASE i <= Len(q) /\ j <= Len(q) BY <2>1, <1>1, <1>2, SMTT(60)
  <2>2. CASE i > Len(q) /\ j > Len(q)
    <3>1. i - Len(q) \in 1..Len(r) /\ j - Len(q) \in 1..Len(r) BY <2>2, <1>1, SMTT(60)
    <3>2. r[i - Len(q)] = r[j - Len(q)] BY <2>2, <1>1, SMTT(60)
    <3>3. i - Len(q) = j - Len(q) BY <3>1, <3>2, <1>2
    <3>4. QED BY <3>3, <1>1, SMTT(60)
  <2>3. CASE i <= Len(q) /\ j > Len(q)
    <3>1. q[i] = r[j - Len(q)] /\ i \in 1..Len(q) /\ j - Len(q) \in 1..Len(r) BY <2>3, <1>1, SMTT(60)
    <3>2. q[i] \in Range(q) /\ r[j - Len(q)] \in Range(r) BY <3>1, <1>2
    <3>3. QED BY <3>1, <3>2
  <2>4. CASE i > Len(q) /\ j <= Len(q)
    <3>1. q[j] = r[i - Len(q)] /\ j \in 1..Len(q) /\ i - Len(q) \in 1..Len(r) BY <2>4, <1>1, SMTT(60)
    <3>2. q[j] \in Range(q) /\ r[i - Len(q)] \in Range(r) BY <3>1, <1>2
    <3>3. QED BY <3>1, <3>2
  <2>5. QED BY <2>1, <2>2, <2>3, <2>4, <1>1, SMTT(60)
<1>4. Range(c) = Range(q) \cup Range(r)
  <2>1. ASSUME NEW y \in Range(c) PROVE y \in Range(q) \cup Range(r)
    <3>1. PICK i \in 1..Len(c) : y = c[i] BY <1>2
    <3>2. CASE i <= Len(q) BY <3>1, <3>2, <1>1, <1>2, SMTT(60)
    <3>3. CASE i > Len(q)
      <4>1. i - Len(q) \in 1..Len(r) /\ y = r[i - Len(q)] BY <3>1, <3>3, <1>1, SMTT(60)
      <4>2. QED BY <4>1, <1>2
    <3>4. QED BY <3>2, <3>3, <1>1, SMTT(60)
  <2>2. ASSUME NEW y \in Range(q) PROVE y \in Range(c)
    <3>1. PICK i \in 1..Len(q) : y = q[i] BY <1>2
    <3>2. i \in 1..Len(c) /\ c[i] = y BY <3>1, <1>1, SMTT(60)
    <3>3. QED BY <3>2, <1>2
  <2>3. ASSUME NEW y \in Range(r) PROVE y \in Range(c)
    <3>1. PICK i \in 1..Len(r) : y = r[i] BY <1>2
    <3>2. i + Len(q) \in 1..Len(c) /\ ~(i + Len(q) <= Len(q)) /\ (i + Len(q)) - Len(q) = i
      BY <3>1, <1>1, SMTT(60)
    <3>3. c[i + Len(q)] = y BY <3>1, <3>2, <1>1
    <3>4. QED BY <3>2, <3>3, <1>2
  <2>4. QED BY <2>1, <2>2, <2>3
<1>5. QED BY <1>1, <1>3, <1>4 DEF c

\* Cutting a queue after its first k elements: wake_due_threads() takes the
\* first part, the second stays.
LEMMA SplitQueue ==
  ASSUME NEW S, NEW q \in Seq(S), IsInjective(q), NEW k \in 0..Len(q)
  PROVE  /\ SubSeq(q, 1, k) \in Seq(S)
         /\ SubSeq(q, k + 1, Len(q)) \in Seq(S)
         /\ IsInjective(SubSeq(q, 1, k))
         /\ IsInjective(SubSeq(q, k + 1, Len(q)))
         /\ Range(SubSeq(q, 1, k)) = {q[i] : i \in 1..k}
         /\ Range(SubSeq(q, k + 1, Len(q))) = Range(q) \ {q[i] : i \in 1..k}
<1> DEFINE a == SubSeq(q, 1, k)
           b == SubSeq(q, k + 1, Len(q))
<1>1. /\ Len(q) \in Nat /\ k \in Nat /\ k <= Len(q)
      /\ \A i \in 1..Len(q) : q[i] \in S
  BY SeqFacts, SMTT(60)
<1>2. a \in Seq(S) /\ Len(a) = k /\ \A i \in 1..k : a[i] = q[i]
  BY <1>1, PartFacts, SMTT(60)
<1>3. b \in Seq(S) /\ Len(b) = Len(q) - k /\ \A i \in 1..(Len(q) - k) : b[i] = q[k + i]
  <2>1. \A i \in (k + 1)..Len(q) : q[i] \in S BY <1>1, SMTT(60)
  <2>2. /\ b \in Seq(S) /\ Len(b) = IF k + 1 <= Len(q) THEN Len(q) - (k + 1) + 1 ELSE 0
        /\ \A i \in 1..(Len(q) - (k + 1) + 1) : b[i] = q[(k + 1) + i - 1]
    BY <1>1, <2>1, PartFacts, SMTT(60)
  <2> HIDE DEF b
  <2>3. QED BY <1>1, <2>2, SMTT(60)
<1> HIDE DEF a, b
<1>4. /\ Range(q) = {q[i] : i \in 1..Len(q)}
      /\ \A i, j \in 1..Len(q) : q[i] = q[j] => i = j
      /\ Range(a) = {a[i] : i \in 1..k}
      /\ Range(b) = {b[i] : i \in 1..(Len(q) - k)}
  <2>1. Range(q) = {q[i] : i \in 1..Len(q)} /\ \A i, j \in 1..Len(q) : q[i] = q[j] => i = j
    BY RangeOfQueue
  <2>2. Range(a) = {a[i] : i \in 1..Len(a)} BY <1>2, RangeOfQueue, SMTT(60)
  <2>3. Range(b) = {b[i] : i \in 1..Len(b)} BY <1>3, RangeOfQueue
  <2>4. QED BY <1>2, <1>3, <2>1, <2>2, <2>3
<1>5. IsInjective(a)
  BY <1>1, <1>2, <1>4, RangeOfQueue, SMTT(60)
<1>6. IsInjective(b)
  <2> SUFFICES ASSUME NEW i \in 1..Len(b), NEW j \in 1..Len(b), b[i] = b[j]
               PROVE  i = j
    BY <1>3, RangeOfQueue
  <2>1. q[k + i] = q[k + j] /\ k + i \in 1..Len(q) /\ k + j \in 1..Len(q)
    BY <1>1, <1>3, SMTT(60)
  <2>2. k + i = k + j BY <2>1, <1>4
  <2>3. QED BY <2>2, <1>1, <1>3, SMTT(60)
<1>7. Range(a) = {q[i] : i \in 1..k}
  BY <1>2, <1>4, SMTT(60)
<1>8. Range(b) = Range(q) \ {q[i] : i \in 1..k}
  <2>1. ASSUME NEW y \in Range(b) PROVE y \in Range(q) \ {q[i] : i \in 1..k}
    <3>1. PICK i \in 1..(Len(q) - k) : y = b[i] BY <1>4
    <3>2. y = q[k + i] /\ k + i \in 1..Len(q) BY <3>1, <1>1, <1>3, SMTT(60)
    <3>3. ASSUME NEW j \in 1..k, y = q[j] PROVE FALSE
      <4>1. j \in 1..Len(q) /\ q[j] = q[k + i] BY <3>2, <3>3, <1>1, SMTT(60)
      <4>2. j = k + i BY <4>1, <3>2, <1>4
      <4>3. QED BY <4>2, <1>1, SMTT(60)
    <3>4. QED BY <3>2, <3>3, <1>4
  <2>2. ASSUME NEW y \in Range(q) \ {q[i] : i \in 1..k} PROVE y \in Range(b)
    <3>1. PICK i \in 1..Len(q) : y = q[i] BY <1>4
    <3>2. i > k BY <3>1, <1>1, SMTT(60)
    <3>3. i - k \in 1..(Len(q) - k) /\ k + (i - k) = i BY <3>2, <1>1, SMTT(60)
    <3>4. b[i - k] = y BY <3>1, <3>3, <1>3
    <3>5. QED BY <3>3, <3>4, <1>4
  <2>3. QED BY <2>1, <2>2
<1>9. QED BY <1>2, <1>3, <1>5, <1>6, <1>7, <1>8 DEF a, b

\* sleep_insert(): a new element goes in after the first k.
LEMMA InsertQueue ==
  ASSUME NEW S, NEW q \in Seq(S), IsInjective(q), NEW k \in 0..Len(q),
         NEW x \in S, x \notin Range(q)
  PROVE  LET r == SubSeq(q, 1, k) \o <<x>> \o SubSeq(q, k + 1, Len(q))
         IN  r \in Seq(S) /\ IsInjective(r) /\ Range(r) = Range(q) \cup {x}
<1> DEFINE a == SubSeq(q, 1, k)
           b == SubSeq(q, k + 1, Len(q))
           o == <<x>>
<1>1. /\ a \in Seq(S) /\ b \in Seq(S) /\ IsInjective(a) /\ IsInjective(b)
      /\ Range(a) = {q[i] : i \in 1..k} /\ Range(b) = Range(q) \ {q[i] : i \in 1..k}
  BY SplitQueue
<1>2. o \in Seq(S) /\ IsInjective(o) /\ Range(o) = {x}
  <2>1. o \in Seq(S) /\ Len(o) = 1 /\ DOMAIN o = 1..1 /\ o[1] = x BY SMTT(60)
  <2> HIDE DEF o
  <2>2. Range(o) = {x} BY <2>1, SMTT(60) DEF Range
  <2>3. IsInjective(o) BY <2>1, RangeOfQueue, SMTT(60)
  <2>4. QED BY <2>1, <2>2, <2>3, SMTT(60)
<1>3. {q[i] : i \in 1..k} \subseteq Range(q)
  BY RangeOfQueue, SeqFacts, SMTT(60)
<1> HIDE DEF a, b, o
<1> DEFINE d == a \o o
<1>4. d \in Seq(S) /\ IsInjective(d) /\ Range(d) = Range(a) \cup {x}
  <2>1. Range(a) \cap Range(o) = {} BY <1>1, <1>2, <1>3
  <2>2. QED BY <1>1, <1>2, <2>1, ConcatQueue, SMTT(60)
<1> HIDE DEF d
<1>5. d \o b \in Seq(S) /\ IsInjective(d \o b) /\ Range(d \o b) = Range(d) \cup Range(b)
  <2>1. Range(d) \cap Range(b) = {} BY <1>1, <1>3, <1>4
  <2>2. QED BY <1>1, <1>4, <2>1, ConcatQueue, SMTT(60)
<1>6. Range(d) \cup Range(b) = Range(q) \cup {x}
  BY <1>1, <1>3, <1>4
<1>7. QED BY <1>5, <1>6 DEF a, b, o, d

\* wake_thread_locked(): unlinking the element at position n.
LEMMA RemoveQueue ==
  ASSUME NEW S, NEW q \in Seq(S), IsInjective(q), NEW n \in 1..Len(q)
  PROVE  LET r == SubSeq(q, 1, n - 1) \o SubSeq(q, n + 1, Len(q))
         IN  r \in Seq(S) /\ IsInjective(r) /\ Range(r) = Range(q) \ {q[n]}
<1> DEFINE a == SubSeq(q, 1, n - 1)
           b == SubSeq(q, n + 1, Len(q))
<1>0. Len(q) \in Nat /\ n - 1 \in 0..Len(q) /\ n \in 0..Len(q)
  BY SeqFacts, SMTT(60)
<1>1. a \in Seq(S) /\ IsInjective(a) /\ Range(a) = {q[i] : i \in 1..(n - 1)}
  BY <1>0, SplitQueue, SMTT(60)
<1>2. b \in Seq(S) /\ IsInjective(b) /\ Range(b) = Range(q) \ {q[i] : i \in 1..n}
  BY <1>0, SplitQueue
<1>3. /\ Range(q) = {q[i] : i \in 1..Len(q)}
      /\ \A i, j \in 1..Len(q) : q[i] = q[j] => i = j
  BY RangeOfQueue
<1>4. {q[i] : i \in 1..(n - 1)} = {q[i] : i \in 1..n} \ {q[n]}
  <2>1. \A i \in 1..(n - 1) : i \in 1..Len(q) /\ i \in 1..n /\ i # n BY <1>0, SMTT(60)
  <2>2. \A i \in 1..n : i # n => i \in 1..(n - 1) BY <1>0, SMTT(60)
  <2>3. QED BY <1>0, <1>3, <2>1, <2>2, SMTT(60)
<1>5. {q[i] : i \in 1..n} \subseteq Range(q) /\ q[n] \in {q[i] : i \in 1..n}
  BY <1>0, <1>3, SMTT(60)
<1> HIDE DEF a, b
<1>6. Range(a) \cap Range(b) = {} BY <1>1, <1>2, <1>4
<1>7. a \o b \in Seq(S) /\ IsInjective(a \o b) /\ Range(a \o b) = Range(a) \cup Range(b)
  BY <1>1, <1>2, <1>6, ConcatQueue, SMTT(60)
<1>8. Range(a) \cup Range(b) = Range(q) \ {q[n]}
  BY <1>1, <1>2, <1>4, <1>5
<1>9. QED BY <1>7, <1>8 DEF a, b

\* The elements of a part of a queue.
LEMMA PartElements ==
  ASSUME NEW S, NEW q \in Seq(S), NEW a \in Nat, NEW b \in Nat, a <= b, b <= Len(q)
  PROVE  LET r == SubSeq(q, a + 1, b)
         IN  /\ r \in Seq(S) /\ Len(r) = b - a
             /\ \A i \in 1..(b - a) : r[i] = q[a + i]
<1>1. Len(q) \in Nat /\ a + 1 \in Int /\ b \in Int
  BY SeqFacts, SMTT(60)
<1>2. \A i \in (a + 1)..b : i \in 1..Len(q)
  BY <1>1, SMTT(60)
<1>3. \A i \in (a + 1)..b : q[i] \in S
  BY <1>2, SeqFacts
<1> DEFINE m == a + 1
           r == SubSeq(q, m, b)
<1>4. /\ r \in Seq(S) /\ Len(r) = IF m <= b THEN b - m + 1 ELSE 0
      /\ \A i \in 1..(b - m + 1) : r[i] = q[m + i - 1]
  <2> HIDE DEF m
  <2>1. m \in Int /\ b \in Int /\ \A i \in m..b : q[i] \in S
    BY <1>1, <1>3 DEF m
  <2> QED
    BY <2>1, PartFacts, SMTT(60)
<1> HIDE DEF r
<1>5. Len(r) = b - a /\ b - m + 1 = b - a
  BY <1>4, SMTT(60)
<1>6. \A i \in 1..(b - a) : r[i] = q[a + i]
  <2> TAKE i \in 1..(b - a)
  <2>1. m + i - 1 = a + i /\ r[i] = q[m + i - 1]
    BY <1>4, <1>5, SMTT(60)
  <2> QED
    BY <2>1
<1> QED
  BY <1>4, <1>5, <1>6 DEF r

\* x inserted after the first k elements of q, and the elements this gives.
Inserted(q, k, x) == SubSeq(q, 1, k) \o <<x>> \o SubSeq(q, k + 1, Len(q))

\* Inserting adds one element and keeps the others in their order.
LEMMA InsertElements ==
  ASSUME NEW S, NEW q \in Seq(S), NEW k \in 0..Len(q), NEW x \in S
  PROVE  /\ Len(Inserted(q, k, x)) = Len(q) + 1
         /\ \A i \in 1..k : Inserted(q, k, x)[i] = q[i]
         /\ Inserted(q, k, x)[k + 1] = x
         /\ \A i \in (k + 1)..Len(q) : Inserted(q, k, x)[i + 1] = q[i]
<1> DEFINE n == Len(q)
           a == SubSeq(q, 1, k)
           b == SubSeq(q, k + 1, n)
           c == a \o <<x>>
<1>1. n \in Nat /\ k \in Nat /\ k <= n
  BY SeqFacts, SMTT(60)
<1>2. a \in Seq(S) /\ Len(a) = k /\ \A i \in 1..k : a[i] = q[i]
  <2>1. 0 \in Nat /\ 0 <= k /\ 0 + 1 = 1 /\ k - 0 = k /\ \A i \in 1..k : 0 + i = i
    BY <1>1, SMTT(60)
  <2> QED
    BY <1>1, <2>1, PartElements, SMTT(60)
<1>3. b \in Seq(S) /\ Len(b) = n - k /\ \A i \in 1..(n - k) : b[i] = q[k + i]
  BY <1>1, PartElements, SMTT(60)
<1> HIDE DEF a, b
<1>4. <<x>> \in Seq(S) /\ Len(<<x>>) = 1 /\ <<x>>[1] = x
  BY SMTT(60)
<1>5. c \in Seq(S) /\ Len(c) = k + 1 /\ \A i \in 1..(k + 1) : c[i] = IF i <= k THEN q[i] ELSE x
  BY <1>1, <1>2, <1>4, ConcatFacts, SMTT(60)
<1> HIDE DEF c
<1> DEFINE d == c \o b
<1>6. Len(d) = n + 1 /\ \A i \in 1..(n + 1) : d[i] = IF i <= k + 1 THEN c[i] ELSE b[i - (k + 1)]
  BY <1>1, <1>3, <1>5, ConcatFacts, SMTT(60)
<1> HIDE DEF d
<1>7. \A i \in 1..k : d[i] = q[i]
  BY <1>1, <1>5, <1>6, SMTT(60)
<1>8. d[k + 1] = x
  BY <1>1, <1>5, <1>6, SMTT(60)
<1>9. \A i \in (k + 1)..n : d[i + 1] = q[i]
  <2> TAKE i \in (k + 1)..n
  <2>1. i - k \in 1..(n - k) /\ i + 1 - (k + 1) = i - k /\ k + (i - k) = i /\ ~(i + 1 <= k + 1)
    BY <1>1, SMTT(60)
  <2>2. d[i + 1] = b[i - k]
    BY <2>1, <1>1, <1>6, SMTT(60)
  <2>3. b[i - k] = q[k + (i - k)]
    BY <2>1, <1>3
  <2> QED
    BY <2>1, <2>2, <2>3
<1> QED
  BY <1>6, <1>7, <1>8, <1>9 DEF a, b, c, d, Inserted

\* The elements of a queue from which the nth is taken.
LEMMA RemoveElements ==
  ASSUME NEW S, NEW q \in Seq(S), NEW n \in 1..Len(q)
  PROVE  LET r == SubSeq(q, 1, n - 1) \o SubSeq(q, n + 1, Len(q))
         IN  /\ Len(r) = Len(q) - 1
             /\ \A i \in 1..(Len(q) - 1) : r[i] = IF i < n THEN q[i] ELSE q[i + 1]
<1> DEFINE l == Len(q)
           m == n - 1
           a == SubSeq(q, 1, m)
           b == SubSeq(q, n + 1, l)
           r == a \o b
<1>1. l \in Nat /\ n \in Nat /\ n <= l /\ m \in Nat /\ m <= l /\ n = m + 1
  BY SeqFacts, SMTT(60)
<1>2. a \in Seq(S) /\ Len(a) = m /\ \A i \in 1..m : a[i] = q[i]
  <2> HIDE DEF m
  <2>1. 0 \in Nat /\ 0 <= m /\ 0 + 1 = 1 /\ m - 0 = m /\ \A i \in 1..m : 0 + i = i
    BY <1>1, SMTT(60)
  <2> QED
    BY <1>1, <2>1, PartElements, SMTT(60)
<1>3. b \in Seq(S) /\ Len(b) = l - n /\ \A i \in 1..(l - n) : b[i] = q[n + i]
  BY <1>1, PartElements, SMTT(60)
<1> HIDE DEF a, b, m
<1>4. Len(r) = l - 1 /\ \A i \in 1..(l - 1) : r[i] = IF i <= m THEN a[i] ELSE b[i - m]
  BY <1>1, <1>2, <1>3, ConcatFacts, SMTT(60)
<1>5. \A i \in 1..(l - 1) : i > m => b[i - m] = q[i + 1]
  BY <1>1, <1>3, SMTT(60)
<1>6. \A i \in 1..(l - 1) : r[i] = IF i < n THEN q[i] ELSE q[i + 1]
  BY <1>1, <1>2, <1>4, <1>5, SMTT(60)
<1> QED
  BY <1>4, <1>6 DEF a, b, m

-----------------------------------------------------------------------------
(* First in, first out *)

\* r is q with elements behind it that are not in q.
ExtendsQueue(q, r) ==
  /\ Len(q) <= Len(r)
  /\ \A i \in 1..Len(q) : r[i] = q[i]
  /\ \A i \in (Len(q) + 1)..Len(r) : r[i] \notin Range(q)

\* What r has of q is in the order of q, before all that is new in r.
KeepsOrder(q, r) ==
  \A i, j \in DOMAIN r : i < j /\ r[j] \in Range(q) =>
    r[i] \in Range(q) /\ \E a, b \in DOMAIN q : q[a] = r[i] /\ q[b] = r[j] /\ a < b

\* A queue that extends another still does with a newcomer at its end.
LEMMA AppendExtends ==
  ASSUME NEW S, NEW q \in Seq(S), NEW r \in Seq(S), ExtendsQueue(q, r),
         NEW x \in S, x \notin Range(q)
  PROVE  ExtendsQueue(q, Append(r, x))
<1> DEFINE a == Append(r, x)
<1>1. Len(q) \in Nat /\ Len(r) \in Nat
  BY SeqFacts
<1>2. Len(a) = Len(r) + 1 /\ (\A i \in 1..Len(r) : a[i] = r[i]) /\ a[Len(r) + 1] = x
  BY AppendFacts, SMTT(60)
<1> HIDE DEF a
<1> QED
  BY <1>1, <1>2, SMTT(60) DEF ExtendsQueue, a

\* Putting several newcomers behind a queue extends it.
LEMMA ConcatExtends ==
  ASSUME NEW S, NEW q \in Seq(S), NEW y \in Seq(S), Range(y) \cap Range(q) = {}
  PROVE  ExtendsQueue(q, q \o y)
<1> DEFINE c == q \o y
<1>1. Len(q) \in Nat /\ Len(y) \in Nat
  BY SeqFacts
<1>2. /\ Len(c) = Len(q) + Len(y)
      /\ \A i \in 1..Len(c) : c[i] = IF i <= Len(q) THEN q[i] ELSE y[i - Len(q)]
  BY ConcatFacts
<1>3. \A i \in 1..Len(y) : y[i] \notin Range(q)
  BY RangeOfQueue, SMTT(60)
<1> HIDE DEF c
<1>4. \A i \in (Len(q) + 1)..Len(c) : c[i] \notin Range(q)
  <2> TAKE i \in (Len(q) + 1)..Len(c)
  <2>1. i \in 1..Len(c) /\ ~(i <= Len(q)) /\ i - Len(q) \in 1..Len(y)
    BY <1>1, <1>2, SMTT(60)
  <2> QED
    BY <2>1, <1>2, <1>3
<1>5. Len(q) <= Len(c) /\ \A i \in 1..Len(q) : c[i] = q[i]
  BY <1>1, <1>2, SMTT(60)
<1> QED
  BY <1>4, <1>5 DEF ExtendsQueue, c

\* A queue that only grew behind, and lost its head or not, kept its order.
LEMMA ExtendsKeepsOrder ==
  ASSUME NEW S, NEW q \in Seq(S), NEW r \in Seq(S), ExtendsQueue(q, r)
  PROVE  KeepsOrder(q, r) /\ (r # <<>> => KeepsOrder(q, Tail(r)))
<1>1. /\ Len(q) \in Nat /\ Len(r) \in Nat /\ DOMAIN q = 1..Len(q) /\ DOMAIN r = 1..Len(r)
      /\ Range(q) = {q[i] : i \in 1..Len(q)}
  BY SeqFacts, RangeOfQueue, SMTT(60)
<1>2. ASSUME NEW i \in 1..Len(r), NEW j \in 1..Len(r), i < j, r[j] \in Range(q)
      PROVE  /\ r[i] \in Range(q)
             /\ i \in 1..Len(q) /\ j \in 1..Len(q) /\ q[i] = r[i] /\ q[j] = r[j]
  <2>1. j \in 1..Len(q)
    BY <1>1, <1>2, SMTT(60) DEF ExtendsQueue
  <2>2. i \in 1..Len(q)
    BY <1>1, <1>2, <2>1, SMTT(60)
  <2> QED
    BY <2>1, <2>2, <1>1 DEF ExtendsQueue
<1>3. KeepsOrder(q, r)
  BY <1>1, <1>2 DEF KeepsOrder
<1>4. ASSUME r # <<>> PROVE KeepsOrder(q, Tail(r))
  <2> DEFINE t == Tail(r)
  <2>1. /\ Len(t) = Len(r) - 1 /\ DOMAIN t = 1..(Len(r) - 1)
        /\ \A i \in 1..(Len(r) - 1) : t[i] = r[i + 1]
    BY <1>4, TailFacts, SeqFacts
  <2> HIDE DEF t
  <2> SUFFICES ASSUME NEW i \in 1..(Len(r) - 1), NEW j \in 1..(Len(r) - 1), i < j,
                      t[j] \in Range(q)
               PROVE  t[i] \in Range(q) /\ \E a, b \in DOMAIN q : q[a] = t[i] /\ q[b] = t[j] /\ a < b
    BY <2>1, SMTT(60) DEF KeepsOrder, t
  <2>2. /\ i + 1 \in 1..Len(r) /\ j + 1 \in 1..Len(r) /\ i + 1 < j + 1
        /\ t[i] = r[i + 1] /\ t[j] = r[j + 1]
    BY <1>1, <2>1, SMTT(60)
  <2>3. /\ r[i + 1] \in Range(q) /\ i + 1 \in DOMAIN q /\ j + 1 \in DOMAIN q
        /\ q[i + 1] = r[i + 1] /\ q[j + 1] = r[j + 1]
    BY <1>1, <1>2, <2>2
  <2> QED
    BY <2>2, <2>3
<1> QED
  BY <1>3, <1>4

-----------------------------------------------------------------------------
(* The inductive invariant *)

\* The inductive invariant of the scheduler.
IInv ==
  /\ TypeOK
  /\ QueuesMatchStates
  /\ NeverHalts
  /\ ActiveAddressSpaceAlive
  /\ ProcessFollowsThread
  /\ IdentitiesUnique
  /\ LeavingThreadIsNoticed

\* The boot slot exists, and the durations of the scheduler are positive.
LEMMA Constants ==
  /\ Boot \in Slots
  /\ quantum_ticks \in Nat \ {0}
  /\ \A ms \in SleepMs : SleepTicks(ms) \in Nat \ {0}
<1>1. Boot \in Slots
  BY SchedulerAssumption, SMTT(60) DEF Boot, Slots
<1>2. quantum_ticks \in Nat \ {0}
  <2>1. TimerHz * QuantumMs \in Nat BY SchedulerAssumption, SMTT(60)
  <2>2. QED BY <2>1, SMTT(60) DEF quantum_ticks
<1>3. ASSUME NEW ms \in SleepMs PROVE SleepTicks(ms) \in Nat \ {0}
  <2>1. ms * TimerHz \in Nat BY SchedulerAssumption, SMTT(60)
  <2>2. QED BY <2>1, SMTT(60) DEF SleepTicks
<1>4. QED BY <1>1, <1>2, <1>3

-----------------------------------------------------------------------------
(* Frames *)

\* A wait queue holds the threads it held if no queue moved and the same
\* threads, under the same TIDs, are blocked.
LEMMA WaitQueuesFrame ==
  ASSUME WaitQueuesOK,
         waitq' = waitq,
         \A s \in Slots : tstate'[s] = "blocked" <=> tstate[s] = "blocked",
         \A s \in Slots : tstate[s] = "blocked" => tid'[s] = tid[s]
  PROVE  WaitQueuesOK'
BY SMTT(60) DEF WaitQueuesOK

\* The same for the ready queue and for the sleep list.
LEMMA ListsFrame ==
  /\ ReadyQueueOK /\ ready' = ready
     /\ (\A s \in Slots : tstate'[s] = "ready" <=> tstate[s] = "ready") => ReadyQueueOK'
  /\ SleepListOK /\ sleep' = sleep
     /\ (\A s \in Slots : tstate'[s] = "sleeping" <=> tstate[s] = "sleeping") => SleepListOK'
BY DEF ReadyQueueOK, SleepListOK

-----------------------------------------------------------------------------
\* The state scheduler_init() and process_init() leave satisfies IInv.
LEMMA InitIInv == Init => IInv
<1> SUFFICES ASSUME Init PROVE IInv OBVIOUS
<1> USE Constants DEF Init, process_init
<1>1. TypeOK
  <2>1. ProcTypeOK
    BY ProcessAssumption, SMTT(60) DEF ProcTypeOK, ProcStates
  <2>2. /\ ready \in Seq(Slots) /\ sleep \in Seq(Slots)
        /\ waitq \in [Queues -> Seq(Nat)]
    BY SMTT(60)
  <2>3. tpid \in [Slots -> 0..MaxPid] /\ cr3 \in 0..MaxPid
    BY ProcessAssumption, SMTT(60)
  <2>4. tstate \in [Slots -> ThreadStates] BY DEF ThreadStates
  <2>5. /\ tid \in [Slots -> Nat] /\ wake_in \in [Slots -> Nat] /\ current \in Slots
        /\ quantum \in Nat \ {0} /\ next_tid \in Nat \ {0}
        /\ thread_count \in Int /\ pc \in {"run", "sched", "halted"}
    BY SMTT(60)
  <2>6. resched \in BOOLEAN OBVIOUS
  <2>7. QED BY <2>1, <2>2, <2>3, <2>4, <2>5, <2>6 DEF TypeOK
<1>2. QueuesMatchStates
  BY SMTT(60) DEF QueuesMatchStates, ReadyQueueOK, SleepListOK, WaitQueuesOK, OneRunning,
         IsInjective, Range
<1>3. NeverHalts /\ ActiveAddressSpaceAlive /\ ProcessFollowsThread
  BY DEF NeverHalts, ActiveAddressSpaceAlive, ProcessFollowsThread
<1>4. IdentitiesUnique /\ LeavingThreadIsNoticed
  BY SMTT(60) DEF IdentitiesUnique, LeavingThreadIsNoticed
<1>5. QED BY <1>1, <1>2, <1>3, <1>4 DEF IInv

\* A timer interrupt, wherever it lands, keeps IInv: it touches no list.
LEMMA TickIrqIInv == IInv /\ TickIrq => IInv'
<1> SUFFICES ASSUME IInv, TickIrq PROVE IInv' OBVIOUS
<1> USE DEF IInv, TickIrq, QuantumAfterTick, procVars
<1>1. TypeOK'
  <2>1. wake_in' \in [Slots -> Nat] BY SMTT(60) DEF TypeOK
  <2>2. quantum' \in Nat \ {0} BY Constants, SMTT(60) DEF TypeOK
  <2>3. resched' \in BOOLEAN BY DEF TypeOK
  <2>4. ProcTypeOK' BY DEF TypeOK, ProcTypeOK
  <2>5. QED BY <2>1, <2>2, <2>3, <2>4 DEF TypeOK
<1>2. QueuesMatchStates'
  BY WaitQueuesFrame, ListsFrame DEF QueuesMatchStates, OneRunning
<1>3. NeverHalts' /\ ActiveAddressSpaceAlive' /\ ProcessFollowsThread'
  BY DEF NeverHalts, ActiveAddressSpaceAlive, ProcessFollowsThread
<1>4. IdentitiesUnique' /\ LeavingThreadIsNoticed'
  BY DEF TypeOK, IdentitiesUnique, LeavingThreadIsNoticed
<1>5. QED BY <1>1, <1>2, <1>3, <1>4

\* What NewThread, the common part of thread_create() and of a launch, keeps.
LEMMA NewThreadKeeps ==
  ASSUME IInv, NEW s \in Slots, NEW pid \in 0..MaxPid, NewThread(s, pid)
  PROVE  /\ s # Boot /\ s # current /\ tstate[s] = "free"
         /\ QueuesMatchStates'
         /\ NeverHalts'
<1> USE DEF IInv, NewThread, FirstFree
<1>1. s # Boot /\ s # current /\ tstate[s] = "free"
  BY SMTT(60) DEF Boot, LeavingThreadIsNoticed
<1>2. ReadyQueueOK'
  <2>1. s \notin Range(ready) /\ IsInjective(ready) /\ ready \in Seq(Slots)
    BY <1>1 DEF QueuesMatchStates, ReadyQueueOK, TypeOK
  <2>2. IsInjective(ready') /\ Range(ready') = Range(ready) \cup {s}
    BY <2>1, AppendQueue, SMTT(60)
  <2>3. QED BY <2>2, <1>1 DEF QueuesMatchStates, ReadyQueueOK, TypeOK
<1>3. SleepListOK' /\ WaitQueuesOK'
  BY <1>1, ListsFrame, WaitQueuesFrame DEF QueuesMatchStates, TypeOK
<1>4. OneRunning'
  BY <1>1 DEF QueuesMatchStates, OneRunning, TypeOK
<1>5. NeverHalts'
  BY <1>1, Constants DEF NeverHalts, TypeOK
<1>6. QED BY <1>1, <1>2, <1>3, <1>4, <1>5 DEF QueuesMatchStates

\* thread_create() keeps IInv: the new TCB is READY and queued once.
LEMMA ThreadCreateIInv == IInv /\ thread_create => IInv'
<1> SUFFICES ASSUME IInv, thread_create PROVE IInv' OBVIOUS
<1>1. PICK s \in Slots : NewThread(s, 0)
  BY DEF thread_create
<1>2. /\ s # Boot /\ s # current /\ tstate[s] = "free"
      /\ QueuesMatchStates' /\ NeverHalts'
  BY <1>1, NewThreadKeeps, ProcessAssumption, SMTT(60)
<1> USE DEF IInv, thread_create, NewThread, procVars
<1>3. TypeOK'
  BY <1>1, <1>2, ProcessAssumption, SMTT(60) DEF TypeOK, ProcTypeOK, ThreadStates
<1>4. ActiveAddressSpaceAlive' /\ ProcessFollowsThread'
  BY <1>1, <1>2 DEF ActiveAddressSpaceAlive, ProcessFollowsThread, TypeOK
<1>5. IdentitiesUnique'
  <2>1. /\ tid' = [tid EXCEPT ![s] = next_tid] /\ tpid' = [tpid EXCEPT ![s] = 0]
        /\ tstate' = [tstate EXCEPT ![s] = "ready"] /\ next_tid' = next_tid + 1
        /\ next_pid' = next_pid /\ ptid' = ptid
    BY <1>1
  <2>2. /\ tid \in [Slots -> Nat] /\ tpid \in [Slots -> 0..MaxPid]
        /\ tstate \in [Slots -> ThreadStates] /\ next_tid \in Nat /\ next_pid \in Nat
        /\ next_pid > 0
    BY ProcessAssumption, SMTT(60) DEF TypeOK, ProcTypeOK
  <2>3. ASSUME NEW x \in Slots, tstate'[x] # "free"
        PROVE  /\ tid'[x] < next_tid'
               /\ tpid'[x] < next_pid'
               /\ tpid'[x] # 0 => ptid'[tpid'[x]] = tid'[x]
               /\ tstate'[x] \in {"sleeping", "blocked"} => tpid'[x] = 0
    BY <2>1, <2>2, <2>3, <1>2, SMTT(60) DEF IdentitiesUnique
  <2>4. ASSUME NEW x \in Slots, tstate'[x] # "free",
               NEW y \in Slots, tstate'[y] # "free", y # x
        PROVE  /\ tid'[y] # tid'[x]
               /\ tpid'[x] # 0 => tpid'[y] # tpid'[x]
    BY <2>1, <2>2, <2>4, <1>2, SMTT(60) DEF IdentitiesUnique
  <2>5. tid'[Boot] = 0 /\ tpid'[Boot] = 0
    BY <2>1, <2>2, <1>2, Constants, SMTT(60) DEF IdentitiesUnique
  <2>6. QED BY <2>3, <2>4, <2>5 DEF IdentitiesUnique
<1>6. LeavingThreadIsNoticed'
  BY <1>1, <1>2 DEF LeavingThreadIsNoticed, TypeOK
<1>7. QED BY <1>2, <1>3, <1>4, <1>5, <1>6

\* A launch keeps IInv: the new process and its thread name each other.
LEMMA LaunchIInv == IInv /\ Launch => IInv'
<1> SUFFICES ASSUME IInv, Launch PROVE IInv' OBVIOUS
<1>1. PICK s \in Slots : NewThread(s, next_pid)
  BY DEF Launch, BindThread
<1>2. next_pid \in Pids /\ next_pid \in 0..MaxPid /\ next_pid \in Nat /\ next_pid > 0
  BY ProcessAssumption, SMTT(60) DEF Launch, TableHasRoom, Pids, IInv, TypeOK, ProcTypeOK
<1>3. /\ s # Boot /\ s # current /\ tstate[s] = "free"
      /\ QueuesMatchStates' /\ NeverHalts'
  BY <1>1, <1>2, NewThreadKeeps
<1>4. /\ tid' = [tid EXCEPT ![s] = next_tid] /\ tpid' = [tpid EXCEPT ![s] = next_pid]
      /\ tstate' = [tstate EXCEPT ![s] = "ready"] /\ next_tid' = next_tid + 1
      /\ current' = current /\ cr3' = cr3 /\ pc' = pc /\ resched' = TRUE
      /\ next_pid' = next_pid + 1 /\ ptid' = [ptid EXCEPT ![next_pid] = next_tid]
      /\ pstate' = [pstate EXCEPT ![next_pid] = "ready"] /\ current_pid' = current_pid
  BY <1>1 DEF NewThread, Launch, BindThread
<1>5. /\ tid \in [Slots -> Nat] /\ tpid \in [Slots -> 0..MaxPid] /\ current \in Slots
      /\ tstate \in [Slots -> ThreadStates] /\ next_tid \in Nat
      /\ pstate \in [Pids -> ProcStates] /\ ptid \in [Pids -> Nat]
  BY DEF IInv, TypeOK, ProcTypeOK
<1>6. \A x \in Slots : tstate[x] # "free" => tpid[x] # next_pid /\ tpid[x] < next_pid
  BY <1>2, <1>5, SMTT(60) DEF IInv, IdentitiesUnique
<1>7. TypeOK'
  <2>1. ready' \in Seq(Slots) /\ wake_in' \in [Slots -> Nat]
    BY <1>1, SMTT(60) DEF NewThread, IInv, TypeOK
  <2>2. ProcTypeOK'
    <3>1. pstate' \in [Pids -> ProcStates] /\ ptid' \in [Pids -> Nat]
      BY <1>4, <1>5 DEF ProcStates
    <3>2. next_pid' \in 1..(MaxPid + 1)
      BY <1>2, <1>4, ProcessAssumption, SMTT(60)
    <3>3. current_pid' \in 0..MaxPid /\ process_count' \in Int /\ zombie_count' \in Int
      BY SMTT(60) DEF IInv, TypeOK, ProcTypeOK, Launch, BindThread
    <3>4. QED BY <3>1, <3>2, <3>3 DEF ProcTypeOK
  <2>3. tstate' \in [Slots -> ThreadStates] /\ tid' \in [Slots -> Nat] /\ tpid' \in [Slots -> 0..MaxPid]
    BY <1>2, <1>4, <1>5 DEF ThreadStates
  <2>4. resched' \in BOOLEAN BY DEF Launch
  <2>5. /\ current' \in Slots /\ sleep' \in Seq(Slots) /\ waitq' \in [Queues -> Seq(Nat)]
        /\ quantum' \in Nat \ {0} /\ cr3' \in 0..MaxPid /\ pc' \in {"run", "sched", "halted"}
    BY <1>1 DEF NewThread, IInv, TypeOK
  <2>6. next_tid' \in Nat \ {0} /\ thread_count' \in Int
    BY <1>1, SMTT(60) DEF NewThread, IInv, TypeOK
  <2>7. QED BY <2>1, <2>2, <2>3, <2>4, <2>5, <2>6 DEF TypeOK
<1>8. ActiveAddressSpaceAlive'
  <2>1. tpid[current] # next_pid /\ tstate[current] # "free"
    BY <1>5, <1>6 DEF IInv, LeavingThreadIsNoticed
  <2>2. QED BY <2>1, <1>2, <1>3, <1>4, <1>5, Constants, SMTT(60)
    DEF IInv, ActiveAddressSpaceAlive, Pids
<1>9. ProcessFollowsThread'
  <2> SUFFICES ASSUME NEW x \in Slots, tstate'[x] # "free", tpid'[x] # 0
               PROVE  /\ tstate'[x] = "ready" => pstate'[tpid'[x]] = "ready"
                      /\ tstate'[x] = "running" => pstate'[tpid'[x]] = "running"
                      /\ tstate'[x] = "zombie" => pstate'[tpid'[x]] = "zombie"
                                                  /\ ptid'[tpid'[x]] = tid'[x]
    BY DEF ProcessFollowsThread
  <2>1. CASE x = s
    BY <2>1, <1>2, <1>4, <1>5
  <2>2. CASE x # s
    <3>1. tstate'[x] = tstate[x] /\ tpid'[x] = tpid[x] /\ tid'[x] = tid[x] /\ tpid[x] # next_pid
      BY <2>2, <1>4, <1>5, <1>6
    <3>2. pstate'[tpid[x]] = pstate[tpid[x]] /\ ptid'[tpid[x]] = ptid[tpid[x]]
      BY <3>1, <1>4, <1>5, SMTT(60) DEF Pids
    <3>3. QED BY <3>1, <3>2 DEF IInv, ProcessFollowsThread
  <2>3. QED BY <2>1, <2>2
<1>10. IdentitiesUnique'
  <2>1. ASSUME NEW x \in Slots, tstate'[x] # "free"
        PROVE  /\ tid'[x] < next_tid'
               /\ tpid'[x] < next_pid'
               /\ tpid'[x] # 0 => ptid'[tpid'[x]] = tid'[x]
               /\ tstate'[x] \in {"sleeping", "blocked"} => tpid'[x] = 0
    <3>1. CASE x = s
      BY <3>1, <1>2, <1>4, <1>5, SMTT(60)
    <3>2. CASE x # s
      <4>1. tstate'[x] = tstate[x] /\ tpid'[x] = tpid[x] /\ tid'[x] = tid[x] /\ tpid[x] < next_pid
        BY <2>1, <3>2, <1>4, <1>5, <1>6
      <4>2. tpid[x] # 0 => ptid'[tpid[x]] = ptid[tpid[x]]
        BY <4>1, <1>2, <1>4, <1>5, SMTT(60) DEF Pids
      <4>3. QED BY <2>1, <4>1, <4>2, <1>2, <1>4, <1>5, SMTT(60) DEF IInv, IdentitiesUnique
    <3>3. QED BY <3>1, <3>2
  <2>2. ASSUME NEW x \in Slots, tstate'[x] # "free",
               NEW y \in Slots, tstate'[y] # "free", y # x
        PROVE  /\ tid'[y] # tid'[x]
               /\ tpid'[x] # 0 => tpid'[y] # tpid'[x]
    BY <2>2, <1>2, <1>4, <1>5, <1>6, SMTT(60) DEF IInv, IdentitiesUnique
  <2>3. tid'[Boot] = 0 /\ tpid'[Boot] = 0
    BY <1>3, <1>4, <1>5, Constants DEF IInv, IdentitiesUnique
  <2>4. QED BY <2>1, <2>2, <2>3 DEF IdentitiesUnique
<1>11. LeavingThreadIsNoticed'
  BY <1>3, <1>4, <1>5 DEF IInv, LeavingThreadIsNoticed
<1>12. QED BY <1>3, <1>7, <1>8, <1>9, <1>10, <1>11 DEF IInv

\* A launch that is rolled back keeps IInv: only a PID is spent.
LEMMA LaunchFailsIInv == IInv /\ LaunchFails => IInv'
<1> SUFFICES ASSUME IInv, LaunchFails PROVE IInv' OBVIOUS
<1> USE DEF LaunchFails, threadVars
<1>1. TypeOK'
  BY ProcessAssumption, SMTT(60) DEF IInv, TypeOK, ProcTypeOK, TableHasRoom
<1>2. QueuesMatchStates'
  BY WaitQueuesFrame, ListsFrame DEF IInv, QueuesMatchStates, OneRunning
<1>3. NeverHalts' /\ ActiveAddressSpaceAlive' /\ ProcessFollowsThread' /\ LeavingThreadIsNoticed'
  BY DEF IInv, NeverHalts, ActiveAddressSpaceAlive, ProcessFollowsThread, LeavingThreadIsNoticed
<1>4. IdentitiesUnique'
  BY ProcessAssumption, SMTT(60) DEF IInv, TypeOK, ProcTypeOK, IdentitiesUnique
<1>5. QED BY <1>1, <1>2, <1>3, <1>4 DEF IInv

-----------------------------------------------------------------------------
(* Calls that enter the scheduler *)

\* What a call that leaves the current thread in state st keeps; the queues
\* are the business of each call.
LEMMA EnterSchedulerKeeps ==
  ASSUME IInv, pc = "run",
         NEW st \in {"running", "sleeping", "blocked", "zombie"},
         current = Boot => st = "running",
         EnterScheduler(st)
  PROVE  /\ tstate[current] = "running"
         /\ tstate' \in [Slots -> ThreadStates]
         /\ tstate'[current] = st
         /\ \A s \in Slots : s # current => tstate'[s] = tstate[s]
         /\ ReadyQueueOK'
         /\ OneRunning'
         /\ NeverHalts'
         /\ LeavingThreadIsNoticed'
<1> USE DEF EnterScheduler
<1>1. /\ tstate \in [Slots -> ThreadStates] /\ current \in Slots
      /\ tstate' = [tstate EXCEPT ![current] = st]
      /\ current' = current /\ pc' = "sched" /\ resched' = TRUE /\ ready' = ready
  BY DEF IInv, TypeOK
<1>2. tstate[current] = "running"
  BY DEF IInv, QueuesMatchStates, OneRunning
<1>3. tstate' \in [Slots -> ThreadStates]
  BY <1>1 DEF ThreadStates
<1>4. tstate'[current] = st /\ \A s \in Slots : s # current => tstate'[s] = tstate[s]
  BY <1>1
<1>5. ReadyQueueOK'
  BY <1>1, <1>2, <1>4, ListsFrame DEF IInv, QueuesMatchStates
<1>6. OneRunning'
  BY <1>1, <1>4 DEF IInv, QueuesMatchStates, OneRunning
<1>7. NeverHalts'
  BY <1>1, <1>4, Constants DEF IInv, NeverHalts
<1>8. LeavingThreadIsNoticed'
  BY <1>1, <1>4 DEF LeavingThreadIsNoticed
<1>9. QED BY <1>2, <1>3, <1>4, <1>5, <1>6, <1>7, <1>8

\* A kernel thread that enters the scheduler leaves every process alone.
LEMMA KernelEntryKeeps ==
  ASSUME IInv, KernelThread,
         NEW st \in {"running", "sleeping", "blocked", "zombie"},
         current = Boot => st = "running",
         EnterScheduler(st), UNCHANGED procVars
  PROVE  ActiveAddressSpaceAlive' /\ ProcessFollowsThread' /\ IdentitiesUnique' /\ ProcTypeOK'
<1>1. /\ tstate[current] = "running" /\ tstate'[current] = st
      /\ \A s \in Slots : s # current => tstate'[s] = tstate[s]
      /\ current \in Slots /\ tpid[current] = 0
  BY EnterSchedulerKeeps DEF KernelThread, Running, IInv, TypeOK
<1>2. /\ tid' = tid /\ tpid' = tpid /\ current' = current /\ cr3' = cr3 /\ next_tid' = next_tid
      /\ pstate' = pstate /\ ptid' = ptid /\ next_pid' = next_pid /\ current_pid' = current_pid
      /\ process_count' = process_count /\ zombie_count' = zombie_count
  BY DEF EnterScheduler, procVars
<1>3. ActiveAddressSpaceAlive'
  BY <1>2 DEF IInv, ActiveAddressSpaceAlive
<1>4. ProcessFollowsThread'
  BY <1>1, <1>2 DEF IInv, ProcessFollowsThread
<1>5. IdentitiesUnique'
  BY <1>1, <1>2, SMTT(60) DEF IInv, IdentitiesUnique
<1>6. ProcTypeOK'
  BY <1>2 DEF IInv, TypeOK, ProcTypeOK
<1>7. QED BY <1>3, <1>4, <1>5, <1>6

\* thread_yield() keeps IInv.
LEMMA YieldIInv == IInv /\ thread_yield => IInv'
<1> SUFFICES ASSUME IInv, thread_yield PROVE IInv' OBVIOUS
<1>1. KernelThread /\ pc = "run" /\ EnterScheduler("running") /\ UNCHANGED procVars
  BY DEF thread_yield, KernelThread, Running
<1>2. /\ tstate[current] = "running" /\ tstate' \in [Slots -> ThreadStates]
      /\ tstate'[current] = "running"
      /\ \A s \in Slots : s # current => tstate'[s] = tstate[s]
      /\ ReadyQueueOK' /\ OneRunning' /\ NeverHalts' /\ LeavingThreadIsNoticed'
  BY <1>1, EnterSchedulerKeeps
<1>3. ActiveAddressSpaceAlive' /\ ProcessFollowsThread' /\ IdentitiesUnique' /\ ProcTypeOK'
  BY <1>1, KernelEntryKeeps
<1>4. SleepListOK' /\ WaitQueuesOK'
  BY <1>2, ListsFrame, WaitQueuesFrame DEF thread_yield, EnterScheduler, IInv, QueuesMatchStates
<1>5. TypeOK'
  BY <1>2, <1>3 DEF thread_yield, EnterScheduler, IInv, TypeOK
<1>6. QED BY <1>2, <1>3, <1>4, <1>5 DEF IInv, QueuesMatchStates

\* The boot thread's call of scheduler_process() keeps IInv.
LEMMA MainLoopTickIInv == IInv /\ MainLoopTick => IInv'
<1> SUFFICES ASSUME IInv, MainLoopTick PROVE IInv' OBVIOUS
<1> USE DEF MainLoopTick, procVars
<1>1. TypeOK'
  BY DEF IInv, TypeOK, ProcTypeOK
<1>2. QueuesMatchStates'
  BY WaitQueuesFrame, ListsFrame DEF IInv, QueuesMatchStates, OneRunning
<1>3. NeverHalts' /\ ActiveAddressSpaceAlive' /\ ProcessFollowsThread'
  BY DEF IInv, NeverHalts, ActiveAddressSpaceAlive, ProcessFollowsThread
<1>4. IdentitiesUnique'
  BY SMTT(60) DEF IInv, TypeOK, IdentitiesUnique
<1>5. LeavingThreadIsNoticed'
  BY DEF IInv, LeavingThreadIsNoticed, QueuesMatchStates, OneRunning, KernelThread, Running
<1>6. QED BY <1>1, <1>2, <1>3, <1>4, <1>5 DEF IInv

\* thread_sleep_ms() keeps IInv: the current thread is in the sleep list, once.
LEMMA SleepIInv == ASSUME NEW ms \in SleepMs PROVE IInv /\ thread_sleep_ms(ms) => IInv'
<1> SUFFICES ASSUME IInv, thread_sleep_ms(ms) PROVE IInv' OBVIOUS
<1>1. /\ KernelThread /\ pc = "run" /\ current # Boot
      /\ EnterScheduler("sleeping") /\ UNCHANGED procVars
  BY DEF thread_sleep_ms, KernelThread, Running
<1>2. /\ tstate[current] = "running" /\ tstate' \in [Slots -> ThreadStates]
      /\ tstate'[current] = "sleeping"
      /\ \A s \in Slots : s # current => tstate'[s] = tstate[s]
      /\ ReadyQueueOK' /\ OneRunning' /\ NeverHalts' /\ LeavingThreadIsNoticed'
  BY <1>1, EnterSchedulerKeeps
<1>3. ActiveAddressSpaceAlive' /\ ProcessFollowsThread' /\ IdentitiesUnique' /\ ProcTypeOK'
  BY <1>1, KernelEntryKeeps
<1>4. current \in Slots /\ tid' = tid /\ waitq' = waitq
  BY DEF thread_sleep_ms, EnterScheduler, IInv, TypeOK
<1>5. WaitQueuesOK'
  BY <1>2, <1>4, WaitQueuesFrame DEF IInv, QueuesMatchStates
<1>6. PICK k \in 0..Len(sleep) :
        sleep' = SubSeq(sleep, 1, k) \o <<current>> \o SubSeq(sleep, k + 1, Len(sleep))
  BY DEF thread_sleep_ms
<1>7. sleep' \in Seq(Slots) /\ IsInjective(sleep') /\ Range(sleep') = Range(sleep) \cup {current}
  <2>1. sleep \in Seq(Slots) /\ IsInjective(sleep) /\ current \notin Range(sleep)
    BY <1>2 DEF IInv, TypeOK, QueuesMatchStates, SleepListOK
  <2>2. QED BY <1>4, <1>6, <2>1, InsertQueue, SMTT(60)
<1>8. SleepListOK'
  BY <1>2, <1>4, <1>7 DEF IInv, QueuesMatchStates, SleepListOK
<1>9. wake_in' \in [Slots -> Nat]
  BY Constants DEF thread_sleep_ms, IInv, TypeOK
<1>10. TypeOK'
  BY <1>2, <1>3, <1>7, <1>9 DEF thread_sleep_ms, EnterScheduler, IInv, TypeOK
<1>11. QED BY <1>2, <1>3, <1>5, <1>8, <1>10 DEF IInv, QueuesMatchStates

\* The fixed wait queues have room for every thread that may still block: the
\* TIDs in one belong to different blocked threads, and the current thread is
\* not one of them.
LEMMA WaitQueueHasRoom ==
  ASSUME IInv, pc = "run", NEW q \in Queues
  PROVE  Len(waitq[q]) < MaxThreads
<1> DEFINE w == waitq[q]
           n == Len(w)
           f == [i \in 1..n |-> CHOOSE s \in Slots : tstate[s] = "blocked" /\ tid[s] = w[i]]
           T == Slots \ {current}
<1>1. w \in Seq(Nat) /\ n \in Nat /\ current \in Slots /\ tstate[current] = "running"
  BY SeqFacts DEF IInv, TypeOK, QueuesMatchStates, OneRunning
<1>2. \A i \in 1..n : w[i] \in Range(w)
  BY <1>1, RangeOfQueue, SMTT(60)
<1>3. \A i, j \in 1..n : w[i] = w[j] => i = j
  <2>1. IsInjective(w) BY DEF IInv, QueuesMatchStates, WaitQueuesOK
  <2>2. QED BY <1>1, <2>1, RangeOfQueue
<1>4. \A i \in 1..n : f[i] \in Slots /\ tstate[f[i]] = "blocked" /\ tid[f[i]] = w[i]
  <2> SUFFICES ASSUME NEW i \in 1..n
               PROVE  f[i] \in Slots /\ tstate[f[i]] = "blocked" /\ tid[f[i]] = w[i]
    OBVIOUS
  <2>1. \E s \in Slots : tstate[s] = "blocked" /\ tid[s] = w[i]
    BY <1>2 DEF IInv, QueuesMatchStates, WaitQueuesOK
  <2>2. f[i] = CHOOSE s \in Slots : tstate[s] = "blocked" /\ tid[s] = w[i]
    OBVIOUS
  <2> HIDE DEF f
  <2>3. QED BY <2>1, <2>2
<1>5. f \in [1..n -> T]
  <2>1. DOMAIN f = 1..n /\ f = [i \in 1..n |-> f[i]] BY SMTT(60)
  <2> HIDE DEF f
  <2>2. QED BY <1>1, <1>4, <2>1
<1> HIDE DEF f
<1>6. f \in Injection(1..n, T)
  BY <1>3, <1>4, <1>5, SMTT(60) DEF Injection, IsInjective
<1>7. IsFiniteSet(Slots) /\ Cardinality(Slots) = MaxThreads
  <2>1. 0 \in Int /\ MaxThreads - 1 \in Int /\ ~(0 > MaxThreads - 1)
    BY SchedulerAssumption, SMTT(60)
  <2>2. QED BY <2>1, FS_Interval, SchedulerAssumption, SMTT(60) DEF Slots
<1>8. IsFiniteSet(T) /\ Cardinality(T) = MaxThreads - 1
  BY <1>1, <1>7, FS_RemoveElement
<1>9. Cardinality(1..n) <= Cardinality(T)
  BY <1>6, <1>8, FS_Injection
<1>10. Cardinality(1..n) = n
  BY <1>1, FS_Interval, SMTT(60)
<1>11. QED BY <1>1, <1>8, <1>9, <1>10, SchedulerAssumption, SMTT(60)

\* thread_block_on_wait_queue() keeps IInv: the push is never ignored, so the
\* blocked thread can be found again.
LEMMA BlockIInv ==
  ASSUME NEW q \in Queues PROVE IInv /\ thread_block_on_wait_queue(q) => IInv'
<1> SUFFICES ASSUME IInv, thread_block_on_wait_queue(q) PROVE IInv' OBVIOUS
<1>1. /\ KernelThread /\ pc = "run" /\ current # Boot
      /\ EnterScheduler("blocked") /\ UNCHANGED procVars
  BY DEF thread_block_on_wait_queue, KernelThread, Running
<1>2. /\ tstate[current] = "running" /\ tstate' \in [Slots -> ThreadStates]
      /\ tstate'[current] = "blocked"
      /\ \A s \in Slots : s # current => tstate'[s] = tstate[s]
      /\ ReadyQueueOK' /\ OneRunning' /\ NeverHalts' /\ LeavingThreadIsNoticed'
  BY <1>1, EnterSchedulerKeeps
<1>3. ActiveAddressSpaceAlive' /\ ProcessFollowsThread' /\ IdentitiesUnique' /\ ProcTypeOK'
  BY <1>1, KernelEntryKeeps
<1>4. /\ current \in Slots /\ tid' = tid /\ sleep' = sleep /\ tid[current] \in Nat
      /\ waitq \in [Queues -> Seq(Nat)] /\ waitq[q] \in Seq(Nat)
  BY DEF thread_block_on_wait_queue, EnterScheduler, IInv, TypeOK
<1>5. SleepListOK'
  BY <1>2, <1>4, ListsFrame DEF IInv, QueuesMatchStates
<1>6. \A p \in Queues : tid[current] \notin Range(waitq[p])
  <2> SUFFICES ASSUME NEW p \in Queues, tid[current] \in Range(waitq[p]) PROVE FALSE
    OBVIOUS
  <2>1. PICK s \in Slots : tstate[s] = "blocked" /\ tid[s] = tid[current]
    BY DEF IInv, QueuesMatchStates, WaitQueuesOK
  <2>2. s = current BY <2>1, <1>2, <1>4 DEF IInv, IdentitiesUnique
  <2>3. QED BY <2>1, <2>2, <1>2
<1>7. waitq' = [waitq EXCEPT ![q] = Append(waitq[q], tid[current])]
  <2>1. Len(waitq[q]) < MaxThreads BY <1>1, WaitQueueHasRoom
  <2>2. Len(waitq[q]) \in Nat /\ MaxThreads \in Nat BY <1>4, SeqFacts, SchedulerAssumption
  <2>3. ~(Len(waitq[q]) >= MaxThreads) BY <2>1, <2>2, SMTT(60)
  <2>4. QED BY <1>6, <2>3 DEF thread_block_on_wait_queue, scheduler_wait_queue_push
<1>8. IsInjective(waitq[q])
  BY DEF IInv, QueuesMatchStates, WaitQueuesOK
<1>9. /\ waitq'[q] \in Seq(Nat) /\ IsInjective(waitq'[q])
      /\ Range(waitq'[q]) = Range(waitq[q]) \cup {tid[current]}
      /\ \A p \in Queues : p # q => waitq'[p] = waitq[p]
  BY <1>4, <1>6, <1>7, <1>8, AppendQueue, SMTT(60)
<1>10. WaitQueuesOK'
  <2>1. \A p \in Queues : IsInjective(waitq'[p])
    BY <1>9 DEF IInv, QueuesMatchStates, WaitQueuesOK
  <2>2. \A q1, q2 \in Queues : \A id \in Range(waitq'[q1]) : id \in Range(waitq'[q2]) => q1 = q2
    BY <1>6, <1>9, SMTT(60) DEF IInv, QueuesMatchStates, WaitQueuesOK
  <2>3. \A s \in Slots : tstate'[s] = "blocked" => \E p \in Queues : tid'[s] \in Range(waitq'[p])
    <3> SUFFICES ASSUME NEW s \in Slots, tstate'[s] = "blocked"
                 PROVE  \E p \in Queues : tid'[s] \in Range(waitq'[p])
      OBVIOUS
    <3>1. CASE s = current BY <3>1, <1>4, <1>9
    <3>2. CASE s # current
      <4>1. PICK p \in Queues : tid[s] \in Range(waitq[p])
        BY <3>2, <1>2 DEF IInv, QueuesMatchStates, WaitQueuesOK
      <4>2. tid[s] \in Range(waitq'[p]) BY <4>1, <1>9
      <4>3. QED BY <4>2, <1>4
    <3>3. QED BY <3>1, <3>2
  <2>4. \A p \in Queues : \A id \in Range(waitq'[p]) :
          \E s \in Slots : tstate'[s] = "blocked" /\ tid'[s] = id
    <3> SUFFICES ASSUME NEW p \in Queues, NEW id \in Range(waitq'[p])
                 PROVE  \E s \in Slots : tstate'[s] = "blocked" /\ tid'[s] = id
      OBVIOUS
    <3>1. CASE id = tid[current] BY <3>1, <1>2, <1>4
    <3>2. CASE id # tid[current]
      <4>1. id \in Range(waitq[p]) BY <3>2, <1>9
      <4>2. PICK s \in Slots : tstate[s] = "blocked" /\ tid[s] = id
        BY <4>1 DEF IInv, QueuesMatchStates, WaitQueuesOK
      <4>3. QED BY <4>2, <1>2, <1>4
    <3>3. QED BY <3>1, <3>2
  <2>5. QED BY <2>1, <2>2, <2>3, <2>4 DEF WaitQueuesOK
<1>11. waitq' \in [Queues -> Seq(Nat)]
  BY <1>4, <1>7, <1>9
<1>12. TypeOK'
  BY <1>2, <1>3, <1>11 DEF thread_block_on_wait_queue, EnterScheduler, IInv, TypeOK
<1>13. QED BY <1>2, <1>3, <1>5, <1>10, <1>12 DEF IInv, QueuesMatchStates

\* thread_exit() of a kernel thread keeps IInv.
LEMMA ThreadExitIInv == IInv /\ thread_exit => IInv'
<1> SUFFICES ASSUME IInv, thread_exit PROVE IInv' OBVIOUS
<1>1. /\ KernelThread /\ pc = "run" /\ current # Boot
      /\ EnterScheduler("zombie") /\ UNCHANGED procVars
  BY DEF thread_exit, KernelThread, Running
<1>2. /\ tstate[current] = "running" /\ tstate' \in [Slots -> ThreadStates]
      /\ tstate'[current] = "zombie"
      /\ \A s \in Slots : s # current => tstate'[s] = tstate[s]
      /\ ReadyQueueOK' /\ OneRunning' /\ NeverHalts' /\ LeavingThreadIsNoticed'
  BY <1>1, EnterSchedulerKeeps
<1>3. ActiveAddressSpaceAlive' /\ ProcessFollowsThread' /\ IdentitiesUnique' /\ ProcTypeOK'
  BY <1>1, KernelEntryKeeps
<1>4. SleepListOK' /\ WaitQueuesOK'
  BY <1>2, ListsFrame, WaitQueuesFrame DEF thread_exit, EnterScheduler, IInv, QueuesMatchStates
<1>5. TypeOK'
  BY <1>2, <1>3, SMTT(60) DEF thread_exit, EnterScheduler, IInv, TypeOK
<1>6. QED BY <1>2, <1>3, <1>4, <1>5 DEF IInv, QueuesMatchStates

\* The exit of a user process keeps IInv: thread and process end together.
LEMMA UserExitIInv == IInv /\ UserExit => IInv'
<1> SUFFICES ASSUME IInv, UserExit PROVE IInv' OBVIOUS
<1>0. current \in Slots /\ tpid[current] # 0 /\ tpid \in [Slots -> 0..MaxPid] /\ tpid[Boot] = 0
  BY DEF UserExit, UserThread, IInv, TypeOK, IdentitiesUnique
<1>1. pc = "run" /\ current # Boot /\ EnterScheduler("zombie") /\ process_exit(tpid[current])
  BY <1>0 DEF UserExit, UserThread, Running
<1>2. /\ tstate[current] = "running" /\ tstate' \in [Slots -> ThreadStates]
      /\ tstate'[current] = "zombie"
      /\ \A s \in Slots : s # current => tstate'[s] = tstate[s]
      /\ ReadyQueueOK' /\ OneRunning' /\ NeverHalts' /\ LeavingThreadIsNoticed'
  BY <1>1, EnterSchedulerKeeps
<1>3. /\ tid' = tid /\ tpid' = tpid /\ current' = current /\ cr3' = cr3 /\ next_tid' = next_tid
      /\ pstate' = [pstate EXCEPT ![tpid[current]] = "zombie"]
      /\ ptid' = ptid /\ next_pid' = next_pid /\ current_pid' = current_pid
      /\ pstate \in [Pids -> ProcStates] /\ tpid[current] \in Pids
  BY <1>0, <1>1, ProcessAssumption, SMTT(60)
    DEF EnterScheduler, process_exit, IInv, TypeOK, ProcTypeOK, Pids
<1>4. SleepListOK' /\ WaitQueuesOK'
  BY <1>2, ListsFrame, WaitQueuesFrame DEF UserExit, EnterScheduler, IInv, QueuesMatchStates
<1>5. ActiveAddressSpaceAlive'
  BY <1>3 DEF IInv, ActiveAddressSpaceAlive
<1>6. ProcessFollowsThread'
  <2> SUFFICES ASSUME NEW x \in Slots, tstate'[x] # "free", tpid'[x] # 0
               PROVE  /\ tstate'[x] = "ready" => pstate'[tpid'[x]] = "ready"
                      /\ tstate'[x] = "running" => pstate'[tpid'[x]] = "running"
                      /\ tstate'[x] = "zombie" => pstate'[tpid'[x]] = "zombie"
                                                  /\ ptid'[tpid'[x]] = tid'[x]
    BY DEF ProcessFollowsThread
  <2>1. CASE x = current
    BY <2>1, <1>0, <1>2, <1>3 DEF IInv, IdentitiesUnique
  <2>2. CASE x # current
    <3>1. tpid[x] # tpid[current] /\ tstate'[x] = tstate[x]
      BY <2>2, <1>0, <1>2, <1>3 DEF IInv, IdentitiesUnique
    <3>2. pstate'[tpid[x]] = pstate[tpid[x]]
      BY <3>1, <1>0, <1>3, SMTT(60) DEF Pids
    <3>3. QED BY <3>1, <3>2, <1>3 DEF IInv, ProcessFollowsThread
  <2>3. QED BY <2>1, <2>2
<1>7. IdentitiesUnique'
  BY <1>2, <1>3 DEF IInv, IdentitiesUnique
<1>8. ProcTypeOK'
  <2>1. pstate' \in [Pids -> ProcStates] BY <1>3 DEF ProcStates
  <2>2. process_count' \in Int /\ zombie_count' \in Int
    BY <1>1, SMTT(60) DEF process_exit, IInv, TypeOK, ProcTypeOK
  <2>3. QED BY <2>1, <2>2, <1>3 DEF IInv, TypeOK, ProcTypeOK
<1>9. TypeOK'
  BY <1>2, <1>8, SMTT(60) DEF UserExit, EnterScheduler, IInv, TypeOK
<1>10. QED BY <1>2, <1>4, <1>5, <1>6, <1>7, <1>9 DEF IInv, QueuesMatchStates

-----------------------------------------------------------------------------
(* Wake-ups *)

\* What making a sleeping or blocked thread ready keeps; the queue it leaves is
\* the business of each wake-up.
LEMMA MakeReadyKeeps ==
  ASSUME IInv, pc = "run", NEW s \in Slots, tstate[s] \in {"sleeping", "blocked"},
         tstate' = [tstate EXCEPT ![s] = "ready"],
         ready' = Append(ready, s),
         UNCHANGED <<tid, tpid, current, next_tid, cr3, pc, procVars>>
  PROVE  /\ tstate' \in [Slots -> ThreadStates]
         /\ tstate'[s] = "ready" /\ \A r \in Slots : r # s => tstate'[r] = tstate[r]
         /\ ready' \in Seq(Slots) /\ ReadyQueueOK' /\ OneRunning'
         /\ NeverHalts' /\ LeavingThreadIsNoticed' /\ ActiveAddressSpaceAlive'
         /\ ProcessFollowsThread' /\ IdentitiesUnique' /\ ProcTypeOK'
<1>1. /\ tstate \in [Slots -> ThreadStates] /\ ready \in Seq(Slots) /\ current \in Slots
      /\ tstate[current] = "running" /\ s # current
  BY DEF IInv, TypeOK, QueuesMatchStates, OneRunning
<1>2. /\ tid' = tid /\ tpid' = tpid /\ current' = current /\ cr3' = cr3 /\ next_tid' = next_tid
      /\ pstate' = pstate /\ ptid' = ptid /\ next_pid' = next_pid /\ current_pid' = current_pid
      /\ process_count' = process_count /\ zombie_count' = zombie_count /\ pc' = pc
  BY DEF procVars
<1>3. /\ tstate'[s] = "ready" /\ \A r \in Slots : r # s => tstate'[r] = tstate[r]
      /\ tstate' \in [Slots -> ThreadStates]
  BY <1>1 DEF ThreadStates
<1>4. ready' \in Seq(Slots) /\ IsInjective(ready') /\ Range(ready') = Range(ready) \cup {s}
  <2>1. IsInjective(ready) /\ s \notin Range(ready)
    BY DEF IInv, QueuesMatchStates, ReadyQueueOK
  <2>2. QED BY <1>1, <2>1, AppendQueue, SMTT(60)
<1>5. ReadyQueueOK'
  BY <1>3, <1>4 DEF IInv, QueuesMatchStates, ReadyQueueOK
<1>6. OneRunning'
  BY <1>1, <1>2, <1>3 DEF IInv, QueuesMatchStates, OneRunning
<1>7. NeverHalts'
  BY <1>2, <1>3, Constants DEF IInv, NeverHalts
<1>8. LeavingThreadIsNoticed'
  BY <1>1, <1>2, <1>3 DEF LeavingThreadIsNoticed
<1>9. ActiveAddressSpaceAlive'
  BY <1>2 DEF IInv, ActiveAddressSpaceAlive
<1>10. tpid[s] = 0
  BY DEF IInv, IdentitiesUnique
<1>11. ProcessFollowsThread'
  BY <1>2, <1>3, <1>10 DEF IInv, ProcessFollowsThread
<1>12. IdentitiesUnique'
  BY <1>2, <1>3, <1>10, SMTT(60) DEF IInv, IdentitiesUnique
<1>13. ProcTypeOK'
  BY <1>2 DEF IInv, TypeOK, ProcTypeOK
<1>14. QED BY <1>3, <1>4, <1>5, <1>6, <1>7, <1>8, <1>9, <1>11, <1>12, <1>13

\* The head of a wait queue is the TID of a blocked thread, so the pop and the
\* wake-up move one thread from the wait queue to the ready queue.
LEMMA WakeFirstWaiterIInv ==
  ASSUME NEW q \in Queues PROVE IInv /\ WakeFirstWaiter(q) => IInv'
<1> SUFFICES ASSUME IInv, WakeFirstWaiter(q) PROVE IInv' OBVIOUS
<1> DEFINE h == Head(waitq[q])
<1>1. /\ waitq \in [Queues -> Seq(Nat)] /\ waitq[q] \in Seq(Nat) /\ waitq[q] # <<>>
      /\ IsInjective(waitq[q])
      /\ pc = "run" /\ tstate \in [Slots -> ThreadStates]
  BY DEF WakeFirstWaiter, KernelThread, Running, IInv, TypeOK, QueuesMatchStates, WaitQueuesOK
<1>2. /\ h \in Range(waitq[q]) /\ Tail(waitq[q]) \in Seq(Nat) /\ IsInjective(Tail(waitq[q]))
      /\ Range(Tail(waitq[q])) = Range(waitq[q]) \ {h}
  BY <1>1, TailQueue
<1>3. PICK b \in Slots : tstate[b] = "blocked" /\ tid[b] = h
  BY <1>2 DEF IInv, QueuesMatchStates, WaitQueuesOK
<1>4. \A x \in Slots : IsThread(x, h) => x = b
  BY <1>3 DEF IsThread, IInv, IdentitiesUnique
<1>5. /\ tstate' = [tstate EXCEPT ![b] = "ready"] /\ ready' = Append(ready, b) /\ resched' = TRUE
      /\ waitq' = [waitq EXCEPT ![q] = Tail(waitq[q])]
      /\ UNCHANGED <<tid, tpid, wake_in, current, sleep, quantum, next_tid,
                     thread_count, cr3, pc, procVars>>
  <2>1. IsThread(b, h) BY <1>3 DEF IsThread
  <2>2. QED BY <1>3, <1>4, <2>1 DEF WakeFirstWaiter
<1>6. /\ tstate' \in [Slots -> ThreadStates]
      /\ tstate'[b] = "ready" /\ \A r \in Slots : r # b => tstate'[r] = tstate[r]
      /\ ready' \in Seq(Slots) /\ ReadyQueueOK' /\ OneRunning'
      /\ NeverHalts' /\ LeavingThreadIsNoticed' /\ ActiveAddressSpaceAlive'
      /\ ProcessFollowsThread' /\ IdentitiesUnique' /\ ProcTypeOK'
  BY <1>1, <1>3, <1>5, MakeReadyKeeps
<1>7. SleepListOK'
  BY <1>3, <1>5, <1>6, ListsFrame DEF IInv, QueuesMatchStates
<1>8. waitq'[q] = Tail(waitq[q]) /\ \A p \in Queues : p # q => waitq'[p] = waitq[p]
  BY <1>1, <1>5
<1>9. WaitQueuesOK'
  <2> HIDE DEF h
  <2>0. /\ \A p \in Queues : IsInjective(waitq[p])
        /\ \A q1, q2 \in Queues : \A id \in Range(waitq[q1]) : id \in Range(waitq[q2]) => q1 = q2
    BY DEF IInv, QueuesMatchStates, WaitQueuesOK
  <2>a. Range(waitq'[q]) = Range(waitq[q]) \ {h} /\ IsInjective(waitq'[q])
    BY <1>2, <1>8
  <2>1. \A p \in Queues : IsInjective(waitq'[p])
    BY <2>0, <2>a, <1>8
  <2>2. \A p \in Queues : Range(waitq'[p]) \subseteq Range(waitq[p])
    <3>1. Range(waitq'[q]) \subseteq Range(waitq[q]) BY <2>a
    <3>2. QED BY <3>1, <1>8
  <2>3. \A q1, q2 \in Queues : \A id \in Range(waitq'[q1]) : id \in Range(waitq'[q2]) => q1 = q2
    BY <2>0, <2>2
  <2>4. \A p \in Queues : h \notin Range(waitq'[p])
    <3>1. \A p \in Queues : h \in Range(waitq[p]) => p = q
      BY <1>2, <2>0
    <3>2. QED BY <2>2, <2>a, <3>1
  <2>5. \A s \in Slots : tstate'[s] = "blocked" => \E p \in Queues : tid'[s] \in Range(waitq'[p])
    <3> SUFFICES ASSUME NEW s \in Slots, tstate'[s] = "blocked"
                 PROVE  \E p \in Queues : tid'[s] \in Range(waitq'[p])
      OBVIOUS
    <3>1. s # b /\ tstate[s] = "blocked" /\ tid'[s] = tid[s] BY <1>5, <1>6
    <3>2. tid[s] # h BY <3>1, <1>3 DEF IInv, IdentitiesUnique
    <3>3. PICK p \in Queues : tid[s] \in Range(waitq[p])
      BY <3>1 DEF IInv, QueuesMatchStates, WaitQueuesOK
    <3>4. tid[s] \in Range(waitq'[p])
      <4>1. CASE p = q BY <4>1, <3>2, <3>3, <2>a
      <4>2. CASE p # q BY <4>2, <3>3, <1>8
      <4>3. QED BY <4>1, <4>2
    <3>5. QED BY <3>1, <3>4
  <2>6. \A p \in Queues : \A id \in Range(waitq'[p]) :
          \E s \in Slots : tstate'[s] = "blocked" /\ tid'[s] = id
    <3> SUFFICES ASSUME NEW p \in Queues, NEW id \in Range(waitq'[p])
                 PROVE  \E s \in Slots : tstate'[s] = "blocked" /\ tid'[s] = id
      OBVIOUS
    <3>1. id \in Range(waitq[p]) /\ id # h BY <2>2, <2>4
    <3>2. PICK s \in Slots : tstate[s] = "blocked" /\ tid[s] = id
      BY <3>1 DEF IInv, QueuesMatchStates, WaitQueuesOK
    <3>3. s # b BY <3>1, <3>2, <1>3
    <3>4. QED BY <3>2, <3>3, <1>5, <1>6
  <2>7. QED BY <2>1, <2>3, <2>5, <2>6 DEF WaitQueuesOK
<1>10. waitq' \in [Queues -> Seq(Nat)]
  BY <1>1, <1>2, <1>5
<1>11. resched' \in BOOLEAN BY <1>5
<1>12. TypeOK'
  BY <1>5, <1>6, <1>10, <1>11 DEF IInv, TypeOK
<1>13. QED BY <1>6, <1>7, <1>9, <1>12 DEF IInv, QueuesMatchStates

\* thread_wakeup() keeps IInv: one thread moves from one list to the other.
LEMMA WakeupIInv == ASSUME NEW s \in Slots PROVE IInv /\ thread_wakeup(s) => IInv'
<1> SUFFICES ASSUME IInv, thread_wakeup(s) PROVE IInv' OBVIOUS
<1>1. /\ pc = "run" /\ tstate[s] = "sleeping"
      /\ tstate' = [tstate EXCEPT ![s] = "ready"] /\ ready' = Append(ready, s) /\ resched' = TRUE
      /\ wake_in' = [wake_in EXCEPT ![s] = 0]
      /\ UNCHANGED <<tid, tpid, current, waitq, quantum, next_tid, thread_count, cr3, pc, procVars>>
  BY DEF thread_wakeup, KernelThread, Running
<1>2. PICK i \in 1..Len(sleep) :
        /\ sleep[i] = s
        /\ sleep' = SubSeq(sleep, 1, i - 1) \o SubSeq(sleep, i + 1, Len(sleep))
  BY DEF thread_wakeup
<1>3. /\ tstate' \in [Slots -> ThreadStates]
      /\ tstate'[s] = "ready" /\ \A r \in Slots : r # s => tstate'[r] = tstate[r]
      /\ ready' \in Seq(Slots) /\ ReadyQueueOK' /\ OneRunning'
      /\ NeverHalts' /\ LeavingThreadIsNoticed' /\ ActiveAddressSpaceAlive'
      /\ ProcessFollowsThread' /\ IdentitiesUnique' /\ ProcTypeOK'
  BY <1>1, MakeReadyKeeps
<1>4. sleep' \in Seq(Slots) /\ IsInjective(sleep') /\ Range(sleep') = Range(sleep) \ {s}
  <2>1. sleep \in Seq(Slots) /\ IsInjective(sleep)
    BY DEF IInv, TypeOK, QueuesMatchStates, SleepListOK
  <2>2. QED BY <1>2, <2>1, RemoveQueue
<1>5. SleepListOK'
  BY <1>1, <1>3, <1>4 DEF IInv, QueuesMatchStates, SleepListOK
<1>6. WaitQueuesOK'
  BY <1>1, <1>3, WaitQueuesFrame DEF IInv, QueuesMatchStates
<1>7. wake_in' \in [Slots -> Nat]
  BY <1>1 DEF IInv, TypeOK
<1>8. resched' \in BOOLEAN BY <1>1
<1>9. TypeOK'
  BY <1>1, <1>3, <1>4, <1>7, <1>8 DEF IInv, TypeOK
<1>10. QED BY <1>3, <1>5, <1>6, <1>9 DEF IInv, QueuesMatchStates

===============================================================================

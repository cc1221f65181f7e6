----------------------------- MODULE MemoryProofs -----------------------------
(***************************************************************************)
(* kernel/mm: the heap of heap.c, in every state kmalloc() and kfree() can *)
(* reach, and the physical pages of pmm.c, on every memory map.            *)
(***************************************************************************)
EXTENDS Heap, Pmm, FiniteSetTheorems, WellFoundedInduction, TLAPS

\* A leaf that names no prover is given to Zenon.
USE ZenonT(60)

-----------------------------------------------------------------------------
(* kernel/mm/heap.c.  HeapSound is not inductive: that the next split or   *)
(* merge finds its neighbours needs the list to be in address order with   *)
(* links that agree both ways, and aligned addresses (Chain).  Each        *)
(* operation is reduced to what it does to the fields of the headers, and  *)
(* each such change to one lemma about chains.                             *)

\* The blocks of a table of headers, and where each ends.
BlocksIn(h) == {a \in Addrs : h[a].magic}
EndIn(h, b) == b + HeaderSize + h[b].capacity

\* The headers are a list in address order over the arena below top: sizes that
\* fit, neighbours that touch, links that agree in both directions.
Chain(h, first, top) ==
  /\ h \in [Addrs -> Header] /\ top \in Nat
  /\ first = IF top > 0 THEN 0 ELSE Null
  /\ top > 0 => 0 \in BlocksIn(h)
  /\ \A b \in BlocksIn(h) :
       /\ h[b].capacity > 0 /\ h[b].capacity % Alignment = 0 /\ h[b].size <= h[b].capacity
       /\ EndIn(h, b) <= top
       /\ EndIn(h, b) = IF h[b].next = Null THEN top ELSE h[b].next
       /\ h[b].next # Null => h[b].next \in BlocksIn(h) /\ h[h[b].next].prev = b
       /\ h[b].prev # Null => h[b].prev \in BlocksIn(h) /\ h[h[b].prev].next = b
       /\ h[b].prev = Null <=> b = first
  /\ \A a, b \in BlocksIn(h) : a < b => EndIn(h, a) <= b

\* LiveBlocksOwned of any headers h and owners L.
OwnedIn(h, L) ==
  /\ \A l \in L : /\ l[1] - HeaderSize \in BlocksIn(h)
                  /\ ~h[l[1] - HeaderSize].free
                  /\ h[l[1] - HeaderSize].capacity >= l[2]
  /\ \A b \in BlocksIn(h) : ~h[b].free => \E l \in L : l[1] = b + HeaderSize
  /\ \A l, m \in L : l[1] = m[1] => l = m

\* No block outside S is free together with the one behind it.
ApartIn(h, S) ==
  \A b \in BlocksIn(h) \ S : h[b].free /\ h[b].next # Null => ~h[h[b].next].free

\* The inductive invariant of heap.c.
HeapInv ==
  /\ Chain(hdr, head, heap_next)
  /\ heap_next % PageSize = 0 /\ heap_next <= HeapPages * PageSize
  /\ live \subseteq Nat \X Nat /\ OwnedIn(hdr, live)
  /\ ApartIn(hdr, {})
  /\ BackedExactly

\* A multiple of p with a remainder below p has that remainder.
LEMMA MultipleOf ==
  ASSUME NEW p \in Int, p > 0, NEW q \in Int, NEW r \in 0..(p - 1)
  PROVE  (p * q + r) % p = r
  BY SMTT(60)

\* Sums and differences of aligned numbers are aligned: what keeps the headers that
\* split_block() and merge_with_next() leave on aligned addresses.
LEMMA AlignedSum ==
  ASSUME NEW a \in Int, NEW b \in Int, a % Alignment = 0, b % Alignment = 0
  PROVE  (a + b) % Alignment = 0 /\ (a - b) % Alignment = 0
<1> DEFINE i == a \div Alignment
           j == b \div Alignment
<1> Alignment \in Int /\ Alignment > 0
  BY HeapAssumption, SMTT(60)
<1>1. i \in Int /\ j \in Int /\ a = Alignment * i /\ b = Alignment * j
  BY SMTT(60)
<1> HIDE DEF i, j
<1>2. a + b = Alignment * (i + j) + 0 /\ a - b = Alignment * (i - j) + 0
  BY <1>1, SMTT(60)
<1>3. (Alignment * (i + j) + 0) % Alignment = 0 /\ (Alignment * (i - j) + 0) % Alignment = 0
  <2>1. i + j \in Int /\ i - j \in Int /\ 0 \in 0..(Alignment - 1)
    BY <1>1, SMTT(60)
  <2> QED
    BY <2>1, MultipleOf
<1> QED
  BY <1>2, <1>3

\* What a chain says of one of its blocks: it has a header of the right type, some
\* room, and neighbours on the side their links claim.
LEMMA ChainFacts ==
  ASSUME NEW h, NEW first, NEW top, Chain(h, first, top), NEW b \in BlocksIn(h)
  PROVE  /\ b \in Addrs /\ b \in Nat /\ h[b] \in Header /\ h[b].magic
         /\ h[b].capacity \in Nat /\ h[b].size \in Nat /\ EndIn(h, b) \in Nat
         /\ b + HeaderSize < EndIn(h, b)
         /\ h[b].next # Null => h[b].next \in Nat /\ b < h[b].next
         /\ h[b].prev # Null => h[b].prev \in Nat /\ h[b].prev < b
<1>1. b \in Addrs /\ b \in Nat /\ h[b] \in Header /\ h[b].magic
  BY SMTT(60) DEF BlocksIn, Addrs, Chain
<1>2. h[b].capacity \in Nat /\ h[b].size \in Nat /\ h[b].capacity > 0 /\ HeaderSize \in Nat
  BY <1>1, HeapAssumption DEF Header, Chain
<1>3. EndIn(h, b) \in Nat /\ b + HeaderSize < EndIn(h, b)
  BY <1>1, <1>2, SMTT(60) DEF EndIn
<1>4. h[b].next # Null => h[b].next \in Nat /\ b < h[b].next
  BY <1>1, <1>2, <1>3, SMTT(60) DEF Chain, BlocksIn, Addrs
<1>5. h[b].prev # Null => h[b].prev \in Nat /\ h[b].prev < b
  <2> SUFFICES ASSUME h[b].prev # Null PROVE h[b].prev \in Nat /\ h[b].prev < b
    OBVIOUS
  <2> DEFINE p == h[b].prev
  <2>1. p \in BlocksIn(h) /\ h[p].next = b /\ b # Null
    BY <1>1, SMTT(60) DEF Chain, Null
  <2>2. EndIn(h, p) = b /\ h[p] \in Header /\ p \in Nat
    BY <2>1, SMTT(60) DEF Chain, BlocksIn, Addrs
  <2> QED
    BY <2>1, <2>2, HeapAssumption, SMTT(60) DEF EndIn, Header
<1> QED
  BY <1>1, <1>2, <1>3, <1>4, <1>5

\* split_block() keeps the chain: the block is cut at an aligned address inside it,
\* the tail linked between it and the block behind.
LEMMA ChainSplit ==
  ASSUME NEW h, NEW first, NEW top, Chain(h, first, top), NEW b \in BlocksIn(h),
         NEW req \in Nat, req > 0, req % Alignment = 0, HeaderSize + req < h[b].capacity,
         NEW h2 \in [Addrs -> Header],
         b + HeaderSize + req \in Addrs,
         \A a \in Addrs :
           LET t == b + HeaderSize + req
               n == h[b].next
           IN  /\ h2[a].magic <=> a = t \/ h[a].magic
               /\ h2[a].capacity = IF a = b THEN req
                                   ELSE IF a = t THEN h[b].capacity - req - HeaderSize ELSE h[a].capacity
               /\ h2[a].size <= h2[a].capacity \/ (h2[a].size = h[a].size /\ a # b /\ a # t)
               /\ h2[a].next = IF a = b THEN t ELSE IF a = t THEN n ELSE h[a].next
               /\ h2[a].prev = IF a = t THEN b ELSE IF a = n THEN t ELSE h[a].prev
  PROVE  Chain(h2, first, top) /\ BlocksIn(h2) = BlocksIn(h) \cup {b + HeaderSize + req}
<1> DEFINE t == b + HeaderSize + req
           n == h[b].next
           B == BlocksIn(h)
           C == BlocksIn(h2)
<1>1. /\ \A c \in B : /\ c \in Addrs /\ c \in Nat /\ h[c].capacity \in Nat /\ EndIn(h, c) \in Nat
                      /\ c + HeaderSize < EndIn(h, c)
                      /\ h[c].next # Null => h[c].next \in Nat /\ c < h[c].next
                      /\ h[c].prev # Null => h[c].prev \in Nat /\ h[c].prev < c
      /\ HeaderSize \in Nat /\ HeaderSize > 0
  BY ChainFacts, HeapAssumption, SMTT(60)
<1>2. C = B \cup {t}
  BY DEF BlocksIn
<1>3. t \in Addrs /\ t \in Nat /\ b < t /\ t < EndIn(h, b) /\ t # Null
  BY <1>1, SMTT(60) DEF EndIn, Null
<1>4. t \notin B
  BY <1>1, <1>3, SMTT(60) DEF Chain
<1>5. n # Null => n \in B /\ n = EndIn(h, b) /\ h[n].prev = b
  BY DEF Chain
<1>6. /\ EndIn(h2, b) = t /\ EndIn(h2, t) = EndIn(h, b)
      /\ \A c \in B : c # b => EndIn(h2, c) = EndIn(h, c)
  BY <1>1, <1>3, <1>4, SMTT(60) DEF EndIn
<1>7. ASSUME NEW c \in C
      PROVE  /\ h2[c].capacity > 0 /\ h2[c].capacity % Alignment = 0 /\ h2[c].size <= h2[c].capacity
             /\ EndIn(h2, c) <= top
  <2>1. CASE c \in B /\ c # b
    BY <1>1, <1>4, <1>6, <2>1, SMTT(60) DEF Chain, Header
  <2>2. CASE c = b
    BY <1>1, <1>3, <1>6, <2>2, SMTT(60) DEF Chain
  <2>3. CASE c = t
    <3>1. /\ h2[t].capacity = h[b].capacity - req - HeaderSize /\ h2[t].size <= h2[t].capacity
          /\ EndIn(h2, t) <= top
      BY <1>3, <1>6, SMTT(60) DEF Chain
    <3>2. (h[b].capacity - req - HeaderSize) % Alignment = 0
      <4>1. /\ h[b].capacity \in Int /\ h[b].capacity % Alignment = 0 /\ req \in Int
            /\ HeaderSize \in Int /\ HeaderSize % Alignment = 0 /\ h[b].capacity - req \in Int
        BY <1>1, HeapAssumption, SMTT(60) DEF Chain
      <4>2. (h[b].capacity - req) % Alignment = 0
        BY <4>1, AlignedSum
      <4> QED
        BY <4>1, <4>2, AlignedSum
    <3> QED
      BY <1>1, <2>3, <3>1, <3>2, SMTT(60)
  <2> QED
    BY <1>2, <2>1, <2>2, <2>3
<1>8. ASSUME NEW c \in C
      PROVE  /\ EndIn(h2, c) = IF h2[c].next = Null THEN top ELSE h2[c].next
             /\ h2[c].next # Null => h2[c].next \in C /\ h2[h2[c].next].prev = c
  <2>1. CASE c \in B /\ c # b
    <3>1. h2[c].next = h[c].next /\ EndIn(h2, c) = EndIn(h, c)
      BY <1>1, <1>4, <1>6, <2>1
    <3>2. h[c].next # Null => h[c].next \in B /\ h[h[c].next].prev = c /\ h[c].next # n
      BY <1>5, <2>1, SMTT(60) DEF Chain
    <3> QED
      BY <1>1, <1>2, <1>4, <2>1, <3>1, <3>2, SMTT(60) DEF Chain
  <2>2. CASE c = b
    BY <1>1, <1>2, <1>3, <1>6, <2>2
  <2>3. CASE c = t
    <3>1. h2[c].next = n /\ EndIn(h2, c) = EndIn(h, b) /\ t # b
      BY <1>1, <1>3, <1>6, <2>3, SMTT(60)
    <3>2. EndIn(h, b) = IF n = Null THEN top ELSE n
      BY DEF Chain
    <3>3. n # Null => n \in C /\ n \in Addrs /\ n # t
      BY <1>1, <1>2, <1>3, <1>5, SMTT(60) DEF Chain
    <3> QED
      BY <2>3, <3>1, <3>2, <3>3
  <2> QED
    BY <1>2, <2>1, <2>2, <2>3
<1>9. ASSUME NEW c \in C
      PROVE  /\ h2[c].prev # Null => h2[c].prev \in C /\ h2[h2[c].prev].next = c
             /\ h2[c].prev = Null <=> c = first
  <2>1. CASE c \in B /\ c # n
    <3>1. h2[c].prev = h[c].prev
      BY <1>1, <1>4, <2>1
    <3>2. h[c].prev # Null => h[c].prev \in B /\ h[h[c].prev].next = c /\ h[c].prev # b
      BY <2>1, SMTT(60) DEF Chain
    <3> QED
      BY <1>1, <1>2, <1>4, <2>1, <3>1, <3>2, SMTT(60) DEF Chain
  <2>2. CASE c = t
    BY <1>1, <1>2, <1>3, <1>4, <2>2, SMTT(60) DEF Chain, Null
  <2>3. CASE c \in B /\ c = n
    <3>1. c # t /\ n # Null /\ c # first
      BY <1>1, <1>3, <1>4, <1>5, <2>3, SMTT(60) DEF Chain, Null
    <3> QED
      BY <1>1, <1>2, <1>3, <2>3, <3>1, SMTT(60)
  <2> QED
    BY <1>2, <2>1, <2>2, <2>3
<1>10. ASSUME NEW a \in C, NEW c \in C, a < c PROVE EndIn(h2, a) <= c
  <2>1. CASE a \in B /\ c \in B
    BY <1>1, <1>3, <1>6, <1>10, <2>1, SMTT(60) DEF Chain
  <2>2. CASE a = t
    BY <1>1, <1>2, <1>3, <1>6, <1>10, <2>2, SMTT(60) DEF Chain
  <2>3. CASE a \in B /\ c = t
    <3>1. ~(b < a) /\ (a < b => EndIn(h, a) <= b)
      BY <1>1, <1>3, <1>10, <2>3, SMTT(60) DEF Chain
    <3> QED
      BY <1>1, <1>3, <1>6, <2>3, <3>1, SMTT(60)
  <2> QED
    BY <1>2, <2>1, <2>2, <2>3
<1> QED
  BY <1>2, <1>7, <1>8, <1>9, <1>10, SMTT(60) DEF Chain

\* merge_with_next() keeps the chain: the block behind is absorbed, the one after
\* that linked back to the block that grew.
LEMMA ChainJoin ==
  ASSUME NEW h, NEW first, NEW top, Chain(h, first, top), NEW b \in BlocksIn(h), h[b].next # Null,
         NEW h2 \in [Addrs -> Header],
         \A a \in Addrs :
           LET n == h[b].next
           IN  /\ h2[a].magic <=> a # n /\ h[a].magic
               /\ a # n => h2[a].capacity = IF a = b THEN h[b].capacity + HeaderSize + h[n].capacity
                                            ELSE h[a].capacity
               /\ a # n => h2[a].size = IF a = b THEN h2[b].capacity ELSE h[a].size
               /\ a # n => h2[a].next = IF a = b THEN h[n].next ELSE h[a].next
               /\ a # n => h2[a].prev = IF a = h[n].next THEN b ELSE h[a].prev
  PROVE  Chain(h2, first, top) /\ BlocksIn(h2) = BlocksIn(h) \ {h[b].next}
<1> DEFINE n == h[b].next
           x == h[n].next
           B == BlocksIn(h)
           C == BlocksIn(h2)
<1>1. /\ \A c \in B : /\ c \in Addrs /\ c \in Nat /\ h[c].capacity \in Nat /\ EndIn(h, c) \in Nat
                      /\ c + HeaderSize < EndIn(h, c)
                      /\ h[c].next # Null => h[c].next \in Nat /\ c < h[c].next
                      /\ h[c].prev # Null => h[c].prev \in Nat /\ h[c].prev < c
      /\ HeaderSize \in Nat /\ HeaderSize > 0
  BY ChainFacts, HeapAssumption, SMTT(60)
<1>2. C = B \ {n}
  BY DEF BlocksIn
<1>3. n \in B /\ n = EndIn(h, b) /\ h[n].prev = b /\ b < n /\ b \in C
  BY <1>1, <1>2, SMTT(60) DEF Chain
<1>4. x # Null => x \in B /\ x = EndIn(h, n) /\ h[x].prev = n /\ n < x
  BY <1>1, <1>3, SMTT(60) DEF Chain
<1>5. /\ EndIn(h2, b) = EndIn(h, n)
      /\ \A c \in C : c # b => EndIn(h2, c) = EndIn(h, c)
  BY <1>1, <1>2, <1>3, SMTT(60) DEF EndIn
<1>6. ASSUME NEW c \in C
      PROVE  /\ h2[c].capacity > 0 /\ h2[c].capacity % Alignment = 0 /\ h2[c].size <= h2[c].capacity
             /\ EndIn(h2, c) <= top
  <2>1. CASE c # b
    BY <1>1, <1>2, <1>5, <2>1, SMTT(60) DEF Chain
  <2>2. CASE c = b
    <3>1. (h[b].capacity + HeaderSize + h[n].capacity) % Alignment = 0
      <4>1. /\ h[b].capacity \in Int /\ h[n].capacity \in Int /\ HeaderSize \in Int
            /\ h[b].capacity % Alignment = 0 /\ h[n].capacity % Alignment = 0
            /\ HeaderSize % Alignment = 0 /\ h[b].capacity + HeaderSize \in Int
        BY <1>1, <1>3, HeapAssumption, SMTT(60) DEF Chain
      <4>2. (h[b].capacity + HeaderSize) % Alignment = 0
        BY <4>1, AlignedSum
      <4> QED
        BY <4>1, <4>2, AlignedSum
    <3> QED
      BY <1>1, <1>3, <1>5, <2>2, <3>1, SMTT(60) DEF Chain
  <2> QED
    BY <2>1, <2>2
<1>7. ASSUME NEW c \in C
      PROVE  /\ EndIn(h2, c) = IF h2[c].next = Null THEN top ELSE h2[c].next
             /\ h2[c].next # Null => h2[c].next \in C /\ h2[h2[c].next].prev = c
  <2>1. CASE c # b
    <3>1. h2[c].next = h[c].next /\ EndIn(h2, c) = EndIn(h, c) /\ c \in B
      BY <1>1, <1>2, <1>5, <2>1
    <3>2. h[c].next # Null =>
            h[c].next \in B /\ h[h[c].next].prev = c /\ h[c].next # n /\ (x # Null => h[c].next # x)
      BY <1>2, <1>3, <1>4, <2>1, <3>1, SMTT(60) DEF Chain
    <3>3. h[c].next # Null => h2[h[c].next].prev = c
      BY <1>1, <3>2, SMTT(60)
    <3> QED
      BY <1>2, <3>1, <3>2, <3>3, SMTT(60) DEF Chain
  <2>2. CASE c = b
    <3>1. h2[c].next = x /\ EndIn(h2, c) = EndIn(h, n)
      BY <1>1, <1>3, <1>5, <2>2, SMTT(60)
    <3>2. EndIn(h, n) = IF x = Null THEN top ELSE x
      BY <1>3 DEF Chain
    <3>3. x # Null => x \in C /\ x \in Addrs /\ x # n
      BY <1>1, <1>2, <1>3, <1>4, SMTT(60)
    <3> QED
      BY <2>2, <3>1, <3>2, <3>3, SMTT(60)
  <2> QED
    BY <2>1, <2>2
<1>8. ASSUME NEW c \in C
      PROVE  /\ h2[c].prev # Null => h2[c].prev \in C /\ h2[h2[c].prev].next = c
             /\ h2[c].prev = Null <=> c = first
  <2>1. CASE c # x
    <3>1. h2[c].prev = h[c].prev /\ c \in B
      BY <1>1, <1>2, <2>1
    <3>2. h[c].prev # Null => h[c].prev \in B /\ h[h[c].prev].next = c /\ h[c].prev # n /\ h[c].prev # b
      BY <1>2, <1>3, <2>1, <3>1, SMTT(60) DEF Chain
    <3> QED
      BY <1>1, <1>2, <3>1, <3>2, SMTT(60) DEF Chain
  <2>2. CASE c = x
    <3>1. c \in B /\ c # n /\ x # Null /\ c # first /\ h2[c].prev = b /\ b # Null
      BY <1>1, <1>2, <1>3, <1>4, <2>2, SMTT(60) DEF Chain, Null
    <3> QED
      BY <1>1, <1>3, <2>2, <3>1
  <2> QED
    BY <2>1, <2>2
<1>9. ASSUME NEW a \in C, NEW c \in C, a < c PROVE EndIn(h2, a) <= c
  <2>1. CASE a # b
    BY <1>1, <1>2, <1>5, <1>9, <2>1 DEF Chain
  <2>2. CASE a = b
    <3>1. EndIn(h, b) <= c /\ c # n /\ c \in B
      BY <1>2, <1>9, <2>2 DEF Chain
    <3>2. n < c
      BY <1>1, <1>3, <3>1, SMTT(60)
    <3> QED
      BY <1>3, <1>5, <2>2, <3>1, <3>2, SMTT(60) DEF Chain
  <2> QED
    BY <2>1, <2>2
<1>10. top > 0 => 0 \in C
  BY <1>1, <1>2, <1>3, SMTT(60) DEF Chain
<1> QED
  BY <1>2, <1>6, <1>7, <1>8, <1>9, <1>10 DEF Chain

\* The null pointer is no address of the arena.
LEMMA NullApart == Null \notin Addrs /\ \A a \in Addrs : a \in Nat
  BY SMTT(60) DEF Null, Addrs

\* What merge_with_next() writes, field by field, when the block behind is free.
LEMMA MergeFields ==
  ASSUME NEW h \in [Addrs -> Header], NEW b \in Addrs, h[b].next # Null, h[b].next # b,
         h[h[b].next].free, h[h[b].next].next # b, h[h[b].next].next # h[b].next
  PROVE  LET h2 == merge_with_next(h, b)
             n == h[b].next
         IN  /\ h2 \in [Addrs -> Header]
             /\ \A a \in Addrs :
               /\ h2[a].magic <=> a # n /\ h[a].magic
               /\ a # n => h2[a].capacity = IF a = b THEN h[b].capacity + HeaderSize + h[n].capacity
                                            ELSE h[a].capacity
               /\ a # n => h2[a].size = IF a = b THEN h2[b].capacity ELSE h[a].size
               /\ a # n => h2[a].next = IF a = b THEN h[n].next ELSE h[a].next
               /\ a # n => h2[a].prev = IF a = h[n].next THEN b ELSE h[a].prev
               /\ a # n => h2[a].free = h[a].free
<1> DEFINE n == h[b].next
           x == h[n].next
           cap == h[b].capacity + HeaderSize + h[n].capacity
           r == [h[b] EXCEPT !.capacity = cap, !.size = cap, !.next = x]
           j == [h EXCEPT ![b] = [@ EXCEPT !.capacity = cap, !.size = cap, !.next = x], ![n] = NoHeader]
<1>1. n \in Addrs /\ h[b] \in Header /\ h[n] \in Header /\ cap \in Nat /\ x \in Addrs \cup {Null}
  BY HeapAssumption, SMTT(60) DEF Header
<1> HIDE DEF n, x, cap
<1>2. r \in Header
  BY <1>1 DEF Header
<1>3. NoHeader \in Header
  BY DEF NoHeader, Header
<1>4. /\ r.magic = h[b].magic /\ r.free = h[b].free /\ r.prev = h[b].prev
      /\ r.capacity = cap /\ r.size = cap /\ r.next = x
  BY <1>1 DEF Header
<1>5. /\ j \in [Addrs -> Header]
      /\ \A a \in Addrs : j[a] = IF a = n THEN NoHeader ELSE IF a = b THEN r ELSE h[a]
  <2>1. j = [[h EXCEPT ![b] = r] EXCEPT ![n] = NoHeader]
    OBVIOUS
  <2> HIDE DEF r, j
  <2> QED
    BY <1>1, <1>2, <1>3, <2>1
<1> HIDE DEF j, r
<1> DEFINE k == IF x = Null THEN j ELSE [j EXCEPT ![x].prev = b]
<1>6. merge_with_next(h, b) = k
  BY DEF merge_with_next, n, x, cap, j
<1>7. x # b /\ x # n /\ n # b
  BY DEF n, x
<1>9. k \in [Addrs -> Header]
  BY <1>1, <1>5 DEF Header
<1>10. ASSUME NEW a \in Addrs, a # n
       PROVE  /\ k[a].magic = j[a].magic /\ k[a].capacity = j[a].capacity /\ k[a].size = j[a].size
              /\ k[a].next = j[a].next /\ k[a].free = j[a].free
              /\ k[a].prev = IF a = x THEN b ELSE j[a].prev
  BY <1>1, <1>5, NullApart, SMTT(60) DEF Header
<1>11. ~k[n].magic
  BY <1>1, <1>5, <1>7, <1>5, SMTT(60) DEF NoHeader
<1>12. ASSUME NEW a \in Addrs, a # n
       PROVE  /\ j[a].magic = h[a].magic /\ j[a].free = h[a].free /\ j[a].prev = h[a].prev
              /\ j[a].capacity = IF a = b THEN cap ELSE h[a].capacity
              /\ j[a].size = IF a = b THEN cap ELSE h[a].size
              /\ j[a].next = IF a = b THEN x ELSE h[a].next
  BY <1>4, <1>5, <1>12
<1> QED
  <2> HIDE DEF k
  <2>1. ASSUME NEW a \in Addrs
        PROVE  /\ k[a].magic <=> a # n /\ h[a].magic
               /\ a # n => k[a].capacity = IF a = b THEN cap ELSE h[a].capacity
               /\ a # n => k[a].size = IF a = b THEN k[b].capacity ELSE h[a].size
               /\ a # n => k[a].next = IF a = b THEN x ELSE h[a].next
               /\ a # n => k[a].prev = IF a = x THEN b ELSE h[a].prev
               /\ a # n => k[a].free = h[a].free
    BY <1>7, <1>10, <1>11, <1>12, SMTT(60)
  <2> QED
    BY <1>6, <1>9, <2>1, SMTT(60) DEF cap, n, x

\* One call of merge_with_next() on a free block: the chain holds, no owner loses
\* a block, and the block is no longer next to a free one behind it.
LEMMA MergeStep ==
  ASSUME NEW h, NEW first, NEW top, Chain(h, first, top), NEW b \in BlocksIn(h), h[b].free,
         NEW L, OwnedIn(h, L), NEW S, ApartIn(h, S \cup {b}), h[b].next # Null => h[b].next \notin S
  PROVE  LET h2 == merge_with_next(h, b)
         IN  /\ Chain(h2, first, top) /\ OwnedIn(h2, L) /\ ApartIn(h2, S)
             /\ b \in BlocksIn(h2) /\ h2[b].prev = h[b].prev
             /\ \A c \in BlocksIn(h2) : h2[c].free = h[c].free
<1> DEFINE h2 == merge_with_next(h, b)
           n == h[b].next
           x == h[n].next
<1>1. CASE n = Null \/ ~h[n].free
  <2>1. h2 = h
    BY <1>1 DEF merge_with_next
  <2>2. ApartIn(h, S)
    BY <1>1 DEF ApartIn
  <2> QED
    BY <2>1, <2>2
<1>2. CASE n # Null /\ h[n].free
  <2>1. n \in BlocksIn(h) /\ h[n].prev = b /\ h \in [Addrs -> Header]
    BY <1>2 DEF Chain
  <2>2. b \in Addrs /\ b \in Nat /\ b < n /\ n \in Nat /\ (x # Null => x \in Nat /\ n < x)
    BY <1>2, <2>1, ChainFacts
  <2>3. x # b /\ x # n /\ n # b
    BY <1>2, <2>2, NullApart, SMTT(60)
  <2> HIDE DEF h2
  <2>4. /\ h2 \in [Addrs -> Header]
        /\ \A a \in Addrs :
             /\ h2[a].magic <=> a # n /\ h[a].magic
             /\ a # n => h2[a].capacity = IF a = b THEN h[b].capacity + HeaderSize + h[n].capacity
                                          ELSE h[a].capacity
             /\ a # n => h2[a].size = IF a = b THEN h2[b].capacity ELSE h[a].size
             /\ a # n => h2[a].next = IF a = b THEN x ELSE h[a].next
             /\ a # n => h2[a].prev = IF a = x THEN b ELSE h[a].prev
             /\ a # n => h2[a].free = h[a].free
    BY <1>2, <2>1, <2>2, <2>3, MergeFields, SMTT(60) DEF h2
  <2>5. Chain(h2, first, top) /\ BlocksIn(h2) = BlocksIn(h) \ {n}
    BY <1>2, <2>4, ChainJoin, SMTT(60)
  <2>6. \A c \in BlocksIn(h) : c \in Addrs
    BY DEF BlocksIn
  <2>7. /\ b \in BlocksIn(h2) /\ h2[b].prev = h[b].prev
        /\ \A c \in BlocksIn(h2) : h2[c].free = h[c].free
    BY <2>2, <2>3, <2>4, <2>5, <2>6
  <2>8. OwnedIn(h2, L)
    <3>1. \A c \in BlocksIn(h) : ~h[c].free => c # n /\ c # b
      BY <1>2
    <3>2. \A c \in BlocksIn(h) : ~h[c].free =>
             c \in BlocksIn(h2) /\ ~h2[c].free /\ h2[c].capacity = h[c].capacity
      BY <2>4, <2>5, <2>6, <2>7, <3>1
    <3>3. \A c \in BlocksIn(h2) : ~h2[c].free => c \in BlocksIn(h) /\ ~h[c].free
      BY <2>5, <2>7
    <3> QED
      BY <3>2, <3>3 DEF OwnedIn
  <2>9. ApartIn(h2, S)
    <3> SUFFICES ASSUME NEW c \in BlocksIn(h2), c \notin S, h2[c].free, h2[c].next # Null
                 PROVE  ~h2[h2[c].next].free
      BY DEF ApartIn
    <3>1. h2[c].next \in BlocksIn(h2) /\ c \in BlocksIn(h) /\ c # n /\ h[c].free
      BY <2>5, <2>7 DEF Chain
    <3>2. CASE c = b
      <4>1. h2[c].next = x /\ n \notin S \cup {b}
        BY <1>2, <2>2, <2>3, <2>4, <3>2
      <4> QED
        BY <1>2, <2>1, <2>7, <3>1, <4>1 DEF ApartIn
    <3>3. CASE c # b
      <4>1. h2[c].next = h[c].next
        BY <2>4, <2>6, <3>1, <3>3
      <4> QED
        BY <2>7, <3>1, <3>3, <4>1 DEF ApartIn
    <3> QED
      BY <3>2, <3>3
  <2> QED
    BY <2>5, <2>7, <2>8, <2>9 DEF h2
<1> QED
  BY <1>1, <1>2

\* The chain does not depend on the free flags, nor on the sizes while they fit.
LEMMA ChainFlags ==
  ASSUME NEW h, NEW first, NEW top, Chain(h, first, top), NEW h2 \in [Addrs -> Header],
         \A a \in Addrs : /\ h2[a].magic = h[a].magic /\ h2[a].capacity = h[a].capacity
                          /\ h2[a].next = h[a].next /\ h2[a].prev = h[a].prev
                          /\ h2[a].size = h[a].size \/ h2[a].size = h[a].capacity
  PROVE  Chain(h2, first, top) /\ BlocksIn(h2) = BlocksIn(h)
<1>1. BlocksIn(h2) = BlocksIn(h) /\ \A b \in BlocksIn(h) : b \in Addrs
  BY DEF BlocksIn
<1>2. \A b \in BlocksIn(h) : EndIn(h2, b) = EndIn(h, b)
  BY <1>1 DEF EndIn
<1>3. \A b \in BlocksIn(h) : h2[b].size <= h2[b].capacity
  <2> TAKE b \in BlocksIn(h)
  <2>1. h[b].capacity \in Nat
    BY ChainFacts
  <2> QED
    BY <1>1, <2>1, SMTT(60) DEF Chain
<1>4. \A b \in BlocksIn(h) : /\ h[b].next # Null => h[b].next \in Addrs
                             /\ h[b].prev # Null => h[b].prev \in Addrs
  BY <1>1 DEF Chain
<1> QED
  BY <1>1, <1>2, <1>3, <1>4, SMTT(60) DEF Chain

\* kfree() keeps the invariant, whichever of the two neighbours it merges with.
LEMMA KfreeInv ==
  ASSUME HeapInv, NEW l \in live, kfree(l[1], l[2])
  PROVE  HeapInv'
<1> DEFINE b == l[1] - HeaderSize
           p == hdr[b].prev
           h0 == [hdr EXCEPT ![b].free = TRUE]
           f == merge_with_next(h0, b)
<1>1. /\ Chain(hdr, head, heap_next) /\ OwnedIn(hdr, live) /\ ApartIn(hdr, {})
      /\ live \subseteq Nat \X Nat /\ l = <<l[1], l[2]>> /\ l[1] \in Nat
      /\ hdr \in [Addrs -> Header]
  BY SMTT(60) DEF HeapInv, Chain
<1>2. b \in BlocksIn(hdr) /\ b \in Addrs /\ ~hdr[b].free /\ HeaderSize \in Nat
  BY <1>1, HeapAssumption DEF OwnedIn, BlocksIn
<1>3. /\ hdr' = Merged(b) /\ live' = live \ {l}
      /\ UNCHANGED <<head, heap_next, mapped, taken>>
  BY <1>1 DEF kfree
<1> HIDE DEF b
<1>4. h0 \in [Addrs -> Header]
  BY <1>1, <1>2 DEF Header
<1>5. /\ \A a \in Addrs : /\ h0[a].magic = hdr[a].magic /\ h0[a].capacity = hdr[a].capacity
                          /\ h0[a].next = hdr[a].next /\ h0[a].prev = hdr[a].prev
                          /\ h0[a].size = hdr[a].size
                          /\ a # b => h0[a].free = hdr[a].free
      /\ h0[b].free
  <2>1. \A a \in Addrs : h0[a] = IF a = b THEN [hdr[b] EXCEPT !.free = TRUE] ELSE hdr[a]
    BY <1>1, <1>2
  <2>2. [hdr[b] EXCEPT !.free = TRUE].free
    BY <1>1, <1>2 DEF Header
  <2> HIDE DEF h0
  <2> QED
    BY <1>1, <1>2, <2>1, <2>2, SMTT(60) DEF Header
<1> HIDE DEF h0
<1>6. Chain(h0, head, heap_next) /\ BlocksIn(h0) = BlocksIn(hdr) /\ \A c \in BlocksIn(hdr) : c \in Addrs
  BY <1>1, <1>4, <1>5, ChainFlags, SMTT(60) DEF BlocksIn
<1>7. OwnedIn(h0, live \ {l})
  <2>1. \A m \in live : m # l => m[1] - HeaderSize # b /\ m[1] - HeaderSize \in Addrs
    BY <1>1, <1>2, <1>6, SMTT(60) DEF OwnedIn, b
  <2>2. \A c \in BlocksIn(hdr) : c # b => c + HeaderSize # l[1]
    BY <1>1, <1>2, <1>6, NullApart, SMTT(60) DEF b
  <2> QED
    BY <1>1, <1>5, <1>6, <2>1, <2>2, SMTT(60) DEF OwnedIn
<1>8. ApartIn(h0, {p} \cup {b})
  <2> SUFFICES ASSUME NEW c \in BlocksIn(h0), c # p, c # b, h0[c].free, h0[c].next # Null
               PROVE  ~h0[h0[c].next].free
    BY DEF ApartIn
  <2>1. hdr[c].free /\ h0[c].next = hdr[c].next /\ hdr[c].next \in BlocksIn(hdr) /\ hdr[hdr[c].next].prev = c
    BY <1>1, <1>5, <1>6, SMTT(60) DEF Chain
  <2>2. hdr[c].next # b /\ ~hdr[hdr[c].next].free
    BY <1>1, <1>6, <2>1 DEF ApartIn
  <2> QED
    BY <1>5, <1>6, <2>1, <2>2
<1>9. h0[b].next # Null => h0[b].next \notin {p}
  <2>1. /\ hdr[b].next # Null => hdr[b].next \in Nat /\ b < hdr[b].next
        /\ p # Null => p \in Nat /\ p < b
        /\ b \in Nat
    BY <1>1, <1>2, ChainFacts
  <2> QED
    BY <1>2, <1>5, <2>1, SMTT(60)
<1>10. /\ Chain(f, head, heap_next) /\ OwnedIn(f, live \ {l}) /\ ApartIn(f, {p})
       /\ b \in BlocksIn(f) /\ f[b].prev = p
       /\ \A c \in BlocksIn(f) : f[c].free = h0[c].free
  <2>1. b \in BlocksIn(h0) /\ h0[b].prev = p
    BY <1>2, <1>5, <1>6
  <2> HIDE DEF p
  <2> QED
    BY <1>5, <1>6, <1>7, <1>8, <1>9, <2>1, MergeStep
<1> DEFINE g == IF MergesWith(p) THEN merge_with_next(f, p) ELSE f
<1>11. hdr' = g
  BY <1>3, <1>10 DEF Merged, h0
<1> HIDE DEF f
<1>12. Chain(g, head, heap_next) /\ OwnedIn(g, live \ {l}) /\ ApartIn(g, {})
  <2>1. CASE MergesWith(p)
    <3>1. p \in BlocksIn(f) /\ f[p].next = b /\ p # b /\ p \in Addrs
      BY <1>2, <1>10, <2>1, ChainFacts, SMTT(60) DEF Chain, MergesWith, BlocksIn
    <3>2. f[p].free /\ ApartIn(f, {} \cup {p})
      BY <1>5, <1>10, <2>1, <3>1 DEF MergesWith, ApartIn
    <3>3. f[p].next # Null => f[p].next \notin {}
      OBVIOUS
    <3> HIDE DEF p
    <3> QED
      BY <1>10, <2>1, <3>1, <3>2, <3>3, MergeStep
  <2>2. CASE ~MergesWith(p)
    <3>1. p \in BlocksIn(f) => ~f[p].free
      <4> SUFFICES ASSUME p \in BlocksIn(f) PROVE ~f[p].free
        OBVIOUS
      <4>1. p \in Addrs /\ p # b /\ p # Null
        BY <1>1, <1>2, ChainFacts, NullApart, SMTT(60) DEF BlocksIn
      <4> QED
        BY <1>5, <1>10, <2>2, <4>1 DEF MergesWith
    <3>2. ApartIn(f, {})
      BY <1>10, <3>1 DEF ApartIn
    <3> QED
      BY <1>10, <2>2, <3>2
  <2> QED
    BY <2>1, <2>2
<1> QED
  BY <1>3, <1>11, <1>12 DEF HeapInv, BackedExactly

\* align_up_u64(): the least multiple that is large enough.
LEMMA AlignUpFacts ==
  ASSUME NEW n \in Nat, n > 0, NEW k \in Nat, k > 0
  PROVE  LET u == AlignUp(n, k)
         IN  /\ u \in Nat /\ u >= n /\ u % k = 0
             /\ u \div k \in Nat /\ u \div k > 0 /\ (u \div k) * k = u
<1> DEFINE q == (n + k - 1) \div k
<1>1. q \in Nat /\ n + k - 1 \in Int /\ k \in Int
  BY SMTT(60)
<1>2. k * q <= n + k - 1 /\ n + k - 1 < k * q + k
  BY <1>1, SMTT(60)
<1>3. AlignUp(n, k) = k * q
  BY <1>1, SMTT(60) DEF AlignUp
<1> HIDE DEF q
<1>4. k * q \in Nat /\ k * q >= n
  BY <1>1, <1>2, SMTT(60)
<1>5. (k * q + 0) % k = 0 /\ (k * q + 0) \div k = q
  BY <1>1, MultipleOf, SMTT(60)
<1>6. q > 0
  BY <1>1, <1>4, SMTT(60)
<1> QED
  BY <1>1, <1>3, <1>4, <1>5, <1>6, SMTT(60)

\* What split_block() writes, field by field.
LEMMA SplitFields ==
  ASSUME NEW b \in Addrs, NEW req \in Nat, hdr \in [Addrs -> Header],
         b + HeaderSize + req \in Addrs, hdr[b].capacity - req - HeaderSize \in Nat,
         HeaderSize \in Nat, HeaderSize > 0,
         hdr[b].next # b, hdr[b].next # b + HeaderSize + req
  PROVE  LET t == b + HeaderSize + req
             n == hdr[b].next
             h2 == Split(b, req)
         IN  /\ h2 \in [Addrs -> Header]
             /\ \A a \in Addrs :
                  /\ h2[a].magic <=> a = t \/ hdr[a].magic
                  /\ h2[a].capacity = IF a = b THEN req
                                      ELSE IF a = t THEN hdr[b].capacity - req - HeaderSize
                                           ELSE hdr[a].capacity
                  /\ h2[a].size <= h2[a].capacity \/ (h2[a].size = hdr[a].size /\ a # b /\ a # t)
                  /\ h2[a].next = IF a = b THEN t ELSE IF a = t THEN n ELSE hdr[a].next
                  /\ h2[a].prev = IF a = t THEN b ELSE IF a = n THEN t ELSE hdr[a].prev
                  /\ h2[a].free <=> a # b /\ (a = t \/ hdr[a].free)
<1> DEFINE t == b + HeaderSize + req
           n == hdr[b].next
           rest == hdr[b].capacity - req - HeaderSize
           r == [hdr[b] EXCEPT !.size = req, !.capacity = req, !.free = FALSE, !.next = t]
           s == [magic |-> TRUE, size |-> rest, capacity |-> rest, free |-> TRUE, prev |-> b, next |-> n]
           j == [hdr EXCEPT ![b] = [@ EXCEPT !.size = req, !.capacity = req, !.free = FALSE, !.next = t],
                            ![t] = s]
           k == IF n = Null THEN j ELSE [j EXCEPT ![n].prev = t]
<1>1. /\ b \in Nat /\ t \in Addrs /\ t # b /\ n # t /\ n # b /\ rest \in Nat
      /\ hdr[b] \in Header /\ n \in Addrs \cup {Null}
  BY NullApart, SMTT(60) DEF Header
<1>2. k = Split(b, req)
  BY DEF Split
<1> HIDE DEF t, n, rest
<1>3. r \in Header /\ s \in Header
  BY <1>1 DEF Header
<1>4. /\ r.magic = hdr[b].magic /\ r.prev = hdr[b].prev
      /\ r.capacity = req /\ r.size = req /\ r.next = t
  BY <1>1 DEF Header
<1>5. ~r.free
  BY <1>1 DEF Header
<1>6. /\ s.magic /\ s.free /\ s.size = rest /\ s.capacity = rest /\ s.prev = b /\ s.next = n
  OBVIOUS
<1>7. /\ j \in [Addrs -> Header]
      /\ \A a \in Addrs : j[a] = IF a = t THEN s ELSE IF a = b THEN r ELSE hdr[a]
  <2>1. j = [[hdr EXCEPT ![b] = r] EXCEPT ![t] = s]
    OBVIOUS
  <2> HIDE DEF r, j, s
  <2> QED
    BY <1>1, <1>3, <2>1
<1> HIDE DEF j, r, s
<1>8. k \in [Addrs -> Header]
  BY <1>1, <1>7 DEF Header
<1>9. ASSUME NEW a \in Addrs
      PROVE  /\ k[a].magic = j[a].magic /\ k[a].capacity = j[a].capacity /\ k[a].size = j[a].size
             /\ k[a].next = j[a].next /\ k[a].free = j[a].free
             /\ k[a].prev = IF a = n THEN t ELSE j[a].prev
  BY <1>1, <1>7, NullApart DEF Header
<1> HIDE DEF k
<1>10. ASSUME NEW a \in Addrs
       PROVE  /\ k[a].magic <=> a = t \/ hdr[a].magic
              /\ k[a].capacity = IF a = b THEN req ELSE IF a = t THEN rest ELSE hdr[a].capacity
              /\ k[a].size <= k[a].capacity \/ (k[a].size = hdr[a].size /\ a # b /\ a # t)
              /\ k[a].next = IF a = b THEN t ELSE IF a = t THEN n ELSE hdr[a].next
              /\ k[a].prev = IF a = t THEN b ELSE IF a = n THEN t ELSE hdr[a].prev
              /\ k[a].free <=> a # b /\ (a = t \/ hdr[a].free)
  BY <1>1, <1>4, <1>5, <1>6, <1>7, <1>9, SMTT(60)
<1> QED
  BY <1>2, <1>8, <1>10 DEF t, n, rest

\* Blocks lie on addresses of the arena.
LEMMA BlockAddress ==
  ASSUME NEW h, NEW c \in BlocksIn(h)
  PROVE  c \in Addrs /\ c \in Nat
  BY NullApart DEF BlocksIn

\* A block that was free or not there and is used now goes to the new owner; the
\* others keep theirs.
LEMMA OwnMore ==
  ASSUME NEW h, NEW h2, NEW L \in SUBSET (Nat \X Nat), OwnedIn(h, L), NEW b \in Nat, NEW size \in Nat,
         b \in BlocksIn(h2), ~h2[b].free, h2[b].capacity >= size, b \in BlocksIn(h) => h[b].free,
         \A c \in Nat \ {b} : /\ c \in BlocksIn(h) /\ ~h[c].free <=> c \in BlocksIn(h2) /\ ~h2[c].free
                              /\ c \in BlocksIn(h) /\ ~h[c].free => h2[c].capacity = h[c].capacity
  PROVE  OwnedIn(h2, L \cup {<<b + HeaderSize, size>>})
<1> DEFINE own == <<b + HeaderSize, size>>
<1>1. HeaderSize \in Nat /\ own[1] = b + HeaderSize /\ own[2] = size /\ own[1] - HeaderSize = b
  BY HeapAssumption, SMTT(60)
<1>2. \A c \in BlocksIn(h) : c \in Nat
  BY BlockAddress
<1>3. \A c \in BlocksIn(h2) : c \in Nat
  BY BlockAddress
<1>4. \A l \in L : l[1] \in Nat /\ l[1] - HeaderSize \in BlocksIn(h) /\ l[1] - HeaderSize # b
                   /\ ~h[l[1] - HeaderSize].free /\ h[l[1] - HeaderSize].capacity >= l[2]
  <2> TAKE l \in L
  <2>1. l[1] \in Nat
    OBVIOUS
  <2>2. /\ l[1] - HeaderSize \in BlocksIn(h) /\ ~h[l[1] - HeaderSize].free
        /\ h[l[1] - HeaderSize].capacity >= l[2]
    BY DEF OwnedIn
  <2> QED
    BY <2>1, <2>2
<1>5. \A l \in L : l[1] # own[1]
  BY <1>1, <1>4
<1> HIDE DEF own
<1>6. \A l \in L \cup {own} : /\ l[1] - HeaderSize \in BlocksIn(h2)
                              /\ ~h2[l[1] - HeaderSize].free
                              /\ h2[l[1] - HeaderSize].capacity >= l[2]
  <2> TAKE l \in L \cup {own}
  <2>1. CASE l = own
    BY <1>1, <2>1
  <2>2. CASE l \in L
    <3> DEFINE c == l[1] - HeaderSize
    <3>1. c \in Nat \ {b} /\ c \in BlocksIn(h) /\ ~h[c].free /\ h[c].capacity >= l[2]
      BY <1>2, <1>4, <2>2
    <3> HIDE DEF c
    <3>2. c \in BlocksIn(h2) /\ ~h2[c].free /\ h2[c].capacity = h[c].capacity
      BY <3>1
    <3> QED
      BY <3>1, <3>2 DEF c
  <2> QED
    BY <2>1, <2>2
<1>7. \A c \in BlocksIn(h2) : ~h2[c].free => \E l \in L \cup {own} : l[1] = c + HeaderSize
  <2> SUFFICES ASSUME NEW c \in BlocksIn(h2), ~h2[c].free, c # b
               PROVE  \E l \in L : l[1] = c + HeaderSize
    BY <1>1
  <2>1. c \in Nat \ {b}
    BY <1>3
  <2>2. c \in BlocksIn(h) /\ ~h[c].free
    BY <2>1
  <2> QED
    BY <2>2 DEF OwnedIn
<1>8. \A l, m \in L \cup {own} : l[1] = m[1] => l = m
  BY <1>5 DEF OwnedIn
<1> QED
  BY <1>6, <1>7, <1>8 DEF OwnedIn, own

\* A block written at g_heap_next and linked behind the last one extends the chain.
LEMMA ChainAppend ==
  ASSUME NEW h, NEW first, NEW top, Chain(h, first, top), top \in Addrs,
         NEW cap \in Nat, cap > 0, cap % Alignment = 0,
         NEW p \in Addrs \cup {Null},
         IF first = Null THEN p = Null ELSE p \in BlocksIn(h) /\ h[p].next = Null,
         NEW h2 \in [Addrs -> Header],
         \A a \in Addrs :
           /\ h2[a].magic <=> a = top \/ h[a].magic
           /\ h2[a].capacity = IF a = top THEN cap ELSE h[a].capacity
           /\ h2[a].size <= h2[a].capacity \/ (h2[a].size = h[a].size /\ a # top)
           /\ h2[a].next = IF a = top THEN Null ELSE IF a = p THEN top ELSE h[a].next
           /\ h2[a].prev = IF a = top THEN p ELSE h[a].prev
  PROVE  Chain(h2, 0, top + HeaderSize + cap) /\ BlocksIn(h2) = BlocksIn(h) \cup {top}
<1> DEFINE B == BlocksIn(h)
           C == BlocksIn(h2)
           e == top + HeaderSize + cap
<1>1. /\ \A c \in B : /\ c \in Addrs /\ c \in Nat /\ h[c].capacity \in Nat /\ EndIn(h, c) \in Nat
                      /\ c + HeaderSize < EndIn(h, c) /\ EndIn(h, c) <= top
      /\ HeaderSize \in Nat /\ HeaderSize > 0 /\ top \in Nat
  <2>1. HeaderSize \in Nat /\ HeaderSize > 0 /\ top \in Nat
    BY HeapAssumption, NullApart, SMTT(60)
  <2>2. \A c \in B : EndIn(h, c) <= top
    BY DEF Chain
  <2>3. \A c \in B : /\ c \in Addrs /\ c \in Nat /\ h[c].capacity \in Nat /\ EndIn(h, c) \in Nat
                     /\ c + HeaderSize < EndIn(h, c)
    BY ChainFacts
  <2> QED
    BY <2>1, <2>2, <2>3
<1>2. C = B \cup {top} /\ top \notin B
  <2>1. top \notin B
    BY <1>1, SMTT(60)
  <2> QED
    BY <2>1 DEF BlocksIn
<1>3. e \in Nat /\ e > top /\ EndIn(h2, top) = e /\ \A c \in B : EndIn(h2, c) = EndIn(h, c)
  BY <1>1, <1>2, SMTT(60) DEF EndIn
<1>4. /\ top = 0 => B = {} /\ p = Null
      /\ top > 0 => p \in B /\ h[p].next = Null /\ EndIn(h, p) = top
  <2>1. first = IF top > 0 THEN 0 ELSE Null
    BY DEF Chain
  <2>2. CASE top = 0
    BY <1>1, <2>1, <2>2, SMTT(60)
  <2>3. CASE top > 0
    <3>1. p \in B /\ h[p].next = Null
      BY <2>1, <2>3, SMTT(60) DEF Null
    <3> QED
      BY <2>3, <3>1, SMTT(60) DEF Chain
  <2> QED
    BY <1>1, <2>2, <2>3
<1>5. ASSUME NEW c \in B, h[c].next = Null PROVE c = p
  <2>1. p \in B /\ EndIn(h, p) = top
    BY <1>1, <1>4, <1>5, SMTT(60)
  <2>3. EndIn(h, c) = top
    BY <1>5 DEF Chain
  <2>2. ~(c < p) /\ ~(p < c)
    BY <1>1, <2>1, <2>3, SMTT(60) DEF Chain
  <2> QED
    BY <1>1, <2>1, <2>2, SMTT(60)
<1>6. ASSUME NEW c \in C
      PROVE  /\ h2[c].capacity > 0 /\ h2[c].capacity % Alignment = 0 /\ h2[c].size <= h2[c].capacity
             /\ EndIn(h2, c) <= e
  <2>1. CASE c = top
    BY <1>3, <2>1, SMTT(60)
  <2>2. CASE c \in B
    BY <1>1, <1>2, <1>3, <2>2, SMTT(60) DEF Chain
  <2> QED
    BY <1>2, <2>1, <2>2
<1>7. ASSUME NEW c \in C
      PROVE  /\ EndIn(h2, c) = IF h2[c].next = Null THEN e ELSE h2[c].next
             /\ h2[c].next # Null => h2[c].next \in C /\ h2[h2[c].next].prev = c
  <2>1. CASE c = top
    BY <1>3, <2>1
  <2>2. CASE c = p
    <3>1. p \in B /\ p # top /\ EndIn(h, p) = top /\ top # Null
      BY <1>1, <1>2, <1>4, <2>2, NullApart, SMTT(60)
    <3> QED
      BY <1>1, <1>2, <1>3, <2>2, <3>1
  <2>3. CASE c # top /\ c # p
    <3>1. c \in B /\ h[c].next # Null
      BY <1>2, <1>5, <2>3
    <3>2. h[c].next \in B /\ h[h[c].next].prev = c /\ EndIn(h, c) = h[c].next
      BY <3>1 DEF Chain
    <3> QED
      BY <1>1, <1>2, <1>3, <2>3, <3>1, <3>2, SMTT(60)
  <2> QED
    BY <2>1, <2>2, <2>3
<1>8. ASSUME NEW c \in C
      PROVE  /\ h2[c].prev # Null => h2[c].prev \in C /\ h2[h2[c].prev].next = c
             /\ h2[c].prev = Null <=> c = 0
  <2>1. CASE c = top
    BY <1>1, <1>2, <1>4, <2>1, NullApart, SMTT(60)
  <2>2. CASE c \in B
    <3>1. h2[c].prev = h[c].prev /\ top > 0 /\ first = 0
      BY <1>1, <1>2, <2>2, SMTT(60) DEF Chain
    <3>2. h[c].prev # Null => h[c].prev \in B /\ h[h[c].prev].next = c /\ h[c].prev # p
      BY <1>1, <1>4, <2>2, <3>1, NullApart, SMTT(60) DEF Chain
    <3> QED
      BY <1>1, <1>2, <2>2, <3>1, <3>2, SMTT(60) DEF Chain
  <2> QED
    BY <1>2, <2>1, <2>2
<1>9. ASSUME NEW a \in C, NEW c \in C, a < c PROVE EndIn(h2, a) <= c
  BY <1>1, <1>2, <1>3, <1>9, SMTT(60) DEF Chain
<1>10. 0 \in C
  BY <1>1, <1>2, SMTT(60) DEF Chain
<1> QED
  BY <1>2, <1>3, <1>6, <1>7, <1>8, <1>9, <1>10, SMTT(60) DEF Chain

\* The size kmalloc() works with: aligned, and not below what was asked for.
LEMMA RequestFacts ==
  ASSUME NEW size \in Sizes
  PROVE  LET req == AlignUp(size, Alignment)
         IN  size \in Nat /\ req \in Nat /\ req >= size /\ req > 0 /\ req % Alignment = 0
<1>1. size \in Nat /\ size > 0 /\ Alignment \in Nat /\ Alignment > 0
  BY HeapAssumption, SMTT(60)
<1>2. LET u == AlignUp(size, Alignment) IN u \in Nat /\ u >= size /\ u % Alignment = 0
  BY <1>1, AlignUpFacts
<1> QED
  BY <1>1, <1>2, SMTT(60)

\* kmalloc() from a free block keeps the invariant, with the tail split off or not.
LEMMA ReuseInv ==
  ASSUME HeapInv, NEW size \in Sizes, Reuse(size, AlignUp(size, Alignment))
  PROVE  HeapInv'
<1> DEFINE req == AlignUp(size, Alignment)
<1>1. size \in Nat /\ req \in Nat /\ req >= size /\ req > 0 /\ req % Alignment = 0
  BY RequestFacts
<1> HIDE DEF req
<1>2. PICK b \in Blocks :
        /\ Fits(b, req)
        /\ IF WorthSplitting(b, req) THEN hdr' = Split(b, req)
           ELSE hdr' = [hdr EXCEPT ![b] = [@ EXCEPT !.free = FALSE, !.size = hdr[b].capacity]]
        /\ Returned(b, size)
        /\ UNCHANGED <<head, heap_next, mapped, taken>>
  BY DEF Reuse, req
<1>3. /\ Chain(hdr, head, heap_next) /\ OwnedIn(hdr, live) /\ ApartIn(hdr, {})
      /\ live \in SUBSET (Nat \X Nat) /\ hdr \in [Addrs -> Header]
      /\ heap_next \in Nat /\ heap_next <= HeapPages * PageSize
  BY DEF HeapInv, Chain
<1>4. b \in BlocksIn(hdr) /\ hdr[b].free /\ hdr[b].capacity >= req /\ hdr[b] \in Header
  BY <1>2, <1>3 DEF Blocks, BlocksIn, Fits
<1>5. /\ b \in Addrs /\ b \in Nat /\ hdr[b].capacity \in Nat
      /\ hdr[b].next # Null => hdr[b].next = EndIn(hdr, b) /\ hdr[b].next \in BlocksIn(hdr)
      /\ EndIn(hdr, b) = b + HeaderSize + hdr[b].capacity /\ EndIn(hdr, b) <= heap_next
      /\ HeaderSize \in Nat /\ HeaderSize > 0 /\ Alignment \in Nat /\ Alignment > 0
  <2>1. b \in Addrs /\ b \in Nat /\ hdr[b].capacity \in Nat
    BY <1>3, <1>4, ChainFacts
  <2>2. /\ hdr[b].next # Null => hdr[b].next = EndIn(hdr, b) /\ hdr[b].next \in BlocksIn(hdr)
        /\ EndIn(hdr, b) <= heap_next
    BY <1>3, <1>4 DEF Chain
  <2> QED
    BY <2>1, <2>2, HeapAssumption, SMTT(60) DEF EndIn
<1>6. \A c \in BlocksIn(hdr) : c \in Addrs /\ c \in Nat
  BY BlockAddress
<1>7. /\ Chain(hdr', head, heap_next) /\ ApartIn(hdr', {})
      /\ b \in BlocksIn(hdr') /\ ~hdr'[b].free /\ hdr'[b].capacity \in Nat /\ hdr'[b].capacity >= req
      /\ \A c \in Nat \ {b} :
           /\ c \in BlocksIn(hdr) /\ ~hdr[c].free <=> c \in BlocksIn(hdr') /\ ~hdr'[c].free
           /\ c \in BlocksIn(hdr) /\ ~hdr[c].free => hdr'[c].capacity = hdr[c].capacity
  <2>1. CASE WorthSplitting(b, req)
    <3> DEFINE t == b + HeaderSize + req
               n == hdr[b].next
    <3>1. HeaderSize + req < hdr[b].capacity /\ hdr[b].capacity - req - HeaderSize \in Nat /\ hdr' = Split(b, req)
      BY <1>1, <1>2, <1>5, <2>1, SMTT(60) DEF WorthSplitting
    <3>2. t \in Nat /\ t < EndIn(hdr, b) /\ b < t /\ (n # Null => t < n)
      BY <1>1, <1>5, <3>1, SMTT(60)
    <3>3. t \in Addrs
      <4>1. b % Alignment = 0 /\ HeaderSize % Alignment = 0
        BY <1>5, HeapAssumption DEF Addrs
      <4>2. (b + HeaderSize) % Alignment = 0
        <5>1. b \in Int /\ HeaderSize \in Int
          BY <1>5, SMTT(60)
        <5> QED
          BY <1>5, <4>1, <5>1, AlignedSum
      <4>3. t % Alignment = 0
        <5>1. b + HeaderSize \in Int /\ req \in Int
          BY <1>1, <1>5, SMTT(60)
        <5> QED
          BY <1>1, <4>2, <5>1, AlignedSum
      <4>4. HeapPages * PageSize \in Nat /\ t < HeapPages * PageSize
        BY <1>3, <1>5, <3>2, HeapAssumption, SMTT(60)
      <4> QED
        BY <3>2, <4>3, <4>4, SMTT(60) DEF Addrs
    <3>4. n # b /\ n # t
      BY <1>5, <3>2, <3>3, NullApart, SMTT(60)
    <3>5. /\ hdr' \in [Addrs -> Header]
          /\ \A a \in Addrs :
                  /\ hdr'[a].magic <=> a = t \/ hdr[a].magic
                  /\ hdr'[a].capacity = IF a = b THEN req
                                        ELSE IF a = t THEN hdr[b].capacity - req - HeaderSize
                                             ELSE hdr[a].capacity
                  /\ hdr'[a].size <= hdr'[a].capacity \/ (hdr'[a].size = hdr[a].size /\ a # b /\ a # t)
                  /\ hdr'[a].next = IF a = b THEN t ELSE IF a = t THEN n ELSE hdr[a].next
                  /\ hdr'[a].prev = IF a = t THEN b ELSE IF a = n THEN t ELSE hdr[a].prev
                  /\ hdr'[a].free <=> a # b /\ (a = t \/ hdr[a].free)
      BY <1>1, <1>3, <1>5, <3>1, <3>3, <3>4, SplitFields, SMTT(60)
    <3>6. Chain(hdr', head, heap_next) /\ BlocksIn(hdr') = BlocksIn(hdr) \cup {t}
      BY <1>1, <1>3, <1>4, <3>1, <3>3, <3>5, ChainSplit, SMTT(60)
    <3>7. ApartIn(hdr', {})
      <4> SUFFICES ASSUME NEW c \in BlocksIn(hdr'), hdr'[c].free, hdr'[c].next # Null
                   PROVE  ~hdr'[hdr'[c].next].free
        BY DEF ApartIn
      <4>1. hdr'[c].next \in BlocksIn(hdr') /\ c # b /\ c \in Addrs /\ hdr'[c].next \in Addrs
        BY <1>5, <3>5, <3>6, BlockAddress DEF Chain
      <4>2. CASE c = t
        BY <1>3, <1>4, <1>5, <3>4, <3>5, <4>1, <4>2, SMTT(60) DEF ApartIn
      <4>3. CASE c # t
        <5>1. c \in BlocksIn(hdr) /\ hdr[c].free /\ hdr'[c].next = hdr[c].next
          BY <3>5, <3>6, <4>1, <4>3
        <5>2. ~hdr[hdr[c].next].free
          BY <1>3, <5>1 DEF ApartIn
        <5>3. hdr'[c].next # t
          BY <3>3, <3>5, <3>6, <4>1, SMTT(60) DEF Chain
        <5> QED
          BY <3>5, <4>1, <5>1, <5>2, <5>3
      <4> QED
        BY <4>2, <4>3
    <3>8. t \notin BlocksIn(hdr)
      BY <1>3, <1>4, <1>6, <3>2, SMTT(60) DEF Chain
    <3>9. \A c \in Nat \ {b} :
            /\ c \in BlocksIn(hdr) /\ ~hdr[c].free <=> c \in BlocksIn(hdr') /\ ~hdr'[c].free
            /\ c \in BlocksIn(hdr) /\ ~hdr[c].free => hdr'[c].capacity = hdr[c].capacity
      BY <1>6, <3>3, <3>5, <3>6, <3>8
    <3> QED
      BY <1>1, <1>4, <1>5, <3>5, <3>6, <3>7, <3>9, SMTT(60)
  <2>2. CASE ~WorthSplitting(b, req)
    <3> DEFINE r == [hdr[b] EXCEPT !.free = FALSE, !.size = hdr[b].capacity]
    <3>1. r \in Header /\ ~r.free
      BY <1>4, <1>5 DEF Header
    <3>2. /\ r.magic = hdr[b].magic /\ r.capacity = hdr[b].capacity /\ r.size = hdr[b].capacity
          /\ r.next = hdr[b].next /\ r.prev = hdr[b].prev
      BY <1>4 DEF Header
    <3>3. hdr' = [hdr EXCEPT ![b] = r]
      BY <1>2, <2>2
    <3> HIDE DEF r
    <3>4. hdr' \in [Addrs -> Header] /\ \A a \in Addrs : hdr'[a] = IF a = b THEN r ELSE hdr[a]
      BY <1>3, <1>5, <3>1, <3>3
    <3>5. \A a \in Addrs : /\ hdr'[a].magic = hdr[a].magic /\ hdr'[a].capacity = hdr[a].capacity
                           /\ hdr'[a].next = hdr[a].next /\ hdr'[a].prev = hdr[a].prev
                           /\ hdr'[a].size = hdr[a].size \/ hdr'[a].size = hdr[a].capacity
      BY <3>2, <3>4
    <3>6. Chain(hdr', head, heap_next) /\ BlocksIn(hdr') = BlocksIn(hdr)
      BY <1>3, <3>4, <3>5, ChainFlags
    <3>7. \A c \in BlocksIn(hdr) : c # b => hdr'[c].free = hdr[c].free
      BY <1>6, <3>4
    <3>8. ~hdr'[b].free
      BY <1>5, <3>1, <3>4
    <3>9. ApartIn(hdr', {})
      <4> SUFFICES ASSUME NEW c \in BlocksIn(hdr), hdr'[c].free, hdr'[c].next # Null
                   PROVE  ~hdr'[hdr'[c].next].free
        BY <3>6 DEF ApartIn
      <4>1. c # b /\ hdr'[c].next = hdr[c].next /\ hdr[c].free /\ hdr'[c].next \in BlocksIn(hdr)
        BY <1>6, <3>5, <3>6, <3>7, <3>8 DEF Chain
      <4> QED
        BY <1>3, <3>7, <3>8, <4>1 DEF ApartIn
    <3> QED
      BY <1>4, <1>5, <1>6, <3>5, <3>6, <3>7, <3>8, <3>9
  <2> QED
    BY <2>1, <2>2
<1>8. OwnedIn(hdr', live \cup {<<b + HeaderSize, size>>})
  <2>1. hdr'[b].capacity >= size
    BY <1>1, <1>7, SMTT(60)
  <2> QED
    BY <1>1, <1>3, <1>4, <1>5, <1>7, <2>1, OwnMore
<1>9. live' = live \cup {<<b + HeaderSize, size>>} /\ live' \subseteq Nat \X Nat
  BY <1>1, <1>2, <1>3, <1>5, SMTT(60) DEF Returned
<1> QED
  BY <1>2, <1>7, <1>8, <1>9 DEF HeapInv, BackedExactly

\* The number of pages in a range.
LEMMA Interval ==
  ASSUME NEW a \in Int, NEW n \in Nat
  PROVE  IsFiniteSet(a..(a + n - 1)) /\ Cardinality(a..(a + n - 1)) = n
<1>1. a + n - 1 \in Int
  BY SMTT(60)
<1> QED
  BY <1>1, FS_Interval, SMTT(60)

\* map_new_pages(): all of the range, or, when one page fails, nothing.
LEMMA MapBack ==
  ASSUME NEW first \in Nat, NEW pages \in Nat, NEW bad \in 0..pages,
         mapped = 0..(first - 1), taken = first
  PROVE  LET m == map_new_pages(first, pages, bad)
         IN  /\ bad = 0 => m.ok /\ m.mapped = 0..(first + pages - 1) /\ m.taken = first + pages
             /\ bad # 0 => ~m.ok /\ m.mapped = mapped /\ m.taken = taken
<1> DEFINE n == IF bad = 0 THEN pages ELSE bad - 1
           good == first..(first + n - 1)
           m == MapFrames([ok |-> bad = 0, mapped |-> mapped, taken |-> taken], good)
<1>1. n \in Nat /\ Cardinality(good) = n
  <2>1. n \in Nat
    BY SMTT(60)
  <2> HIDE DEF n
  <2> QED
    BY <2>1, Interval, SMTT(60)
<1>2. m.mapped = mapped \cup good /\ m.taken = first + n
  BY <1>1 DEF MapFrames
<1>3. m.ok <=> bad = 0
  BY DEF MapFrames
<1>4. map_new_pages(first, pages, bad) = IF m.ok THEN m ELSE UnmapFrames(m, good)
  BY DEF map_new_pages
<1>5. /\ UnmapFrames(m, good).mapped = m.mapped \ good
      /\ UnmapFrames(m, good).taken = m.taken - Cardinality(good \cap m.mapped)
  BY DEF UnmapFrames, MapFrames
<1>6. UnmapFrames(m, good).ok <=> bad = 0
  BY DEF UnmapFrames, MapFrames
<1> HIDE DEF m
<1> DEFINE k == map_new_pages(first, pages, bad)
<1>7. CASE bad = 0
  <2>1. mapped \cup good = 0..(first + pages - 1) /\ n = pages
    BY <1>7, SMTT(60)
  <2>2. k = m
    BY <1>3, <1>4, <1>7
  <2> HIDE DEF good, n, k
  <2>3. k.mapped = 0..(first + pages - 1) /\ k.taken = first + pages /\ k.ok
    BY <1>2, <1>3, <1>7, <2>1, <2>2
  <2> QED
    BY <1>7, <2>3 DEF k
<1>8. CASE bad # 0
  <2>1. good \cap m.mapped = good /\ m.mapped \ good = 0..(first - 1)
    BY <1>1, <1>2, SMTT(60)
  <2>2. k = UnmapFrames(m, good)
    BY <1>3, <1>4, <1>8
  <2> HIDE DEF good, n, k
  <2>3. k.mapped = 0..(first - 1) /\ k.taken = m.taken - Cardinality(good) /\ ~k.ok
    BY <1>5, <1>6, <1>8, <2>1, <2>2
  <2>4. k.taken = taken /\ k.mapped = mapped
    BY <1>1, <1>2, <2>3, SMTT(60)
  <2> QED
    BY <1>8, <2>3, <2>4 DEF k
<1> QED
  BY <1>7, <1>8

\* The headers hdr with a used block written at address top, after block p.
Placed(h2, top, p, req, cap) ==
  \A a \in Addrs : h2[a] = IF a = top
                             THEN [magic |-> TRUE, size |-> req, capacity |-> cap, free |-> FALSE,
                                   prev |-> p, next |-> Null]
                             ELSE IF a = p THEN [hdr[p] EXCEPT !.next = top] ELSE hdr[a]

\* The same, field by field.
PlacedFields(h2, top, p, cap) ==
  \A a \in Addrs :
    /\ h2[a].magic <=> a = top \/ hdr[a].magic
    /\ h2[a].capacity = IF a = top THEN cap ELSE hdr[a].capacity
    /\ h2[a].size <= h2[a].capacity \/ (h2[a].size = hdr[a].size /\ a # top)
    /\ h2[a].next = IF a = top THEN Null ELSE IF a = p THEN top ELSE hdr[a].next
    /\ h2[a].prev = IF a = top THEN p ELSE hdr[a].prev
    /\ h2[a].free <=> a # top /\ hdr[a].free

\* What kmalloc() writes for a block of fresh pages, field by field.
LEMMA NewFields ==
  ASSUME hdr \in [Addrs -> Header], NEW top \in Addrs, NEW p \in (Addrs \ {top}) \cup {Null},
         NEW req \in Nat, NEW cap \in Nat, req <= cap, NEW h2, Placed(h2, top, p, req, cap)
  PROVE  PlacedFields(h2, top, p, cap) /\ \A a \in Addrs : h2[a] \in Header
<1> DEFINE new == [magic |-> TRUE, size |-> req, capacity |-> cap, free |-> FALSE,
                   prev |-> p, next |-> Null]
           r == [hdr[p] EXCEPT !.next = top]
<1>1. new \in Header /\ ~new.free
  BY DEF Header
<1>2. /\ new.magic /\ new.size = req /\ new.capacity = cap /\ new.prev = p /\ new.next = Null
  OBVIOUS
<1>3. p \in Addrs => r \in Header /\ hdr[p] \in Header
  BY DEF Header
<1>4. p \in Addrs =>
        /\ r.magic = hdr[p].magic /\ r.size = hdr[p].size /\ r.capacity = hdr[p].capacity
        /\ r.free = hdr[p].free /\ r.prev = hdr[p].prev /\ r.next = top
  BY <1>3 DEF Header
<1>5. \A a \in Addrs : h2[a] = IF a = top THEN new ELSE IF a = p THEN r ELSE hdr[a]
  BY DEF Placed
<1> HIDE DEF new, r
<1>6. ASSUME NEW a \in Addrs, a = top
      PROVE  /\ h2[a] \in Header /\ h2[a].magic /\ ~h2[a].free /\ h2[a].size = req
             /\ h2[a].capacity = cap /\ h2[a].prev = p /\ h2[a].next = Null
  BY <1>1, <1>2, <1>5, <1>6
<1>7. ASSUME NEW a \in Addrs, a # top
      PROVE  /\ h2[a] \in Header /\ h2[a].magic = hdr[a].magic /\ h2[a].free = hdr[a].free
             /\ h2[a].size = hdr[a].size /\ h2[a].capacity = hdr[a].capacity
             /\ h2[a].prev = hdr[a].prev /\ h2[a].next = IF a = p THEN top ELSE hdr[a].next
  BY <1>3, <1>4, <1>5, <1>7
<1> QED
  BY <1>6, <1>7 DEF PlacedFields

\* Whole pages are aligned.
LEMMA PageMultiple ==
  ASSUME NEW n \in Nat
  PROVE  (n * PageSize) % Alignment = 0
<1> DEFINE u == PageSize \div Alignment
<1>1. Alignment \in Int /\ Alignment > 0 /\ PageSize \in Int /\ PageSize % Alignment = 0
  BY HeapAssumption, SMTT(60)
<1>2. u \in Int /\ PageSize = Alignment * u
  BY <1>1, SMTT(60)
<1> HIDE DEF u
<1>3. n * PageSize = Alignment * (n * u) + 0 /\ n * u \in Int /\ 0 \in 0..(Alignment - 1)
  BY <1>1, <1>2, SMTT(60)
<1> QED
  BY <1>1, <1>3, MultipleOf

\* kmalloc() from fresh pages keeps the invariant, also when mapping them fails.
LEMMA GrowInv ==
  ASSUME HeapInv, NEW size \in Sizes, Grow(size, AlignUp(size, Alignment))
  PROVE  HeapInv'
<1> DEFINE req == AlignUp(size, Alignment)
           whole == AlignUp(HeaderSize + req, PageSize)
           pages == whole \div PageSize
           first == heap_next \div PageSize
<1>1. /\ size \in Nat /\ req \in Nat /\ req >= size /\ req > 0 /\ req % Alignment = 0
      /\ HeaderSize \in Nat /\ HeaderSize > 0 /\ PageSize \in Nat /\ PageSize > 0
      /\ HeapPages \in Nat
  BY RequestFacts, HeapAssumption, SMTT(60)
<1> HIDE DEF req
<1>2. /\ whole \in Nat /\ whole >= HeaderSize + req /\ whole % PageSize = 0
      /\ pages \in Nat /\ pages > 0 /\ pages * PageSize = whole
  <2>1. HeaderSize + req \in Nat /\ HeaderSize + req > 0
    BY <1>1, SMTT(60)
  <2> QED
    BY <1>1, <2>1, AlignUpFacts
<1> HIDE DEF whole
<1>3. PICK bad \in 0..pages :
        LET m == map_new_pages(first, pages, bad)
        IN  /\ mapped' = m.mapped /\ taken' = m.taken
            /\ IF m.ok THEN NewBlock(size, req, pages)
               ELSE UNCHANGED <<hdr, head, heap_next, free_bytes, allocations, live>>
  BY DEF Grow, req, whole
<1>4. pages <= HeapPages - first
  BY DEF Grow, req, whole
<1>5. /\ Chain(hdr, head, heap_next) /\ OwnedIn(hdr, live) /\ ApartIn(hdr, {})
      /\ live \in SUBSET (Nat \X Nat) /\ hdr \in [Addrs -> Header]
      /\ heap_next \in Nat /\ heap_next % PageSize = 0 /\ heap_next <= HeapPages * PageSize
      /\ mapped = 0..(first - 1) /\ taken = Cardinality(mapped)
  BY DEF HeapInv, Chain, BackedExactly
<1>6. first \in Nat /\ heap_next = first * PageSize
  BY <1>1, <1>5, SMTT(60)
<1> HIDE DEF pages, first
<1>7. taken = first
  <2>1. Cardinality(0..(0 + first - 1)) = first
    BY <1>6, Interval, SMTT(60)
  <2> QED
    BY <1>5, <1>6, <2>1, SMTT(60)
<1> DEFINE m == map_new_pages(first, pages, bad)
<1>8. /\ bad = 0 => m.ok /\ m.mapped = 0..(first + pages - 1) /\ m.taken = first + pages
      /\ bad # 0 => ~m.ok /\ m.mapped = mapped /\ m.taken = taken
  <2>1. pages \in Nat /\ first \in Nat /\ bad \in 0..pages /\ mapped = 0..(first - 1)
    BY <1>2, <1>3, <1>5, <1>6
  <2> QED
    BY <1>7, <2>1, MapBack
<1> HIDE DEF m
<1>9. CASE bad # 0
  <2>1. UNCHANGED <<hdr, head, heap_next, live>> /\ mapped' = m.mapped /\ taken' = m.taken
    BY <1>3, <1>8, <1>9 DEF m
  <2>2. mapped' = mapped /\ taken' = taken
    BY <1>8, <1>9, <2>1
  <2> QED
    BY <2>1, <2>2 DEF HeapInv, BackedExactly
<1>10. CASE bad = 0
  <2>1. NewBlock(size, req, pages) /\ mapped' = m.mapped /\ taken' = m.taken
    BY <1>3, <1>8, <1>10 DEF m
  <2> DEFINE cap == pages * PageSize - HeaderSize
             top == heap_next + pages * PageSize
  <2>2. cap \in Nat /\ cap >= req /\ cap > 0 /\ top = heap_next + HeaderSize + cap /\ cap % Alignment = 0
    <3>1. /\ Alignment \in Int /\ Alignment > 0 /\ PageSize % Alignment = 0 /\ HeaderSize % Alignment = 0
      BY HeapAssumption, SMTT(60)
    <3>2. (pages * PageSize) % Alignment = 0
      BY <1>2, PageMultiple
    <3>3. cap % Alignment = 0
      <4>1. pages * PageSize \in Int /\ HeaderSize \in Int
        BY <1>1, <1>2, SMTT(60)
      <4> QED
        BY <3>1, <3>2, <4>1, AlignedSum
    <3> QED
      BY <1>1, <1>2, <1>5, <3>3, SMTT(60)
  <2>3. /\ top % PageSize = 0 /\ top <= HeapPages * PageSize /\ top \div PageSize = first + pages
        /\ heap_next \in Addrs
    <3>1. top = PageSize * (first + pages) + 0 /\ first + pages \in Int
          /\ PageSize \in Int /\ 0 \in 0..(PageSize - 1)
      BY <1>1, <1>2, <1>6, SMTT(60)
    <3>2. (PageSize * (first + pages) + 0) % PageSize = 0
      BY <1>1, <3>1, MultipleOf
    <3>3. top % PageSize = 0 /\ top \div PageSize = first + pages
      BY <1>1, <3>1, <3>2, SMTT(60)
    <3>4. top <= HeapPages * PageSize
      BY <1>1, <1>2, <1>4, <1>6, <3>1, SMTT(60)
    <3>5. heap_next \in Addrs
      <4>1. heap_next % Alignment = 0
        BY <1>6, PageMultiple
      <4>2. heap_next < HeapPages * PageSize /\ HeapPages * PageSize \in Nat
        BY <1>1, <1>2, <1>5, <3>4, SMTT(60)
      <4> QED
        BY <1>5, <4>1, <4>2, SMTT(60) DEF Addrs
    <3> QED
      BY <3>3, <3>4, <3>5
  <2> HIDE DEF cap, top
  <2>8. heap_next \notin BlocksIn(hdr)
    <3> SUFFICES ASSUME heap_next \in BlocksIn(hdr) PROVE FALSE
      OBVIOUS
    <3>1. heap_next + HeaderSize < EndIn(hdr, heap_next) /\ EndIn(hdr, heap_next) \in Nat
      BY <1>5, ChainFacts
    <3>2. EndIn(hdr, heap_next) <= heap_next
      BY <1>5 DEF Chain
    <3> QED
      BY <1>1, <1>5, <3>1, <3>2, SMTT(60)
  <2>4. PICK p \in (Addrs \ {heap_next}) \cup {Null} :
          /\ IF head = Null THEN p = Null ELSE p \in BlocksIn(hdr) /\ hdr[p].next = Null
          /\ hdr' \in [Addrs -> Header]
          /\ Placed(hdr', heap_next, p, req, cap)
    <3>1. CASE head = Null
      <4>1. hdr' = [hdr EXCEPT ![heap_next] = [magic |-> TRUE, size |-> req, capacity |-> cap, free |-> FALSE,
                                               prev |-> Null, next |-> Null]]
        BY <2>1, <3>1 DEF NewBlock, cap
      <4> DEFINE new == [magic |-> TRUE, size |-> req, capacity |-> cap,
                         free |-> FALSE, prev |-> Null, next |-> Null]
      <4>3. new \in Header
        BY <1>1, <2>2 DEF Header
      <4> HIDE DEF new
      <4>4. hdr' = [hdr EXCEPT ![heap_next] = new]
        BY <4>1 DEF new
      <4>5. hdr' \in [Addrs -> Header] /\ \A a \in Addrs : hdr'[a] = IF a = heap_next THEN new ELSE hdr[a]
        BY <1>5, <2>3, <4>3, <4>4
      <4>2. hdr' \in [Addrs -> Header] /\ Placed(hdr', heap_next, Null, req, cap)
        BY <4>5, NullApart DEF Placed, new
      <4> QED
        BY <3>1, <4>2
    <3>2. CASE head # Null
      <4>1. PICK t \in Blocks :
              /\ hdr[t].next = Null
              /\ hdr' = [hdr EXCEPT ![t] = [@ EXCEPT !.next = heap_next],
                                    ![heap_next] = [magic |-> TRUE, size |-> req, capacity |-> cap,
                                                    free |-> FALSE, prev |-> t, next |-> Null]]
        BY <2>1, <3>2 DEF NewBlock, cap
      <4>2. t \in BlocksIn(hdr) /\ t \in Addrs /\ t # heap_next
        BY <2>8, BlockAddress DEF Blocks, BlocksIn
      <4> DEFINE r == [hdr[t] EXCEPT !.next = heap_next]
                 new == [magic |-> TRUE, size |-> req, capacity |-> cap,
                         free |-> FALSE, prev |-> t, next |-> Null]
      <4>3. hdr' = [[hdr EXCEPT ![t] = r] EXCEPT ![heap_next] = new]
        <5>1. [hdr EXCEPT ![t] = [@ EXCEPT !.next = heap_next], ![heap_next] = new]
                = [[hdr EXCEPT ![t] = r] EXCEPT ![heap_next] = new]
          OBVIOUS
        <5> QED
          BY <4>1, <5>1
      <4>6. new \in Header /\ r \in Header
        BY <1>1, <1>5, <2>2, <2>3, <4>2 DEF Header
      <4> HIDE DEF r, new
      <4>4. /\ hdr' \in [Addrs -> Header]
            /\ \A a \in Addrs : hdr'[a] = IF a = heap_next THEN new ELSE IF a = t THEN r ELSE hdr[a]
        BY <1>5, <2>3, <4>2, <4>3, <4>6
      <4>5. Placed(hdr', heap_next, t, req, cap)
        BY <4>4 DEF Placed, new, r
      <4> QED
        BY <3>2, <4>1, <4>2, <4>4, <4>5
    <3> QED
      BY <3>1, <3>2
  <2>5. head' = 0 /\ heap_next' = top /\ live' = live \cup {<<heap_next + HeaderSize, size>>}
    <3>1. /\ heap_next' = top /\ live' = live \cup {<<heap_next + HeaderSize, size>>}
          /\ head' = IF head = Null THEN heap_next ELSE head
      BY <2>1 DEF NewBlock, Returned, top
    <3>2. head = IF heap_next > 0 THEN 0 ELSE Null
      BY <1>5 DEF Chain
    <3> QED
      BY <1>5, <3>1, <3>2, SMTT(60) DEF Null
  <2>6. PlacedFields(hdr', heap_next, p, cap)
    <3>1. req <= cap /\ p \in (Addrs \ {heap_next}) \cup {Null}
      BY <1>1, <2>2, <2>4
    <3>2. req \in Nat /\ cap \in Nat /\ heap_next \in Addrs /\ hdr \in [Addrs -> Header]
      BY <1>1, <1>5, <2>2, <2>3
    <3> QED
      BY <2>4, <3>1, <3>2, NewFields
  <2>7. Chain(hdr', head', heap_next') /\ BlocksIn(hdr') = BlocksIn(hdr) \cup {heap_next}
    <3>1. p \in Addrs \cup {Null}
      BY <2>4
    <3>3. Chain(hdr', 0, heap_next + HeaderSize + cap) /\ BlocksIn(hdr') = BlocksIn(hdr) \cup {heap_next}
      BY <1>5, <2>2, <2>3, <2>4, <2>6, <3>1, ChainAppend, SMTT(60) DEF PlacedFields
    <3> QED
      BY <2>2, <2>5, <3>3
  <2>9. OwnedIn(hdr', live') /\ live' \subseteq Nat \X Nat
    <3>1. \A c \in Nat \ {heap_next} :
            /\ c \in BlocksIn(hdr) /\ ~hdr[c].free <=> c \in BlocksIn(hdr') /\ ~hdr'[c].free
            /\ c \in BlocksIn(hdr) /\ ~hdr[c].free => hdr'[c].capacity = hdr[c].capacity
      BY <2>6, <2>7, BlockAddress DEF PlacedFields
    <3>2. heap_next \in BlocksIn(hdr') /\ ~hdr'[heap_next].free /\ hdr'[heap_next].capacity >= size
      BY <1>1, <2>2, <2>3, <2>6, <2>7, SMTT(60) DEF PlacedFields
    <3>3. OwnedIn(hdr', live \cup {<<heap_next + HeaderSize, size>>})
      BY <1>1, <1>5, <2>8, <3>1, <3>2, OwnMore
    <3> QED
      BY <1>1, <1>5, <2>5, <3>3, SMTT(60)
  <2>10. ApartIn(hdr', {})
    <3> SUFFICES ASSUME NEW c \in BlocksIn(hdr'), hdr'[c].free, hdr'[c].next # Null
                 PROVE  ~hdr'[hdr'[c].next].free
      BY DEF ApartIn
    <3>1. c \in Addrs /\ c # heap_next /\ c \in BlocksIn(hdr) /\ hdr[c].free
      BY <2>3, <2>6, <2>7, BlockAddress DEF PlacedFields
    <3>2. hdr'[c].next \in BlocksIn(hdr') /\ hdr'[c].next \in Addrs
      BY <2>7, BlockAddress DEF Chain
    <3>3. hdr'[c].next # heap_next => hdr'[c].next = hdr[c].next
      BY <2>6, <3>1 DEF PlacedFields
    <3> QED
      BY <1>5, <2>6, <3>1, <3>2, <3>3 DEF ApartIn, PlacedFields
  <2>11. BackedExactly'
    <3>1. mapped' = 0..(0 + (first + pages) - 1) /\ taken' = first + pages /\ first + pages \in Nat
      BY <1>2, <1>6, <1>8, <1>10, <2>1, SMTT(60)
    <3>2. Cardinality(0..(0 + (first + pages) - 1)) = first + pages
      BY <3>1, Interval, SMTT(60)
    <3> QED
      BY <2>3, <2>5, <3>1, <3>2, SMTT(60) DEF BackedExactly
  <2> QED
    BY <2>3, <2>5, <2>7, <2>9, <2>10, <2>11 DEF HeapInv
<1> QED
  BY <1>9, <1>10

\* heap_init() leaves an empty chain.
LEMMA HeapInitInv == heap_init => HeapInv
<1> SUFFICES ASSUME heap_init PROVE HeapInv
  OBVIOUS
<1>1. NoHeader \in Header
  BY DEF NoHeader, Header
<1>2. hdr \in [Addrs -> Header] /\ BlocksIn(hdr) = {}
  BY <1>1 DEF heap_init, BlocksIn, NoHeader
<1>3. PageSize \in Nat /\ PageSize > 0 /\ HeapPages * PageSize \in Nat
  BY HeapAssumption, SMTT(60)
<1>4. Chain(hdr, head, heap_next) /\ OwnedIn(hdr, live) /\ ApartIn(hdr, {})
  BY <1>2, SMTT(60) DEF heap_init, Chain, OwnedIn, ApartIn
<1>5. heap_next % PageSize = 0 /\ heap_next \div PageSize = 0 /\ heap_next <= HeapPages * PageSize
  BY <1>3, SMTT(60) DEF heap_init
<1>6. BackedExactly
  BY <1>5, FS_EmptySet, SMTT(60) DEF heap_init, BackedExactly
<1> QED
  BY <1>4, <1>5, <1>6 DEF HeapInv, heap_init

\* Every call keeps the invariant.
LEMMA HeapStepInv == HeapInv /\ [HeapNext]_heapVars => HeapInv'
<1> SUFFICES ASSUME HeapInv, [HeapNext]_heapVars PROVE HeapInv'
  OBVIOUS
<1>1. ASSUME NEW size \in Sizes, kmalloc(size) PROVE HeapInv'
  BY <1>1, ReuseInv, GrowInv DEF kmalloc
<1>2. ASSUME NEW l \in live, kfree(l[1], l[2]) PROVE HeapInv'
  BY <1>2, KfreeInv
<1>3. CASE UNCHANGED heapVars
  BY <1>3 DEF heapVars, HeapInv, BackedExactly
<1> QED
  BY <1>1, <1>2, <1>3 DEF HeapNext

\* The invariant implies the property.
LEMMA HeapInvSays == HeapInv => HeapSound
<1> SUFFICES ASSUME HeapInv PROVE HeapSound
  OBVIOUS
<1>1. Chain(hdr, head, heap_next) /\ Blocks = BlocksIn(hdr) /\ \A b \in Blocks : End(b) = EndIn(hdr, b)
  BY DEF HeapInv, Blocks, BlocksIn, End, EndIn
<1>2. LiveBlocksOwned /\ Coalesced /\ BackedExactly
  BY <1>1 DEF HeapInv, OwnedIn, ApartIn, LiveBlocksOwned, Coalesced
<1>3. \A b \in Blocks : b \in Nat /\ b < heap_next /\ hdr[b].magic
  <2> TAKE b \in Blocks
  <2>1. b \in Nat /\ b + HeaderSize < EndIn(hdr, b) /\ EndIn(hdr, b) \in Nat /\ hdr[b].magic
    BY <1>1, ChainFacts
  <2>2. EndIn(hdr, b) <= heap_next /\ heap_next \in Nat
    BY <1>1 DEF Chain
  <2> QED
    BY <2>1, <2>2, HeapAssumption, SMTT(60)
<1>4. \A b \in Blocks : block_basic_valid(b)
  <2> TAKE b \in Blocks
  <2>1. /\ hdr[b].capacity > 0 /\ hdr[b].size <= hdr[b].capacity /\ End(b) <= heap_next
        /\ hdr[b].prev # Null => hdr[b].prev \in Blocks
        /\ hdr[b].next # Null => hdr[b].next \in Blocks
    BY <1>1, SMTT(60) DEF Chain
  <2> QED
    BY <1>3, <2>1, SMTT(60) DEF block_basic_valid
<1>5. /\ head # Null => head \in Blocks
      /\ heap_next > 0 => head = 0
      /\ \A b \in Blocks : /\ hdr[b].next # Null => hdr[hdr[b].next].prev = b
                           /\ hdr[b].prev = Null <=> b = head
                           /\ End(b) = IF hdr[b].next # Null THEN hdr[b].next ELSE heap_next
  BY <1>1 DEF Chain
<1> QED
  BY <1>2, <1>4, <1>5 DEF HeapSound, BlocksTile, heap_validate

\* For every arena, header size, alignment and set of requests, in every order of
\* kmalloc() and kfree() and whichever pages PMM refuses: the blocks tile the
\* arena, every caller owns a block of its own large enough for its request, no
\* two free blocks are neighbours, and exactly the pages below g_heap_next are
\* mapped and have a frame.
THEOREM HeapStaysSound == HeapSpec => []HeapSound
  BY HeapInitInv, HeapStepInv, HeapInvSays, PTL DEF HeapSpec

-----------------------------------------------------------------------------
(* kernel/mm/pmm.c.                                                        *)

\* The order of the natural numbers, as a relation.
Less == {p \in Nat \X Nat : p[1] < p[2]}

\* It is well founded.
LEMMA LessWellFounded == IsWellFoundedOn(Less, Nat)
<1>1. OpToRel(<, Nat) = Less
  BY DEF OpToRel, Less
<1> QED
  BY <1>1, NatLessThanWellFounded

\* A set of natural numbers has a smallest member.  Arguments by induction over
\* the entries of a ring or the bytes of a buffer take the smallest exception.
LEMMA Smallest ==
  ASSUME NEW T, T \subseteq Nat, T # {}
  PROVE  \E x \in T : \A y \in T : x <= y
<1>1. \A x, y \in Nat : y < x => <<y, x>> \in Less
  BY SMTT(60) DEF Less
<1>2. PICK z \in T : \A y \in T : ~(<<y, z>> \in Less)
  BY LessWellFounded, WFMin
<1>3. ASSUME NEW y \in T PROVE z <= y
  <2>1. y \in Nat /\ z \in Nat /\ ~(<<y, z>> \in Less)
    BY <1>2, SMTT(60)
  <2>2. ~(y < z)
    BY <2>1, <1>1, SMTT(60)
  <2> QED
    BY <2>1, <2>2, SMTT(60)
<1> QED
  BY <1>3, SMTT(60)

\* The smallest and the largest member of a set of addresses.
LEMMA MinIsLeast ==
  ASSUME NEW S, S \subseteq Nat, S # {}
  PROVE  Min(S) \in S /\ \A y \in S : Min(S) <= y
  BY Smallest DEF Min

\* The largest one of a set with an upper bound.
LEMMA MaxIsGreatest ==
  ASSUME NEW b \in Nat, NEW S, S \subseteq 0..b, S # {}
  PROVE  Max(S) \in S /\ \A y \in S : Max(S) >= y
<1> DEFINE T == {b - y : y \in S}
<1>1. T \subseteq Nat /\ T # {}
  <2>1. \A y \in S : b - y \in Nat
    BY SMTT(60)
  <2> QED
    BY <2>1
<1>2. PICK x \in T : \A y \in T : x <= y
  BY <1>1, Smallest
<1>3. PICK z \in S : x = b - z
  OBVIOUS
<1>4. \A y \in S : z >= y
  <2> TAKE y \in S
  <2>1. b - z <= b - y
    BY <1>2, <1>3
  <2> QED
    BY <2>1, SMTT(60)
<1> QED
  BY <1>4 DEF Max

\* The largest address a size of Width bits leaves room for.
LEMMA Top == 2^Width \in Nat /\ MaxAddress \in Int
  BY PmmAssumption, SMTT(60) DEF MaxAddress

\* Multiples of the page size are a page apart.
LEMMA Multiples ==
  ASSUME NEW F \in Nat, F > 0, NEW p \in Int, NEW q \in Int
  PROVE  p * F \in Int /\ (p * F < q * F => p < q) /\ (p < q => p * F + F <= q * F)
<1>1. p * F \in Int /\ q * F \in Int
  BY SMTT(60)
<1>2. ASSUME p < q PROVE p * F + F <= q * F
  <2>1. PICK d \in Nat : q = p + 1 + d
    BY <1>2, SMTT(60)
  <2>2. q * F = p * F + F + d * F
    BY <2>1, SMTT(60)
  <2>3. d * F \in Nat
    BY SMTT(60)
  <2> QED
    BY <1>1, <2>2, <2>3, SMTT(60)
<1>3. ASSUME p * F < q * F, q <= p PROVE FALSE
  <2>1. PICK d \in Nat : p = q + d
    BY <1>3, SMTT(60)
  <2>2. p * F = q * F + d * F
    BY <2>1, SMTT(60)
  <2>3. d * F \in Nat
    BY SMTT(60)
  <2> QED
    BY <1>1, <1>3, <2>2, <2>3, SMTT(60)
<1> QED
  BY <1>1, <1>2, <1>3, SMTT(60)

\* Rounding an address down to a page loses less than a page.
LEMMA DownToPage ==
  ASSUME NEW a \in Nat, NEW p \in Int
  PROVE  /\ p * FrameSize < AlignDown(a) <=> p * FrameSize + FrameSize <= a
         /\ AlignDown(a) \in Nat /\ AlignDown(a) <= a
<1> DEFINE q == a \div FrameSize
           r == a % FrameSize
<1> FrameSize \in Nat /\ FrameSize > 0
  BY PmmAssumption, SMTT(60)
<1>1. q \in Nat /\ r \in 0..(FrameSize - 1) /\ a = FrameSize * q + r
  BY SMTT(60)
<1>2. AlignDown(a) = a - r
  BY DEF AlignDown
<1> HIDE DEF q, r
<1>3. FrameSize * q = q * FrameSize /\ p * FrameSize \in Int
  BY <1>1, SMTT(60)
<1>4. q * FrameSize \in Nat
  BY <1>1, SMTT(60)
<1>5. p * FrameSize < q * FrameSize => p * FrameSize + FrameSize <= q * FrameSize
  BY <1>1, Multiples, SMTT(60)
<1> DEFINE m == q * FrameSize
           n == p * FrameSize
<1> HIDE DEF m, n
<1>6. m \in Nat /\ n \in Int /\ a = m + r /\ AlignDown(a) = m /\ (n < m => n + FrameSize <= m)
  BY <1>1, <1>2, <1>3, <1>4, <1>5, SMTT(60) DEF m, n
<1>7. n < m <=> n + FrameSize <= a
  BY <1>1, <1>6, SMTT(60)
<1> QED
  BY <1>1, <1>6, <1>7, SMTT(60) DEF n

\* The number of whole pages below an address.
LEMMA PagesFit ==
  ASSUME NEW p \in Pages
  PROVE  /\ p * FrameSize \in Nat /\ p * FrameSize + FrameSize <= PmmPages * FrameSize
         /\ PmmPages * FrameSize \in Nat /\ PmmPages * FrameSize + FrameSize <= MaxAddress + 1
         /\ Bytes(p) = (p * FrameSize)..(p * FrameSize + FrameSize - 1)
<1> FrameSize \in Nat /\ FrameSize > 0 /\ PmmPages \in Nat /\ p \in Nat /\ p < PmmPages
  BY PmmAssumption, SMTT(60) DEF Pages
<1>1. (PmmPages + 1) * FrameSize = PmmPages * FrameSize + FrameSize
  BY SMTT(60)
<1>2. p * FrameSize \in Nat /\ PmmPages * FrameSize \in Nat
  BY SMTT(60)
<1>3. p * FrameSize + FrameSize <= PmmPages * FrameSize
  BY Multiples, SMTT(60)
<1>4. (PmmPages + 1) * FrameSize <= MaxAddress + 1
  BY Top, PmmAssumption, SMTT(60) DEF MaxAddress
<1>5. Bytes(p) = (p * FrameSize)..(p * FrameSize + FrameSize - 1)
  <2> DEFINE m == (p + 1) * FrameSize
  <2>1. m = p * FrameSize + FrameSize
    BY SMTT(60)
  <2>2. Bytes(p) = (p * FrameSize)..(m - 1)
    BY DEF Bytes
  <2> HIDE DEF m
  <2> QED
    BY <2>1, <2>2, SMTT(60)
<1>6. PmmPages * FrameSize + FrameSize <= MaxAddress + 1
  BY <1>1, <1>4
<1> QED
  BY <1>2, <1>3, <1>5, <1>6

\* align_up() goes on to the next page, by less than a page.
LEMMA UpToPage ==
  ASSUME NEW a \in Nat, NEW p \in Pages
  PROVE  FrameAlignUp(a) \in Nat /\ (p * FrameSize < FrameAlignUp(a) <=> p * FrameSize < a)
<1> DEFINE n == p * FrameSize
<1>1. /\ FrameSize \in Nat /\ FrameSize > 0 /\ MaxAddress \in Int /\ n \in Nat /\ p \in Int
      /\ n + FrameSize + FrameSize <= MaxAddress + 1
  <2> DEFINE m == PmmPages * FrameSize
  <2>1. n \in Nat /\ m \in Nat /\ n + FrameSize <= m /\ m + FrameSize <= MaxAddress + 1
    BY PagesFit
  <2>2. FrameSize \in Nat /\ FrameSize > 0 /\ MaxAddress \in Int /\ p \in Int
    BY Top, PmmAssumption, SMTT(60) DEF Pages
  <2> HIDE DEF m, n
  <2> QED
    BY <2>1, <2>2, SMTT(60)
<1>2. CASE a > MaxAddress - (FrameSize - 1)
  <2>1. MaxAddress \in Nat
    BY <1>1, SMTT(60)
  <2>2. AlignDown(MaxAddress) \in Nat /\ (n < AlignDown(MaxAddress) <=> n + FrameSize <= MaxAddress)
    BY <1>1, <2>1, DownToPage
  <2>3. FrameAlignUp(a) = AlignDown(MaxAddress)
    BY <1>2 DEF FrameAlignUp
  <2> HIDE DEF n
  <2> QED
    BY <1>1, <1>2, <2>2, <2>3, SMTT(60) DEF n
<1>3. CASE ~(a > MaxAddress - (FrameSize - 1))
  <2>1. a + FrameSize - 1 \in Nat
    BY <1>1, SMTT(60)
  <2>2. /\ AlignDown(a + FrameSize - 1) \in Nat
        /\ n < AlignDown(a + FrameSize - 1) <=> n + FrameSize <= a + FrameSize - 1
    BY <1>1, <2>1, DownToPage
  <2>3. FrameAlignUp(a) = AlignDown(a + FrameSize - 1)
    BY <1>3 DEF FrameAlignUp
  <2> HIDE DEF n
  <2> QED
    BY <1>1, <2>2, <2>3, SMTT(60) DEF n
<1> QED
  BY <1>2, <1>3

\* consider_max(): the tracked range ends behind every entry that begins in it.
LEMMA TopOfMemory ==
  ASSUME NEW mp \in Entries \X Entries
  PROVE  /\ consider_max(mp) \in 0..(PmmPages * FrameSize)
         /\ \A i \in DOMAIN mp :
              /\ mp[i] \in Entries /\ mp[i].start \in Nat /\ EndOf(mp[i]) \in Nat
              /\ mp[i].number_of_pages = 0 => EndOf(mp[i]) <= mp[i].start
              /\ mp[i].number_of_pages # 0 /\ mp[i].start < PmmPages * FrameSize =>
                   \/ EndOf(mp[i]) <= consider_max(mp)
                   \/ PmmPages * FrameSize <= consider_max(mp)
<1> DEFINE limit == PmmPages * FrameSize
           big == {j \in DOMAIN mp : mp[j].number_of_pages # 0 /\ mp[j].start < limit}
           ends == {Min({EndOf(mp[i]), limit}) : i \in big}
<1>1. FrameSize \in Nat /\ FrameSize > 0 /\ limit \in Nat /\ MaxAddress \in Int /\ MaxAddress >= 0
  BY Top, PmmAssumption, SMTT(60) DEF MaxAddress
<1>2. DOMAIN mp = 1..2 /\ \A i \in DOMAIN mp : mp[i] \in Entries
  BY SMTT(60)
<1>3. ASSUME NEW i \in DOMAIN mp
      PROVE  /\ mp[i] \in Entries /\ mp[i].start \in Nat /\ EndOf(mp[i]) \in Nat
             /\ mp[i].number_of_pages = 0 => EndOf(mp[i]) <= mp[i].start
  <2>1. /\ mp[i] \in Entries /\ mp[i].start \in 0..MaxAddress
        /\ mp[i].number_of_pages \in 0..MaxAddress
    BY <1>2, PmmAssumption DEF MaxAddress
  <2> DEFINE k == mp[i].number_of_pages
             bytes == k * FrameSize
             most == MaxAddress \div FrameSize
  <2>2. bytes \in Nat /\ (k = 0 => bytes = 0) /\ most \in Int /\ most >= 0
    BY <1>1, <2>1, SMTT(60)
  <2>3. EndOf(mp[i]) =
          IF mp[i].start + (IF k > most THEN MaxAddress ELSE bytes) > MaxAddress THEN MaxAddress
          ELSE mp[i].start + (IF k > most THEN MaxAddress ELSE bytes)
    BY DEF EndOf
  <2> HIDE DEF k, bytes, most
  <2> QED
    BY <1>1, <2>1, <2>2, <2>3, SMTT(60) DEF k
<1>4. ASSUME NEW i \in big
      PROVE  /\ Min({EndOf(mp[i]), limit}) \in 0..limit
             /\ Min({EndOf(mp[i]), limit}) \in {EndOf(mp[i]), limit}
  <2>1. {EndOf(mp[i]), limit} \subseteq Nat /\ {EndOf(mp[i]), limit} # {} /\ limit \in {EndOf(mp[i]), limit}
    BY <1>1, <1>3
  <2>2. /\ Min({EndOf(mp[i]), limit}) \in {EndOf(mp[i]), limit}
        /\ \A y \in {EndOf(mp[i]), limit} : Min({EndOf(mp[i]), limit}) <= y
    BY <2>1, MinIsLeast
  <2> QED
    BY <1>1, <1>3, <2>2, SMTT(60)
<1>5. ends \cup {0} \subseteq 0..limit /\ ends \cup {0} # {}
  <2>1. 0 \in 0..limit
    BY <1>1, SMTT(60)
  <2> QED
    BY <1>4, <2>1
<1>6. Max(ends \cup {0}) \in ends \cup {0} /\ \A y \in ends \cup {0} : Max(ends \cup {0}) >= y
  BY <1>1, <1>5, MaxIsGreatest
<1>7. consider_max(mp) = Max(ends \cup {0})
  BY DEF consider_max
<1>8. ASSUME NEW i \in big
      PROVE  EndOf(mp[i]) <= consider_max(mp) \/ limit <= consider_max(mp)
  <2> DEFINE e == Min({EndOf(mp[i]), limit})
  <2>1. e \in ends \cup {0}
    OBVIOUS
  <2>2. consider_max(mp) >= e
    BY <1>6, <1>7, <2>1
  <2>3. e \in 0..limit /\ e \in {EndOf(mp[i]), limit}
    BY <1>4
  <2> HIDE DEF e, limit
  <2> QED
    BY <2>2, <2>3
<1>9. consider_max(mp) \in 0..limit
  BY <1>5, <1>6, <1>7
<1> HIDE DEF ends
<1> QED
  BY <1>3, <1>8, <1>9

\* The pages pmm_init() leaves clear.
Usable == Released(map, consider_max(map)) \ Reserved(kept, consider_max(map))

\* The inductive invariant of pmm.c: the bitmap differs from what pmm_init() left
\* by the pages that are out, and g_free_pages counts its clear bits.
PmmInv ==
  /\ map \in Entries \X Entries /\ kept \subseteq KeptRanges
  /\ out \subseteq Usable
  /\ used = (Pages \ Usable) \cup out
  /\ free_pages = Cardinality(Usable \ out)

\* The smaller of two addresses.
LEMMA BelowBoth ==
  ASSUME NEW n \in Int, NEW a \in Nat, NEW b \in Nat
  PROVE  n < Min({a, b}) <=> n < a /\ n < b
<1>1. {a, b} \subseteq Nat /\ {a, b} # {}
  OBVIOUS
<1>2. Min({a, b}) \in {a, b} /\ \A y \in {a, b} : Min({a, b}) <= y
  BY <1>1, MinIsLeast
<1> QED
  BY <1>2, SMTT(60)

\* release_range() clears the pages that lie wholly in the range.
LEMMA ReleasedPages ==
  ASSUME NEW top \in Nat, NEW s \in Nat, NEW e \in Nat, NEW p \in Pages
  PROVE  p \in release_range(top, s, e) <=>
           s <= p * FrameSize /\ p * FrameSize + FrameSize <= e /\ p * FrameSize < top
<1> DEFINE n == p * FrameSize
<1>1. FrameSize \in Nat /\ FrameSize > 0 /\ n \in Nat /\ p \in Int
  BY PagesFit, PmmAssumption, SMTT(60) DEF Pages
<1>2. FrameAlignUp(s) \in Nat /\ (n < FrameAlignUp(s) <=> n < s)
  BY UpToPage
<1>3. AlignDown(e) \in Nat /\ (n < AlignDown(e) <=> n + FrameSize <= e)
  BY <1>1, DownToPage
<1>4. n < Min({AlignDown(e), top}) <=> n < AlignDown(e) /\ n < top
  BY <1>1, <1>3, BelowBoth, SMTT(60)
<1>5. p \in release_range(top, s, e) <=>
        ~(e <= s) /\ FrameAlignUp(s) <= n /\ n < Min({AlignDown(e), top})
  BY DEF release_range
<1> HIDE DEF n
<1> QED
  BY <1>1, <1>2, <1>3, <1>4, <1>5, SMTT(60) DEF n

\* reserve_range() sets the pages the range touches.
LEMMA ReservedPages ==
  ASSUME NEW top \in Nat, NEW s \in Nat, NEW e \in Nat, NEW p \in Pages
  PROVE  p \in reserve_range(top, s, e) <=>
           s < e /\ s < p * FrameSize + FrameSize /\ p * FrameSize < e /\ p * FrameSize < top
<1> DEFINE n == p * FrameSize
<1>1. FrameSize \in Nat /\ FrameSize > 0 /\ n \in Nat /\ p \in Int
  BY PagesFit, PmmAssumption, SMTT(60) DEF Pages
<1>2. FrameAlignUp(e) \in Nat /\ (n < FrameAlignUp(e) <=> n < e)
  BY UpToPage
<1>3. AlignDown(s) \in Nat /\ (n < AlignDown(s) <=> n + FrameSize <= s)
  BY <1>1, DownToPage
<1>4. n < Min({FrameAlignUp(e), top}) <=> n < FrameAlignUp(e) /\ n < top
  BY <1>1, <1>2, BelowBoth, SMTT(60)
<1>5. p \in reserve_range(top, s, e) <=>
        ~(e <= s) /\ AlignDown(s) <= n /\ n < Min({FrameAlignUp(e), top})
  BY DEF reserve_range
<1> HIDE DEF n
<1> QED
  BY <1>1, <1>2, <1>3, <1>4, <1>5, SMTT(60) DEF n

\* A page is released when it is wholly conventional memory, and then it lies in
\* the tracked range.
LEMMA ConventionalReleased ==
  ASSUME map \in Entries \X Entries, NEW p \in Pages
  PROVE  /\ p \in Released(map, consider_max(map)) <=> Conventional(p)
         /\ Conventional(p) => p * FrameSize + FrameSize <= consider_max(map)
<1> DEFINE n == p * FrameSize
           top == consider_max(map)
           limit == PmmPages * FrameSize
<1>1. /\ FrameSize \in Nat /\ FrameSize > 0 /\ n \in Nat /\ limit \in Nat
      /\ n + FrameSize <= limit
  BY PagesFit, PmmAssumption, SMTT(60)
<1>2. top \in Nat
  BY <1>1, TopOfMemory, SMTT(60)
<1>3. ASSUME NEW i \in DOMAIN map
      PROVE  /\ \A b \in Bytes(p) : map[i].start <= b /\ b < EndOf(map[i])
             <=> map[i].start <= n /\ n + FrameSize <= EndOf(map[i])
  <2>1. map[i].start \in Nat /\ EndOf(map[i]) \in Nat
    BY TopOfMemory
  <2>2. Bytes(p) = n..(n + FrameSize - 1)
    BY PagesFit
  <2> HIDE DEF n
  <2>3. n \in Bytes(p) /\ n + FrameSize - 1 \in Bytes(p)
    BY <1>1, <2>2, SMTT(60)
  <2> QED
    BY <1>1, <2>1, <2>2, <2>3, SMTT(60)
<1>4. ASSUME NEW i \in DOMAIN map, map[i].start <= n, n + FrameSize <= EndOf(map[i])
      PROVE  n + FrameSize <= top
  <2>1. /\ map[i].start \in Nat /\ EndOf(map[i]) \in Nat
        /\ map[i].number_of_pages = 0 => EndOf(map[i]) <= map[i].start
        /\ map[i].number_of_pages # 0 /\ map[i].start < limit => EndOf(map[i]) <= top \/ limit <= top
    BY TopOfMemory
  <2> HIDE DEF n, top, limit
  <2> QED
    BY <1>1, <1>2, <1>4, <2>1, SMTT(60)
<1>5. ASSUME NEW i \in DOMAIN map
      PROVE  p \in release_range(top, map[i].start, EndOf(map[i])) <=>
               map[i].start <= n /\ n + FrameSize <= EndOf(map[i])
  <2>1. map[i].start \in Nat /\ EndOf(map[i]) \in Nat
    BY TopOfMemory
  <2>2. p \in release_range(top, map[i].start, EndOf(map[i])) <=>
          map[i].start <= n /\ n + FrameSize <= EndOf(map[i]) /\ n < top
    BY <1>2, <2>1, ReleasedPages
  <2>3. map[i].start <= n /\ n + FrameSize <= EndOf(map[i]) => n < top
    BY <1>1, <1>2, <1>4, SMTT(60)
  <2> QED
    BY <2>2, <2>3
<1>6. p \in Released(map, top) <=>
        \E i \in DOMAIN map : map[i].conventional /\ p \in release_range(top, map[i].start, EndOf(map[i]))
  BY DEF Released
<1> QED
  BY <1>3, <1>4, <1>5, <1>6 DEF Conventional

\* A tracked page is reserved when it is one of the low ones or a byte of it is
\* kept by somebody.
LEMMA KeptReserved ==
  ASSUME map \in Entries \X Entries, kept \subseteq KeptRanges, NEW p \in Pages,
         p * FrameSize + FrameSize <= consider_max(map)
  PROVE  p \in Reserved(kept, consider_max(map)) <=> Kept(p) \/ p < LowPages
<1> DEFINE n == p * FrameSize
           top == consider_max(map)
<1>1. /\ FrameSize \in Nat /\ FrameSize > 0 /\ n \in Nat /\ LowPages \in Nat /\ LowPages > 0 /\ p \in Nat
  BY PagesFit, PmmAssumption, SMTT(60) DEF Pages
<1>2. top \in Nat /\ n < top
  <2>1. top \in Int
    BY PagesFit, TopOfMemory, SMTT(60)
  <2> HIDE DEF n, top
  <2> QED
    BY <1>1, <2>1, SMTT(60) DEF n, top
<1>3. p \in reserve_range(top, 0, LowPages * FrameSize) <=> p < LowPages
  <2>1. LowPages * FrameSize \in Nat /\ LowPages * FrameSize > 0
    BY <1>1, SMTT(60)
  <2>2. n < LowPages * FrameSize <=> p < LowPages
    BY <1>1, Multiples, SMTT(60)
  <2>3. p \in reserve_range(top, 0, LowPages * FrameSize) <=>
          0 < LowPages * FrameSize /\ 0 < n + FrameSize /\ n < LowPages * FrameSize /\ n < top
    BY <1>2, <2>1, ReservedPages
  <2> HIDE DEF n, top
  <2> QED
    BY <1>1, <1>2, <2>1, <2>2, <2>3, SMTT(60)
<1>4. ASSUME NEW k \in kept
      PROVE  p \in reserve_range(top, k[1], k[2]) <=> \E b \in Bytes(p) : k[1] <= b /\ b < k[2]
  <2>1. k[1] \in Nat /\ k[2] \in Nat
    BY PmmAssumption, SMTT(60)
  <2>2. p \in reserve_range(top, k[1], k[2]) <=> k[1] < k[2] /\ k[1] < n + FrameSize /\ n < k[2] /\ n < top
    BY <1>2, <2>1, ReservedPages
  <2>3. Bytes(p) = n..(n + FrameSize - 1)
    BY PagesFit
  <2> HIDE DEF n, top
  <2>4. ASSUME k[1] < k[2], k[1] < n + FrameSize, n < k[2]
        PROVE  \E b \in Bytes(p) : k[1] <= b /\ b < k[2]
    <3>1. CASE k[1] <= n
      <4>1. n \in Bytes(p)
        BY <1>1, <2>3, SMTT(60)
      <4> QED
        BY <2>4, <3>1, <4>1
    <3>2. CASE n < k[1]
      <4>1. k[1] \in Bytes(p)
        BY <1>1, <2>1, <2>3, <2>4, <3>2, SMTT(60)
      <4> QED
        BY <2>1, <2>4, <4>1, SMTT(60)
    <3> QED
      BY <1>1, <2>1, <3>1, <3>2, SMTT(60)
  <2>5. ASSUME NEW b \in Bytes(p), k[1] <= b, b < k[2]
        PROVE  k[1] < k[2] /\ k[1] < n + FrameSize /\ n < k[2]
    BY <1>1, <2>1, <2>3, <2>5, SMTT(60)
  <2> QED
    BY <1>2, <2>2, <2>4, <2>5
<1>5. p \in Reserved(kept, top) <=>
        \/ p \in reserve_range(top, 0, LowPages * FrameSize)
        \/ \E k \in kept : p \in reserve_range(top, k[1], k[2])
  BY DEF Reserved
<1> QED
  BY <1>3, <1>4, <1>5 DEF Kept

\* What pmm_init() leaves clear is what may be used.
LEMMA UsableExact ==
  ASSUME map \in Entries \X Entries, kept \subseteq KeptRanges
  PROVE  /\ \A p \in Pages : p \in Usable <=> Conventional(p) /\ ~Kept(p) /\ p >= LowPages
         /\ Usable \subseteq Pages /\ Usable \subseteq 0..(g_total_pages - 1)
         /\ 0..(g_total_pages - 1) \subseteq Pages
<1> DEFINE top == consider_max(map)
           limit == PmmPages * FrameSize
<1>1. /\ FrameSize \in Nat /\ FrameSize > 0 /\ PmmPages \in Nat /\ LowPages \in Nat
      /\ limit \in Nat /\ top \in 0..limit
  BY TopOfMemory, PmmAssumption, SMTT(60)
<1>2. /\ g_total_pages \in Nat
      /\ \A p \in Nat : p < g_total_pages <=> p * FrameSize + FrameSize <= top
  <2> DEFINE q == top \div FrameSize
             r == top % FrameSize
  <2>1. q \in Nat /\ r \in 0..(FrameSize - 1) /\ top = FrameSize * q + r
    BY <1>1, SMTT(60)
  <2>2. g_total_pages = q
    BY DEF g_total_pages
  <2> HIDE DEF q, r, top
  <2>3. ASSUME NEW p \in Nat
        PROVE  p < q <=> p * FrameSize + FrameSize <= top
    <3>1. /\ p * FrameSize \in Int /\ q * FrameSize \in Int /\ FrameSize * q = q * FrameSize
          /\ p < q => p * FrameSize + FrameSize <= q * FrameSize
          /\ p * FrameSize < q * FrameSize => p < q
      BY <1>1, <2>1, Multiples, SMTT(60)
    <3> DEFINE m == q * FrameSize
               n == p * FrameSize
    <3> HIDE DEF m, n
    <3>2. /\ n \in Int /\ m \in Int /\ top = m + r
          /\ (p < q => n + FrameSize <= m) /\ (n < m => p < q)
      BY <2>1, <3>1 DEF m, n
    <3> QED
      BY <1>1, <2>1, <3>2, SMTT(60) DEF n
  <2> QED
    BY <2>1, <2>2, <2>3 DEF top
<1>3. ASSUME NEW p \in Nat, p < g_total_pages PROVE p \in Pages
  <2>1. p * FrameSize + FrameSize <= limit /\ p * FrameSize \in Int
    BY <1>1, <1>2, <1>3, SMTT(60)
  <2>2. p * FrameSize < limit
    BY <1>1, <2>1, SMTT(60)
  <2>3. p < PmmPages
    BY <1>1, <2>2, Multiples, SMTT(60)
  <2> QED
    BY <1>1, <2>3, SMTT(60) DEF Pages
<1>4. Usable \subseteq Pages
  <2>1. \A i \in DOMAIN map : release_range(top, map[i].start, EndOf(map[i])) \subseteq Pages
    BY DEF release_range
  <2> QED
    BY <2>1 DEF Usable, Released
<1>5. ASSUME NEW p \in Pages PROVE p \in Usable <=> Conventional(p) /\ ~Kept(p) /\ p >= LowPages
  <2>1. /\ p \in Released(map, top) <=> Conventional(p)
        /\ Conventional(p) => p * FrameSize + FrameSize <= top
    BY ConventionalReleased
  <2>2. p * FrameSize + FrameSize <= top => (p \in Reserved(kept, top) <=> Kept(p) \/ p < LowPages)
    BY KeptReserved
  <2>3. p >= LowPages <=> ~(p < LowPages)
    BY <1>1, SMTT(60) DEF Pages
  <2> QED
    BY <2>1, <2>2, <2>3 DEF Usable
<1>6. ASSUME NEW p \in Usable PROVE p \in 0..(g_total_pages - 1)
  <2>1. p \in Pages /\ p \in Released(map, top)
    BY <1>4 DEF Usable
  <2>2. p * FrameSize + FrameSize <= top
    BY <2>1, ConventionalReleased
  <2> QED
    BY <1>2, <2>1, <2>2, SMTT(60) DEF Pages
<1>7. 0..(g_total_pages - 1) \subseteq Pages
  BY <1>2, <1>3, SMTT(60)
<1> QED
  BY <1>4, <1>5, <1>6, <1>7

\* The pages nobody has: usable, and not out.
LEMMA AvailableExact ==
  ASSUME map \in Entries \X Entries, kept \subseteq KeptRanges,
         out \subseteq Usable, used = (Pages \ Usable) \cup out
  PROVE  Available = Usable \ out /\ IsFiniteSet(Usable \ out)
<1>1. Usable \subseteq 0..(g_total_pages - 1) /\ 0..(g_total_pages - 1) \subseteq Pages
  BY UsableExact
<1>2. Usable \subseteq Pages /\ Usable \ out \subseteq Pages
  BY <1>1
<1>3. Available = Usable \ out
  BY <1>1 DEF Available
<1>4. IsFiniteSet(Pages)
  BY PmmAssumption, FS_Interval, SMTT(60) DEF Pages
<1> QED
  BY <1>2, <1>3, <1>4, FS_Subset

\* pmm_init() leaves the bitmap and the count exact.
LEMMA PmmInitInv == PmmInit => PmmInv
<1> SUFFICES ASSUME PmmInit PROVE PmmInv
  OBVIOUS
<1>1. map \in Entries \X Entries /\ kept \subseteq KeptRanges /\ out = {}
  BY DEF PmmInit
<1>2. used = (Pages \ Released(map, consider_max(map))) \cup Reserved(kept, consider_max(map))
  BY DEF PmmInit, pmm_init
<1>3. Reserved(kept, consider_max(map)) \subseteq Pages
  <2>1. \A s, e : reserve_range(consider_max(map), s, e) \subseteq Pages
    BY DEF reserve_range
  <2> QED
    BY <2>1 DEF Reserved
<1>4. used = (Pages \ Usable) \cup out /\ out \subseteq Usable
  BY <1>1, <1>2, <1>3 DEF Usable
<1>5. {p \in Pages \ used : p < g_total_pages} = Usable \ out
  <2>1. Usable \subseteq Pages /\ Usable \subseteq 0..(g_total_pages - 1)
    BY <1>1, UsableExact
  <2>2. \A p \in 0..(g_total_pages - 1) : p < g_total_pages
    BY TopOfMemory, PmmAssumption, <1>1, SMTT(60) DEF g_total_pages
  <2> QED
    BY <1>1, <1>4, <2>1, <2>2
<1>6. free_pages = Cardinality(Usable \ out)
  BY <1>5 DEF PmmInit, pmm_init, g_total_pages
<1> QED
  BY <1>1, <1>4, <1>6 DEF PmmInv

\* Allocating and freeing a page keep them.
LEMMA PmmStepInv == PmmInv /\ [PmmNext]_pmmVars => PmmInv'
<1> SUFFICES ASSUME PmmInv, [PmmNext]_pmmVars PROVE PmmInv'
  OBVIOUS
<1>1. /\ map \in Entries \X Entries /\ kept \subseteq KeptRanges
      /\ out \subseteq Usable /\ used = (Pages \ Usable) \cup out
      /\ free_pages = Cardinality(Usable \ out)
      /\ Available = Usable \ out /\ IsFiniteSet(Usable \ out)
  BY AvailableExact DEF PmmInv
<1>2. ASSUME map' = map, kept' = kept PROVE Usable' = Usable
  BY <1>2, SMTT(60) DEF Usable, Released, Reserved
<1> DEFINE u == Usable
<1>3. CASE pmm_alloc_page
  <2> DEFINE x == Min(Available)
  <2>1. /\ Available # {} /\ used' = used \cup {x} /\ out' = out \cup {x}
        /\ map' = map /\ kept' = kept
        /\ free_pages' = IF free_pages # 0 THEN free_pages - 1 ELSE 0
    BY <1>3 DEF pmm_alloc_page
  <2>2. x \in u \ out
    <3>1. Available \subseteq Nat
      BY SMTT(60) DEF Available
    <3> QED
      BY <1>1, <2>1, <3>1, MinIsLeast
  <2> HIDE DEF x, u
  <2>3. used' = (Pages \ u) \cup out' /\ out' \subseteq u /\ u \ out' = (u \ out) \ {x}
    BY <1>1, <2>1, <2>2 DEF u
  <2>4. /\ Cardinality(u \ out') = Cardinality(u \ out) - 1
        /\ Cardinality(u \ out) \in Nat /\ Cardinality(u \ out') \in Nat
    <3>1. IsFiniteSet(u \ out)
      BY <1>1 DEF u
    <3>2. IsFiniteSet((u \ out) \ {x}) /\ Cardinality((u \ out) \ {x}) = Cardinality(u \ out) - 1
      BY <2>2, <3>1, FS_RemoveElement
    <3> QED
      BY <2>3, <3>1, <3>2, FS_CardinalityType
  <2>5. free_pages' = Cardinality(u \ out')
    <3>1. free_pages = Cardinality(u \ out)
      BY <1>1 DEF u
    <3> QED
      BY <2>1, <2>4, <3>1, SMTT(60)
  <2> QED
    BY <1>1, <1>2, <2>1, <2>3, <2>5 DEF PmmInv, u
<1>4. ASSUME NEW p \in out, pmm_free_page(p) PROVE PmmInv'
  <2>1. /\ used' = used \ {p} /\ out' = out \ {p} /\ map' = map /\ kept' = kept
        /\ free_pages' = IF p \in used THEN free_pages + 1 ELSE free_pages
    BY <1>4 DEF pmm_free_page
  <2>2. used' = (Pages \ u) \cup out' /\ p \in used /\ p \in u
    BY <1>1, <2>1
  <2> HIDE DEF u
  <2>3. u \ out' = (u \ out) \cup {p} /\ p \notin u \ out
    BY <2>1, <2>2
  <2>4. Cardinality(u \ out') = Cardinality(u \ out) + 1
    <3>1. IsFiniteSet(u \ out)
      BY <1>1 DEF u
    <3> QED
      BY <2>3, <3>1, FS_AddElement
  <2>5. free_pages' = Cardinality(u \ out')
    BY <1>1, <2>1, <2>2, <2>4 DEF u
  <2> QED
    BY <1>1, <1>2, <2>1, <2>2, <2>5 DEF PmmInv, u
<1>5. CASE UNCHANGED pmmVars
  <2>1. map' = map /\ kept' = kept /\ used' = used /\ out' = out /\ free_pages' = free_pages
    BY <1>5 DEF pmmVars
  <2> QED
    BY <1>1, <1>2, <2>1 DEF PmmInv
<1> QED
  BY <1>3, <1>4, <1>5 DEF PmmNext

\* It says that a page can be handed out exactly when it is usable memory nobody has.
LEMMA PmmInvSays == PmmInv => PagesExact
<1> SUFFICES ASSUME PmmInv PROVE PagesExact
  OBVIOUS
<1>1. /\ out \subseteq Usable /\ Usable \subseteq Pages
      /\ \A p \in Pages : p \in Usable <=> Conventional(p) /\ ~Kept(p) /\ p >= LowPages
  BY UsableExact DEF PmmInv
<1>2. Available = Usable \ out /\ free_pages = Cardinality(Available)
  BY AvailableExact DEF PmmInv
<1>3. OnlyUsableMemory
  BY <1>1, <1>2 DEF OnlyUsableMemory
<1>4. NothingWithheld
  BY <1>1, <1>2 DEF NothingWithheld
<1> QED
  BY <1>2, <1>3, <1>4 DEF PagesExact

\* PagesExact: pmm_alloc_page() hands out usable memory nobody has, and has a page
\* for as long as there is one.
THEOREM PmmPagesExact == PmmSpec => []PagesExact
  BY PmmInitInv, PmmStepInv, PmmInvSays, PTL DEF PmmSpec
=============================================================================

--------------------------------- MODULE Heap ---------------------------------
(***************************************************************************)
(* kernel/mm/heap.c: the kernel heap, a doubly linked list of blocks whose *)
(* headers live in the arena itself.                                       *)
(*                                                                         *)
(* kmalloc() and kfree() run with interrupts closed: one step each.  The   *)
(* arena starts at address 0; hdr maps an address to the header written    *)
(* there; one that is merged away is forgotten, since a caller that frees  *)
(* each pointer once never looks at it again.  live is what the callers    *)
(* hold: the pointers kmalloc() returned and kfree() has not got back,     *)
(* with the size asked for.  g_used_bytes, which nothing reads, is left    *)
(* out.                                                                    *)
(***************************************************************************)
EXTENDS Integers, FiniteSets

CONSTANTS PageSize,      \* PAGE_SIZE
          HeaderSize,    \* HEADER_SIZE
          Alignment,     \* HEAP_ALIGNMENT
          HeapPages,      \* pages between HEAP_BASE and HEAP_LIMIT
          Sizes          \* the arguments of kmalloc()

ASSUME HeapAssumption ==
  /\ PageSize \in Nat \ {0}
  /\ HeaderSize \in Nat \ {0}
  /\ Alignment \in Nat \ {0}
  /\ HeapPages \in Nat
  /\ Sizes \subseteq Nat \ {0}
  /\ HeaderSize % Alignment = 0
  /\ PageSize % Alignment = 0

VARIABLES hdr,           \* see above
          head,          \* g_head
          heap_next,     \* g_heap_next
          free_bytes,    \* g_free_bytes
          allocations,   \* g_allocations
          live,          \* see above: a set of <<pointer, size>>
          mapped,        \* pages of the arena the kernel's tables map
          taken          \* page frames the heap has from PMM

heapVars == <<hdr, head, heap_next, free_bytes, allocations, live, mapped, taken>>

Null == -1
Addrs == {a \in 0..(HeapPages * PageSize - 1) : a % Alignment = 0}

Header == [magic : BOOLEAN, size : Nat, capacity : Nat, free : BOOLEAN,
           prev : Addrs \cup {Null}, next : Addrs \cup {Null}]

NoHeader == [magic |-> FALSE, size |-> 0, capacity |-> 0, free |-> FALSE,
             prev |-> Null, next |-> Null]

HeapTypeOK ==
  /\ hdr \in [Addrs -> Header]
  /\ head \in Addrs \cup {Null}
  /\ heap_next \in 0..(HeapPages * PageSize)
  /\ free_bytes \in Nat
  /\ allocations \in Nat
  /\ live \subseteq Addrs \X Sizes
  /\ mapped \subseteq 0..(HeapPages - 1)
  /\ taken \in Nat

heap_init ==
  /\ hdr = [a \in Addrs |-> NoHeader]
  /\ head = Null
  /\ heap_next = 0
  /\ free_bytes = 0 /\ allocations = 0
  /\ live = {}
  /\ mapped = {} /\ taken = 0

\* align_up_u64()
AlignUp(n, k) == ((n + k - 1) \div k) * k

\* The blocks.  Every header in memory is one of the list, which is in address
\* order (BlocksTile): code that walks the list meets lower addresses first.
Blocks == {a \in Addrs : hdr[a].magic}

End(b) == b + HeaderSize + hdr[b].capacity

\* block_basic_valid()
block_basic_valid(b) ==
  /\ b < heap_next
  /\ hdr[b].magic
  /\ hdr[b].capacity # 0 /\ hdr[b].size <= hdr[b].capacity
  /\ End(b) <= heap_next
  /\ hdr[b].prev # Null => hdr[b].prev < heap_next
  /\ hdr[b].next # Null => hdr[b].next < heap_next

heap_validate ==
  /\ \A b \in Blocks :
       /\ block_basic_valid(b)
       /\ hdr[b].next # Null => hdr[hdr[b].next].prev = b
       /\ hdr[b].prev = Null <=> b = head
  /\ head # Null => hdr[head].prev = Null

-----------------------------------------------------------------------------
(* kmalloc() *)

\* Mutant: a free block is taken if it is large enough with its header.
FitsWithHeader(b, req) == hdr[b].free /\ HeaderSize + hdr[b].capacity >= req

Fits(b, req) == hdr[b].free /\ hdr[b].capacity >= req

\* Mutant: the block after the tail keeps its old link back.
SplitUnlinked(b, req) ==
  LET tail == b + HeaderSize + req
      rest == hdr[b].capacity - req - HeaderSize
  IN [hdr EXCEPT ![b].size = req, ![b].capacity = req, ![b].free = FALSE, ![b].next = tail,
                 ![tail] = [magic |-> TRUE, size |-> rest, capacity |-> rest, free |-> TRUE,
                            prev |-> b, next |-> hdr[b].next]]

\* The headers after split_block() has cut a tail off block b.
Split(b, req) ==
  LET tail == b + HeaderSize + req
      rest == hdr[b].capacity - req - HeaderSize
      next == hdr[b].next
      cut == [hdr EXCEPT ![b] = [@ EXCEPT !.size = req, !.capacity = req, !.free = FALSE,
                                       !.next = tail],
                         ![tail] = [magic |-> TRUE, size |-> rest, capacity |-> rest,
                                    free |-> TRUE, prev |-> b, next |-> next]]
  IN IF next = Null THEN cut ELSE [cut EXCEPT ![next].prev = tail]

WorthSplitting(b, req) == hdr[b].capacity - req >= HeaderSize + Alignment

Returned(b, size) ==
  /\ live' = live \cup {<<b + HeaderSize, size>>}
  /\ allocations' = allocations + 1

\* First fit, with the tail split off if it is large enough.
Reuse(size, req) ==
  \E b \in Blocks :
    /\ Fits(b, req)
    /\ \A a \in Blocks : a < b => ~Fits(a, req)
    /\ IF WorthSplitting(b, req)
         THEN /\ hdr' = Split(b, req)
              /\ free_bytes' = free_bytes - HeaderSize - req
         ELSE /\ hdr' = [hdr EXCEPT ![b] = [@ EXCEPT !.free = FALSE, !.size = hdr[b].capacity]]
              /\ free_bytes' = free_bytes - hdr[b].capacity
    /\ Returned(b, size)
    /\ UNCHANGED <<head, heap_next, mapped, taken>>

\* vmm_map_page() on each page of a range with a frame from PMM; and, for those
\* that are translated, vmm_unmap_page() with the frame given back.
MapFrames(m, range) ==
  [m EXCEPT !.mapped = @ \cup range, !.taken = @ + Cardinality(range)]
UnmapFrames(m, range) ==
  [m EXCEPT !.mapped = @ \ range, !.taken = @ - Cardinality(range \cap m.mapped)]

\* Mutant: the pages before the one that fails stay mapped.
MapSomePages(first, pages, bad) ==
  LET good == first..(first + (IF bad = 0 THEN pages ELSE bad - 1) - 1)
  IN [ok |-> bad = 0, mapped |-> mapped \cup good, taken |-> taken + Cardinality(good)]

\* map_new_pages(): when PMM has no frame for page number `bad' or the tables
\* refuse it, the pages before it are unmapped and their frames freed.
map_new_pages(first, pages, bad) ==
  LET good == first..(first + (IF bad = 0 THEN pages ELSE bad - 1) - 1)
      m == MapFrames([ok |-> bad = 0, mapped |-> mapped, taken |-> taken], good)
  IN IF m.ok THEN m ELSE UnmapFrames(m, good)

\* Fresh pages at the end of the arena become one used block.
NewBlock(size, req, pages) ==
  LET b == heap_next
      new(p) == [magic |-> TRUE, size |-> req, capacity |-> pages * PageSize - HeaderSize,
                 free |-> FALSE, prev |-> p, next |-> Null]
  IN /\ IF head = Null
          THEN hdr' = [hdr EXCEPT ![b] = new(Null)] /\ head' = b
          ELSE /\ \E t \in Blocks :
                    /\ hdr[t].next = Null
                    /\ hdr' = [hdr EXCEPT ![t] = [@ EXCEPT !.next = b], ![b] = new(t)]
               /\ UNCHANGED head
     /\ heap_next' = heap_next + pages * PageSize
     /\ Returned(b, size)
     /\ UNCHANGED free_bytes

Grow(size, req) ==
  LET pages == AlignUp(HeaderSize + req, PageSize) \div PageSize
  IN /\ \A a \in Blocks : ~Fits(a, req)
     /\ pages <= HeapPages - heap_next \div PageSize
     /\ \E bad \in 0..pages : \E m \in {map_new_pages(heap_next \div PageSize, pages, bad)} :
          /\ mapped' = m.mapped /\ taken' = m.taken
          /\ IF m.ok THEN NewBlock(size, req, pages)
             ELSE UNCHANGED <<hdr, head, heap_next, free_bytes, allocations, live>>

kmalloc(size) ==
  /\ heap_validate
  /\ Reuse(size, AlignUp(size, Alignment)) \/ Grow(size, AlignUp(size, Alignment))

-----------------------------------------------------------------------------
(* kfree() *)

\* The headers h after merge_with_next() on block b.
merge_with_next(h, b) ==
  LET n == h[b].next IN
  IF n = Null \/ ~h[n].free THEN h
  ELSE LET cap == h[b].capacity + HeaderSize + h[n].capacity
           joined == [h EXCEPT ![b] = [@ EXCEPT !.capacity = cap, !.size = cap, !.next = h[n].next],
                               ![n] = NoHeader]
       IN IF h[n].next = Null THEN joined ELSE [joined EXCEPT ![h[n].next].prev = b]

MergesWith(b) == b # Null /\ hdr[b].free

\* Mutant: only the block behind is merged.
MergeForward(b) == merge_with_next([hdr EXCEPT ![b].free = TRUE], b)

\* Forward, then backward into a free block before it.
Merged(b) ==
  LET freed == merge_with_next([hdr EXCEPT ![b].free = TRUE], b)
      p == freed[b].prev
  IN IF MergesWith(p) THEN merge_with_next(freed, p) ELSE freed

\* What g_free_bytes gains: the block and the header of each merged neighbour.
Freed(b) ==
  hdr[b].capacity
    + (IF MergesWith(hdr[b].next) THEN HeaderSize ELSE 0)
    + (IF MergesWith(hdr[b].prev) THEN HeaderSize ELSE 0)

\* kfree() of a pointer kmalloc() returned.
kfree(ptr, size) ==
  LET b == ptr - HeaderSize IN
  /\ <<ptr, size>> \in live
  /\ hdr[b].magic /\ ~hdr[b].free
  /\ heap_validate
  /\ hdr' = Merged(b)
  /\ free_bytes' = free_bytes + Freed(b)
  /\ allocations' = allocations - 1
  /\ live' = live \ {<<ptr, size>>}
  /\ UNCHANGED <<head, heap_next, mapped, taken>>

-----------------------------------------------------------------------------
HeapNext == (\E size \in Sizes : kmalloc(size)) \/ (\E l \in live : kfree(l[1], l[2]))

HeapSpec == heap_init /\ [][HeapNext]_heapVars

-----------------------------------------------------------------------------
\* The blocks cover the arena from its start to g_heap_next without a gap or an
\* overlap, in address order, and the links agree: the integrity check of the
\* main loop, which stops the system, never fails on a sound heap.
BlocksTile ==
  /\ heap_validate
  /\ heap_next > 0 => head = 0
  /\ \A b \in Blocks :
       End(b) = IF hdr[b].next # Null THEN hdr[b].next ELSE heap_next

\* Each pointer a caller holds is the payload of a used block of its own, large
\* enough for what it asked for; no used block is without an owner.
LiveBlocksOwned ==
  /\ \A l \in live :
       /\ l[1] - HeaderSize \in Blocks
       /\ ~hdr[l[1] - HeaderSize].free
       /\ hdr[l[1] - HeaderSize].capacity >= l[2]
  /\ \A b \in Blocks : ~hdr[b].free => \E l \in live : l[1] = b + HeaderSize
  /\ \A l, m \in live : l[1] = m[1] => l = m

\* Two free blocks are never neighbours, so that a request fails only when no
\* run of free memory is long enough for it.
Coalesced ==
  \A b \in Blocks : hdr[b].free /\ hdr[b].next # Null => ~hdr[hdr[b].next].free

\* The pages below g_heap_next, and only they, are mapped and have a frame, also
\* after growing failed at any page (map_new_pages() undoes what it did).
BackedExactly ==
  /\ mapped = 0..(heap_next \div PageSize - 1)
  /\ taken = Cardinality(mapped)

\* What kmalloc() and kfree() leave behind, whatever their order: blocks that tile
\* the arena, pointers with a block of their own, no two free neighbours, and
\* pages behind all of it and nothing else.
HeapSound == BlocksTile /\ LiveBlocksOwned /\ Coalesced /\ BackedExactly
=============================================================================

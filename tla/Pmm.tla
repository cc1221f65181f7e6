--------------------------------- MODULE Pmm ---------------------------------
(***************************************************************************)
(* kernel/mm/pmm.c: the bitmap allocator of physical pages.  pmm_init()    *)
(* builds the bitmap from the UEFI memory map, whatever map the firmware   *)
(* gives (its entries may overlap, be empty, lie above the tracked range   *)
(* or overflow the address width); after that pages are taken and given    *)
(* back one by one.                                                        *)
(*                                                                         *)
(* Addresses are numbers below 2^Width and FrameSize of them make a page.   *)
(* The owners of the kernel image, the boot information, the memory map    *)
(* and the framebuffer are the byte ranges of `kept'.                      *)
(***************************************************************************)
EXTENDS Integers, FiniteSets, FiniteSetsExt, Sequences

CONSTANTS FrameSize,     \* PAGE_SIZE
          Width,        \* width of an address in bits
          PmmPages,     \* PMM_MAX_PAGES
          LowPages,     \* pages of the low 2 MiB
          Entries,      \* memory map entries the firmware may report
          KeptRanges    \* byte ranges the loader may have allocated

ASSUME PmmAssumption ==
  /\ FrameSize \in Nat \ {0} /\ Width \in Nat /\ PmmPages \in Nat /\ LowPages \in Nat \ {0}
  /\ (PmmPages + 1) * FrameSize <= 2^Width
  /\ Entries \subseteq [conventional : BOOLEAN, start : 0..(2^Width - 1),
                        number_of_pages : 0..(2^Width - 1)]
  /\ KeptRanges \subseteq (0..(2^Width - 1)) \X (0..(2^Width - 1))

VARIABLES map,          \* the memory map, a sequence of entries
          kept,         \* the ranges reserved besides the low 2 MiB
          used,         \* pages whose bit is set
          free_pages,   \* g_free_pages
          out           \* history: pages handed out and not given back

pmmVars == <<map, kept, used, free_pages, out>>

MaxAddress == 2^Width - 1
Pages == 0..(PmmPages - 1)

AlignDown(a) == a - (a % FrameSize)
FrameAlignUp(a) ==
  IF a > MaxAddress - (FrameSize - 1) THEN AlignDown(MaxAddress)
  ELSE AlignDown(a + FrameSize - 1)

\* The end of an entry: both the product and the sum saturate.
EndOf(e) ==
  LET bytes == IF e.number_of_pages > MaxAddress \div FrameSize THEN MaxAddress
               ELSE e.number_of_pages * FrameSize
  IN IF e.start + bytes > MaxAddress THEN MaxAddress ELSE e.start + bytes

\* consider_max() over the map: the first address past the tracked pages.
consider_max(mp) ==
  LET limit == PmmPages * FrameSize
      ends == {Min({EndOf(mp[i]), limit}) :
                 i \in {j \in DOMAIN mp : /\ mp[j].number_of_pages # 0
                                          /\ mp[j].start < limit}}
  IN Max(ends \cup {0})

\* Mutant: the last page of a range is left out.
ReleaseShort(top, start, end) ==
  {p \in Pages : /\ FrameAlignUp(start) <= p * FrameSize
                 /\ (p + 1) * FrameSize < Min({AlignDown(end), top})}

\* The pages release_range() clears: those that lie wholly in the range.
release_range(top, start, end) ==
  IF end <= start THEN {}
  ELSE {p \in Pages : /\ FrameAlignUp(start) <= p * FrameSize
                      /\ p * FrameSize < Min({AlignDown(end), top})}

\* Mutant: a reserved range is rounded inwards, like a released one.
ReserveInwards(top, start, end) == release_range(top, start, end)

\* The pages reserve_range() sets: those the range touches.
reserve_range(top, start, end) ==
  IF end <= start THEN {}
  ELSE {p \in Pages : /\ AlignDown(start) <= p * FrameSize
                      /\ p * FrameSize < Min({FrameAlignUp(end), top})}

\* Only conventional memory becomes allocatable.
Released(mp, top) ==
  UNION {release_range(top, mp[i].start, EndOf(mp[i])) :
           i \in {j \in DOMAIN mp : mp[j].conventional}}

Reserved(ks, top) ==
  reserve_range(top, 0, LowPages * FrameSize)
    \cup UNION {reserve_range(top, k[1], k[2]) : k \in ks}

g_total_pages == consider_max(map) \div FrameSize

\* pmm_init(): the bitmap of used pages, and the recount of the free ones.
pmm_init ==
  LET top == consider_max(map)
  IN /\ used = (Pages \ Released(map, top)) \cup Reserved(kept, top)
     /\ free_pages = Cardinality({p \in Pages \ used : p < top \div FrameSize})

PmmInit ==
  /\ map \in Entries \X Entries
  /\ \E k \in KeptRanges : kept = {k}
  /\ pmm_init
  /\ out = {}

Available == {p \in 0..(g_total_pages - 1) : p \notin used}

\* pmm_alloc_page(): the first clear bit.
pmm_alloc_page ==
  /\ Available # {}
  /\ used' = used \cup {Min(Available)}
  /\ free_pages' = IF free_pages # 0 THEN free_pages - 1 ELSE 0
  /\ out' = out \cup {Min(Available)}
  /\ UNCHANGED <<map, kept>>

\* pmm_free_page() of a page its holder got from pmm_alloc_page().
pmm_free_page(p) ==
  /\ p \in out
  /\ p < g_total_pages
  /\ used' = used \ {p}
  /\ free_pages' = IF p \in used THEN free_pages + 1 ELSE free_pages
  /\ out' = out \ {p}
  /\ UNCHANGED <<map, kept>>

PmmNext == pmm_alloc_page \/ \E p \in out : pmm_free_page(p)

PmmSpec == PmmInit /\ [][PmmNext]_pmmVars

-----------------------------------------------------------------------------
(* Properties                                                              *)

PmmTypeOK ==
  /\ used \subseteq Pages
  /\ free_pages \in 0..PmmPages
  /\ out \subseteq Pages

\* Every byte of page p belongs to a conventional entry / is kept by someone.
Bytes(p) == (p * FrameSize)..((p + 1) * FrameSize - 1)
Conventional(p) ==
  \E i \in DOMAIN map :
    map[i].conventional /\ \A b \in Bytes(p) : map[i].start <= b /\ b < EndOf(map[i])
Kept(p) == \E k \in kept : \E b \in Bytes(p) : k[1] <= b /\ b < k[2]

\* The header comment of pmm.c: "release only EfiConventionalMemory, then
\* reserve regions occupied by the kernel, boot information, memory map,
\* framebuffer and low boot memory".  A page that is free or has been handed
\* out is wholly conventional memory, no byte of it is anybody else's, and it is
\* not page 0, whose address means failure.
OnlyUsableMemory ==
  \A p \in out \cup Available :
    Conventional(p) /\ ~Kept(p) /\ p >= LowPages

\* Nothing usable is withheld: a conventional page below the limit that nobody
\* keeps is free or handed out, never both.
NothingWithheld ==
  \A p \in Pages :
    Conventional(p) /\ ~Kept(p) /\ p >= LowPages =>
      (p \in out) # (p \in Available)

\* The bitmap pmm_init() builds from any memory map, and that allocating and
\* freeing keep: exactly the usable pages are free or handed out, and
\* pmm_free_pages() is the number of pages there still are.
PagesExact ==
  OnlyUsableMemory /\ NothingWithheld /\ free_pages = Cardinality(Available)
=============================================================================

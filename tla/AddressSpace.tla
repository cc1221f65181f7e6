----------------------------- MODULE AddressSpace -----------------------------
(***************************************************************************)
(* User memory: the physical page allocator (kernel/mm/pmm.c), the private *)
(* page-table hierarchies (kernel/mm/paging.c), the user pages a process   *)
(* records (kernel/core/process/process.c), the ELF loader's mapping loop  *)
(* and the MMAP, MUNMAP and BRK system calls that drive them.              *)
(*                                                                         *)
(* A page is a number and pages 0..(Frames-1) are both the frames and the  *)
(* virtual pages: paging_init() maps the low 4 GiB onto itself with huge   *)
(* pages and every user address the kernel chooses lies below 4 GiB, so a  *)
(* user page v is first seen as the identity mapping of frame v.  A huge   *)
(* page covers Span pages.  A process starts with a copy of the kernel's   *)
(* tables; mapping a page splits the huge page over it into a private      *)
(* table (pt) of leaves (leaf).                                            *)
(*                                                                         *)
(* The kernel is cooperative and a system call runs to its end, so each    *)
(* call is one step.  The page loops are folds over the memory record      *)
(* [free, pt, leaf, pages] of one process.                                 *)
(***************************************************************************)
EXTENDS Integers, FiniteSets, FiniteSetsExt, SequencesExt, TLC

CONSTANTS Procs,          \* process table entries
          Frames,         \* number of physical pages
          Pool,           \* frames pmm_init() leaves free
          Span,           \* pages under one huge page
          CloneTables,    \* tables of the kernel hierarchy, the root included
          MaxPages,       \* PROCESS_USER_MAX_PAGES
          ImagePages,     \* virtual pages of the ELF image and its stack
          StackPages,     \* those of the stack
          DataPages,      \* those of writable segments
          HeapBase,       \* heap_base of a new process
          HeapTop         \* bound: how far a heap grows

ASSUME MemoryAssumption ==
  /\ Frames \in Nat /\ Span \in Nat \ {0} /\ CloneTables \in Nat \ {0}
  /\ Pool \subseteq 1..(Frames - 1)
  /\ MaxPages \in Nat /\ HeapBase \in Nat /\ HeapTop \in HeapBase..(Frames - 1)
  /\ ImagePages \subseteq 1..(HeapBase - 1)
  /\ StackPages \subseteq ImagePages /\ DataPages \subseteq ImagePages \ StackPages

VARIABLES free,       \* frames whose bitmap bit is clear
          life,       \* life of each process
          tables,     \* frames of the cloned part of each hierarchy
          pt,         \* table that splits each huge page, 0 = not split
          leaf,       \* leaves of the split huge pages
          pages,      \* user_page_va -> user_page_phys of each process
          heap_end,
          lost        \* history: frames no table or process refers to

spaceVars == <<free, life, tables, pt, leaf, pages, heap_end, lost>>

Page == 0..(Frames - 1)
Region == {v \div Span : v \in Page}
RegionOf(v) == v \div Span

Absent == [present |-> FALSE, frame |-> 0, user |-> FALSE]
Identity(v) == [present |-> TRUE, frame |-> v, user |-> FALSE]
UserLeaf(f) == [present |-> TRUE, frame |-> f, user |-> TRUE]

\* The frames a process's page tables stand in.
SplitTables(t) == {t[r] : r \in Region} \ {0}

SpacesTypeOK ==
  /\ free \subseteq Pool
  /\ life \in [Procs -> {"unused", "live", "zombie"}]
  /\ tables \in [Procs -> SUBSET Pool]
  /\ pt \in [Procs -> [Region -> Pool \cup {0}]]
  /\ \A p \in Procs : \A v \in Page :
       leaf[p][v] \in {Absent, Identity(v)} \cup {UserLeaf(f) : f \in Pool}
  /\ \A p \in Procs :
       /\ DOMAIN pages[p] \subseteq Page
       /\ \A v \in DOMAIN pages[p] : pages[p][v] \in Pool
       /\ Cardinality(DOMAIN pages[p]) <= MaxPages
  /\ heap_end \in [Procs -> HeapBase..HeapTop]
  /\ lost \subseteq Pool

NoPages == [v \in {} |-> 0]

SpacesInit ==
  /\ free = Pool
  /\ life = [p \in Procs |-> "unused"]
  /\ tables = [p \in Procs |-> {}]
  /\ pt = [p \in Procs |-> [r \in Region |-> 0]]
  /\ leaf = [p \in Procs |-> [v \in Page |-> Identity(v)]]
  /\ pages = [p \in Procs |-> NoPages]
  /\ heap_end = [p \in Procs |-> HeapBase]
  /\ lost = {}

-----------------------------------------------------------------------------
(* The memory of process p as one record, and a step that replaces it.     *)

Memory(p) == [free |-> free, pt |-> pt[p], leaf |-> leaf[p], pages |-> pages[p]]

SetMemory(p, m) ==
  /\ free' = m.free
  /\ pt' = [pt EXCEPT ![p] = m.pt]
  /\ leaf' = [leaf EXCEPT ![p] = m.leaf]
  /\ pages' = [pages EXCEPT ![p] = m.pages]

\* first_free(): the first page whose bit is clear.
first_free(f) == Min(f)

\* walk_create_root(): split the huge page over v unless that is done.
walk_create_root(m, v) ==
  IF m.pt[RegionOf(v)] # 0 THEN m
  ELSE LET table == first_free(m.free)
       IN [m EXCEPT !.free = @ \ {table},
                    !.pt[RegionOf(v)] = table,
                    !.leaf = [x \in Page |-> IF RegionOf(x) = RegionOf(v)
                                             THEN Identity(x) ELSE @[x]]]

\* map_page_root(): the memory after it and its result, -1, 1 or 0.
map_page_root(m, v, frame) ==
  IF m.pt[RegionOf(v)] = 0 /\ m.free = {} THEN [result |-> -1, mem |-> m]
  ELSE LET w == walk_create_root(m, v)
       IN IF w.leaf[v].present THEN [result |-> 1, mem |-> w]
          ELSE [result |-> 0, mem |-> [w EXCEPT !.leaf[v] = UserLeaf(frame)]]

\* process_map_user_page(): whether it succeeds, and the memory after it.  The
\* code takes result 0 of map_page_root(), a new mapping, for a failure, and 1
\* and -1 for success.
MapResult(m, v, frame) ==
  LET r == map_page_root([m EXCEPT !.free = @ \ {frame}], v, frame)
  IN IF r.result = 0
     THEN [ok |-> FALSE, mem |-> [r.mem EXCEPT !.free = @ \cup {frame}]]
     ELSE [ok |-> TRUE, mem |-> [r.mem EXCEPT !.pages = (v :> frame) @@ @]]

process_map_user_page(m, v) ==
  IF \/ Cardinality(DOMAIN m.pages) >= MaxPages
     \/ v \in DOMAIN m.pages
     \/ m.free = {}
  THEN [ok |-> FALSE, mem |-> m]
  ELSE MapResult(m, v, first_free(m.free))

\* virt_to_phys_root(): the frame page v is translated to, -1 when there is none.
virt_to_phys(m, v) ==
  IF m.pt[RegionOf(v)] = 0 THEN v
  ELSE IF m.leaf[v].present THEN m.leaf[v].frame ELSE -1

\* The loops of process_user_zero() and process_user_copy() over the pages vs end
\* early at a page without a translation.
process_user_zero(m, vs) == \A v \in vs : virt_to_phys(m, v) # -1
process_user_copy(m, vs) == \A v \in vs : virt_to_phys(m, v) # -1

\* A loop that maps the pages of vs in turn until one fails, or until one that
\* is to be zeroed is not translated; done holds the pages before that one.
MapLoop(m, vs, zero) ==
  FoldLeft(LAMBDA acc, v :
             IF ~acc.ok THEN acc
             ELSE LET r == process_map_user_page(acc.mem, v)
                      ok == r.ok /\ (zero => process_user_zero(r.mem, {v}))
                  IN [ok |-> ok, mem |-> r.mem,
                      done |-> IF ok THEN acc.done \cup {v} ELSE acc.done],
           [ok |-> TRUE, mem |-> m, done |-> {}], vs)

Ascending(S) ==
  [i \in 1..Cardinality(S) |-> CHOOSE x \in S : Cardinality({y \in S : y < x}) = i - 1]

\* The recorded pages in S are unmapped, their frames freed and their records
\* dropped: process_unmap_user_range(), and process_unmap_user_memory() when S
\* is everything.
Unmap(m, S) ==
  LET gone == S \cap DOMAIN m.pages
  IN [m EXCEPT !.free = @ \cup {m.pages[v] : v \in gone},
               !.leaf = [v \in Page |-> IF v \in gone /\ m.pt[RegionOf(v)] # 0
                                        THEN Absent ELSE @[v]],
               !.pages = [v \in DOMAIN @ \ S |-> @[v]]]

-----------------------------------------------------------------------------
(* The kernel's way to user memory.  The pages of a range stand for it.    *)

\* page_flags_for() returns an int, which loses the NX bit.
page_flags_for(v) == IF v \in DataPages THEN {"writable"} ELSE {}

\* user_page_flags: the loader's stack, MMAP and BRK ask for NX.
user_page_flags(v) ==
  IF v \in ImagePages \ StackPages THEN page_flags_for(v) ELSE {"writable", "nx"}

\* A page with NX is refused unless NX is asked for.
process_user_range_valid(p, vs, required) ==
  /\ life[p] = "live" /\ vs # {}
  /\ \A v \in vs : /\ v \in DOMAIN pages[p]
                   /\ required \subseteq user_page_flags(v)
                   /\ "nx" \in user_page_flags(v) => "nx" \in required

process_user_read(p, vs) ==
  process_user_range_valid(p, vs, {}) /\ \A v \in vs : virt_to_phys(Memory(p), v) # -1

process_user_write(p, vs) ==
  process_user_range_valid(p, vs, {"writable"}) /\ \A v \in vs : virt_to_phys(Memory(p), v) # -1

\* syscall_interrupt_handler() lets a call with this instruction pointer and this
\* stack pointer through to syscall_dispatch().
syscall_interrupt_handler(p, rip, rsp) ==
  /\ process_user_range_valid(p, {rip}, {})
  /\ process_user_range_valid(p, {rsp}, {"writable"})

\* Process p can make a system call: it moved its stack to where it may be.
MayCall(p) == \E rip, rsp \in DOMAIN pages[p] : syscall_interrupt_handler(p, rip, rsp)

-----------------------------------------------------------------------------
(* Operations                                                              *)

\* The first n frames the allocator hands out.
FirstFrames(n) == LET q == Ascending(free) IN {q[i] : i \in 1..n}

\* What clone_table() leaves allocated when memory runs out half way: it frees
\* the table it was filling, the first one it allocated, and not the children.
ClonedChildren == IF free = {} THEN {} ELSE free \ {first_free(free)}

\* process_create() when the kernel's tables cannot be copied.
CreateFails(p) ==
  /\ life[p] = "unused"
  /\ Cardinality(free) < CloneTables
  /\ lost' = lost \cup ClonedChildren
  /\ free' = free \ ClonedChildren
  /\ UNCHANGED <<life, tables, pt, leaf, pages, heap_end>>

\* The memory of a process fresh from process_create().
NewMemory ==
  [free |-> free \ FirstFrames(CloneTables), pt |-> [r \in Region |-> 0],
   leaf |-> [v \in Page |-> Identity(v)], pages |-> NoPages]

\* nexus_elf_load_process(): every page is mapped, then zeroed through the
\* process's tables, then the segments are copied.  The checks of the header and
\* of the entry may fail too (loads = FALSE).
nexus_elf_load_process(m, loads) ==
  LET r == MapLoop(m, Ascending(ImagePages), TRUE)
  IN IF r.ok /\ process_user_copy(r.mem, ImagePages \ StackPages) /\ loads
     THEN [ok |-> TRUE, mem |-> r.mem]
     ELSE [ok |-> FALSE, mem |-> Unmap(r.mem, Page)]

\* Mutant: the tables that split huge pages are not destroyed.
DestroyCloneOnly(clone, t) == clone

\* paging_destroy_address_space(): every private table is freed.
destroy_table(clone, t) == clone \cup SplitTables(t)

\* EXEC and the shell's run command: create a process and load its image.  When
\* the load fails the process exits and is reaped at once.
Launch(p, loads) ==
  LET r == nexus_elf_load_process(NewMemory, loads)
  IN /\ life[p] = "unused"
     /\ Cardinality(free) >= CloneTables
     /\ IF r.ok
        THEN /\ SetMemory(p, r.mem)
             /\ life' = [life EXCEPT ![p] = "live"]
             /\ tables' = [tables EXCEPT ![p] = FirstFrames(CloneTables)]
        ELSE /\ free' = r.mem.free \cup destroy_table(FirstFrames(CloneTables), r.mem.pt)
             /\ UNCHANGED <<life, tables, pt, leaf, pages>>
     /\ UNCHANGED <<heap_end, lost>>

\* process_alloc_user_range(): n pages from heap_end on, for MMAP and BRK.  A
\* page that cannot be mapped undoes the pages before it.
process_alloc_user_range(p, n) ==
  LET base == heap_end[p]
      vs == base..(base + n - 1)
      m == MapLoop(Memory(p), Ascending(vs), FALSE)
  IN /\ MayCall(p)
     /\ base + n <= HeapTop                                     \* bound
     /\ Cardinality(DOMAIN pages[p]) + n <= MaxPages
     /\ SetMemory(p, IF m.ok THEN m.mem
                     ELSE Unmap(m.mem, m.done))
     /\ heap_end' = [heap_end EXCEPT ![p] = IF m.ok THEN base + n ELSE base]
     /\ UNCHANGED <<life, tables, lost>>

\* BRK below the break unmaps the pages above the new one.
BrkShrink(p, cut) ==
  /\ MayCall(p)
  /\ heap_end[p] - cut >= HeapBase
  /\ SetMemory(p, Unmap(Memory(p), (heap_end[p] - cut)..(heap_end[p] - 1)))
  /\ heap_end' = [heap_end EXCEPT ![p] = @ - cut]
  /\ UNCHANGED <<life, tables, lost>>

\* MUNMAP of a page range; process_unmap_user_range() takes any range.
Munmap(p, first, n) ==
  /\ MayCall(p)
  /\ SetMemory(p, Unmap(Memory(p), first..(first + n - 1)))
  /\ UNCHANGED <<life, tables, heap_end, lost>>

\* process_exit_with_code() leaves the memory to process_reap().
process_exit_with_code(p) ==
  /\ life[p] = "live"
  /\ life' = [life EXCEPT ![p] = "zombie"]
  /\ UNCHANGED <<free, tables, pt, leaf, pages, heap_end, lost>>

\* process_reap(): the pages, then the tables; the entry is as process_init()
\* left it.
process_reap(p) ==
  /\ life[p] = "zombie"
  /\ life' = [life EXCEPT ![p] = "unused"]
  /\ free' = Unmap(Memory(p), Page).free \cup destroy_table(tables[p], pt[p])
  /\ tables' = [tables EXCEPT ![p] = {}]
  /\ pt' = [pt EXCEPT ![p] = [r \in Region |-> 0]]
  /\ leaf' = [leaf EXCEPT ![p] = [v \in Page |-> Identity(v)]]
  /\ pages' = [pages EXCEPT ![p] = NoPages]
  /\ heap_end' = [heap_end EXCEPT ![p] = HeapBase]
  /\ UNCHANGED lost

SpacesNext ==
  \E p \in Procs :
    \/ CreateFails(p)
    \/ \E loads \in BOOLEAN : Launch(p, loads)
    \/ \E n \in 1..(HeapTop - HeapBase) : process_alloc_user_range(p, n)
    \/ \E n \in 1..(HeapTop - HeapBase) : BrkShrink(p, n)
    \/ \E first \in ImagePages \cup (HeapBase..(HeapTop - 1)) : Munmap(p, first, 1)
    \/ process_exit_with_code(p)
    \/ process_reap(p)

SpacesSpec == SpacesInit /\ [][SpacesNext]_spaceVars

-----------------------------------------------------------------------------
(* Properties                                                              *)

\* What a process holds: its tables and the frames of its recorded pages.
Held(p) == tables[p] \cup SplitTables(pt[p])
             \cup {pages[p][v] : v \in DOMAIN pages[p]}

\* A frame is free, lost to a failed clone or held by one process, and by that
\* process for one purpose: whatever mappings fail half way, nothing is freed
\* twice, handed out while in use or forgotten (pmm.c, process_map_user_page,
\* process_unmap_user_memory, process_reap).
FramesAccounted ==
  /\ free \cap lost = {}
  /\ free \cup lost \cup UNION {Held(p) : p \in Procs} = Pool
  /\ \A p \in Procs : Held(p) \cap (free \cup lost) = {}
  /\ \A p, q \in Procs : p # q => Held(p) \cap Held(q) = {}
  /\ \A p \in Procs : Cardinality(Held(p)) =
       Cardinality(tables[p])
         + Cardinality({r \in Region : pt[p][r] # 0})
         + Cardinality(DOMAIN pages[p])

\* MMAP and BRK share heap_end: no page of the heap is recorded at or above
\* the break, so the next process_alloc_user_range() starts on fresh addresses.
HeapBelowBreak ==
  \A p \in Procs : \A v \in DOMAIN pages[p] : v < heap_end[p]

\* docs/ROADMAP.md on process_map_user_page(): "PMM-backed 4 KiB user pages
\* mapped with U/S permissions".  The page a process records is the page its
\* tables translate that address to.
UserPagesMapped ==
  \A p \in Procs : \A v \in DOMAIN pages[p] :
    virt_to_phys(Memory(p), v) = pages[p][v]

\* A range that process_user_range_valid() accepts is copied to its end: a system
\* call that checked its buffers does not fail half way, as READ and CHANNEL_RECV
\* must not once they have moved the offset or taken the message.
CheckedRangesReached ==
  \A p \in Procs : \A first, last \in DOMAIN pages[p] :
    /\ process_user_range_valid(p, first..last, {}) => process_user_read(p, first..last)
    /\ process_user_range_valid(p, first..last, {"writable"})
         => process_user_write(p, first..last)

\* What the mapping calls, BRK and MUNMAP, exits and reaps keep, also when one of
\* their steps fails: the frames add up, the heap lies below the break, and what
\* the kernel may copy to and from is translated.
SpacesSound == FramesAccounted /\ HeapBelowBreak /\ CheckedRangesReached

\* CHANGELOG.md: "User stack pointers must reference mapped writable userspace
\* memory."  A process with its stack pointer on a writable page of its own, as
\* nexus_elf_load_process() sets it up, is let through.
WritableStackAccepted ==
  \A p \in Procs : \A rip \in DOMAIN pages[p] \ StackPages, rsp \in DOMAIN pages[p] :
    life[p] = "live" /\ rip \in ImagePages /\ "writable" \in user_page_flags(rsp)
      => syscall_interrupt_handler(p, rip, rsp)
=============================================================================

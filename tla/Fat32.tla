------------------------------- MODULE Fat32 -------------------------------
(***************************************************************************)
(* fs/fat32.c: the writable FAT32 volume.                                  *)
(*                                                                         *)
(* The kernel is cooperative and the driver polls, so one call of the file *)
(* system runs at a time; but every sector write of it may fail, may fail  *)
(* and reach the disk all the same (ahci.c gives up on a slow command), or *)
(* may be the last before the machine stops.  A call reads the volume when *)
(* it starts and makes its list of writes (todo); nobody else changes the  *)
(* disk meanwhile.  A checked write that fails is followed by its own list *)
(* of repairs (bail); an unchecked one that fails is skipped.  A read that *)
(* fails in the middle of a call has the effect of the next write failing. *)
(*                                                                         *)
(* Names are 8.3 names and paths have one or two components.  A cluster is *)
(* written whole: its entries as a directory and its bytes as a chunk of a *)
(* file.  Of the entries "." and "..", which no lookup finds, only the     *)
(* place is kept.                                                          *)
(***************************************************************************)
EXTENDS Integers, Sequences, SequencesExt

CONSTANTS MaxCluster,   \* g_max_cluster
          Slots,        \* directory entries in a cluster
          Fats,         \* g_fat_count
          Paths,        \* the paths in use, sequences of one or two names
          Chunks,       \* what a data cluster may hold
          Contents,     \* for each path, the files written there, sequences of chunks
          MaxFaults     \* bound: failed writes and crashes

ASSUME Fat32Assumption ==
  /\ MaxCluster \in Nat \ {0, 1} /\ Slots \in Nat \ {0, 1, 2}
  /\ Fats \in Nat \ {0} /\ MaxFaults \in Nat
  /\ \A p \in Paths : Contents[p] \subseteq Seq(Chunks)

VARIABLES fat,     \* the copies of the FAT
          data,    \* the clusters
          todo,    \* writes the running call still makes
          op,      \* history: <<>>, or <<the running call>>: what the paths held
                   \* before it, what they are to hold after it, whether it failed
          faults,  \* history: failed writes and crashes so far
          torn     \* history: a failure happened that the code does not repair

fatVars == <<fat, data, todo, op, faults, torn>>

Clusters == 2..MaxCluster
Root == 2
Eoc == MaxCluster + 1          \* 0x0FFFFFFF
is_end_of_chain(c) == c > MaxCluster

Entry(kind, name, first, size) == [kind |-> kind, name |-> name, first |-> first, size |-> size]
None == "none"
End == Entry("end", None, 0, 0)            \* name[0] = 0x00
Missing == Entry("absent", None, 0, 0)     \* no entry at all
Dot == Entry("dot", None, 0, 0)
IsLive(e) == e.kind \in {"file", "dir"}

Blank == [entries |-> [i \in 1..Slots |-> End], chunk |-> None]

\* A formatted volume: the root directory has one cluster.
Formatted == [i \in 1..Fats |-> [c \in Clusters |-> IF c = Root THEN Eoc ELSE 0]]

FatInit ==
  /\ fat = Formatted
  /\ data = [c \in Clusters |-> Blank]
  /\ todo = <<>>
  /\ op = <<>>
  /\ faults = 0
  /\ torn = FALSE

-----------------------------------------------------------------------------
(* Reading the volume.  Only the first copy of the FAT is ever read.       *)

RECURSIVE ChainFrom(_, _)
ChainFrom(c, guard) ==
  IF c \in Clusters /\ guard > 0 THEN <<c>> \o ChainFrom(fat[1][c], guard - 1) ELSE <<>>

\* get_next_cluster() from c to the end of its chain.
Chain(c) == ChainFrom(c, MaxCluster)

Elements(q) == {q[i] : i \in 1..Len(q)}

\* The entries of a directory in the order of the walk; number m is in slot
\* Slot(m) of the cluster Place(chain, m).
Place(chain, m) == chain[((m - 1) \div Slots) + 1]
Slot(m) == ((m - 1) % Slots) + 1
Listing(dir) ==
  LET chain == Chain(dir)
  IN  [m \in 1..(Len(chain) * Slots) |-> data[Place(chain, m)].entries[Slot(m)]]

\* find_entry() and find_entry_location(): the number of the entry of that
\* name before the first 0x00, 0 when there is none.
FirstIndex(S) == IF S = {} THEN 0 ELSE Min(S)
find_entry_location(list, name) ==
  LET m == FirstIndex({k \in 1..Len(list) : IsLive(list[k]) /\ list[k].name = name})
  IN  IF \E k \in 1..(m - 1) : list[k].kind = "end" THEN 0 ELSE m

\* The entry itself, Missing when the lookup finds none.
find_entry(list, name) ==
  LET m == find_entry_location(list, name) IN IF m = 0 THEN Missing ELSE list[m]

Name(path) == path[Len(path)]

\* resolve_parent(): the directory a path ends in, 0 when there is none.
resolve_parent(path) ==
  IF Len(path) = 1 THEN Root
  ELSE LET e == find_entry(Listing(Root), path[1]) IN IF e.kind = "dir" THEN e.first ELSE 0

EntryOf(path) == find_entry(Listing(resolve_parent(path)), Name(path))

\* fat32_read_file(): as many clusters as the size and the chain have.
fat32_read_file(path) ==
  LET e == EntryOf(path)
      chain == Chain(e.first)
  IN  [kind |-> e.kind,
       bytes |-> IF e.kind # "file" THEN <<>>
                 ELSE [i \in 1..Min({e.size, Len(chain)}) |-> data[chain[i]].chunk]]

Volume == [p \in Paths |-> fat32_read_file(p)]

\* fat32_list_entries(): the entries before the first 0x00, the dots included, as
\* many as the caller's array takes.
fat32_list_entries(dir, max) ==
  LET list == Listing(dir)
      Past(m) == \E k \in 1..m : list[k].kind = "end"
      shown == SetToSortSeq({m \in 1..Len(list) : list[m].kind # "deleted" /\ ~Past(m)}, <)
  IN  [i \in 1..Min({max, Len(shown)}) |-> list[shown[i]]]

\* fat32_list() prints them all.
fat32_list(dir) == fat32_list_entries(dir, MaxCluster * Slots)

-----------------------------------------------------------------------------
(* Lists of writes                                                         *)

Write(do, c, v, checked, bail) ==
  [do |-> do, c |-> c, v |-> v, copy |-> 1, checked |-> checked, bail |-> bail]
Checked(do, c, v, bail) == Write(do, c, v, TRUE, bail)

\* fat32_free_chain(): the entry is read, then cleared in every copy.
fat32_free_chain(c) == Write("free", c, 0, FALSE, <<>>)
\* Mutant: a chain is never released.
FreeNever(c) == <<>>

FreeIf(c) == IF c >= 2 THEN <<fat32_free_chain(c)>> ELSE <<>>

\* Mutant: the cluster is zeroed but not marked as used.
AllocUnmarked(c, bail) == <<Checked("data", c, Blank, bail)>>

\* fat32_alloc_cluster() of the free cluster c.
fat32_alloc_cluster(c, bail) ==
  <<Checked("set", c, Eoc, bail),
    Checked("data", c, Blank, <<Write("set", c, 0, FALSE, <<>>)>> \o bail)>>

\* The loop of fat32_write_file() that takes the clusters cs and links each
\* behind the one before it.
AllocAll(cs) ==
  FlattenSeq([i \in 1..Len(cs) |->
    IF i = 1 THEN fat32_alloc_cluster(cs[1], <<>>)
    ELSE Append(fat32_alloc_cluster(cs[i], FreeIf(cs[1])),
                Checked("set", cs[i - 1], cs[i], <<fat32_free_chain(cs[i])>> \o FreeIf(cs[1])))])

\* The clusters successive calls of fat32_alloc_cluster() find.
FreeClusters == SetToSortSeq({c \in Clusters : fat[1][c] = 0}, <)

\* find_free_dir_slot() and write_dirent(): the first unused place of the
\* directory, or the first one of a fresh cluster linked behind it, taken from
\* `free'.  undo is what the caller does when this fails.
AddEntry(dir, e, free, undo) ==
  LET list == Listing(dir)
      m == FirstIndex({k \in 1..Len(list) : list[k].kind \in {"end", "deleted"}})
  IN  IF m # 0 THEN <<Checked("entry", Place(Chain(dir), m), <<Slot(m), e>>, undo)>>
      ELSE IF free = <<>> THEN undo
      ELSE fat32_alloc_cluster(free[1], undo)
             \o <<Checked("link", Last(Chain(dir)), free[1], <<fat32_free_chain(free[1])>> \o undo),
                  Checked("entry", free[1], <<1, e>>, undo)>>

PutEntry(dir, name, e, undo) ==
  LET m == find_entry_location(Listing(dir), name)
  IN  <<Checked("entry", Place(Chain(dir), m), <<Slot(m), e>>, undo)>>

-----------------------------------------------------------------------------
(* The calls, as the writes each makes.  `seen' is FALSE when the lookup of *)
(* the name hits an unreadable sector, which find_entry() reports as "no   *)
(* such entry".                                                            *)

MkdirList(dir, name, free) ==
  LET undo == <<fat32_free_chain(free[1])>>
      dots == [Blank EXCEPT !.entries = [i \in 1..Slots |-> IF i <= 2 THEN Dot ELSE End]]
  IN  IF free = <<>> THEN <<>>
      ELSE fat32_alloc_cluster(free[1], <<>>) \o <<Checked("data", free[1], dots, undo)>>
             \o AddEntry(dir, Entry("dir", name, free[1], 0), Tail(free), undo)

\* old is the entry that exists, or Missing.
WriteList(dir, name, bytes, old, free) ==
  LET needed == Len(bytes)
      taken == SubSeq(free, 1, Min({needed, Len(free)}))
      first == IF taken = <<>> THEN 0 ELSE taken[1]
      undo == FreeIf(first)
      e == Entry("file", name, first, needed)
  IN  AllocAll(taken)
        \o (IF Len(taken) < needed THEN undo
            ELSE [i \in 1..needed |-> Checked("data", taken[i], [Blank EXCEPT !.chunk = bytes[i]], undo)]
                   \o (IF IsLive(old)
                       THEN PutEntry(dir, name, e, undo) \o FreeIf(old.first)
                       ELSE AddEntry(dir, e, SubSeq(free, needed + 1, Len(free)), undo)))

\* The list stops short of its last checked write when the volume is full.
Doomed(list) == \A i \in 1..Len(list) : list[i].do # "entry"

\* Mutant: the chain is released before the entry is tombstoned.
RemoveListEarly(dir, old) ==
  FreeIf(old.first) \o PutEntry(dir, old.name, [old EXCEPT !.kind = "deleted"], <<>>)

\* fat32_remove_file() and fat32_remove_empty_dir(): name[0] = 0xE5, then the
\* chain is released.
RemoveList(dir, old) ==
  PutEntry(dir, old.name, [old EXCEPT !.kind = "deleted"], <<>>) \o FreeIf(old.first)

Start(path, after, list, seen) ==
  /\ op = <<>>
  /\ op' = LET now == Volume
           IN  <<[before |-> now, after |-> [now EXCEPT ![path] = after], failed |-> Doomed(list)]>>
  /\ todo' = list
  /\ torn' = ~seen
  /\ UNCHANGED <<fat, data, faults>>

fat32_mkdir(path) ==
  LET dir == resolve_parent(path)
  IN  /\ dir # 0
      /\ Start(path, [kind |-> "dir", bytes |-> <<>>],
               MkdirList(dir, Name(path), FreeClusters), ~IsLive(EntryOf(path)))

fat32_write_file(path, bytes) ==
  LET dir == resolve_parent(path)
      old == EntryOf(path)
  IN  \E seen \in BOOLEAN :
        /\ dir # 0
        /\ IF seen THEN old.kind # "dir" ELSE IsLive(old)
        /\ Start(path, [kind |-> "file", bytes |-> bytes],
                 WriteList(dir, Name(path), bytes, IF seen THEN old ELSE Missing, FreeClusters), seen)

RemoveEntry(path, old) ==
  Start(path, [kind |-> "absent", bytes |-> <<>>], RemoveList(resolve_parent(path), old), TRUE)

fat32_remove_file(path) ==
  LET old == EntryOf(path) IN old.kind = "file" /\ RemoveEntry(path, old)

\* Every cluster is scanned to its first 0x00 for an entry other than the dots.
IsEmpty(dir) ==
  \A c \in Elements(Chain(dir)) : \A i \in 1..Slots :
    IsLive(data[c].entries[i]) => \E k \in 1..(i - 1) : data[c].entries[k].kind = "end"

fat32_remove_empty_dir(path) ==
  LET old == EntryOf(path) IN old.kind = "dir" /\ IsEmpty(old.first) /\ RemoveEntry(path, old)

-----------------------------------------------------------------------------
(* One sector write                                                        *)

\* fat32_set_entry() goes through the copies of the FAT in order.
Effect(w) ==
  CASE w.do \in {"set", "link"} -> fat' = [fat EXCEPT ![w.copy][w.c] = w.v] /\ UNCHANGED data
    [] w.do = "free"  -> fat' = [fat EXCEPT ![w.copy][w.c] = 0] /\ UNCHANGED data
    [] w.do = "data"  -> data' = [data EXCEPT ![w.c] = w.v] /\ UNCHANGED fat
    [] w.do = "entry" -> data' = [data EXCEPT ![w.c].entries[w.v[1]] = w.v[2]] /\ UNCHANGED fat

\* What remains to be done after w; a chain being released remembers the
\* successor it read before it cleared the first copy.
Rest(w) ==
  LET next == IF w.do = "free" /\ w.copy = 1 THEN fat[1][w.c] ELSE w.v
  IN  IF w.do \in {"set", "link", "free"} /\ w.copy < Fats
      THEN <<[w EXCEPT !.copy = @ + 1, !.v = next]>> \o Tail(todo)
      ELSE IF w.do = "free" /\ next \in Clusters
      THEN <<fat32_free_chain(next)>> \o Tail(todo)
      ELSE Tail(todo)

WriteSector ==
  /\ todo # <<>>
  /\ Effect(Head(todo))
  /\ todo' = Rest(Head(todo))
  /\ UNCHANGED <<op, faults, torn>>

\* Failures whose repair breaks the volume: the link to a directory's fresh
\* cluster is in the first FAT when the cluster is released, or the new entry
\* is on the disk when its chain is released.
Unrepaired(w, reached) ==
  \/ w.do = "link" /\ (reached \/ w.copy > 1)
  \/ w.do = "entry" /\ reached /\ w.bail # <<>>

\* ahci_write_sectors() returns 0; `reached' when the disk has the data anyway.
WriteFails ==
  /\ todo # <<>>
  /\ faults < MaxFaults                                            \* bound
  /\ \E reached \in BOOLEAN :
       /\ IF reached THEN Effect(Head(todo)) ELSE UNCHANGED <<fat, data>>
       /\ torn' = Unrepaired(Head(todo), reached)
  /\ faults' = faults + 1
  /\ todo' = IF Head(todo).checked THEN Head(todo).bail ELSE Tail(todo)
  /\ op' = [op EXCEPT ![1].failed = @ \/ Head(todo).checked]

Return ==
  /\ op # <<>> /\ todo = <<>>
  /\ op' = <<>>
  /\ UNCHANGED <<fat, data, todo, faults, torn>>

\* Power is lost; the volume is mounted again as the disk has it.
Crash ==
  /\ todo # <<>>
  /\ faults < MaxFaults                                            \* bound
  /\ todo' = <<>> /\ op' = <<>>
  /\ faults' = faults + 1
  /\ UNCHANGED <<fat, data, torn>>

Call ==
  \E path \in Paths :
    \/ fat32_mkdir(path)
    \/ \E bytes \in Contents[path] : fat32_write_file(path, bytes)
    \/ fat32_remove_file(path)
    \/ fat32_remove_empty_dir(path)

\* A torn volume is followed no further: a newly formatted one takes its place.
Format ==
  /\ torn
  /\ fat' = Formatted /\ data' = [c \in Clusters |-> Blank]
  /\ todo' = <<>> /\ op' = <<>>
  /\ faults' = 0 /\ torn' = FALSE

FatNext ==
  \/ ~torn /\ (Call \/ WriteSector \/ WriteFails \/ Return \/ Crash)
  \/ Format

FatSpec == FatInit /\ [][FatNext]_fatVars

-----------------------------------------------------------------------------
(* Properties                                                              *)

\* "Overwriting a file replaces its cluster chain only after the new directory
\* entry has been persisted": whatever fails and wherever the machine stops,
\* every path reads as it did before the call or as it should after it; a call
\* that reports success has made its change and, on a disk without failures,
\* one that reports failure (a full volume) has made none.
OldOrNew ==
  (op # <<>> /\ ~torn) =>
    LET now == Volume
    IN  /\ now \in {op[1].before, op[1].after}
        /\ (todo = <<>> /\ ~op[1].failed) => now = op[1].after
        /\ (todo = <<>> /\ op[1].failed /\ faults = 0) => now = op[1].before

\* The files and directories with their chains, and the root directory.
Holder(path, e) == [path |-> path, kind |-> e.kind, size |-> e.size, chain |-> Chain(e.first)]
Holders ==
  {h \in {Holder(p, EntryOf(p)) : p \in Paths} : h.kind # "absent"}
    \cup {Holder(<<>>, Entry("dir", None, Root, 0))}

\* No two files or directories share a cluster, none has a cluster the
\* allocator would hand out again, and every file has the clusters its size
\* calls for, also in the middle of a call and after a crash.
ChainsSound ==
  ~torn =>
    LET holders == Holders
    IN  /\ \A h \in holders :
             /\ h.chain # <<>> => is_end_of_chain(fat[1][Last(h.chain)])
             /\ h.kind = "file" => Len(h.chain) = h.size
        /\ \A h, k \in holders : h # k => Elements(h.chain) \cap Elements(k.chain) = {}

\* On a disk without failures no cluster is lost: between calls, also after
\* calls that failed on a full volume, the allocated clusters are those of the
\* files and directories, and all copies of the FAT agree.
NothingLeaked ==
  (op = <<>> /\ faults = 0 /\ ~torn) =>
    /\ {c \in Clusters : fat[1][c] # 0} = UNION {Elements(h.chain) : h \in Holders}
    /\ \A i \in 1..Fats : fat[i] = fat[1]

\* A directory is listed as it is looked up, wherever a call has got to or the
\* machine stopped: no name is shown twice, and what is shown of a name is what
\* find_entry() finds, so that the package manager, which lists a directory to
\* find packages, opens what it saw.
ListingsAgree ==
  ~torn =>
    \A h \in Holders : h.kind = "dir" =>
      LET shown == SelectSeq(fat32_list(h.chain[1]), IsLive)
          listing == Listing(h.chain[1])
      IN  /\ \A i, j \in 1..Len(shown) : shown[i].name = shown[j].name => i = j
          /\ \A i \in 1..Len(shown) : find_entry(listing, shown[i].name) = shown[i]

\* The volume holds together at every write of a call (ChainsSound), is listed as
\* it is looked up (ListingsAgree), and between calls has no cluster without an
\* owner (NothingLeaked).
VolumeSound == ChainsSound /\ ListingsAgree /\ NothingLeaked
=============================================================================

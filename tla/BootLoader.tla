----------------------------- MODULE BootLoader -----------------------------
(***************************************************************************)
(* boot/uefi/src/boot.c: efi_main() and load_elf(), up to the jump into    *)
(* the kernel.                                                             *)
(*                                                                         *)
(* The firmware's memory map has a version, which is also the key that     *)
(* ExitBootServices() checks; allocations, releases and the firmware's own *)
(* events make a new one.  Addresses are unsigned integers below Width,    *)
(* with PageUnit for 4096 and WordUnit for the eight bytes of a            *)
(* relocation.                                                             *)
(***************************************************************************)
EXTENDS Integers, Sequences, FiniteSets, FiniteSetsExt

CONSTANTS Width,        \* 2^64
          PageUnit, WordUnit,
          LinkBase,     \* NEXUS_KERNEL_LINK_BASE
          Images,       \* the files that can be in \kernel.elf
          Areas,        \* the pixel area of each graphics mode, 0 for one the firmware refuses
          MapSizes,     \* sizes of the firmware's map, by version modulo their number
          FwEvents      \* bound: map changes of the firmware itself

\* The fields of a header are unsigned integers of the width of an address.
Words == 0..(Width - 1)

Segments == [offset : Words, filesz : Words, vaddr : Words, memsz : Words]

ImageFiles ==
  [size : Words, segs : SUBSET Segments, dyn : Words, dyn_size : Words,
   relocs : SUBSET Words, entry : Words]

ASSUME BootAssumption ==
  /\ {Width, PageUnit, WordUnit, LinkBase, FwEvents} \subseteq Nat
  /\ PageUnit > 0 /\ WordUnit <= PageUnit /\ LinkBase % PageUnit = 0
  /\ Images \subseteq ImageFiles

VARIABLES b_at,       \* the place in efi_main()
          fw_map,     \* the version of the firmware's map
          fw_left,    \* events the firmware still has
          mode,       \* the graphics mode that is set
          fb_mode,    \* the mode boot_info->fb describes
          image,      \* the file, then what load_elf() did with it
          buf_pages,  \* the size of the map buffer
          mmap,       \* the version of the map in the buffer
          map_size,   \* boot_info->mmap.map_size
          map_key

boot_vars == <<b_at, fw_map, fw_left, mode, fb_mode, image, buf_pages, mmap, map_size, map_key>>

SizeOf(v) == MapSizes[(v % Len(MapSizes)) + 1]

----------------------------------------------------------------------------
(* load_elf(), with every comparison as the code makes it: sums wrap.      *)

Plus(a, b)  == (a + b) % Width
Minus(a, b) == (a - b) % Width

range_valid(start, size) == size <= (Width - 1) - start

align_down_4k(a) == a - (a % PageUnit)

align_up_4k_checked(a) ==
  IF a > (Width - 1) - (PageUnit - 1) THEN 0 ELSE align_down_4k(a + PageUnit - 1)

SegEnd(s) == align_up_4k_checked(Plus(s.vaddr, s.memsz))

SegmentValid(f, s) ==
  /\ range_valid(s.offset, s.filesz) /\ Plus(s.offset, s.filesz) <= f.size
  /\ s.memsz >= s.filesz
  /\ range_valid(s.vaddr, s.memsz)
  /\ SegEnd(s) /= 0 /\ SegEnd(s) > align_down_4k(s.vaddr)

MinVaddr(f) == Min({align_down_4k(s.vaddr) : s \in f.segs})
MaxVaddr(f) == Max({SegEnd(s) : s \in f.segs})

\* Mutant: only the first byte of a relocation has to be inside.
RelocFirstByte(off, size) == Minus(off, LinkBase) < size

\* The test of apply_relative_relocations() on one relocation.
RelocInside(off, size) ==
  off >= LinkBase /\ Minus(off, LinkBase) <= Minus(size, WordUnit)

RelocsValid(f, size) ==
  /\ f.dyn >= LinkBase /\ Minus(f.dyn, LinkBase) < size
  /\ f.dyn_size > 0 /\ f.dyn_size <= size - Minus(f.dyn, LinkBase)
  /\ \A r \in f.relocs : RelocInside(r, size)

\* The tests no range depends on (magic numbers, alignments, entry sizes and
\* relocation types) are among the failures of LoadKernel.
load_elf(f) ==
  LET size == MaxVaddr(f) - MinVaddr(f) IN
  IF /\ f.segs /= {} /\ \A s \in f.segs : SegmentValid(f, s)
     /\ MinVaddr(f) = LinkBase
     /\ \A s \in f.segs : s.filesz <= size - Minus(s.vaddr, LinkBase)
     /\ RelocsValid(f, size)
     /\ f.entry >= LinkBase /\ f.entry < MaxVaddr(f)
  THEN [loaded |-> TRUE, size |-> size,
        reads  |-> UNION {s.offset..(s.offset + s.filesz - 1) : s \in f.segs},
        writes |-> (UNION {Minus(s.vaddr, LinkBase)..(Minus(s.vaddr, LinkBase) + s.filesz - 1) :
                           s \in f.segs})
                   \cup (UNION {Minus(r, LinkBase)..(Minus(r, LinkBase) + WordUnit - 1) :
                                r \in f.relocs}),
        entry  |-> Minus(f.entry, LinkBase), file |-> f.size]
  ELSE [loaded |-> FALSE]

----------------------------------------------------------------------------
(* efi_main().                                                             *)

BootInit ==
  /\ b_at = "gop" /\ fw_map = 0 /\ fw_left \in {0, FwEvents}
  /\ mode \in DOMAIN Areas /\ Areas[mode] > 0 /\ fb_mode = 0
  /\ image \in Images
  /\ buf_pages = 0 /\ mmap = -1 /\ map_size = 0 /\ map_key = -1

\* The first mode with the largest area, if that is larger than the current one.
SelectedMode ==
  LET best == Max({Areas[m] : m \in DOMAIN Areas}) IN
  IF best > Areas[mode] THEN Min({m \in DOMAIN Areas : Areas[m] = best}) ELSE mode

\* The framebuffer is described after the mode is set, from the mode then
\* current: the old one when SetMode() refuses.  No output protocol or a pixel
\* format the kernel cannot draw in is a panic.
SetGraphics ==
  /\ b_at = "gop"
  /\ \E set \in {SelectedMode, mode} : mode' = set /\ fb_mode' = set
  /\ b_at' \in {"load", "panic"} /\ fw_map' = fw_map + 1
  /\ UNCHANGED <<fw_left, image, buf_pages, mmap, map_size, map_key>>

\* The volume, load_file() and load_elf(): any failure is a panic.
LoadKernel ==
  /\ b_at = "load"
  /\ image' = load_elf(image)
  /\ \/ b_at' = IF load_elf(image).loaded THEN "size" ELSE "panic"
     \/ b_at' = "panic"
  /\ fw_map' = fw_map + 1
  /\ UNCHANGED <<fw_left, mode, fb_mode, buf_pages, mmap, map_size, map_key>>

\* The size the firmware asks for, some more, and a buffer for it: the
\* allocation makes a new map.
SizeMap ==
  /\ b_at = "size"
  /\ buf_pages' = SizeOf(fw_map) + 1
  /\ fw_map' = fw_map + 1
  /\ b_at' \in {"map", "panic"}
  /\ UNCHANGED <<fw_left, mode, fb_mode, image, mmap, map_size, map_key>>

GetMemoryMap == mmap' = fw_map /\ map_key' = fw_map

\* The loop around the final GetMemoryMap(); an error other than a buffer that
\* is too small is a panic, here and in Retry.
FinalMap ==
  /\ b_at = "map"
  /\ \/ /\ SizeOf(fw_map) <= buf_pages
        /\ GetMemoryMap
        /\ map_size' = SizeOf(fw_map)
        /\ b_at' = "exit"
        /\ UNCHANGED <<fw_map, buf_pages>>
     \/ /\ SizeOf(fw_map) > buf_pages
        /\ buf_pages' = SizeOf(fw_map) + 1
        /\ fw_map' = fw_map + 1
        /\ b_at' \in {"map", "panic"}
        /\ UNCHANGED <<mmap, map_size, map_key>>
     \/ b_at' = "panic" /\ UNCHANGED <<fw_map, buf_pages, mmap, map_size, map_key>>
  /\ UNCHANGED <<fw_left, mode, fb_mode, image>>

\* boot_progress() is between the map and this call: it can only stall.
ExitBootServices ==
  /\ b_at = "exit"
  /\ b_at' = IF map_key = fw_map THEN "kernel" ELSE "retry"
  /\ UNCHANGED <<fw_map, fw_left, mode, fb_mode, image, buf_pages, mmap, map_size, map_key>>

\* Mutant: the size of the refreshed map is not passed on.
KeepSize == map_size

RefreshedSize == SizeOf(fw_map)

Retry ==
  /\ b_at = "retry"
  /\ \/ /\ SizeOf(fw_map) <= buf_pages
        /\ GetMemoryMap
        /\ map_size' = RefreshedSize
        /\ b_at' = "exit2"
     \/ b_at' = "panic" /\ UNCHANGED <<mmap, map_size, map_key>>
  /\ UNCHANGED <<fw_map, fw_left, mode, fb_mode, image, buf_pages>>

ExitAgain ==
  /\ b_at = "exit2"
  /\ b_at' = IF map_key = fw_map THEN "kernel" ELSE "panic"
  /\ UNCHANGED <<fw_map, fw_left, mode, fb_mode, image, buf_pages, mmap, map_size, map_key>>

\* The firmware's timers and drivers, until boot services end.
FirmwareEvent ==
  /\ b_at \notin {"kernel", "panic"} /\ fw_left > 0
  /\ fw_left' = fw_left - 1
  /\ fw_map' = fw_map + 1
  /\ UNCHANGED <<b_at, mode, fb_mode, image, buf_pages, mmap, map_size, map_key>>

BootNext ==
  \/ SetGraphics \/ LoadKernel \/ SizeMap \/ FinalMap \/ ExitBootServices \/ Retry \/ ExitAgain
  \/ FirmwareEvent

----------------------------------------------------------------------------

\* The kernel starts with the map the firmware had when boot services ended,
\* whole and with its right size, and with the description of the mode that is
\* set, however the map changed and the mode change went.
HandOffCurrent ==
  b_at = "kernel" =>
    /\ mmap = fw_map /\ map_size = SizeOf(fw_map) /\ map_size <= buf_pages
    /\ fb_mode = mode

\* A file load_elf() accepts was read only inside the file and written, with
\* its relocations, only inside the allocated image, and its entry point is in
\* the image: no choice of header values gets past the checks by wrapping.
LoadStaysInside ==
  b_at \notin {"gop", "load", "panic"} =>
    /\ image.reads \subseteq 0..(image.file - 1)
    /\ image.writes \subseteq 0..(image.size - 1)
    /\ image.entry \in 0..(image.size - 1)

=============================================================================

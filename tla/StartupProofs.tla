--------------------------- MODULE StartupProofs ----------------------------
(***************************************************************************)
(* From efi_main() to the drivers at work: the proofs about the boot       *)
(* loader, and about the loader, the modules and the drivers together.     *)
(***************************************************************************)
EXTENDS Startup, XhciProofs, DriverProofs

\* A leaf that names no prover is given to Zenon.
USE ZenonT(60)

-----------------------------------------------------------------------------
(* boot/uefi: the kernel file, and the memory map at the hand-over.        *)

\* The smallest and the largest member of a set of addresses.
LEMMA MinIsLeast ==
  ASSUME NEW S, S \subseteq Nat, S # {}
  PROVE  Min(S) \in S /\ \A y \in S : Min(S) <= y
  BY Smallest DEF Min

\* The largest one of a set with an upper bound.
LEMMA MaxIsGreatest ==
  ASSUME NEW b \in Nat, NEW S, S \subseteq 0..b, S # {}
  PROVE  Max(S) \in S /\ \A y \in S : Max(S) >= y
<1> DEFINE T == {b - y : y \in S}
<1>1. T \subseteq Nat /\ T # {}
  <2>1. \A y \in S : b - y \in Nat
    BY SMTT(60)
  <2> QED
    BY <2>1
<1>2. PICK x \in T : \A y \in T : x <= y
  BY <1>1, Smallest
<1>3. PICK z \in S : x = b - z
  OBVIOUS
<1>4. \A y \in S : z >= y
  <2> TAKE y \in S
  <2>1. b - z <= b - y
    BY <1>2, <1>3
  <2> QED
    BY <2>1, SMTT(60)
<1> QED
  BY <1>4 DEF Max

\* Sums and differences that do not wrap.
LEMMA NoWrap == \A x \in Nat : x < Width => x % Width = x
  BY BootAssumption, SMTT(60)

\* align_down_4k() goes back to a page, by less than a page.
LEMMA AlignDown ==
  ASSUME NEW a \in Nat
  PROVE  /\ align_down_4k(a) \in Nat /\ align_down_4k(a) <= a /\ a < align_down_4k(a) + PageUnit
         /\ \E k \in Nat : align_down_4k(a) = k * PageUnit
<1> DEFINE q == a \div PageUnit
           r == a % PageUnit
<1> PageUnit \in Int /\ PageUnit > 0
  BY BootAssumption, SMTT(60)
<1> q \in Nat /\ r \in 0..(PageUnit - 1) /\ a = PageUnit * q + r
  BY SMTT(60)
<1> HIDE DEF q, r
<1>3. align_down_4k(a) = a - r
  BY DEF align_down_4k, r
<1>4. q * PageUnit = PageUnit * q
  BY SMTT(60)
<1>5. q * PageUnit \in Nat
  BY SMTT(60)
<1> DEFINE m == q * PageUnit
<1> HIDE DEF m
<1>6. m \in Nat /\ a = m + r
  BY <1>4, <1>5 DEF m
<1>7. align_down_4k(a) = m
  BY <1>3, <1>6, SMTT(60)
<1>8. \E k \in Nat : m = k * PageUnit
  BY DEF m
<1> QED
  BY <1>6, <1>7, <1>8, SMTT(60)

\* The kernel is linked at a page.
LEMMA LinkPage == \E k \in Nat : LinkBase = k * PageUnit
<1>1. LinkBase \in Nat /\ LinkBase % PageUnit = 0
  BY BootAssumption
<1>2. align_down_4k(LinkBase) = LinkBase
  BY <1>1, SMTT(60) DEF align_down_4k
<1> QED
  BY <1>1, <1>2, AlignDown

\* Two pages that differ are a page apart.
LEMMA PagesApart ==
  ASSUME NEW j \in Nat, NEW k \in Nat, j * PageUnit < k * PageUnit
  PROVE  k * PageUnit >= j * PageUnit + PageUnit
<1> PageUnit \in Nat /\ PageUnit > 0
  BY BootAssumption
<1>2. j < k
  BY SMTT(60)
<1>3. PICK d \in Nat : k = j + 1 + d
  BY <1>2, SMTT(60)
<1>4. k * PageUnit = j * PageUnit + PageUnit + d * PageUnit
  BY <1>3, SMTT(60)
<1>5. d * PageUnit \in Nat /\ j * PageUnit \in Nat
  BY SMTT(60)
<1> QED
  BY <1>4, <1>5, SMTT(60)

\* What the checks of load_elf() on a load segment establish.
LEMMA SegmentFacts ==
  ASSUME NEW f \in Images, NEW s \in f.segs, SegmentValid(f, s)
  PROVE  /\ s.offset \in Nat /\ s.filesz \in Nat /\ s.vaddr \in Nat /\ s.vaddr < Width
         /\ s.offset + s.filesz <= f.size
         /\ SegEnd(s) \in 0..Width /\ SegEnd(s) > align_down_4k(s.vaddr)
         /\ \E k \in Nat : SegEnd(s) = k * PageUnit
<1>1. s \in Segments /\ f.size \in Words /\ Width \in Nat /\ PageUnit \in Nat /\ PageUnit > 0
  BY BootAssumption DEF ImageFiles
<1> /\ s.offset \in 0..(Width - 1) /\ s.filesz \in 0..(Width - 1)
    /\ s.vaddr \in 0..(Width - 1) /\ s.memsz \in 0..(Width - 1)
  BY <1>1 DEF Segments, Words
<1>3. s.offset + s.filesz <= f.size
  <2>1. s.offset + s.filesz < Width /\ s.offset + s.filesz \in Nat
    BY <1>1, SMTT(60) DEF SegmentValid, range_valid
  <2>2. Plus(s.offset, s.filesz) = s.offset + s.filesz
    BY <2>1, NoWrap DEF Plus
  <2> QED
    BY <2>2 DEF SegmentValid
<1>4. Plus(s.vaddr, s.memsz) = s.vaddr + s.memsz /\ s.vaddr + s.memsz < Width
  <2>1. s.vaddr + s.memsz < Width /\ s.vaddr + s.memsz \in Nat
    BY <1>1, SMTT(60) DEF SegmentValid, range_valid
  <2> QED
    BY <2>1, NoWrap DEF Plus
<1> DEFINE a == s.vaddr + s.memsz
<1>5. a \in Nat /\ SegEnd(s) = align_up_4k_checked(a) /\ SegEnd(s) # 0
  BY <1>4, SMTT(60) DEF SegEnd, SegmentValid
<1> HIDE DEF a
<1>6. a <= (Width - 1) - (PageUnit - 1) /\ SegEnd(s) = align_down_4k(a + PageUnit - 1)
  BY <1>1, <1>5, SMTT(60) DEF align_up_4k_checked
<1>7. a + PageUnit - 1 \in Nat
  BY <1>1, <1>5, SMTT(60)
<1>8. /\ SegEnd(s) \in Nat /\ SegEnd(s) <= a + PageUnit - 1
      /\ \E k \in Nat : SegEnd(s) = k * PageUnit
  BY <1>6, <1>7, AlignDown
<1>9. SegEnd(s) \in 0..Width
  BY <1>1, <1>5, <1>6, <1>8, SMTT(60)
<1>10. SegEnd(s) > align_down_4k(s.vaddr)
  BY DEF SegmentValid
<1> QED
  BY <1>1, <1>3, <1>8, <1>9, <1>10, SMTT(60)

\* What LoadStaysInside says of the result of load_elf().
Inside(img) ==
  /\ img.reads \subseteq 0..(img.file - 1)
  /\ img.writes \subseteq 0..(img.size - 1)
  /\ img.entry \in 0..(img.size - 1)

\* What the checks of load_elf() leave: the segments fit the file and the image,
\* and the entry point lies between the lowest and the highest address.
Accepted(f) ==
  LET size == MaxVaddr(f) - MinVaddr(f) IN
     /\ f.segs /= {} /\ \A s \in f.segs : SegmentValid(f, s)
     /\ MinVaddr(f) = LinkBase
     /\ \A s \in f.segs : s.filesz <= size - Minus(s.vaddr, LinkBase)
     /\ RelocsValid(f, size)
     /\ f.entry >= LinkBase /\ f.entry < MaxVaddr(f)

\* The image load_elf() makes of an accepted file keeps every segment, and the entry
\* point, inside the pages that were allocated for it.
LEMMA LoadedInside ==
  ASSUME NEW f \in Images, load_elf(f).loaded
  PROVE  Inside(load_elf(f))
<1> DEFINE size == MaxVaddr(f) - MinVaddr(f)
           top == MaxVaddr(f)
           low == {align_down_4k(s.vaddr) : s \in f.segs}
           high == {SegEnd(s) : s \in f.segs}
<1>0. /\ LinkBase \in Nat /\ Width \in Nat /\ PageUnit \in Nat /\ PageUnit > 0
      /\ WordUnit \in Nat /\ WordUnit <= PageUnit
      /\ f.segs \subseteq Segments /\ f.relocs \subseteq 0..(Width - 1) /\ f.entry \in 0..(Width - 1)
  BY BootAssumption DEF ImageFiles, Words
<1>1. Accepted(f)
  BY DEF load_elf, Accepted
<1> /\ f.segs # {} /\ \A s \in f.segs : SegmentValid(f, s)
    /\ MinVaddr(f) = LinkBase
    /\ \A s \in f.segs : s.filesz <= size - Minus(s.vaddr, LinkBase)
    /\ \A r \in f.relocs : RelocInside(r, size)
    /\ f.entry >= LinkBase /\ f.entry < top
  BY <1>1 DEF Accepted, RelocsValid
<1>3. \A s \in f.segs :
         /\ s.offset \in Nat /\ s.filesz \in Nat /\ s.vaddr \in Nat /\ s.vaddr < Width
         /\ s.offset + s.filesz <= f.size
         /\ SegEnd(s) \in 0..Width /\ SegEnd(s) > align_down_4k(s.vaddr)
         /\ \E k \in Nat : SegEnd(s) = k * PageUnit
  BY SegmentFacts
<1> \A s \in f.segs : align_down_4k(s.vaddr) \in Nat /\ align_down_4k(s.vaddr) <= s.vaddr
  BY <1>3, AlignDown
<1>5. \A s \in f.segs : align_down_4k(s.vaddr) >= LinkBase
  <2>1. low \subseteq Nat /\ low # {}
    OBVIOUS
  <2>2. \A y \in low : Min(low) <= y
    BY <2>1, MinIsLeast
  <2>3. Min(low) = LinkBase
    BY DEF MinVaddr
  <2> QED
    BY <1>0, <2>2, <2>3
<1>6. \E s \in f.segs : top = SegEnd(s)
  <2>1. high \subseteq 0..Width /\ high # {}
    BY <1>3
  <2>2. Max(high) \in high
    <3> HIDE DEF high
    <3> QED
      BY <1>0, <2>1, MaxIsGreatest
  <2> QED
    BY <2>2 DEF MaxVaddr
<1> top \in Nat /\ top > LinkBase /\ top <= Width /\ \E k \in Nat : top = k * PageUnit
  <2> HIDE DEF top
  <2>1. PICK s \in f.segs : top = SegEnd(s)
    BY <1>6
  <2>2. top \in 0..Width /\ top > align_down_4k(s.vaddr) /\ \E k \in Nat : top = k * PageUnit
    BY <1>3, <2>1
  <2>3. align_down_4k(s.vaddr) \in Nat /\ align_down_4k(s.vaddr) >= LinkBase
    BY <1>5
  <2> QED
    BY <1>0, <2>2, <2>3, SMTT(60)
<1> HIDE DEF top, low, high
<1>8. top >= LinkBase + PageUnit
  BY LinkPage, PagesApart
<1>9. size = top - LinkBase
  BY DEF top
<1> HIDE DEF size
<1> size \in Nat /\ size >= PageUnit /\ size <= Width
  BY <1>0, <1>8, <1>9, SMTT(60)
<1> \A a \in 0..(Width - 1) : a >= LinkBase => Minus(a, LinkBase) = a - LinkBase
  <2> SUFFICES ASSUME NEW a \in 0..(Width - 1), a >= LinkBase PROVE Minus(a, LinkBase) = a - LinkBase
    OBVIOUS
  <2>1. a - LinkBase \in Nat /\ a - LinkBase < Width
    BY <1>0, SMTT(60)
  <2> QED
    BY <2>1, NoWrap DEF Minus
<1>12. WordUnit > 0 \/ size < Width => Minus(size, WordUnit) = size - WordUnit
  <2>1. size - WordUnit \in Nat
    BY <1>0, SMTT(60)
  <2>2. WordUnit > 0 \/ size < Width => size - WordUnit < Width
    BY <1>0, SMTT(60)
  <2> QED
    BY <2>1, <2>2, NoWrap DEF Minus
<1> DEFINE img == load_elf(f)
           R == UNION {s.offset..(s.offset + s.filesz - 1) : s \in f.segs}
           S == UNION {Minus(s.vaddr, LinkBase)..(Minus(s.vaddr, LinkBase) + s.filesz - 1) : s \in f.segs}
           L == UNION {Minus(r, LinkBase)..(Minus(r, LinkBase) + WordUnit - 1) : r \in f.relocs}
<1>13. /\ img.reads = R /\ img.writes = S \cup L /\ img.entry = Minus(f.entry, LinkBase)
       /\ img.file = f.size /\ img.size = size
  <2> DEFINE rec == [loaded |-> TRUE, size |-> size, reads |-> R, writes |-> S \cup L,
                     entry |-> Minus(f.entry, LinkBase), file |-> f.size]
  <2>1. img = rec
    BY <1>1 DEF load_elf, Accepted, size
  <2> DEFINE sl == S \cup L
             ent == Minus(f.entry, LinkBase)
  <2>2. img = [loaded |-> TRUE, size |-> size, reads |-> R, writes |-> sl, entry |-> ent, file |-> f.size]
    BY <2>1
  <2> HIDE DEF R, sl, ent, img
  <2>3. img.reads = R /\ img.writes = sl /\ img.entry = ent /\ img.file = f.size /\ img.size = size
    BY <2>2
  <2> QED
    BY <2>3 DEF sl, ent
<1>14. R \subseteq 0..(f.size - 1)
  <2> SUFFICES ASSUME NEW s \in f.segs, NEW x \in s.offset..(s.offset + s.filesz - 1)
               PROVE  x \in 0..(f.size - 1)
    OBVIOUS
  <2>1. f.size \in Nat
    BY BootAssumption, SMTT(60) DEF ImageFiles, Words
  <2> QED
    BY <1>3, <2>1, SMTT(60)
<1>15. S \subseteq 0..(size - 1)
  <2> SUFFICES ASSUME NEW s \in f.segs,
                      NEW x \in Minus(s.vaddr, LinkBase)..(Minus(s.vaddr, LinkBase) + s.filesz - 1)
               PROVE  x \in 0..(size - 1)
    OBVIOUS
  <2>1. s.vaddr \in 0..(Width - 1) /\ s.vaddr >= LinkBase
    BY <1>0, <1>3, <1>5, SMTT(60)
  <2>2. Minus(s.vaddr, LinkBase) = s.vaddr - LinkBase
    BY <2>1
  <2>3. s.filesz <= size - (s.vaddr - LinkBase) /\ s.filesz \in Nat
    BY <1>3, <2>2
  <2> QED
    BY <1>0, <2>1, <2>2, <2>3, SMTT(60)
<1>16. L \subseteq 0..(size - 1)
  <2> SUFFICES ASSUME NEW r \in f.relocs,
                      NEW x \in Minus(r, LinkBase)..(Minus(r, LinkBase) + WordUnit - 1)
               PROVE  x \in 0..(size - 1)
    OBVIOUS
  <2> r \in 0..(Width - 1) /\ r >= LinkBase /\ Minus(r, LinkBase) <= Minus(size, WordUnit)
    BY <1>0 DEF RelocInside
  <2>2. Minus(r, LinkBase) = r - LinkBase
    OBVIOUS
  <2>3. WordUnit > 0
    BY <1>0, <2>2, SMTT(60)
  <2> QED
    BY <1>0, <1>12, <2>2, <2>3, SMTT(60)
<1>17. Minus(f.entry, LinkBase) \in 0..(size - 1)
  BY <1>0, <1>9, SMTT(60)
<1> QED
  BY <1>13, <1>14, <1>15, <1>16, <1>17 DEF Inside

-----------------------------------------------------------------------------
\* efi_main() on its way to the kernel: the buffer and the map in it, the key
\* and the graphics mode, and what became of the kernel's file.
BootInv ==
  /\ b_at \in {"gop", "load"} => image \in Images
  /\ b_at \notin {"gop", "load", "panic"} => Inside(image)
  /\ b_at # "gop" => fb_mode = mode
  /\ b_at \in {"exit", "exit2", "kernel"} =>
       map_key = mmap /\ map_size = SizeOf(mmap) /\ map_size <= buf_pages
  /\ b_at = "kernel" => mmap = fw_map

\* It holds when the firmware starts efi_main().
LEMMA BootInitInv == BootInit => BootInv
  BY DEF BootInit, BootInv

\* Every step of the loader, and a change of the memory map by the firmware, keeps it.
LEMMA BootStepInv == BootInv /\ BootNext => BootInv'
<1> SUFFICES ASSUME BootInv, BootNext PROVE BootInv'
  OBVIOUS
<1>1. CASE SetGraphics
  BY <1>1 DEF BootInv, SetGraphics
<1>2. CASE LoadKernel
  <2>1. image \in Images /\ image' = load_elf(image) /\ b_at' \in {"size", "panic"}
    BY <1>2 DEF BootInv, LoadKernel
  <2>2. b_at' = "size" => load_elf(image).loaded
    BY <1>2 DEF LoadKernel
  <2>3. b_at' = "size" => Inside(image')
    BY <2>1, <2>2, LoadedInside
  <2> QED
    BY <1>2, <2>1, <2>3 DEF BootInv, LoadKernel
<1>3. CASE SizeMap
  BY <1>3 DEF BootInv, SizeMap
<1>4. CASE FinalMap
  BY <1>4 DEF BootInv, FinalMap, GetMemoryMap
<1>5. CASE ExitBootServices
  BY <1>5 DEF BootInv, ExitBootServices
<1>6. CASE Retry
  BY <1>6 DEF BootInv, Retry, GetMemoryMap, RefreshedSize
<1>7. CASE ExitAgain
  BY <1>7 DEF BootInv, ExitAgain
<1>8. CASE FirmwareEvent
  BY <1>8 DEF BootInv, FirmwareEvent
<1> QED
  BY <1>1, <1>2, <1>3, <1>4, <1>5, <1>6, <1>7, <1>8 DEF BootNext

\* What the loader promises follows.
LEMMA BootInvSays == BootInv => HandOffCurrent /\ LoadStaysInside
  BY DEF BootInv, HandOffCurrent, LoadStaysInside, Inside

-----------------------------------------------------------------------------
(* The machine as a whole.                                                 *)

\* Every part of the machine in its own order.
StartupInv == BootInv /\ ModuleInv /\ NvmeInv /\ AhciInv /\ XhciInv /\ E1000Inv

\* A part that rests stays in order.
LEMMA Rests ==
  /\ BootInv /\ UNCHANGED boot_vars => BootInv'
  /\ ModuleInv /\ UNCHANGED module_vars => ModuleInv'
  /\ NvmeInv /\ UNCHANGED nvme_vars => NvmeInv'
  /\ AhciInv /\ UNCHANGED ahci_vars => AhciInv'
  /\ XhciInv /\ UNCHANGED xhci_vars => XhciInv'
  /\ E1000Inv /\ UNCHANGED e1000_vars => E1000Inv'
<1>1. BootInv /\ UNCHANGED boot_vars => BootInv'
  BY DEF BootInv, boot_vars
<1>2. ModuleInv /\ UNCHANGED module_vars => ModuleInv'
  BY NextModuleInv
<1>3. AhciInv /\ UNCHANGED ahci_vars => AhciInv'
  BY SMTT(60) DEF AhciInv, ahci_vars, DiskFree
<1>4. E1000Inv /\ UNCHANGED e1000_vars => E1000Inv'
  BY SMTT(60) DEF E1000Inv, e1000_vars, Holds, Round
<1>5. NvmeInv /\ UNCHANGED nvme_vars => NvmeInv'
  BY SMTT(60) DEF NvmeInv, nvme_vars
<1>6. XhciInv /\ UNCHANGED xhci_vars => XhciInv'
  BY DEF XhciInv, xhci_vars, KeyboardMark, NoReportEvent
<1> QED
  BY <1>1, <1>2, <1>3, <1>4, <1>5, <1>6, SMTT(60)

\* A driver's init function returning to nexus_module_load_all().
LEMMA InitReturns == ASSUME ModuleInv, NEW rc \in BOOLEAN, LeaveInit(rc) PROVE ModuleInv'
<1>1. ModuleNext
  BY DEF ModuleNext
<1> QED
  BY <1>1, NextModuleInv

\* The machine is in order before the firmware starts the loader.
LEMMA StartupInitInv == StartupInit => StartupInv
  BY BootInitInv, InitModuleInv, NvmeInitInv, AhciInitInv, XhciInitInv, E1000InitInv, SMTT(60)
    DEF StartupInit, StartupInv

\* The init functions of the modules keep it so: each sets up its own device.
LEMMA DriverInitsInv ==
  ASSUME StartupInv, DriverInits
  PROVE  StartupInv'
<1> USE DEF StartupInv
<1>1. BootInv'
  BY Rests DEF DriverInits
<1>2. CASE PlainInit
  <2>1. ModuleInv'
    BY <1>2, InitReturns DEF PlainInit
  <2> QED
    BY <1>1, <1>2, <2>1, Rests, SMTT(60) DEF PlainInit
<1>3. CASE module_network_init
  <2>1. ModuleInv'
    BY <1>3, InitReturns DEF module_network_init
  <2>2. E1000Inv'
    BY <1>3, E1000SetupInv DEF module_network_init
  <2> QED
    BY <1>1, <1>3, <2>1, <2>2, Rests, SMTT(60) DEF module_network_init
<1>4. CASE module_nvme_init
  <2>1. ModuleInv'
    BY <1>4, InitReturns, NextModuleInv DEF module_nvme_init
  <2>2. NvmeInv'
    BY <1>4, NvmeSetupInv, Rests DEF module_nvme_init
  <2> QED
    BY <1>1, <1>4, <2>1, <2>2, Rests, SMTT(60) DEF module_nvme_init
<1>5. CASE module_ahci_init
  <2>1. ModuleInv'
    BY <1>5, InitReturns, NextModuleInv DEF module_ahci_init
  <2>2. AhciInv'
    BY <1>5, AhciSetupInv, Rests DEF module_ahci_init
  <2> QED
    BY <1>1, <1>5, <2>1, <2>2, Rests, SMTT(60) DEF module_ahci_init
<1>6. CASE module_usb_init
  <2>1. ModuleInv'
    <3>1. UNCHANGED module_vars \/ \E rc \in BOOLEAN : LeaveInit(rc)
      BY <1>6 DEF module_usb_init
    <3> QED
      BY <3>1, InitReturns, NextModuleInv
  <2>2. XhciInv'
    BY <1>6, XhciSetupInv, Rests DEF module_usb_init
  <2> QED
    BY <1>1, <1>6, <2>1, <2>2, Rests, SMTT(60) DEF module_usb_init
<1>7. CASE module_gpu_init
  <2>1. ModuleInv'
    <3>1. gpu' \in BOOLEAN
      BY <1>7, SMTT(60) DEF module_gpu_init, pci_find_class
    <3> QED
      BY <1>7, <3>1, InitReturns DEF module_gpu_init
  <2> QED
    BY <1>1, <1>7, <2>1, Rests, SMTT(60) DEF module_gpu_init
<1> QED
  BY <1>2, <1>3, <1>4, <1>5, <1>6, <1>7, SMTT(60) DEF DriverInits

\* Every step of the start and of the drivers afterwards does.
LEMMA StartupStepInv == StartupInv /\ [StartupNext]_startup_vars => StartupInv'
<1> SUFFICES ASSUME StartupInv, [StartupNext]_startup_vars
             PROVE  StartupInv'
  OBVIOUS
<1>1. CASE Boots
  BY <1>1, BootStepInv, Rests DEF Boots, StartupInv
<1>2. CASE KernelStep
  BY <1>2, Rests DEF KernelStep, StartupInv
<1>3. CASE LoadModules
  <2>1. ModuleNext
    BY <1>3 DEF LoadModules, ModuleNext
  <2> QED
    BY <1>3, <2>1, NextModuleInv, Rests, SMTT(60)
    DEF LoadModules, StartupInv
<1>4. CASE DriverInits
  BY <1>4, DriverInitsInv
<1>5. CASE NvmeRuns
  BY <1>5, Rests, NvmeStepInv DEF NvmeRuns, StartupInv
<1>6. CASE AhciRuns
  BY <1>6, Rests, AhciStepInv DEF AhciRuns, StartupInv
<1>7. CASE XhciRuns
  BY <1>7, Rests, XhciStepInv DEF XhciRuns, StartupInv
<1>8. CASE E1000Runs
  BY <1>8, Rests, E1000StepInv DEF E1000Runs, StartupInv
<1>9. CASE UNCHANGED startup_vars
  BY <1>9, Rests DEF startup_vars, StartupInv
<1> QED
  BY <1>1, <1>2, <1>3, <1>4, <1>5, <1>6, <1>7, <1>8, <1>9, SMTT(60) DEF StartupNext

\* From the firmware's entry into efi_main() to the drivers at work, every part stays
\* in order, for any ring sizes, devices, modules and memory map.
THEOREM StartupInvariant == StartupSpec => []StartupInv
  BY StartupInitInv, StartupStepInv, PTL DEF StartupSpec

\* HandOffCurrent: the kernel is entered with the memory map the firmware has.
THEOREM StartupHandOffCurrent == StartupSpec => []HandOffCurrent
  BY StartupInvariant, BootInvSays, PTL DEF StartupInv

\* LoadStaysInside: load_elf() writes inside the pages it allocated.
THEOREM StartupLoadStaysInside == StartupSpec => []LoadStaysInside
  BY StartupInvariant, BootInvSays, PTL DEF StartupInv

\* DependenciesFirst: nexus_module_load_all() runs an init function once, after
\* those of the modules it depends on, whatever its drivers do meanwhile.
THEOREM StartupDependenciesFirst == StartupSpec => []DependenciesFirst
  BY StartupInvariant, PTL DEF StartupInv, ModuleInv

\* BlockIoIsOwn: while no wait was given up, nvme_rw() and ahci_rw() return what the
\* disk did for their own command, in the buffer they were given.
THEOREM StartupBlockIoIsOwn == StartupSpec => []BlockIoIsOwn
<1>1. StartupInv => BlockIoIsOwn
  BY SMTT(60) DEF StartupInv, NvmeInv, AhciInv, BlockIoIsOwn, ReadsAreOwn, SlotIsOwn
<1> QED
  BY <1>1, StartupInvariant, PTL

\* DevicesInOrder: xhci_poll() hands up the key reports, and e1000.c passes the
\* frames both ways, in order and each once.
THEOREM StartupDevicesInOrder == StartupSpec => []DevicesInOrder
<1>1. StartupInv => DevicesInOrder
  BY SMTT(60) DEF StartupInv, XhciInv, E1000Inv, DevicesInOrder, ReportsInOrder, FramesInOrder
<1> QED
  BY <1>1, StartupInvariant, PTL

=============================================================================

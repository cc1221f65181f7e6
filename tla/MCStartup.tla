------------------------------ MODULE MCStartup ------------------------------
(***************************************************************************)
(* The instance of Startup.tla that TLC checks: a 16-unit address space    *)
(* with 4-unit pages for the loader, one device at a time behind the bus.  *)
(***************************************************************************)
EXTENDS Startup

MCSegs == [offset : {0, 2, 15}, filesz : {0, 2, 3}, vaddr : {4, 6, 9}, memsz : {1, 3, 9, 15}]

Plain == [offset |-> 0, filesz |-> 3, vaddr |-> 4, memsz |-> 5]

\* One or two segments with every odd size, then one good segment with every
\* odd table of relocations.
MCImages ==
  [size : {4}, segs : {{s} : s \in MCSegs} \cup {{Plain, s} : s \in MCSegs},
   dyn : {5}, dyn_size : {1}, relocs : {{}}, entry : {4, 9}]
  \cup
  [size : {4}, segs : {{}, {Plain}}, dyn : {3, 5, 11, 12}, dyn_size : {0, 1, 8},
   relocs : {{}, {4}, {10, 6}, {11}, {15}, {3}}, entry : {5}]

MCAreas == <<2, 0, 3, 3>>

MCMapSizes == <<1, 3, 2>>

\* The fourth device of the last bus has no place in the table.
MCBuses ==
  {<<>>, <<<<"nvme">>>>, <<<<"none", "gpu">>, <<"ahci">>>>, <<<<"other", "none", "xhci">>, <<"ehci">>>>,
   <<<<"net">>>>, <<<<"gpu", "uhci">>, <<"other">>, <<"ahci">>>>, <<<<"ohci">>>>}

MCHidReports == {{}, {"k"}}

MCFrames == {[id |-> "f", len |-> 1], [id |-> "g", len |-> 2], [id |-> "h", len |-> 3]}

=============================================================================

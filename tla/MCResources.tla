----------------------------- MODULE MCResources -----------------------------
(***************************************************************************)
(* What the kernel hands out and takes back, side by side, each on its own *)
(* instance: the blocks of the heap, the physical pages, the address       *)
(* spaces of the processes and the channels between them.  layer says      *)
(* which one is used; the others stay as they were initialised.            *)
(***************************************************************************)
EXTENDS Heap, MCPmm, AddressSpace, Ipc

VARIABLE layer

Unused ==
  /\ map = <<>> /\ kept = {} /\ used = {} /\ free_pages = 0 /\ out = {}

ResourcesInit ==
  /\ layer \in {"heap", "pages", "spaces", "channels"}
  /\ heap_init
  /\ IF layer = "pages" THEN PmmInit ELSE Unused
  /\ SpacesInit
  /\ IpcInit

ResourcesNext ==
  /\ \/ layer = "heap" /\ HeapNext /\ UNCHANGED <<pmmVars, spaceVars, ipcVars>>
     \/ layer = "pages" /\ PmmNext /\ UNCHANGED <<heapVars, spaceVars, ipcVars>>
     \/ layer = "spaces" /\ SpacesNext /\ UNCHANGED <<heapVars, pmmVars, ipcVars>>
     \/ layer = "channels" /\ IpcNext /\ UNCHANGED <<heapVars, pmmVars, spaceVars>>
  /\ UNCHANGED layer

ResourcesSpec ==
  ResourcesInit /\ [][ResourcesNext]_<<heapVars, pmmVars, spaceVars, ipcVars, layer>>

\* Processes differ in nothing but their name.
ProcessSymmetry == Permutations(Procs) \cup Permutations(Pids)
=============================================================================

-------------------------------- MODULE MCPmm --------------------------------
(***************************************************************************)
(* Every pair of memory map entries on a machine of a few pages of two     *)
(* bytes: empty, overlapping, above the tracked range, or so long that the *)
(* end of the entry overflows an address.                                  *)
(***************************************************************************)
EXTENDS Pmm

MCEntries ==
  [conventional : BOOLEAN, start : {2 * n : n \in 0..6}, number_of_pages : {0, 1, 3, 7, 9}]

MCKept == {<<a, b>> \in (2..9) \X (2..9) : a < b /\ b <= a + 4}
=============================================================================

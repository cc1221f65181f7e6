------------------------------ MODULE MCStorage ------------------------------
(***************************************************************************)
(* The three layers of storage side by side, each on its own instance: the *)
(* FAT32 driver on its disk, the tree of the VFS with the mount table,     *)
(* and the package manager with the registry of applications; the latter   *)
(* two see the volume as the driver shows it.  layer says which one is     *)
(* used; the others stay as they were initialised.                         *)
(***************************************************************************)
EXTENDS MCFat32, MCVfs, Packages

VARIABLE layer

StorageInit ==
  /\ layer \in {"fat32", "vfs", "packages"}
  /\ FatInit
  /\ VfsInit
  /\ PkgInit
  /\ layer # "vfs" => ~fat_ready

StorageNext ==
  /\ \/ layer = "fat32" /\ FatNext /\ UNCHANGED <<vfsVars, pkgVars>>
     \/ layer = "vfs" /\ VfsNext /\ UNCHANGED <<fatVars, pkgVars>>
     \/ layer = "packages" /\ PkgNext /\ UNCHANGED <<fatVars, vfsVars>>
  /\ UNCHANGED layer

StorageSpec == StorageInit /\ [][StorageNext]_<<fatVars, vfsVars, pkgVars, layer>>

\* Two payload files, a single entry, a manifest that discovery cannot make
\* out, and one whose entry is not among its files.
MCManifests ==
  {[id |-> "a", entry |-> "X", files |-> <<"X", "Y">>, early |-> TRUE],
   [id |-> "b", entry |-> "X", files |-> <<>>, early |-> TRUE],
   [id |-> "c", entry |-> "none", files |-> <<>>, early |-> FALSE],
   [id |-> "e", entry |-> "Z", files |-> <<"X", "Y">>, early |-> TRUE]}

MCHomes == <<"p", "q">>

MCSystemApps == <<[id |-> "s", entry |-> "X", files |-> <<"X">>, early |-> TRUE],
                  [id |-> "nexus.files", entry |-> "X", files |-> <<"X">>, early |-> TRUE]>>
=============================================================================

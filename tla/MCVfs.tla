--------------------------------- MODULE MCVfs ---------------------------------
(***************************************************************************)
(* Two free nodes, a name and a longer one that is cut to the same text, a *)
(* path of two names and a relative one.                                   *)
(***************************************************************************)
EXTENDS Vfs

MCShort == [n \in Names |-> "a"]

Absolute(comps) == [rel |-> FALSE, comps |-> comps]
Relative(comps) == [rel |-> TRUE, comps |-> comps]

MCCallPaths ==
  {Absolute(<<"a", "a">>), Relative(<<"a">>)}

MCTargets == {<<"mnt", "disk0">>}
MCDiskPaths == {<<>>, <<"a">>}

\* Broken trees are not followed further.
Whole == ~undercut
=============================================================================

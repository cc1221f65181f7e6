------------------------------ MODULE MCFat32 ------------------------------
(***************************************************************************)
(* Fat32 with a path that is a file or a directory, and two names in it:   *)
(* the directory fills its first cluster and has to grow.  Files have no,  *)
(* one or two clusters.                                                    *)
(***************************************************************************)
EXTENDS Fat32

CONSTANTS Docs, Notes, ChunkX, ChunkY

MCPaths == {<<Docs>>, <<Docs, Docs>>, <<Docs, Notes>>}

MCContents ==
  [p \in MCPaths |-> CASE p = <<Docs>>        -> {<<ChunkX>>, <<ChunkY, ChunkX>>}
                       [] p = <<Docs, Docs>>  -> {<<ChunkX>>, <<ChunkY>>}
                       [] p = <<Docs, Notes>> -> {<<>>, <<ChunkX, ChunkY>>}]
=============================================================================

--------------------------- MODULE MCRangedReader ---------------------------
(***************************************************************************)
(* RangedReader on the files and queries of MCFiles.                       *)
(***************************************************************************)
EXTENDS RangedReader, MCFiles

ChainOnly == {Chain}

=============================================================================

--------------------------- MODULE MCEagerReader ---------------------------
(***************************************************************************)
(* EagerReader on the files and queries of MCFiles.                        *)
(***************************************************************************)
EXTENDS EagerReader, MCFiles
=============================================================================

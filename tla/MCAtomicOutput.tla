--------------------------- MODULE MCAtomicOutput ---------------------------
(***************************************************************************)
(* Two writers of one destination, with an older file there, and up to two *)
(* power losses.                                                           *)
(***************************************************************************)
EXTENDS AtomicOutput

CONSTANTS w1, w2, older
=============================================================================

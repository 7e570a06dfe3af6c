-------------------------- MODULE MCParallelChunks --------------------------
(***************************************************************************)
(* Up to five nodes, so up to three batches of two, in an order that is not*)
(* that of the order file; two chunk sizes that fit an entry and one that  *)
(* does not.                                                               *)
(***************************************************************************)
EXTENDS ParallelChunks

Node(k, start, count) == [key |-> k, start |-> start, count |-> count]

MCNodeLists ==
  {<<Node(0, 0, 3)>>,
   <<Node(0, 0, 2), Node(1, 2, 2), Node(2, 5, 1), Node(3, 4, 1)>>,
   <<Node(0, 0, 2), Node(1, 2, 1), Node(2, 7, 2), Node(3, 3, 1), Node(4, 4, 3)>>}
=============================================================================

---------------------------- MODULE MCPointReads ----------------------------
(***************************************************************************)
(* Files of two to six chunks, next to each other, with gaps below, at and *)
(* above the limit, and one chunk larger than a request may be; a chunk    *)
(* that claims more layers than its range holds, and ones with fewer and   *)
(* more points than the hierarchy announces.  Every selection of chunks;   *)
(* up to three batches of two.                                             *)
(***************************************************************************)
EXTENDS PointReads

Entry(offset, byte_size, point_count) ==
  [offset |-> offset, byte_size |-> byte_size, point_count |-> point_count]

MCPointFiles ==
  {[entries |-> {Entry(1, 3, 2), Entry(4, 4, 3), Entry(9, 2, 1)},
    data |-> <<9, 2, 11, 12, 3, 13, 11, 14, 9, 1, 12, 9>>],
   [entries |-> {Entry(1, 3, 2), Entry(4, 2, 1), Entry(6, 2, 2)},
    data |-> <<9, 3, 11, 12, 1, 13, 1, 14, 9>>],
   [entries |-> {Entry(1, 2, 2), Entry(3, 4, 2)},
    data |-> <<9, 1, 11, 3, 12, 13, 14, 9>>],
   [entries |-> {Entry(1, 3, 2), Entry(4, 2, 1), Entry(7, 2, 1), Entry(11, 6, 5), Entry(17, 2, 1),
                 Entry(22, 2, 2)},
    data |-> <<9, 2, 11, 12, 1, 13, 9, 1, 14, 9, 9, 5, 15, 16, 17, 18, 11, 1, 19, 9, 9, 9, 1, 12>>]}
=============================================================================

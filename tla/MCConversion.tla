---------------------------- MODULE MCConversion ----------------------------
(***************************************************************************)
(* Every sequence of up to three of: points with the least and the         *)
(* greatest time in different points, one of them too far off to be        *)
(* encoded with some of the offsets and on the last step of the grid with  *)
(* another, one with fields that are refused, and an error of the source.  *)
(* The step of the grid is 4: no point but the far one is on it unless it  *)
(* is the offset, one lies half way between two steps, and some are stored *)
(* outside the bounds, on either side.  The declared bounds hold all       *)
(* points or only some of them; the offset is the least coordinate or a    *)
(* given one.  The buffer holds one record and part of a second: every     *)
(* push but the first has to make room.                                    *)
(***************************************************************************)
EXTENDS Conversion

Rec(id, x, t, n, fields) ==
  [id |-> id, x |-> x, gps_time |-> t, return_number |-> n,
   fields |-> fields, gps_finite |-> TRUE]

MCRecords ==
  {Rec(1, 3, 5, 1, TRUE), Rec(2, -2, 7, 2, TRUE), Rec(3, 40, 6, 0, TRUE),
   Rec(4, 1, 9, 1, FALSE)}

MCSources == UNION {[1..n -> MCRecords \cup {ReadError}] : n \in 0..3}
MCDeclared == {[min |-> -10, max |-> 50], [min |-> -2, max |-> 3], [min |-> 1, max |-> 3]}
MCOffsets == {<<>>, <<0>>}
=============================================================================

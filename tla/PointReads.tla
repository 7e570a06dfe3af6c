----------------------------- MODULE PointReads -----------------------------
(***************************************************************************)
(* The ways the library has to read the points of selected chunks: the     *)
(* iterator (PointStream), columns in batches (ColumnRead), and both over  *)
(* byte ranges (RangeFetch).  They share nothing but decoder settings and  *)
(* the chunks they are given; all of them promise PointAnswer, so one      *)
(* query has one answer.                                                   *)
(***************************************************************************)
EXTENDS PointStream, ColumnRead, RangeFetch

VARIABLE how   \* "iterator", "columns" or "ranges"

vars == <<how, request, pc, out, result, streamVars, columnVars, rangeVars>>

Init ==
  /\ how \in {"iterator", "columns", "ranges"}
  /\ ReadInit /\ StreamInit /\ ColumnsInit /\ RangesInit
  /\ how # "iterator" => cursor = 0
  /\ how # "columns" => batch_size = Min(BatchSizes)

Next ==
  \/ how = "iterator" /\ StreamNext /\ UNCHANGED <<how, columnVars, rangeVars>>
  \/ how = "columns" /\ ColumnsNext /\ UNCHANGED <<how, out, streamVars, rangeVars>>
  \/ how = "ranges" /\ RangesNext /\ UNCHANGED <<how, streamVars, columnVars>>

Spec == Init /\ [][Next]_vars

-----------------------------------------------------------------------------
\* The points returned are those promised, in order, none twice and none
\* left out, and no read ends well without all of them: whatever order the
\* workers finished in, however the source cut its reads, and although the
\* chunks are cut out of larger answers.
Answer ==
  INSTANCE PointAnswer WITH
    promised <- Expected(file, chunks, bounds),
    complete <- WholeOnes(file, chunks) = Len(chunks),
    out <- IF how = "columns" THEN Rows ELSE out
ImplementsAnswer == Answer!ASpec
=============================================================================

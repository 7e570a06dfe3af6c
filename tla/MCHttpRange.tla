---------------------------- MODULE MCHttpRange ----------------------------
(***************************************************************************)
(* Three versions of the file, two of them of one length; ranges inside    *)
(* all of them, across the end of the shorter ones, and empty.             *)
(***************************************************************************)
EXTENDS HttpRange

MCVersions == [v \in {"a", "b", "c"} |-> IF v = "c" THEN 4 ELSE 3]

MCAsks == {[offset |-> 0, len |-> 1], [offset |-> 1, len |-> 2], [offset |-> 2, len |-> 2],
           [offset |-> 1, len |-> 0]}
=============================================================================

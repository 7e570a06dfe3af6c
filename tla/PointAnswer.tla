---------------------------- MODULE PointAnswer ----------------------------
(***************************************************************************)
(* What a point read promises: the points come in the order promised, as   *)
(* they are stored and without those outside the bounds; the read succeeds *)
(* only when nothing is left, and returns nothing more after an error.     *)
(* PointReads says which points are promised, and shows that each way of   *)
(* reading keeps to this.                                                  *)
(***************************************************************************)
EXTENDS Integers, Sequences

VARIABLES
  promised,   \* the points that can be had, in file order
  complete,   \* whether these are all that the read was asked for
  out,        \* the points returned so far
  result      \* "running", or how the read ended

avars == <<promised, complete, out, result>>

AInit == out = <<>> /\ result = "running"

Deliver ==
  /\ result = "running"
  /\ \E n \in Len(out) + 1 .. Len(promised) : out' = SubSeq(promised, 1, n)
  /\ UNCHANGED <<promised, complete, result>>

Finish ==
  /\ result = "running"
  /\ complete /\ out = promised
  /\ result' = "ok"
  /\ UNCHANGED <<promised, complete, out>>

GiveUp ==
  /\ result = "running"
  /\ result' = "err"
  /\ UNCHANGED <<promised, complete, out>>

ASpec == AInit /\ [][Deliver \/ Finish \/ GiveUp]_avars
=============================================================================

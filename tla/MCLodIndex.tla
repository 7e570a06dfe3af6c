----------------------------- MODULE MCLodIndex -----------------------------
(***************************************************************************)
(* Clouds in a root cube of side 8, cut down to voxels of side 2 at depth  *)
(* 2.  A position is drawn from a corner, both sides of and on a dividing  *)
(* plane, and off the diagonal.                                            *)
(***************************************************************************)
EXTENDS LodIndex

At(x, y, z) == [a \in Axis |-> CASE a = 1 -> x [] a = 2 -> y [] a = 3 -> z]

Corners == {At(0, 0, 0), At(3, 3, 3), At(4, 4, 4), At(8, 8, 8), At(1, 6, 0)}

\* One point in each octant, then another of the first.
EveryOctant ==
  <<At(1, 1, 1), At(5, 1, 1), At(1, 5, 1), At(5, 5, 1),
    At(1, 1, 5), At(5, 1, 5), At(1, 5, 5), At(5, 5, 5), At(1, 1, 1), At(2, 2, 2), At(3, 0, 3)>>

Crowd(n, p) == [i \in 1..n |-> p]

MCClouds ==
  [1..5 -> Corners] \cup [1..2 -> Corners]
  \cup {EveryOctant, Crowd(6, At(3, 3, 3)), Crowd(7, At(4, 4, 4)), Crowd(8, At(8, 8, 8))}

SmallClouds == [1..3 -> Corners] \cup {EveryOctant}
=============================================================================

------------------------------- MODULE Octree -------------------------------
(***************************************************************************)
(* The octree geometry every COPC component shares: voxel keys             *)
(* (copc-core hierarchy.rs), axis-aligned boxes (copc-core bounds.rs), and *)
(* the LOD and bounds selections of a query (copc-reader points.rs).       *)
(*                                                                         *)
(* The code measures space in f64.  Here the root cube of a file has side  *)
(* RootSide, an integer, with its minimum corner at the origin, and every  *)
(* coordinate a model uses is an integer in the same unit.                 *)
(***************************************************************************)
EXTENDS Integers

CONSTANTS
  RootSide,   \* side of the root cube: 2 * halfsize
  Spacing     \* CopcInfo::spacing, the root point spacing

I32_MAX == 2147483647

\* The three axes; a position is a function over them.
Axis == 1..3

Key == [level : Int, pos : [Axis -> Int]]

Root == [level |-> 0, pos |-> [a \in Axis |-> 0]]

\* 1i32 << level, the number of voxels along one axis of a level.
VoxelsPerAxis(level) == 2 ^ level

(***************************************************************************)
(* A key is legal when it names a voxel of its level.  From level 31 on    *)
(* the code no longer checks the upper limit: 2^31 exceeds i32.            *)
(***************************************************************************)
ValidKey(k) ==
  /\ k.level >= 0
  /\ \A a \in Axis : k.pos[a] >= 0
  /\ k.level < 31 => \A a \in Axis : k.pos[a] < VoxelsPerAxis(k.level)

\* Bit a of an octant number selects the upper half of axis a.
OctantBit(octant, a) == (octant \div (2 ^ (a - 1))) % 2

\* VoxelKey::child, away from the i32 overflows it rejects.
Child(k, octant) ==
  [level |-> k.level + 1,
   pos   |-> [a \in Axis |-> 2 * k.pos[a] + OctantBit(octant, a)]]

\* d is k or lies in the subtree of k.
InSubtree(d, k) ==
  /\ d.level >= k.level
  /\ \A a \in Axis : d.pos[a] \div 2 ^ (d.level - k.level) = k.pos[a]

-----------------------------------------------------------------------------
(***************************************************************************)
(* Boxes are closed on every side: two boxes that only share a face        *)
(* intersect.                                                              *)
(***************************************************************************)
Box(min, max) == [min |-> min, max |-> max]

VoxelSide(level) == RootSide \div VoxelsPerAxis(level)

VoxelBounds(k) ==
  Box([a \in Axis |-> k.pos[a] * VoxelSide(k.level)],
      [a \in Axis |-> (k.pos[a] + 1) * VoxelSide(k.level)])

Intersects(b, c) ==
  \A a \in Axis : b.max[a] >= c.min[a] /\ b.min[a] <= c.max[a]

ContainsXyz(b, p) == \A a \in Axis : b.min[a] <= p[a] /\ p[a] <= b.max[a]

-----------------------------------------------------------------------------
(***************************************************************************)
(* Queries.  A LOD selection is one of                                     *)
(*    [kind |-> "all"]                                                     *)
(*    [kind |-> "resolution", resolution |-> r]                            *)
(*    [kind |-> "level", level |-> l]                                      *)
(*    [kind |-> "levels", min |-> l, max |-> m]        the range l .. m-1  *)
(* and a bounds selection is AllBounds or Within(box).                     *)
(***************************************************************************)
AllLevels == [kind |-> "all"]
Level(l) == [kind |-> "level", level |-> l]
Levels(l, m) == [kind |-> "levels", min |-> l, max |-> m]
Resolution(r) == [kind |-> "resolution", resolution |-> r]

AllBounds == [kind |-> "all"]
Within(box) == [kind |-> "within", box |-> box]

Query(lod, bounds) == [lod |-> lod, bounds |-> bounds]

\* PointQuery::all()
QueryAll == Query(AllLevels, AllBounds)

\* What validate_query accepts.  It looks at the bounds only: a bad LOD
\* selection is found later, where level_range is evaluated.
ValidQuery(q) ==
  q.bounds.kind = "within" =>
    \A a \in Axis : q.bounds.box.min[a] <= q.bounds.box.max[a]

\* The LOD selections level_range turns into a range of levels.
ValidLod(lod) ==
  CASE lod.kind = "all"        -> TRUE
    [] lod.kind = "resolution" -> lod.resolution > 0 /\ Spacing > 0
    [] lod.kind = "level"      -> lod.level >= 0 /\ lod.level < I32_MAX
    [] lod.kind = "levels"     -> lod.min >= 0 /\ lod.max >= lod.min

LevelMin(lod) ==
  CASE lod.kind \in {"all", "resolution"} -> 0
    [] lod.kind = "level"                 -> lod.level
    [] lod.kind = "levels"                -> lod.min

\* For a resolution, one level past ceil(log2(spacing / resolution)), and
\* at least level 0 alone.
LevelMax(lod) ==
  CASE lod.kind = "all"        -> I32_MAX
    [] lod.kind = "resolution" ->
         1 + CHOOSE n \in 0..30 :
               /\ Spacing <= lod.resolution * 2 ^ n
               /\ \A m \in 0..(n - 1) : Spacing > lod.resolution * 2 ^ m
    [] lod.kind = "level"      -> lod.level + 1
    [] lod.kind = "levels"     -> lod.max

LevelSelected(level, lod) == LevelMin(lod) <= level /\ level < LevelMax(lod)

BoundsSelected(k, bounds) ==
  bounds.kind = "within" => Intersects(VoxelBounds(k), bounds.box)

\* select_point_chunks_from keeps the chunk of voxel k.
VoxelMatches(k, q) == LevelSelected(k.level, q.lod) /\ BoundsSelected(k, q.bounds)

\* Mutant: off by one, the pages at the last selected level are left out.
PageMayMatch_Shallow(k, q) ==
  /\ k.level + 1 < LevelMax(q.lod)
  /\ ValidKey(k) => BoundsSelected(k, q.bounds)

\* page_may_match: the subtree below k can hold a voxel the query selects.
PageMayMatch(k, q) ==
  /\ k.level < LevelMax(q.lod)
  /\ ValidKey(k) => BoundsSelected(k, q.bounds)
=============================================================================

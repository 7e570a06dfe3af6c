------------------------------ MODULE LodIndex ------------------------------
(***************************************************************************)
(* The octree a COPC file is written from (copc-writer lod.rs): every      *)
(* source point is put into one node of at most MaxPointsPerNode points.   *)
(* A node that is too full keeps a selection taken round-robin from its    *)
(* octants and hands the rest down.  LodIndexBuilder::assign calls itself, *)
(* so the state holds its call stack, one frame per call.                  *)
(*                                                                         *)
(* Abstracted: an index run is written in ascending order of source index  *)
(* and read front to back, so a run is the set of its unread indices; the  *)
(* order file is the sequence of the indices written to it; offsets count  *)
(* indices, not bytes.  A failed read or write and a cancellation both end *)
(* the build, at any step.                                                 *)
(***************************************************************************)
EXTENDS Octree, Sequences, FiniteSets

CONSTANTS
  Clouds,             \* the source point clouds: sequences of positions
  MaxPointsPerNode,   \* CopcWriterParams::max_points_per_node
  MaxOctreeDepth,     \* MAX_OCTREE_DEPTH
  Scale               \* CopcWriteMetadata::scale: the grid of stored points

Octant == 0..7

Position == [Axis -> 0..RootSide]

\* A build refuses max_points_per_node = 0, and an empty cloud, at once.
ASSUME LodAssumption ==
  /\ RootSide \in Nat
  /\ MaxPointsPerNode \in Nat \ {0}
  /\ MaxOctreeDepth \in Nat
  /\ \A c \in Clouds : c \in Seq(Position) /\ c # <<>>

\* The unit divides the side of the deepest voxel: halving an f64 is exact.
ASSUME GridAssumption == RootSide % 2 ^ MaxOctreeDepth = 0

VARIABLES
  points,   \* the source cloud
  stack,    \* the frames of assign, the running call last
  order,    \* the order file: source indices, 1 for the first point
  nodes,    \* the node ranges of the order file, in no particular order
  status    \* "assign", "copy", "select", "descend", "done", "refused", "failed"

vars == <<points, stack, order, nodes, status>>

-----------------------------------------------------------------------------
RootCube == Box([a \in Axis |-> 0], [a \in Axis |-> RootSide])

Center(box) == [a \in Axis |-> (box.min[a] + box.max[a]) \div 2]

\* Bounds::octant
OctantBox(box, o) ==
  Box([a \in Axis |-> IF OctantBit(o, a) = 0 THEN box.min[a] ELSE Center(box)[a]],
      [a \in Axis |-> IF OctantBit(o, a) = 0 THEN Center(box)[a] ELSE box.max[a]])

\* Mutant (ChildOctant): the second and third axes are exchanged.
ChildOctant_Swapped(box, p) ==
  LET bit(a) == IF p[a] >= Center(box)[a] THEN 1 ELSE 0 IN bit(1) + 2 * bit(3) + 4 * bit(2)

\* child_octant: a point on a dividing plane belongs to the upper half.
ChildOctant(box, p) ==
  LET bit(a) == IF p[a] >= Center(box)[a] THEN 1 ELSE 0 IN bit(1) + 2 * bit(2) + 4 * bit(3)

Least(run) == CHOOSE i \in run : \A j \in run : i <= j

NoChildren == [o \in Octant |-> {}]

\* A call of assign: run is what it has been given and has not yet read,
\* children the runs of its octants, less what was selected or handed down,
\* octant the loop variable, start the order offset at its first write.
Call(key, run, box, start) ==
  [key |-> key, run |-> run, box |-> box, children |-> NoChildren, octant |-> 0, start |-> start]

Top == stack[Len(stack)]

Callers == SubSeq(stack, 1, Len(stack) - 1)

WithTop(frame) == Append(Callers, frame)

Init ==
  /\ points \in Clouds
  /\ stack = <<Call(Root, DOMAIN points, RootCube, 0)>>
  /\ order = <<>>
  /\ nodes = {}
  /\ status = "assign"

\* What the running call has written so far.
Written == Len(order) - Top.start

NodeRange == [key |-> Top.key, start |-> Top.start, count |-> Written]

-----------------------------------------------------------------------------
\* Mutant (Fits): off by one.
Fits_OneMore(run) == Cardinality(run) <= MaxPointsPerNode + 1

Fits(run) == Cardinality(run) <= MaxPointsPerNode

\* The whole run fits: it becomes the node.
StartLeaf ==
  /\ status = "assign" /\ Fits(Top.run)
  /\ status' = "copy"
  /\ UNCHANGED <<points, stack, order, nodes>>

\* append_index_run_to_order, one index.
CopyPoint ==
  /\ status = "copy" /\ Top.run # {}
  /\ order' = Append(order, Least(Top.run))
  /\ stack' = WithTop([Top EXCEPT !.run = @ \ {Least(Top.run)}])
  /\ UNCHANGED <<points, nodes, status>>

Return ==
  /\ stack' = Callers
  /\ status' = IF Len(stack) = 1 THEN "done" ELSE "descend"

EndLeaf ==
  /\ status = "copy" /\ Top.run = {}
  /\ nodes' = nodes \cup {NodeRange}
  /\ Return
  /\ UNCHANGED <<points, order>>

\* Mutant (TooDeep): one level too early, without a look at the run.
TooDeep_Early ==
  /\ status = "assign" /\ ~ Fits(Top.run)
  /\ Top.key.level + 1 >= MaxOctreeDepth
  /\ status' = "refused"
  /\ UNCHANGED <<points, stack, order, nodes>>

\* Deeper keys would leave the i32 range, so the cloud is refused.
TooDeep ==
  /\ status = "assign" /\ ~ Fits(Top.run)
  /\ Top.key.level >= MaxOctreeDepth
  /\ status' = "refused"
  /\ UNCHANGED <<points, stack, order, nodes>>

\* partition_index_run
Partition ==
  /\ status = "assign" /\ ~ Fits(Top.run)
  /\ Top.key.level < MaxOctreeDepth
  /\ stack' = WithTop([Top EXCEPT
       !.run = {},
       !.children = [o \in Octant |-> {i \in Top.run : ChildOctant(Top.box, points[i]) = o}]])
  /\ status' = "select"
  /\ UNCHANGED <<points, order, nodes>>

\* Mutants (SelectPoint): the point selected is not taken out of its run;
\* the round stops at an octant that has no point left.
SelectPoint_Keep ==
  /\ status = "select" /\ Written < MaxPointsPerNode
  /\ LET o == Top.octant
         next == (o + 1) % 8
         run == Top.children[o] IN
     /\ order' = IF run = {} THEN order ELSE Append(order, Least(run))
     /\ stack' = WithTop([Top EXCEPT !.octant = next])
  /\ UNCHANGED <<points, nodes, status>>

SelectPoint_Stuck ==
  /\ status = "select" /\ Written < MaxPointsPerNode
  /\ Top.children[Top.octant] # {}
  /\ order' = Append(order, Least(Top.children[Top.octant]))
  /\ stack' = WithTop([Top EXCEPT
       !.children[Top.octant] = @ \ {Least(@)}, !.octant = (@ + 1) % 8])
  /\ UNCHANGED <<points, nodes, status>>

\* append_lod_selection_to_order looks at one octant: each round takes one
\* index from every octant that has one left, until the node is full.  The
\* call's run did not fit, so a round always finds one.
SelectPoint ==
  /\ status = "select" /\ Written < MaxPointsPerNode
  /\ LET o == Top.octant
         next == (o + 1) % 8
         run == Top.children[o] IN
     IF run = {}
       THEN /\ stack' = WithTop([Top EXCEPT !.octant = next])
            /\ order' = order
       ELSE /\ order' = Append(order, Least(run))
            /\ stack' = WithTop([Top EXCEPT !.children[o] = run \ {Least(run)}, !.octant = next])
  /\ UNCHANGED <<points, nodes, status>>

EndSelect ==
  /\ status = "select" /\ Written = MaxPointsPerNode
  /\ nodes' = nodes \cup {NodeRange}
  /\ stack' = WithTop([Top EXCEPT !.octant = 0])
  /\ status' = "descend"
  /\ UNCHANGED <<points, order>>

\* Mutant (Descend): the child's key always names the first octant.
Descend_WrongKey ==
  /\ status = "descend" /\ Top.octant < 8
  /\ LET o == Top.octant
         run == Top.children[o]
         caller == [Top EXCEPT !.children[o] = {}, !.octant = o + 1] IN
     IF run = {}
       THEN stack' = WithTop(caller) /\ status' = status
       ELSE /\ stack' = Append(WithTop(caller),
                              Call(Child(Top.key, 0), run, OctantBox(Top.box, o), Len(order)))
            /\ status' = "assign"
  /\ UNCHANGED <<points, order, nodes>>

\* The loop over the children: an octant that was selected whole is skipped.
Descend ==
  /\ status = "descend" /\ Top.octant < 8
  /\ LET o == Top.octant
         run == Top.children[o]
         box == OctantBox(Top.box, o)
         caller == [Top EXCEPT !.children[o] = {}, !.octant = o + 1] IN
     IF run = {}
       THEN stack' = WithTop(caller) /\ status' = status
       ELSE /\ stack' = Append(WithTop(caller), Call(Child(Top.key, o), run, box, Len(order)))
            /\ status' = "assign"
  /\ UNCHANGED <<points, order, nodes>>

EndDescend ==
  /\ status = "descend" /\ Top.octant = 8
  /\ Return
  /\ UNCHANGED <<points, order, nodes>>

Building == status \in {"assign", "copy", "select", "descend"}

\* A cancelled check, or an I/O error on a run or on the order file.
Fail ==
  /\ Building
  /\ status' = "failed"
  /\ UNCHANGED <<points, stack, order, nodes>>

Step ==
  \/ StartLeaf \/ CopyPoint \/ EndLeaf \/ TooDeep
  \/ Partition \/ SelectPoint \/ EndSelect \/ Descend \/ EndDescend

Next == Step \/ Fail

\* build_lod_index runs in its caller's thread: it keeps taking steps until
\* it returns.  Failing is never owed.
Spec == Init /\ [][Next]_vars /\ WF_vars(Step)

-----------------------------------------------------------------------------
Frame ==
  [key : Key, run : SUBSET DOMAIN points, children : [Octant -> SUBSET DOMAIN points],
   box : [min : Position, max : Position], octant : 0..8, start : Nat]

NodeRanges == [key : Key, start : Nat, count : Nat]

\* Every variable has its type.
TypeOK ==
  /\ points \in Clouds
  /\ stack \in Seq(Frame)
  /\ order \in Seq(DOMAIN points)
  /\ nodes \subseteq NodeRanges
  /\ status \in {"assign", "copy", "select", "descend", "done", "refused", "failed"}

\* No point is lost or written twice: an index is in the order file or held
\* by one run of one frame, never in two of these places, and a finished
\* build holds none back.
Held(frame) == frame.run \cup UNION {frame.children[o] : o \in Octant}

Ordered == {order[j] : j \in DOMAIN order}

EachPointOnce ==
  /\ status = "done" => stack = <<>>
  /\ Ordered \cup UNION {Held(stack[n]) : n \in DOMAIN stack} = DOMAIN points
  /\ \A i, j \in DOMAIN order : order[i] = order[j] => i = j
  /\ \A n \in DOMAIN stack :
       /\ Held(stack[n]) \cap Ordered = {}
       /\ \A m \in DOMAIN stack : m # n => Held(stack[n]) \cap Held(stack[m]) = {}
       /\ \A o, p \in Octant : o # p => stack[n].children[o] \cap stack[n].children[p] = {}

\* A finished build puts every position of the order file into exactly one
\* node, and no node is empty or holds more than MaxPointsPerNode points:
\* the bound on what the compressor buffers for one chunk.
Covers(n, j) == n.start < j /\ j <= n.start + n.count

NodesTile ==
  status = "done" =>
    /\ \A j \in DOMAIN order : \E n \in nodes : Covers(n, j)
    /\ \A n \in nodes :
         /\ 0 < n.count /\ n.count <= MaxPointsPerNode
         /\ n.start + n.count <= Len(order)
         /\ \A m \in nodes : n # m => n.start + n.count <= m.start \/ m.start + m.count <= n.start

\* The nodes form an octree: a key is used once, below the root every node
\* has its parent above it, and a node with something below it is full.
Parent(k) == [level |-> k.level - 1, pos |-> [a \in Axis |-> k.pos[a] \div 2]]

NodesFormTree ==
  \A n \in nodes :
    /\ ValidKey(n.key) /\ n.key.level <= MaxOctreeDepth
    /\ \A m \in nodes : m.key = n.key => m = n
    /\ n.key # Root =>
         \E m \in nodes : m.key = Parent(n.key) /\ m.count = MaxPointsPerNode

\* A stored coordinate is the source coordinate rounded to the scale, halves
\* upwards (quantize_axis, with the file's offset at the cube's corner).
Quantized(p) == [a \in Axis |-> Scale * ((2 * p[a] + Scale) \div (2 * Scale))]

\* A bounded query that selects a point's stored position also selects the
\* node it is stored in.
PointsFindable ==
  \A n \in nodes : \A j \in DOMAIN order :
    Covers(n, j) =>
      LET p == Quantized(points[order[j]]) IN
      BoundsSelected(n.key, Within(Box(p, p)))

\* A cloud is refused only if more than MaxPointsPerNode of its points lie
\* in one voxel of the greatest depth, and every ancestor of it is full.
RefusedOnlyIfCrowded ==
  status = "refused" =>
    /\ Top.key.level = MaxOctreeDepth
    /\ Cardinality({i \in DOMAIN points : ContainsXyz(VoxelBounds(Top.key), points[i])})
         > MaxPointsPerNode
    /\ Cardinality(nodes) >= MaxOctreeDepth
    /\ \A n \in nodes : InSubtree(Top.key, n.key) => n.count = MaxPointsPerNode

\* A build always ends: the depth limit bounds the recursion.
BuildEnds == <>(~ Building)
=============================================================================

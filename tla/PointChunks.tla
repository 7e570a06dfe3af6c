---------------------------- MODULE PointChunks ----------------------------
(***************************************************************************)
(* Point chunks as the point readers of copc-reader see them, and the      *)
(* points a read of some of them must return.  A byte of the file stands   *)
(* for a whole part of a chunk: the first byte of a chunk says how many    *)
(* bytes of layers follow it, and each of those is one point.  What the    *)
(* hierarchy says of a chunk need not be what is in it: a chunk may be     *)
(* longer than its range, and hold more or fewer points than announced.    *)
(*                                                                         *)
(* The variables are those that every way of reading the points has.       *)
(* Filters, sums and joins are functions of how far a sequence has been    *)
(* taken: a proof can follow those step by step.                           *)
(***************************************************************************)
EXTENDS Integers, SequencesExt, FiniteSetsExt

CONSTANTS
  PointFiles,   \* files: the entries of the point chunks, and the bytes
  Everywhere,   \* BoundsSelection::All
  Within,       \* the other bounds that may be asked for: sets of points
  Noise         \* what the laz library decodes behind the last point

ChunkEntry == [offset : Nat, byte_size : Nat \ {0}, point_count : Nat \ {0}]

Bytes(e) == e.offset .. e.offset + e.byte_size - 1

\* The chunks of a file that has been opened lie in it and are disjoint.
ASSUME PointFilesAssumption ==
  \A f \in PointFiles :
    /\ f.data \in Seq(Nat) /\ IsFiniteSet(f.entries)
    /\ \A e \in f.entries : e \in ChunkEntry /\ e.offset + e.byte_size <= Len(f.data)
    /\ \A d, e \in f.entries : d # e => Bytes(d) \cap Bytes(e) = {}

\* select_point_chunks_from ends with a sort by offset.
InOrder(entries) ==
  {s \in [1..Cardinality(entries) -> entries] :
     \A i, j \in DOMAIN s : i < j => s[i].offset < s[j].offset}

\* total_candidate_points
PointTotal(list) ==
  LET total[n \in 0..Len(list)] ==
        IF n = 0 THEN 0 ELSE total[n - 1] + list[n].point_count
  IN total[Len(list)]

\* The bounds filter.  Noise has coordinates like any point: it is taken to
\* be inside every bounds.
Accepted(within, p) == within = Everywhere \/ p = Noise \/ p \in within

Filtered(within, points) ==
  LET kept[n \in 0..Len(points)] ==
        IF n = 0 THEN <<>>
        ELSE IF Accepted(within, points[n]) THEN Append(kept[n - 1], points[n])
        ELSE kept[n - 1]
  IN kept[Len(points)]

\* The decompressor, given the bytes of a chunk from its first byte on.
LayersIn(bytes) == bytes # <<>> /\ 1 + Head(bytes) <= Len(bytes)

PointAt(bytes, i) == IF i <= Head(bytes) THEN bytes[1 + i] ELSE Noise

Decoded(bytes, count) == [i \in 1..count |-> PointAt(bytes, i)]

-----------------------------------------------------------------------------
\* What a read of the chunks must return.
BytesOf(f, e) == SubSeq(f.data, e.offset + 1, e.offset + e.byte_size)

Whole(f, e) == LayersIn(BytesOf(f, e))

PointsOf(f, e, within) == Filtered(within, Decoded(BytesOf(f, e), e.point_count))

\* How many chunks are ahead of the first one whose layers are cut off.
WholeOnes(f, list) ==
  Max({n \in 0..Len(list) : \A i \in 1..n : Whole(f, list[i])})

Expected(f, list, within) ==
  LET points[n \in 0..Len(list)] ==
        IF n = 0 THEN <<>> ELSE points[n - 1] \o PointsOf(f, list[n], within)
  IN points[WholeOnes(f, list)]

-----------------------------------------------------------------------------
VARIABLES
  file, chunks,   \* the file, and the chunks selected in it
  bounds,
  pc,             \* where the read is
  out,            \* the points returned so far (PointStream: history)
  result          \* "running", or how the read ended

request == <<file, chunks, bounds>>

ReadInit ==
  /\ file \in PointFiles
  /\ \E entries \in SUBSET file.entries : chunks \in InOrder(entries)
  /\ bounds \in Within \cup {Everywhere}
  /\ pc = "new" /\ out = <<>> /\ result = "running"

Return(r) == pc' = "returned" /\ result' = r
=============================================================================

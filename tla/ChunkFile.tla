----------------------------- MODULE ChunkFile -----------------------------
(***************************************************************************)
(* The point data section of a COPC file: a pointer to the chunk table, a  *)
(* chunk per octree node, and the table.  ChunkStream and ParallelChunks   *)
(* fill it.  A file is the function from the offsets at which something    *)
(* starts to what starts there; a chunk is known by the points in it and   *)
(* by its size, which only the compressor can tell.                        *)
(***************************************************************************)
EXTENDS Integers, Sequences

CONSTANTS
  NodeLists,    \* the octree nodes, in key order, with their order ranges
  Start,        \* offset_to_point_data
  ChunkBytes,   \* the sizes a compressed chunk may have
  TableBytes,   \* the size of the chunk table
  I32Max        \* i32::MAX, the largest value an entry can hold

\* An order file starts at 0; no node is empty.
ASSUME ChunkAssumption ==
  /\ Start \in Nat /\ TableBytes \in Nat \ {0} /\ I32Max \in Nat
  /\ ChunkBytes \subseteq Nat \ {0}
  /\ \A list \in NodeLists :
       /\ list \in Seq([key : Nat, start : Nat, count : Nat])
       /\ \A i \in DOMAIN list : list[i].count > 0

PointerBytes == 8

\* encode_node_points: the indices at `from` and after it in the order file.
PointsAt(from, count) == [j \in 1..count |-> from + j]

NodePoints(node) == PointsAt(node.start, node.count)

Pointer(to) == [kind |-> "pointer", to |-> to, bytes |-> PointerBytes]

Chunk(points, bytes) == [kind |-> "chunk", points |-> points, bytes |-> bytes]

Table(rows) == [kind |-> "table", rows |-> rows, bytes |-> TableBytes]

NoFile == [o \in {} |-> Pointer(-1)]

Placed(f, offset, what) ==
  [o \in DOMAIN f \cup {offset} |-> IF o = offset THEN what ELSE f[o]]

\* hierarchy_entry
FitsEntry(node, bytes) == bytes <= I32Max /\ node.count <= I32Max

EntryOf(node, offset, bytes) ==
  [key |-> node.key, offset |-> offset, byte_size |-> bytes, point_count |-> node.count]

Row(node, bytes) == [point_count |-> node.count, byte_count |-> bytes]

-----------------------------------------------------------------------------
\* Each entry leads to the chunk of its own node, which has the size and the
\* number of points the entry says, and no two chunks share a byte.
Leads(f, node, e) ==
  /\ e.key = node.key /\ e.point_count = node.count
  /\ e.offset \in DOMAIN f
  /\ f[e.offset] = Chunk(NodePoints(node), e.byte_size)

Lead(f, list, entries) ==
  /\ Len(entries) <= Len(list)
  /\ \A i \in DOMAIN entries : Leads(f, list[i], entries[i])
  /\ \A i, j \in DOMAIN entries :
       i < j => entries[i].offset + entries[i].byte_size <= entries[j].offset

\* A finished section: the pointer leads to a table of the chunks, in file
\* order, and what is written next comes behind everything.
Closed(f, list, entries, position) ==
  /\ Len(entries) = Len(list)
  /\ Start \in DOMAIN f /\ f[Start].kind = "pointer" /\ f[Start].to \in DOMAIN f
  /\ f[f[Start].to] = Table([i \in DOMAIN entries |-> Row(list[i], entries[i].byte_size)])
  /\ \A o \in DOMAIN f : o >= Start /\ o + f[o].bytes <= position
=============================================================================

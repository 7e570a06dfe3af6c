---------------------------- MODULE ChunkStream ----------------------------
(***************************************************************************)
(* compress_nodes without the `parallel` feature: one compressor streams   *)
(* the chunks of the nodes, in order, and closes the section.  The parallel*)
(* compress_nodes must write the same file.                                *)
(*                                                                         *)
(* The compressor is the laz library's: it keeps eight bytes for a pointer *)
(* ahead of the first chunk, and `done` writes the chunk table behind the  *)
(* last one, sets the pointer and leaves the writer at the end.            *)
(***************************************************************************)
EXTENDS ChunkFile

VARIABLES nodes, file, pos, hierarchy, phase

svars == <<nodes, file, pos, hierarchy, phase>>

SInit ==
  /\ nodes \in NodeLists
  /\ file = NoFile /\ pos = Start /\ hierarchy = <<>>
  /\ phase = "start"

Reserve ==
  /\ phase = "start"
  /\ file' = Placed(file, Start, Pointer(-1))
  /\ pos' = Start + PointerBytes
  /\ phase' = "chunk"
  /\ UNCHANGED <<nodes, hierarchy>>

\* One node: its points are encoded and compressed; the entry may turn out
\* not to fit, with the chunk in the file.
Compress ==
  /\ phase = "chunk" /\ Len(hierarchy) < Len(nodes)
  /\ LET node == nodes[Len(hierarchy) + 1] IN
     \E bytes \in ChunkBytes :
       /\ file' = Placed(file, pos, Chunk(NodePoints(node), bytes))
       /\ pos' = pos + bytes
       /\ IF FitsEntry(node, bytes)
            THEN hierarchy' = Append(hierarchy, EntryOf(node, pos, bytes)) /\ UNCHANGED phase
            ELSE phase' = "failed" /\ UNCHANGED hierarchy
  /\ UNCHANGED nodes

\* compressor.done
Done ==
  /\ phase = "chunk" /\ Len(hierarchy) = Len(nodes)
  /\ LET rows == [i \in DOMAIN hierarchy |-> Row(nodes[i], hierarchy[i].byte_size)] IN
     file' = Placed(Placed(file, pos, Table(rows)), Start, Pointer(pos))
  /\ pos' = pos + TableBytes
  /\ phase' = "done"
  /\ UNCHANGED <<nodes, hierarchy>>

\* Cancelled, or an error of the source, the compressor or the writer.
SFail ==
  /\ phase \in {"start", "chunk"}
  /\ phase' = "failed"
  /\ UNCHANGED <<nodes, file, pos, hierarchy>>

SNext == Reserve \/ Compress \/ Done \/ SFail

SSpec == SInit /\ [][SNext]_svars
=============================================================================

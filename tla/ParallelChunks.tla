--------------------------- MODULE ParallelChunks ---------------------------
(***************************************************************************)
(* compress_nodes with the `parallel` feature: the nodes are taken in      *)
(* batches; a batch is encoded by the caller's thread, compressed by       *)
(* workers in any order, each chunk on its own, and written in node order. *)
(* The pointer, the offsets and the chunk table, which the laz library     *)
(* does for ChunkStream, are done here by hand.                            *)
(***************************************************************************)
EXTENDS ChunkFile, FiniteSets

CONSTANT BatchSize   \* 2 * rayon::current_num_threads()

ASSUME BatchAssumption == BatchSize \in Nat \ {0}

VARIABLES
  nodes,       \* the octree nodes, in key order
  file,        \* the point data section
  pos,         \* the writer's position
  hierarchy,   \* the entries made so far
  rows,        \* the chunk table made so far
  at,          \* chunk_start_file_offset
  raws,        \* the points of the nodes of the batch encoded so far
  results,     \* what the workers have made of them, by place in the batch
  phase        \* "start", "batch", "encode", "compress", "write", "table",
               \* "pointer", "end", "done", "failed"

vars == <<nodes, file, pos, hierarchy, rows, at, raws, results, phase>>

Init ==
  /\ nodes \in NodeLists
  /\ file = NoFile /\ pos = Start
  /\ hierarchy = <<>> /\ rows = <<>> /\ at = Start + PointerBytes
  /\ raws = <<>> /\ results = <<>>
  /\ phase = "start"

-----------------------------------------------------------------------------
WritePlaceholder ==
  /\ phase = "start"
  /\ file' = Placed(file, Start, Pointer(-1))
  /\ pos' = Start + PointerBytes
  /\ phase' = "batch"
  /\ UNCHANGED <<nodes, hierarchy, rows, at, raws, results>>

\* Between two batches every node taken has been written.
StartBatch ==
  /\ phase = "batch"
  /\ raws' = <<>> /\ results' = <<>>
  /\ phase' = IF Len(hierarchy) < Len(nodes) THEN "encode" ELSE "table"
  /\ UNCHANGED <<nodes, file, pos, hierarchy, rows, at>>

\* The nodes not yet taken: those before the batch have their entries.
Left == Len(nodes) - Len(hierarchy)

BatchLen == IF Left < BatchSize THEN Left ELSE BatchSize

\* encode_node_points, one node of the batch.
Encode ==
  /\ phase = "encode"
  /\ raws' = Append(raws, NodePoints(nodes[Len(hierarchy) + Len(raws) + 1]))
  /\ phase' = IF Len(raws') = BatchLen THEN "compress" ELSE phase
  /\ UNCHANGED <<nodes, file, pos, hierarchy, rows, at, results>>

Failed == [kind |-> "failed"]

\* Mutant (Work): a result is put behind those that are there already.
Work_InOrderOfArrival(i) ==
  /\ phase = "compress" /\ \A j \in DOMAIN results : results[j] # Failed => results[j].points # raws[i]
  /\ \E r \in {Chunk(raws[i], bytes) : bytes \in ChunkBytes} \cup {Failed} :
       results' = Append(results, r)
  /\ phase' = IF DOMAIN results' = DOMAIN raws THEN "write" ELSE phase
  /\ UNCHANGED <<nodes, file, pos, hierarchy, rows, at, raws>>

\* A worker compresses place i of the batch (compress_standalone_chunk).  The
\* others go on when one fails.
Work(i) ==
  /\ phase = "compress" /\ i \notin DOMAIN results
  /\ \E r \in {Chunk(raws[i], bytes) : bytes \in ChunkBytes} \cup {Failed} :
       results' = Placed(results, i, r)
  /\ phase' = IF DOMAIN results' = DOMAIN raws THEN "write" ELSE phase
  /\ UNCHANGED <<nodes, file, pos, hierarchy, rows, at, raws>>

\* The next chunk of the batch, in node order.  The entry may turn out not to
\* fit, with the chunk in the file.
WriteChunk ==
  /\ phase = "write" /\ results # <<>> /\ Head(results) # Failed
  /\ LET node == nodes[Len(hierarchy) + 1]
         chunk == Head(results) IN
     /\ file' = Placed(file, pos, chunk)
     /\ pos' = pos + chunk.bytes
     /\ IF FitsEntry(node, chunk.bytes)
          THEN /\ hierarchy' = Append(hierarchy, EntryOf(node, at, chunk.bytes))
               /\ rows' = Append(rows, Row(node, chunk.bytes))
               /\ at' = at + chunk.bytes
               /\ results' = Tail(results)
               /\ UNCHANGED phase
          ELSE phase' = "failed" /\ UNCHANGED <<hierarchy, rows, at, results>>
  /\ UNCHANGED <<nodes, raws>>

\* Mutant (MeetFailure): the chunk is left out, and the next one written.
MeetFailure_Skip ==
  /\ phase = "write" /\ results # <<>> /\ Head(results) = Failed
  /\ results' = Tail(results)
  /\ UNCHANGED <<nodes, file, pos, hierarchy, rows, at, raws, phase>>

\* A failed chunk ends the write, the chunks before it having been written.
MeetFailure ==
  /\ phase = "write" /\ results # <<>> /\ Head(results) = Failed
  /\ phase' = "failed"
  /\ UNCHANGED <<nodes, file, pos, hierarchy, rows, at, raws, results>>

EndBatch ==
  /\ phase = "write" /\ results = <<>>
  /\ phase' = "batch"
  /\ UNCHANGED <<nodes, file, pos, hierarchy, rows, at, raws, results>>

WriteTable ==
  /\ phase = "table"
  /\ file' = Placed(file, pos, Table(rows))
  /\ pos' = pos + TableBytes
  /\ phase' = "pointer"
  /\ UNCHANGED <<nodes, hierarchy, rows, at, raws, results>>

\* chunk_table_position: where the table has been written.
TableAt == CHOOSE o \in DOMAIN file : file[o].kind = "table"

WritePointer ==
  /\ phase = "pointer"
  /\ file' = Placed(file, Start, Pointer(TableAt))
  /\ pos' = Start + PointerBytes
  /\ phase' = "end"
  /\ UNCHANGED <<nodes, hierarchy, rows, at, raws, results>>

\* Mutant (SeekEnd): left out, the next write goes over the first chunk.
SeekEnd_Skip ==
  /\ phase = "end"
  /\ phase' = "done"
  /\ UNCHANGED <<nodes, file, pos, hierarchy, rows, at, raws, results>>

SeekEnd ==
  /\ phase = "end"
  /\ pos' = TableAt + TableBytes
  /\ phase' = "done"
  /\ UNCHANGED <<nodes, file, hierarchy, rows, at, raws, results>>

Running == phase \notin {"done", "failed"}

\* Cancelled, or an error of the source or of the writer.
Fail ==
  /\ Running
  /\ phase' = "failed"
  /\ UNCHANGED <<nodes, file, pos, hierarchy, rows, at, raws, results>>

Step ==
  \/ WritePlaceholder \/ StartBatch \/ Encode
  \/ \E i \in DOMAIN raws : Work(i)
  \/ WriteChunk \/ MeetFailure \/ EndBatch \/ WriteTable \/ WritePointer \/ SeekEnd

Next == Step \/ Fail

Spec == Init /\ [][Next]_vars

-----------------------------------------------------------------------------
\* The offsets counted by hand are those of the chunks: every entry leads to
\* the chunk of its own node, whatever order the workers finished in.
EntriesLead == Lead(file, nodes, hierarchy)

\* The point data section of a finished write is closed, and the hierarchy,
\* which is written next, comes behind it.
SectionClosed == phase = "done" => Closed(file, nodes, hierarchy, pos)

\* What the sequential compressor has of it: the table and the pointer come
\* with the end of the write.
TableOffsets == {o \in DOMAIN file : file[o].kind = "table"}

StreamFile ==
  IF phase = "done" THEN file
  ELSE [o \in DOMAIN file \ TableOffsets |-> IF o = Start THEN Pointer(-1) ELSE file[o]]

StreamPos == IF phase = "done" \/ TableOffsets = {} THEN pos ELSE TableAt

StreamPhase == CASE phase \in {"start", "done", "failed"} -> phase [] OTHER -> "chunk"

Stream ==
  INSTANCE ChunkStream WITH file <- StreamFile, pos <- StreamPos, phase <- StreamPhase

\* The parallel writer writes what the sequential one would.
ImplementsStream == Stream!SSpec
=============================================================================

----------------------------- MODULE ColumnRead -----------------------------
(***************************************************************************)
(* CopcReader::read_columns: the points of the selected chunks as columns. *)
(* With the `parallel` feature the bytes of a batch of chunks are read one *)
(* after the other, workers decode them in any order, each chunk into      *)
(* columns of its own, and these are merged in chunk order.  Without it    *)
(* the chunks are read and decoded one by one: that is a batch of one.     *)
(***************************************************************************)
EXTENDS PointChunks

CONSTANTS
  Columns,      \* the selected dimensions
  BatchSizes    \* 1, and 2 * rayon::current_num_threads()

ASSUME ColumnsAssumption == Columns # {} /\ BatchSizes \subseteq Nat \ {0}

\* pc: "new", "batch", "read", "decode", "merge", "returned".
VARIABLES
  batch_size,
  taken,        \* how many chunks have been merged
  batch_bytes,  \* the bytes of the chunks of the batch
  decoded,      \* what the workers have made of them, by place in the batch
  columns,      \* the values of each column
  accepted_points

columnVars == <<batch_size, taken, batch_bytes, decoded, columns, accepted_points>>

Nothing == [i \in {} |-> 0]

ColumnsInit ==
  /\ batch_size \in BatchSizes
  /\ taken = 0 /\ batch_bytes = <<>> /\ decoded = Nothing
  /\ columns = [c \in Columns |-> <<>>] /\ accepted_points = 0

-----------------------------------------------------------------------------
\* The column decoder is made, and the columns are laid out, or refused.
SetupColumns ==
  /\ pc = "new"
  /\ \/ pc' = "batch" /\ UNCHANGED result
     \/ Return("err")
  /\ UNCHANGED <<request, batch_size, taken, batch_bytes, decoded, columns,
                 accepted_points>>

StartBatch ==
  /\ pc = "batch" /\ taken < Len(chunks)
  /\ batch_bytes' = <<>> /\ decoded' = Nothing
  /\ pc' = "read"
  /\ UNCHANGED <<request, batch_size, taken, columns, accepted_points, result>>

BatchLen == Min({batch_size, Len(chunks) - taken})

\* read_chunk_bytes, for the next chunk of the batch.
ReadChunkBytes ==
  /\ pc = "read"
  /\ batch_bytes' = Append(batch_bytes, BytesOf(file, chunks[taken + Len(batch_bytes) + 1]))
  /\ pc' = IF Len(batch_bytes') = BatchLen THEN "decode" ELSE pc
  /\ UNCHANGED <<request, batch_size, taken, decoded, columns, accepted_points,
                 result>>

Failed == [kind |-> "failed"]

\* decode_into: every column gets its value of each accepted point.
ChunkColumns(points) ==
  [kind |-> "columns", len |-> Len(points),
   columns |-> [c \in Columns |-> [i \in DOMAIN points |-> <<c, points[i]>>]]]

PointsOfPlace(i) ==
  Filtered(bounds, Decoded(batch_bytes[i], chunks[taken + i].point_count))

\* A worker decodes place i of the batch, or fails; the others go on.
DecodeInto(i) ==
  /\ pc = "decode" /\ i \notin DOMAIN decoded
  /\ \E r \in {Failed} \cup (IF LayersIn(batch_bytes[i])
                               THEN {ChunkColumns(PointsOfPlace(i))} ELSE {}) :
       decoded' = [j \in DOMAIN decoded \cup {i} |-> IF j = i THEN r ELSE decoded[j]]
  /\ pc' = IF DOMAIN decoded' = DOMAIN batch_bytes THEN "merge" ELSE pc
  /\ UNCHANGED <<request, batch_size, taken, batch_bytes, columns, accepted_points,
                 result>>

\* The first place of the batch that has not been merged.
Place == Min(DOMAIN decoded)

\* merge_columns
MergeColumns ==
  /\ pc = "merge" /\ decoded # Nothing /\ decoded[Place] # Failed
  /\ columns' = [c \in Columns |-> columns[c] \o decoded[Place].columns[c]]
  /\ accepted_points' = accepted_points + decoded[Place].len
  /\ decoded' = [i \in DOMAIN decoded \ {Place} |-> decoded[i]]
  /\ UNCHANGED <<request, batch_size, pc, taken, batch_bytes, result>>

\* Mutant (MeetFailure): the chunk is left out.
MeetFailure_Skip ==
  /\ pc = "merge" /\ decoded # Nothing /\ decoded[Place] = Failed
  /\ decoded' = [i \in DOMAIN decoded \ {Place} |-> decoded[i]]
  /\ UNCHANGED <<request, batch_size, pc, taken, batch_bytes, columns,
                 accepted_points, result>>

MeetFailure ==
  /\ pc = "merge" /\ decoded # Nothing /\ decoded[Place] = Failed
  /\ Return("err")
  /\ UNCHANGED <<request, batch_size, taken, batch_bytes, decoded, columns,
                 accepted_points>>

EndBatch ==
  /\ pc = "merge" /\ decoded = Nothing
  /\ taken' = taken + Len(batch_bytes)
  /\ pc' = "batch"
  /\ UNCHANGED <<request, batch_size, batch_bytes, decoded, columns,
                 accepted_points, result>>

\* LasColumnBatch::validate ends the read.
FinishColumns ==
  /\ pc = "batch" /\ taken = Len(chunks)
  /\ Return(IF \A c \in Columns : Len(columns[c]) = accepted_points THEN "ok" ELSE "err")
  /\ UNCHANGED <<request, batch_size, taken, batch_bytes, decoded, columns,
                 accepted_points>>

\* Cancelled at the start of a batch (or in a chunk, without the feature), or
\* the bytes of a chunk cannot be read.
FailColumns ==
  /\ pc \in {"batch", "read"}
  /\ Return("err")
  /\ UNCHANGED <<request, batch_size, taken, batch_bytes, decoded, columns,
                 accepted_points>>

ColumnsNext ==
  \/ SetupColumns \/ StartBatch \/ ReadChunkBytes
  \/ \E i \in DOMAIN batch_bytes : DecodeInto(i)
  \/ MergeColumns \/ MeetFailure \/ EndBatch \/ FinishColumns \/ FailColumns

-----------------------------------------------------------------------------
\* A row is the point that all the columns have a value of.
Row(i) ==
  LET c == CHOOSE c \in Columns : TRUE IN
  IF \A d \in Columns : i \in DOMAIN columns[d] /\ columns[d][i] = <<d, columns[c][i][2]>>
    THEN columns[c][i][2] ELSE <<"mixed", i>>

Rows == [i \in 1..accepted_points |-> Row(i)]
=============================================================================

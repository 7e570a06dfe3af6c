---------------------------- MODULE PointStream ----------------------------
(***************************************************************************)
(* PointIter: the iterator over the points of the selected chunks of a     *)
(* seek-based reader.  The laz decompressor pulls the bytes of a chunk     *)
(* through a window (ChunkReadWindow) that ends with the chunk's range,    *)
(* as many at a time as the source likes to give.                          *)
(***************************************************************************)
EXTENDS PointChunks

\* pc: "new", "idle", "next", or "refused".
VARIABLES
  next_chunk,                   \* how many chunks have been taken
  current_chunk_points_left,
  remaining_candidate_points,
  window,                       \* ChunkReadWindow: end and position
  cursor,                       \* the position of the source itself
  layers,                       \* the bytes the decompressor has of its chunk
  touched                       \* history: the bytes of the file read

counters == <<next_chunk, current_chunk_points_left, remaining_candidate_points>>
decoder == <<window, cursor, layers>>
streamVars == <<counters, decoder, touched>>

StreamInit ==
  /\ next_chunk = 0 /\ current_chunk_points_left = 0 /\ remaining_candidate_points = 0
  /\ window = [end |-> 0, position |-> 0]
  /\ cursor \in {0, Len(file.data)}
  /\ layers = <<>> /\ touched = {}

-----------------------------------------------------------------------------
\* PointIter::new
SetupStream ==
  /\ pc = "new"
  /\ remaining_candidate_points' = PointTotal(chunks)
  /\ pc' = "idle"
  /\ UNCHANGED <<request, next_chunk, current_chunk_points_left, decoder, out,
                 result, touched>>

\* QuerySetup::new: the laz items do not make a point of the header's size.
RefuseSetup ==
  /\ pc = "new"
  /\ pc' = "refused" /\ result' = "err"
  /\ UNCHANGED <<request, counters, decoder, out, touched>>

\* next(); once the iteration has ended it returns None and does nothing.
CallNext ==
  /\ pc = "idle" /\ result = "running"
  /\ pc' = "next"
  /\ UNCHANGED <<request, counters, decoder, out, result, touched>>

AtChunkEnd == pc = "next" /\ current_chunk_points_left = 0

\* Mutant (LoadChunk): the decompressor is not reset.
LoadChunk_NoReset ==
  /\ AtChunkEnd /\ next_chunk < Len(chunks)
  /\ LET e == chunks[next_chunk + 1] IN
     /\ window' = [end |-> e.offset + e.byte_size, position |-> e.offset]
     /\ cursor' = e.offset
     /\ current_chunk_points_left' = e.point_count
  /\ next_chunk' = next_chunk + 1
  /\ UNCHANGED <<request, pc, remaining_candidate_points, layers, out, result,
                 touched>>

\* load_next_chunk, seek_to_chunk, set_range.  No selected chunk is empty.
LoadChunk ==
  /\ AtChunkEnd /\ next_chunk < Len(chunks)
  /\ LET e == chunks[next_chunk + 1] IN
     /\ window' = [end |-> e.offset + e.byte_size, position |-> e.offset]
     /\ cursor' = e.offset
     /\ current_chunk_points_left' = e.point_count
  /\ layers' = <<>>
  /\ next_chunk' = next_chunk + 1
  /\ UNCHANGED <<request, pc, remaining_candidate_points, out, result, touched>>

\* next_inner returns Ok(None).
End ==
  /\ AtChunkEnd /\ next_chunk = Len(chunks)
  /\ pc' = "idle" /\ result' = "ok"
  /\ UNCHANGED <<request, counters, decoder, out, touched>>

\* What the decompressor asks for: the first byte, then the layers.
Wanted == IF layers = <<>> THEN 1 ELSE 1 + Head(layers) - Len(layers)

\* Mutant (Allowed): the window does not end.
Allowed_Unbounded == Min({Wanted, Len(file.data) - cursor})

\* ChunkReadWindow::read: how much of it may be read.
Allowed == Min({Wanted, window.end - window.position})

Reading == pc = "next" /\ current_chunk_points_left > 0 /\ ~ LayersIn(layers)

\* ChunkReadWindow::read, in as many pieces as it takes.
ReadLayers ==
  /\ Reading
  /\ \E n \in 1..Allowed :
       /\ layers' = layers \o SubSeq(file.data, cursor + 1, cursor + n)
       /\ touched' = touched \cup cursor .. cursor + n - 1
       /\ cursor' = cursor + n
       /\ window' = [window EXCEPT !.position = @ + n]
  /\ UNCHANGED <<request, pc, counters, out, result>>

Failing ==
  /\ pc' = "idle" /\ result' = "err"
  /\ UNCHANGED <<request, decoder, out, touched>>

\* The window has ended before the layers did.
RanOut == Reading /\ Allowed = 0 /\ Failing /\ UNCHANGED counters

Decoding == pc = "next" /\ current_chunk_points_left > 0 /\ LayersIn(layers)

NextPoint ==
  PointAt(layers, chunks[next_chunk].point_count - current_chunk_points_left + 1)

\* decompress_one and the bounds filter.
DecodePoint ==
  /\ Decoding
  /\ current_chunk_points_left' = current_chunk_points_left - 1
  /\ remaining_candidate_points' = remaining_candidate_points - 1
  /\ IF Accepted(bounds, NextPoint)
       THEN out' = Append(out, NextPoint) /\ pc' = "idle"
       ELSE UNCHANGED <<out, pc>>
  /\ UNCHANGED <<request, next_chunk, decoder, result, touched>>

\* The point has been decompressed and counted, but cannot be parsed.
ParseFails ==
  /\ Decoding
  /\ current_chunk_points_left' = current_chunk_points_left - 1
  /\ remaining_candidate_points' = remaining_candidate_points - 1
  /\ UNCHANGED next_chunk
  /\ Failing

\* Cancelled, or an error of the source or the decompressor.
FailNext == pc = "next" /\ Failing /\ UNCHANGED counters

StreamNext ==
  \/ SetupStream \/ RefuseSetup \/ CallNext \/ LoadChunk \/ End
  \/ ReadLayers \/ RanOut \/ DecodePoint \/ ParseFails \/ FailNext

\* Mutant (SizeHint): the number of points left is taken for exact.
SizeHint_Exact == [lower |-> remaining_candidate_points, upper |-> remaining_candidate_points]

\* size_hint
SizeHint ==
  [lower |-> IF bounds = Everywhere THEN remaining_candidate_points ELSE 0,
   upper |-> remaining_candidate_points]

-----------------------------------------------------------------------------
\* However long a chunk claims to be, and whatever is behind it, the bytes
\* read belong to chunks taken: "Without this window, malformed chunk
\* metadata can make the decoder consume bytes from the following chunk or
\* hierarchy" (ChunkReadWindow).
ReadsInsideChunks == touched \subseteq UNION {Bytes(chunks[i]) : i \in 1..next_chunk}

\* size_hint brackets the number of points to come, exactly where no bounds
\* are asked for, through the whole iteration.  Where the layers of a chunk
\* are cut off the points to come are not known.
HintBrackets ==
  LET to_come == Len(Expected(file, chunks, bounds)) - Len(out) IN
  pc = "idle" /\ result # "err" /\ WholeOnes(file, chunks) = Len(chunks)
  => SizeHint.lower <= to_come /\ to_come <= SizeHint.upper
=============================================================================

----------------------------- MODULE RangeFetch -----------------------------
(***************************************************************************)
(* CopcRangeReader::read_points and read_columns once the hierarchy has    *)
(* given the chunks of the query: chunks that are near each other in the   *)
(* file are fetched with one request, and each is decoded out of its slice *)
(* of the answer.  The two differ only in how a point is kept: here as the *)
(* point.                                                                  *)
(***************************************************************************)
EXTENDS PointChunks

CONSTANTS
  Gap,        \* RANGE_COALESCE_GAP_BYTES
  MaxRange    \* MAX_COALESCED_RANGE_BYTES

ASSUME RangeAssumption == Gap \in Nat /\ MaxRange \in Nat

\* pc: "new", "group", "decode", "returned".
VARIABLES
  groups,     \* the groups of chunks not fetched yet
  bytes,      \* the bytes of the group fetched
  slices,     \* the chunks of that group not decoded yet
  start,      \* where that group starts
  requests    \* history: the ranges requested, in order

rangeVars == <<groups, bytes, slices, start, requests>>

RangesInit == groups = <<>> /\ bytes = <<>> /\ slices = <<>> /\ start = 0 /\ requests = <<>>

-----------------------------------------------------------------------------
EndOf(e) == e.offset + e.byte_size

\* Mutant (Joins): the size of the group is looked at without the new chunk.
Joins_Late(group, e) == e.offset <= group.end + Gap /\ group.end - group.start <= MaxRange

Joins(group, e) == e.offset <= group.end + Gap /\ EndOf(e) - group.start <= MaxRange

\* coalesce_chunks, one chunk.
AddChunk(gs, e) ==
  IF gs # <<>> /\ Joins(Last(gs), e)
    THEN Append(Front(gs), [start |-> Last(gs).start, end |-> Max({Last(gs).end, EndOf(e)}),
                            entries |-> Append(Last(gs).entries, e)])
    ELSE Append(gs, [start |-> e.offset, end |-> EndOf(e), entries |-> <<e>>])

CoalesceChunks(entries) ==
  LET grouped[n \in 0..Len(entries)] ==
        IF n = 0 THEN <<>> ELSE AddChunk(grouped[n - 1], entries[n])
  IN grouped[Len(entries)]

\* The decoder is made, or refused, and the chunks are grouped.
SetupRanges ==
  /\ pc = "new"
  /\ \/ /\ groups' = CoalesceChunks(chunks)
        /\ pc' = "group" /\ UNCHANGED result
     \/ Return("err") /\ UNCHANGED groups
  /\ UNCHANGED <<request, bytes, slices, start, out, requests>>

\* fetch_range
FetchRange ==
  /\ pc = "group" /\ groups # <<>>
  /\ LET g == Head(groups) IN
     /\ requests' = Append(requests, g.start .. g.end - 1)
     /\ bytes' = SubSeq(file.data, g.start + 1, g.end)
     /\ slices' = g.entries
     /\ start' = g.start
  /\ groups' = Tail(groups)
  /\ pc' = "decode"
  /\ UNCHANGED <<request, out, result>>

\* The request has been made, and fails.
FetchFails ==
  /\ pc = "group" /\ groups # <<>>
  /\ requests' = Append(requests, Head(groups).start .. Head(groups).end - 1)
  /\ Return("err")
  /\ UNCHANGED <<request, groups, bytes, slices, start, out>>

\* Mutant (ChunkSlice): the slice is taken from the start of the group.
ChunkSlice_FromStart(e) == SubSeq(bytes, 1, e.byte_size)

\* chunk_slice
ChunkSlice(e) == SubSeq(bytes, e.offset - start + 1, e.offset - start + e.byte_size)

\* decode_chunk_points, decode_into
DecodeChunk ==
  /\ pc = "decode" /\ slices # <<>>
  /\ LayersIn(ChunkSlice(Head(slices)))
  /\ out' = out \o Filtered(bounds, Decoded(ChunkSlice(Head(slices)), Head(slices).point_count))
  /\ slices' = Tail(slices)
  /\ UNCHANGED <<request, pc, groups, bytes, start, result, requests>>

\* The layers of the chunk are cut off, or the decompressor finds an error.
DecodeFails ==
  /\ pc = "decode" /\ slices # <<>>
  /\ Return("err")
  /\ UNCHANGED <<request, groups, bytes, slices, start, out, requests>>

EndGroup ==
  /\ pc = "decode" /\ slices = <<>>
  /\ pc' = "group"
  /\ UNCHANGED <<request, groups, bytes, slices, start, out, result, requests>>

FinishRanges ==
  /\ pc = "group" /\ groups = <<>>
  /\ Return("ok")
  /\ UNCHANGED <<request, groups, bytes, slices, start, out, requests>>

RangesNext ==
  \/ SetupRanges \/ FetchRange \/ FetchFails \/ DecodeChunk \/ DecodeFails \/ EndGroup \/ FinishRanges

-----------------------------------------------------------------------------
\* No byte is requested twice, requests go forward through the file, a
\* request is larger than the limit only for the sake of one chunk, and what
\* is fetched without being asked for lies in gaps no larger than the gap
\* limit (coalesce_chunks).
Asked == UNION {Bytes(chunks[i]) : i \in DOMAIN chunks}

RequestsFrugal ==
  /\ \A i, j \in DOMAIN requests : i < j => \A a \in requests[i], b \in requests[j] : a < b
  /\ \A i \in DOMAIN requests :
       /\ \/ Cardinality(requests[i]) <= MaxRange
          \/ \E k \in DOMAIN chunks : requests[i] = Bytes(chunks[k])
       /\ \A a, b \in requests[i] : a <= b /\ (a..b) \cap Asked = {} => b - a < Gap
=============================================================================

----------------------------- MODULE FileLayout -----------------------------
(***************************************************************************)
(* A whole COPC file, from what the caller asks for to the bytes the       *)
(* readers open (copc-writer writer.rs, write_copc_inner): the LAS header  *)
(* with counts and offsets worked out beforehand, the VLRs, the chunks,    *)
(* the hierarchy EVLR (HierarchyPages), the records after it, and at last  *)
(* the two places that are patched because they were not known before.     *)
(*                                                                         *)
(* Abstracted: a chunk is known by its node and has ChunkBytes bytes       *)
(* (ChunkStream has the chunk section in detail), and the file becomes     *)
(* visible when it is finished (AtomicOutput has how).  The sums of record *)
(* sizes cannot overflow: at most MaxVlrCount records of U16Max bytes.     *)
(***************************************************************************)
EXTENDS HierarchyPages, FileOpen

CONSTANTS
  Jobs,             \* calls of the writer: see SourceMetadata; job.tree is the
                    \* list of the octree's nodes, with key and point count
  U16Max,           \* u16::MAX, the longest payload of a VLR
  LazBytes,         \* the payload of the LAZ VLR
  ChunkBytes,       \* the bytes of a chunk
  TableBytes,       \* the bytes of the chunk table
  Damaged(_)        \* files that differ from a file in one place

ASSUME LayoutAssumption ==
  U16Max \in Nat /\ LazBytes \in Nat /\ ChunkBytes \in Nat \ {0} /\ TableBytes \in Nat \ {0}

JobRecords == UNION {Range(j.vlrs) \cup Range(j.evlrs) : j \in Jobs}

Node == [key : Key, point_count : Nat \ {0}]

\* A call without points is refused at once (writer.rs:93, 225).  LodIndex
\* shows that the nodes are of one octree and that each key has one node.
ASSUME JobsAssumption ==
  /\ \A r \in JobRecords : UnsignedRecord(r)
  /\ \A j \in Jobs :
       /\ j.vlrs \in Seq(JobRecords) /\ j.evlrs \in Seq(JobRecords)
       /\ j.tree \in Seq(Node) /\ j.tree # <<>>
       /\ \A i \in DOMAIN j.tree : InSubtree(j.tree[i].key, Root)
       /\ \A i, k \in DOMAIN j.tree : j.tree[i].key = j.tree[k].key => i = k

VARIABLES
  job,        \* the call
  metadata,   \* OutputLasMetadata, with the extra-bytes descriptors
  file        \* its length, and what starts at which offset

vars == <<job, metadata, file, pageVars, phase>>

NoFile == [len |-> 0, at |-> <<>>]

Init ==
  /\ job \in Jobs
  /\ metadata = <<>> /\ file = NoFile
  /\ NoPages
  /\ phase = "metadata"

\* The head of convert_las_to_copc_streaming_inner, and to_output.
ReadMetadata ==
  /\ phase = "metadata"
  /\ IF job.call = "convert" /\ ~ (SourceEvlrsRead(job) /\ ConversionSupported(job))
       THEN phase' = "rejected" /\ UNCHANGED metadata
       ELSE /\ metadata' = IF job.call = "convert" THEN FromLasHeader(job) ELSE ToOutput(job)
            /\ phase' = "head"
  /\ UNCHANGED <<job, file, pageVars>>

-----------------------------------------------------------------------------
Evlr(record) == [form |-> "evlr", record |-> record]

StorageBytes(list, form) == TotalBytes(list) + Len(list) * HeaderBytes(form)

\* The records one after the other from an offset.
LaidOut(list, from, form) ==
  LET start(i) == from + StorageBytes(SubSeq(list, 1, i - 1), form) IN
  [o \in {start(i) : i \in DOMAIN list} |->
     [form |-> form, record |-> list[CHOOSE i \in DOMAIN list : start(i) = o]]]

\* The first 160 bytes of payload are zero until they are patched.
InfoRecord(offset, size) ==
  Record("copc info", CopcInfoBytes, [root_hier_offset |-> offset, root_hier_size |-> size])

LazRecord == Record("laszip", LazBytes, "items")

NumberOfVlrs(m) ==
  2 + Len(m.crs_vlrs) + Len(m.extra_bytes_vlrs) + Len(m.pass_through_vlrs)

NumberOfEvlrs(m) == 1 + Len(m.evlrs_after_hierarchy)

OffsetToPointData(m) ==
  LasHeaderBytes + StorageBytes(<<InfoRecord(0, 0), LazRecord>>, "vlr")
    + StorageBytes(m.crs_vlrs, "vlr") + StorageBytes(m.extra_bytes_vlrs, "vlr")
    + StorageBytes(m.pass_through_vlrs, "vlr")

CallerVlrs(m) == m.crs_vlrs \o m.extra_bytes_vlrs \o m.pass_through_vlrs

\* What the header and the VLRs cannot hold; identifiers and dates are
\* checked as the header is written.
HeadFits(m) ==
  /\ \A i \in DOMAIN CallerVlrs(m) : CallerVlrs(m)[i].bytes <= U16Max
  /\ NumberOfVlrs(m) <= MaxVlrCount /\ NumberOfEvlrs(m) <= MaxEvlrCount
  /\ LazBytes <= U16Max
  /\ "identifiers" \notin job.unfit

PointTotal == Total([i \in DOMAIN job.tree |-> job.tree[i].point_count])

LasHeader ==
  [form |-> "header", wkt |-> TRUE,
   offset_to_point_data |-> OffsetToPointData(metadata),
   number_of_vlrs |-> NumberOfVlrs(metadata),
   offset_to_first_evlr |-> 0, number_of_evlrs |-> NumberOfEvlrs(metadata),
   number_of_points |-> PointTotal]

\* The header and the VLRs, which must end where the header says.
WriteHead ==
  /\ phase = "head"
  /\ LET vlrs == <<InfoRecord(0, 0), LazRecord>> \o CallerVlrs(metadata)
         end == LasHeaderBytes + StorageBytes(vlrs, "vlr") IN
     IF ~ HeadFits(metadata) THEN phase' = "rejected" /\ UNCHANGED file
     ELSE IF end # OffsetToPointData(metadata) THEN phase' = "refused" /\ UNCHANGED file
     ELSE /\ file' = [len |-> end,
                      at |-> Placed(LaidOut(vlrs, LasHeaderBytes, "vlr"), 0, LasHeader)]
          /\ phase' = "chunks"
  /\ UNCHANGED <<job, metadata, pageVars>>

\* compress_nodes: the pointer to the chunk table, a chunk for each node,
\* the table.
WriteChunks ==
  /\ phase = "chunks"
  /\ LET offset(i) == file.len + 8 + ChunkBytes * (i - 1)
         table == offset(Len(job.tree) + 1)
         chunks == [o \in {offset(i) : i \in DOMAIN job.tree} |->
                      [form |-> "chunk",
                       node |-> CHOOSE i \in DOMAIN job.tree : offset(i) = o]]
         pointed == Placed(file.at, file.len, [form |-> "pointer"]) IN
     /\ file' = [len |-> table + TableBytes,
                 at |-> Placed(Added(pointed, chunks), table, [form |-> "table"])]
     /\ StartPlan([i \in DOMAIN job.tree |->
                     [key |-> job.tree[i].key, offset |-> offset(i), byte_size |-> ChunkBytes,
                      point_count |-> job.tree[i].point_count]],
                  table + TableBytes + HeaderBytes("evlr"))
  /\ UNCHANGED <<job, metadata>>

\* HierarchyPages, between two writes to the file.
WritePages == PageStep /\ UNCHANGED <<job, metadata, file>>

\* The header of the hierarchy EVLR, with the size of all pages.
WriteEvlrHeader ==
  /\ phase = "assign" /\ work = <<>>
  /\ file' = [len |-> file.len + HeaderBytes("evlr"),
              at |-> Placed(file.at, file.len,
                       Evlr(Record("copc hierarchy", next - root_hier_offset, "pages")))]
  /\ IF file'.len # root_hier_offset THEN phase' = "refused" /\ UNCHANGED work
     ELSE StartPhase("write")
  /\ UNCHANGED <<job, metadata, pageInput, pages, ranges, next, body>>

\* The entries written by WritePages, and the EVLRs after them.
WriteRecords ==
  /\ phase = "records"
  /\ LET slot(i) == root_hier_offset + EntryBytes * (i - 1)
         after == metadata.evlrs_after_hierarchy IN
     file' = [len |-> Position + StorageBytes(after, "evlr"),
              at |-> Added(Added(file.at,
                                 [o \in {slot(i) : i \in DOMAIN body} |->
                                    [form |-> "entry",
                                     entry |-> body[CHOOSE i \in DOMAIN body : slot(i) = o]]]),
                           LaidOut(after, Position, "evlr"))]
  /\ phase' = "patch"
  /\ UNCHANGED <<job, metadata, pageVars>>

HierarchyEvlrStart == root_hier_offset - HeaderBytes("evlr")

\* The COPC info payload, and the offset of the first EVLR; the file is then
\* flushed, synced and renamed.
Patch ==
  /\ phase = "patch"
  /\ file' = [file EXCEPT
                !.at[LasHeaderBytes].record = InfoRecord(root_hier_offset, ranges[Root][2]),
                !.at[0].offset_to_first_evlr = HierarchyEvlrStart]
  /\ phase' = "done"
  /\ UNCHANGED <<job, metadata, pageVars>>

\* Any read or write may fail, and the caller may cancel: no file.
Fail ==
  /\ phase \in {"metadata", "head", "chunks", "assign", "write", "records", "patch"}
  /\ phase' = "failed"
  /\ UNCHANGED <<job, metadata, file, pageVars>>

\* Another program leaves a file with one thing changed.
Damage ==
  /\ phase = "done"
  /\ file' \in Damaged(file) /\ UnsignedFields(file')
  /\ phase' = "damaged"
  /\ UNCHANGED <<job, metadata, pageVars>>

Next ==
  \/ ReadMetadata \/ WriteHead \/ WriteChunks \/ WritePages \/ WriteEvlrHeader
  \/ WriteRecords \/ Patch \/ Fail \/ Damage

Spec == Init /\ [][Next]_vars

-----------------------------------------------------------------------------
\* The offsets, sizes and positions worked out in different places agree: the
\* writer never finds itself where it did not expect to be, in the VLRs, at
\* the root page or at any other page.
NeverRefused == phase # "refused"

\* What has been written can be opened, and is a file both readers can take:
\* every page of it in its section, in no other page and led to by one
\* pointer, every page the subtree of its key, every key once, the chunks
\* apart and in their section, the total right.
WrittenWellFormed == phase = "done" => SeekOpens(file) /\ WellFormed(SeekView(file))

\* From the root page one finds every node of the octree, and nothing else,
\* and each entry leads to the chunk of its own node.
AllNodesWritten ==
  phase = "done" =>
    LET nodes == {e \in AllEntries(SeekView(file)) : ~ IsChildPage(e)} IN
    /\ \A e \in nodes : e.offset \in DOMAIN file.at /\ file.at[e.offset].form = "chunk"
    /\ {<<e.key, e.point_count, file.at[e.offset].node>> : e \in nodes}
         = {<<job.tree[i].key, job.tree[i].point_count, i>> : i \in DOMAIN job.tree}

OutputVlrs == RecordsAt(file, Vlrs(file))
OutputEvlrs == RecordsAt(file, Evlrs(file))

\* What a reader of the new file finds of the source, whatever the writer
\* meant to write: the records that still hold are there once each, in the
\* order they had; those that describe the old file (its LAZ items, COPC info
\* and hierarchy) are not; there is a WKT record behind the header's WKT bit,
\* the source's own, or the caller's if the source has none, and a source CRS
\* is not dropped without one.
RecordsCarried ==
  phase = "done" =>
    LET vlrs(kind) == OfKind(OutputVlrs, kind)
        evlrs(kind) == OfKind(OutputEvlrs, kind)
        converted == job.call = "convert" IN
    /\ vlrs("other") = OfKind(job.vlrs, "other") /\ evlrs("other") = OfKind(job.evlrs, "other")
    /\ vlrs("extra bytes") = IF job.extra_bytes THEN OfKind(job.vlrs, "extra bytes") ELSE <<>>
    /\ evlrs("extra bytes") = OfKind(job.evlrs, "extra bytes")
    /\ Len(vlrs("laszip")) = 1 /\ vlrs("laszip")[1] = LazRecord /\ evlrs("laszip") = <<>>
    /\ Len(vlrs("copc info")) = 1 /\ evlrs("copc info") = <<>>
    /\ Len(evlrs("copc hierarchy")) = 1 /\ vlrs("copc hierarchy") = <<>>
    /\ vlrs("geotiff") = <<>> /\ evlrs("geotiff") = <<>>
    /\ IF HasRecord(job, "wkt")
         THEN vlrs("wkt") = OfKind(job.vlrs, "wkt") /\ evlrs("wkt") = OfKind(job.evlrs, "wkt")
         ELSE /\ Len(vlrs("wkt")) = 1 /\ evlrs("wkt") = <<>>
              /\ HasRecord(job, "geotiff") \/ (~ converted /\ HasOverride(job))
                   <=> vlrs("wkt")[1].data = "override"

\* The two readers look for the hierarchy in different ways.  A file the
\* seek-based one opens, as written or with one thing changed, the range
\* reader opens with the same sections, unless its VLRs are too long to
\* fetch; and the sections of either are those the models of the readers
\* start from.
ReadersAgree ==
  phase \in {"done", "damaged"} =>
    /\ SeekOpens(file) =>
         /\ ValidSections(SeekView(file))
         /\ VlrSectionBytes(file) <= MaxVlrSectionBytes =>
              RangeOpens(file) /\ RangeView(file) = SeekView(file)
    /\ RangeOpens(file) => ValidSections(RangeView(file))
=============================================================================

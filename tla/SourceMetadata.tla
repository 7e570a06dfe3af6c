--------------------------- MODULE SourceMetadata ---------------------------
(***************************************************************************)
(* Which VLRs and EVLRs go into a new COPC file (copc-writer metadata.rs   *)
(* and validate.rs): the records of a converted source that are carried    *)
(* over, those that no longer fit the file, and the CRS record LAS 1.4     *)
(* asks for.                                                               *)
(*                                                                         *)
(* Abstracted: a record is its kind (user and record id), the bytes of its *)
(* payload and a name for what is in it.  A job is a call of the writer:   *)
(* how ("convert" a LAS source or "write" points), the records of the      *)
(* source or of the caller's layout, whether its points have extra bytes,  *)
(* the caller's WKT and what about the call LAS or the writer cannot hold. *)
(***************************************************************************)
EXTENDS Lists

CONSTANTS
  MaxVlrCount,          \* MAX_VLR_COUNT
  MaxEvlrCount,         \* MAX_EVLR_COUNT
  MaxSourceEvlrBytes,   \* MAX_SOURCE_EVLR_TOTAL_BYTES
  WktBytes              \* the length of the caller's WKT, with its NUL

ASSUME MetadataAssumption ==
  MaxVlrCount \in Nat /\ MaxEvlrCount \in Nat /\ MaxSourceEvlrBytes \in Nat /\ WktBytes \in Nat

Record(kind, bytes, data) == [kind |-> kind, bytes |-> bytes, data |-> data]

OfKind(list, kind) == Those(list, {r \in Range(list) : r.kind = kind})

TotalBytes(list) == Total([i \in DOMAIN list |-> list[i].bytes])

\* has_wkt_crs_record, has_geotiff_crs_record
HasRecord(job, kind) == OfKind(job.vlrs \o job.evlrs, kind) # <<>>

\* normalized_crs_wkt_override: a blank text is no text.
HasOverride(job) == job.wkt = "text"

\* wkt_crs_record, for the caller's text and for none.
OverrideRecord == Record("wkt", WktBytes, "override")
EmptyWktRecord == Record("wkt", 1, "empty")

\* read_all_source_evlrs, of a source whose EVLRs are all in the file.
SourceEvlrsRead(job) ==
  Len(job.evlrs) <= MaxEvlrCount /\ TotalBytes(job.evlrs) <= MaxSourceEvlrBytes

\* validate_las_conversion_supported: neither NIR nor waveforms, and no CRS
\* that would have to be translated.
ConversionSupported(job) ==
  /\ Len(job.vlrs) <= MaxVlrCount
  /\ "point format" \notin job.unfit
  /\ HasRecord(job, "geotiff") => HasRecord(job, "wkt") \/ HasOverride(job)

-----------------------------------------------------------------------------
\* The kinds that no converted record keeps, or that go with the CRS.
Replaced == {"laszip", "copc info", "copc hierarchy", "wkt", "geotiff"}

\* Mutant (PassThrough): the hierarchy of a COPC source is kept.
PassThrough_Hierarchy(list, others) ==
  Those(list, {r \in Range(list) : r.kind \notin (Replaced \ {"copc hierarchy"}) \cup others})

\* extract_pass_through_vlrs, extract_pass_through_evlrs
PassThrough(list, others) ==
  Those(list, {r \in Range(list) : r.kind \notin Replaced \cup others})

\* ensure_wkt_conformance
EnsureWkt(crs) == IF crs = <<>> THEN <<EmptyWktRecord>> ELSE crs

\* OutputLasMetadata::from_las_header.  The descriptors of extra bytes come
\* with the layout of the points, StreamingLayout::from_las_header.
FromLasHeader(job) ==
  LET crs_evlrs == OfKind(job.evlrs, "wkt")
      crs_vlrs ==
        IF ~ HasRecord(job, "wkt") /\ HasRecord(job, "geotiff") /\ HasOverride(job)
          THEN <<OverrideRecord>> ELSE OfKind(job.vlrs, "wkt") IN
  [crs_vlrs |-> IF crs_evlrs = <<>> THEN EnsureWkt(crs_vlrs) ELSE crs_vlrs,
   extra_bytes_vlrs |-> IF job.extra_bytes THEN OfKind(job.vlrs, "extra bytes") ELSE <<>>,
   pass_through_vlrs |-> PassThrough(job.vlrs, {"extra bytes"}),
   evlrs_after_hierarchy |-> crs_evlrs \o PassThrough(job.evlrs, {})]

\* CopcWriteMetadata::to_output
ToOutput(job) ==
  [crs_vlrs |-> EnsureWkt(IF HasOverride(job) THEN <<OverrideRecord>> ELSE <<>>),
   extra_bytes_vlrs |-> job.vlrs,
   pass_through_vlrs |-> <<>>,
   evlrs_after_hierarchy |-> <<>>]
=============================================================================

------------------------------ MODULE FileOpen ------------------------------
(***************************************************************************)
(* How the two readers open a COPC file, up to the root hierarchy page:    *)
(* the LAS header, the VLRs, and the EVLR of the hierarchy.                *)
(* CopcFile::from_reader walks the EVLRs from the header's first one;      *)
(* CopcRangeReader::open goes straight to what the COPC info VLR says and  *)
(* reads 60 bytes in front of it.  Both end with the record of a file      *)
(* that HierarchyFile describes, where EagerReader and RangedReader start. *)
(*                                                                         *)
(* A file is its length and what starts at which offset.  Abstracted: a    *)
(* record read where no record starts is refused; versions, point formats  *)
(* and numbers of the header are right.                                    *)
(***************************************************************************)
EXTENDS HierarchyFile, SourceMetadata, SequencesExt

CONSTANT MaxVlrSectionBytes   \* MAX_VLR_SECTION_BYTES

ASSUME OpenAssumption == MaxVlrSectionBytes \in Nat

LasHeaderBytes == 375
CopcInfoBytes == 160
HeaderBytes(form) == IF form = "vlr" THEN 54 ELSE 60

Placed(at, offset, what) ==
  [o \in DOMAIN at \cup {offset} |-> IF o = offset THEN what ELSE at[o]]

\* More at offsets where nothing is yet.
Added(at, more) ==
  [o \in DOMAIN at \cup DOMAIN more |-> IF o \in DOMAIN at THEN at[o] ELSE more[o]]

RecordEnd(f, offset, form) == offset + HeaderBytes(form) + f.at[offset].record.bytes

\* A header of this form starts here, and its record ends before `end`.
RecordIn(f, offset, form, end) ==
  /\ offset + HeaderBytes(form) <= end
  /\ offset \in DOMAIN f.at /\ f.at[offset].form = form
  /\ RecordEnd(f, offset, form) <= end

\* read_vlrs and read_evlr_refs: `count` records one after the other.  The
\* offsets of their headers and the end of the last one, or nothing.
Walk(f, from, count, form, end) ==
  LET found[n \in 0..count] ==
        IF n = 0 THEN <<from>>
        ELSE IF found[n - 1] # <<>> /\ RecordIn(f, Last(found[n - 1]), form, end)
          THEN Append(found[n - 1], RecordEnd(f, Last(found[n - 1]), form))
        ELSE <<>>
  IN found[count]

RecordsAt(f, offsets) == [i \in 1..Len(offsets) - 1 |-> f.at[offsets[i]].record]

-----------------------------------------------------------------------------
Header(f) == f.at[0]

\* What a file says in counts, sizes and offsets is unsigned numbers.
UnsignedRecord(record) ==
  /\ record.bytes \in Nat
  /\ record.kind = "copc info" =>
       record.data.root_hier_offset \in Nat /\ record.data.root_hier_size \in Nat

UnsignedFields(f) ==
  /\ f.len \in Nat /\ DOMAIN f.at \subseteq Nat
  /\ Header(f).offset_to_point_data \in Nat /\ Header(f).number_of_vlrs \in Nat
  /\ Header(f).offset_to_first_evlr \in Nat /\ Header(f).number_of_evlrs \in Nat
  /\ \A o \in DOMAIN f.at :
       f.at[o].form \in {"vlr", "evlr"} => UnsignedRecord(f.at[o].record)

\* read_las_header
HeaderReads(f) ==
  /\ f.len >= LasHeaderBytes
  /\ Header(f).wkt
  /\ Header(f).offset_to_point_data \in LasHeaderBytes..f.len
  /\ Header(f).number_of_vlrs <= MaxVlrCount
  /\ Header(f).number_of_evlrs <= MaxEvlrCount
  /\ Header(f).offset_to_first_evlr <= f.len

Vlrs(f) ==
  Walk(f, LasHeaderBytes, Header(f).number_of_vlrs, "vlr", Header(f).offset_to_point_data)

\* CopcInfo::validate, and validate_hierarchy_page_byte_size
ValidInfo(info) ==
  /\ info.root_hier_offset # 0 /\ info.root_hier_size # 0
  /\ info.root_hier_size % EntryBytes = 0
  /\ info.root_hier_size <= MaxPageBytes

\* read_vlrs, extract_required_vlrs
VlrsRead(f) ==
  /\ Vlrs(f) # <<>>
  /\ LET vlrs == RecordsAt(f, Vlrs(f)) IN
     /\ Len(OfKind(vlrs, "copc info")) = 1 /\ vlrs[1].kind = "copc info"
     /\ vlrs[1].bytes = CopcInfoBytes /\ ValidInfo(vlrs[1].data)
     /\ Len(OfKind(vlrs, "laszip")) = 1

Info(f) == f.at[LasHeaderBytes].record.data

Evlrs(f) ==
  IF Header(f).offset_to_first_evlr = 0 THEN <<0>>
  ELSE Walk(f, Header(f).offset_to_first_evlr, Header(f).number_of_evlrs, "evlr", f.len)

\* The first EVLR with the ids of a hierarchy.
HierarchyEvlrs(f) ==
  LET offsets == Front(Evlrs(f)) IN
  Those(offsets, {o \in Range(offsets) : f.at[o].record.kind = "copc hierarchy"})

\* What is in a slot that no entry was written to.
Noise == [key |-> [Root EXCEPT !.level = -1], offset |-> 0, byte_size |-> 0, point_count |-> 0]

\* The file as the rest of a reader sees it, with the hierarchy EVLR at
\* offset o: CopcDataRanges::new.
FileView(f, o) ==
  LET start == o + HeaderBytes("evlr")
      bytes == f.at[o].record.bytes
      at(i) == start + EntryBytes * (i - 1) IN
  [len |-> f.len,
   point_data_start |-> Header(f).offset_to_point_data,
   point_data_end |-> Header(f).offset_to_first_evlr,
   hierarchy_start |-> start, hierarchy_end |-> start + bytes,
   root_size |-> Info(f).root_hier_size,
   number_of_points |-> Header(f).number_of_points,
   slots |-> [i \in 1..(bytes \div EntryBytes) |->
                IF at(i) \in DOMAIN f.at /\ f.at[at(i)].form = "entry"
                  THEN f.at[at(i)].entry ELSE Noise]]

SectionsOrdered(f) == Header(f).offset_to_point_data <= Header(f).offset_to_first_evlr

-----------------------------------------------------------------------------
\* Mutant (SeekOpens): the two places of the root page are not compared.
SeekOpens_AnyRoot(f) ==
  /\ HeaderReads(f) /\ VlrsRead(f)
  /\ Evlrs(f) # <<>> /\ HierarchyEvlrs(f) # <<>>
  /\ Info(f).root_hier_size <= f.at[Head(HierarchyEvlrs(f))].record.bytes
  /\ SectionsOrdered(f)

\* CopcFile::from_reader
SeekOpens(f) ==
  /\ HeaderReads(f) /\ VlrsRead(f)
  /\ Evlrs(f) # <<>> /\ HierarchyEvlrs(f) # <<>>
  /\ Info(f).root_hier_offset = Head(HierarchyEvlrs(f)) + HeaderBytes("evlr")
  /\ Info(f).root_hier_size <= f.at[Head(HierarchyEvlrs(f))].record.bytes
  /\ SectionsOrdered(f)

SeekView(f) == FileView(f, Head(HierarchyEvlrs(f)))

VlrSectionBytes(f) == Header(f).offset_to_point_data - LasHeaderBytes

\* validate_root_hierarchy_evlr
RootEvlrOffset(f) == Info(f).root_hier_offset - HeaderBytes("evlr")

RootEvlrReads(f) ==
  /\ RootEvlrOffset(f) >= 0
  /\ RecordIn(f, RootEvlrOffset(f), "evlr", f.len)
  /\ f.at[RootEvlrOffset(f)].record.kind = "copc hierarchy"
  /\ Info(f).root_hier_size <= f.at[RootEvlrOffset(f)].record.bytes

\* CopcRangeReader::open
RangeOpens(f) ==
  /\ HeaderReads(f)
  /\ VlrSectionBytes(f) <= MaxVlrSectionBytes
  /\ VlrsRead(f) /\ RootEvlrReads(f)
  /\ SectionsOrdered(f)

RangeView(f) == FileView(f, RootEvlrOffset(f))
=============================================================================

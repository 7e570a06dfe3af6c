--------------------------- MODULE HierarchyFile ---------------------------
(***************************************************************************)
(* A COPC file as its readers see it: the point-data section, and the      *)
(* body of the hierarchy EVLR, a run of 32-byte entry slots out of which   *)
(* pages are cut.  The checks both readers make on entries, pages and      *)
(* chunk ranges are here, and so is what a query of the file means.        *)
(*                                                                         *)
(* Abstracted: a u64 sum that overflows is a range that ends past the end  *)
(* of the file, and both are refused; the bytes of a page are the slots it *)
(* covers, so pages start on a slot boundary.                              *)
(***************************************************************************)
EXTENDS Octree, Sequences, FiniteSetsExt

CONSTANTS
  EntryBytes,      \* HIERARCHY_ENTRY_BYTES
  MaxPageBytes,    \* MAX_HIERARCHY_PAGE_BYTES
  MaxTotalBytes,   \* MAX_HIERARCHY_TOTAL_BYTES
  MaxChunkBytes    \* MAX_POINT_CHUNK_BYTES

ASSUME LimitsAssumption ==
  /\ EntryBytes \in Nat \ {0}
  /\ MaxPageBytes \in Nat
  /\ MaxTotalBytes \in Nat
  /\ MaxChunkBytes \in Nat

Entry == [key : Key, offset : Nat, byte_size : Int, point_count : Int]

HasPointData(e) == e.point_count > 0
IsEmpty(e) == e.point_count = 0
IsChildPage(e) == e.point_count = -1

\* Entry::validate, the checks that do not depend on the file.  An entry is
\* validated while its page is decoded, before any entry of it is used.
ValidEntry(e) ==
  /\ ValidKey(e.key)
  /\ \/ IsEmpty(e) /\ e.offset = 0 /\ e.byte_size = 0
     \/ HasPointData(e) /\ e.byte_size > 0
     \/ IsChildPage(e) /\ e.byte_size > 0

(***************************************************************************)
(* f is the record of a file: its length, the section its point chunks     *)
(* must lie in, the body of the hierarchy EVLR, the size of the root page  *)
(* at the start of that body, the header's point count, and the slots.     *)
(***************************************************************************)
IsFile(f) ==
  /\ f.len \in Nat
  /\ f.point_data_start \in Nat
  /\ f.point_data_end \in Nat
  /\ f.hierarchy_start \in Nat
  /\ f.hierarchy_end \in Nat
  /\ f.root_size \in Nat
  /\ f.number_of_points \in Nat
  /\ f.slots \in Seq(Entry)
  /\ f.hierarchy_end <= f.hierarchy_start + EntryBytes * Len(f.slots)

\* The sections a reader checks before it reads the root page: the EVLR
\* header holds the root page, and the sections are in order.
ValidSections(f) ==
  /\ f.root_size > 0
  /\ f.root_size % EntryBytes = 0
  /\ f.root_size <= MaxPageBytes
  /\ f.hierarchy_start + f.root_size <= f.hierarchy_end
  /\ f.hierarchy_end <= f.len
  /\ f.point_data_start <= f.point_data_end

\* validate_hierarchy_entry, the checks against the file's sections.
EntryInSection(f, e) ==
  \/ IsEmpty(e)
  \/ /\ HasPointData(e)
     /\ e.byte_size <= MaxChunkBytes
     /\ e.offset >= f.point_data_start
     /\ e.offset + e.byte_size <= f.point_data_end
     /\ e.offset + e.byte_size <= f.len
  \/ /\ IsChildPage(e)
     /\ e.offset >= f.hierarchy_start
     /\ e.offset + e.byte_size <= f.hierarchy_end
     /\ e.offset + e.byte_size <= f.len

\* A page is known by its byte range, as in visited_pages.
PageOf(e) == <<e.offset, e.byte_size>>

PageRange == Nat \X Int

RootEntry(f) ==
  [key |-> Root, offset |-> f.hierarchy_start,
   byte_size |-> f.root_size, point_count |-> -1]

SlotAt(f, offset) == (offset - f.hierarchy_start) \div EntryBytes

InHierarchyBody(f, p) == f.hierarchy_start <= p[1] /\ p[1] + p[2] <= f.hierarchy_end

\* HierarchyPage::from_le_bytes on the bytes of page p.  Only pages inside
\* the hierarchy body are ever read.
PageEntries(f, p) ==
  IF InHierarchyBody(f, p)
    THEN SubSeq(f.slots, SlotAt(f, p[1]) + 1, SlotAt(f, p[1] + p[2]))
    ELSE <<>>

-----------------------------------------------------------------------------
(***************************************************************************)
(* The map both readers build: a voxel key has one entry, except that the  *)
(* node's own entry takes the place of the page pointer that led to it.    *)
(***************************************************************************)
\* Mutant (KeyConflict): nothing may be replaced.
KeyConflict_Strict(hierarchy, e) == e.key \in DOMAIN hierarchy

KeyConflict(hierarchy, e) ==
  /\ e.key \in DOMAIN hierarchy
  /\ ~ (IsChildPage(hierarchy[e.key]) /\ ~ IsChildPage(e))

Insert(hierarchy, e) ==
  [k \in DOMAIN hierarchy \cup {e.key} |-> IF k = e.key THEN e ELSE hierarchy[k]]

(***************************************************************************)
(* insert_point_chunk_range compares a chunk with two neighbours only: the *)
(* recorded range that starts last at or before it and the one that starts *)
(* first at or after it.  ranges maps a start to the range's end.          *)
(***************************************************************************)
OverlapsPrevious(ranges, e) ==
  \E s \in DOMAIN ranges :
    /\ s <= e.offset
    /\ \A t \in DOMAIN ranges : t <= e.offset => t <= s
    /\ ranges[s] > e.offset

OverlapsNext(ranges, e) ==
  \E s \in DOMAIN ranges :
    /\ s >= e.offset
    /\ \A t \in DOMAIN ranges : t >= e.offset => s <= t
    /\ s < e.offset + e.byte_size

\* Mutant (Overlaps): the next range is not looked at.
Overlaps_PreviousOnly(ranges, e) == OverlapsPrevious(ranges, e)

Overlaps(ranges, e) == OverlapsPrevious(ranges, e) \/ OverlapsNext(ranges, e)

AddRange(ranges, e) ==
  [s \in DOMAIN ranges \cup {e.offset} |->
     IF s = e.offset THEN e.offset + e.byte_size ELSE ranges[s]]

-----------------------------------------------------------------------------
(***************************************************************************)
(* What the file says, independently of how a reader walks it.             *)
(***************************************************************************)
SlotEntries(f) == {f.slots[i] : i \in DOMAIN f.slots}

RootPage(f) == PageOf(RootEntry(f))

EntriesIn(f, p) == {PageEntries(f, p)[i] : i \in DOMAIN PageEntries(f, p)}

PagePointers(f) == {e \in SlotEntries(f) : IsChildPage(e)}

PageRefs(f) == {RootPage(f)} \cup {PageOf(e) : e \in PagePointers(f)}

\* pages holds, with a page, every page one of the given pointers in it
\* leads to.
Closed(f, pointers, pages) ==
  \A p \in pages : \A e \in EntriesIn(f, p) \cap pointers : PageOf(e) \in pages

\* The pages the pointers lead to from the root page: the least closed set
\* that holds the root page.
LeadTo(f, pointers) ==
  {p \in PageRefs(f) :
     \A pages \in SUBSET PageRefs(f) :
       RootPage(f) \in pages /\ Closed(f, pointers, pages) => p \in pages}

AllPages(f) == LeadTo(f, PagePointers(f))

AllEntries(f) == UNION {EntriesIn(f, p) : p \in AllPages(f)}

\* The pointers a query has to follow, and the pages it has to look at.
Followed(f, q) == {e \in PagePointers(f) : PageMayMatch(e.key, q)}

ReachablePages(f, q) == LeadTo(f, Followed(f, q))

Matching(entries, q) == {e \in entries : HasPointData(e) /\ VoxelMatches(e.key, q)}

\* The chunks a query finds in the pages it reaches.
ReachableChunks(f, q) ==
  Matching(UNION {EntriesIn(f, p) : p \in ReachablePages(f, q)}, q)

\* The answer to a query on the whole file: every matching chunk of every
\* page, wherever it is.
CompleteAnswer(f, q) == Matching(AllEntries(f), q)

\* Every page holds the subtree of the key that points to it, as COPC
\* requires.  The readers take this for granted and do not check it.
SubtreeFile(f) ==
  \A e \in AllEntries(f) :
    IsChildPage(e) =>
      \A d \in EntriesIn(f, PageOf(e)) : InSubtree(d.key, e.key)

\* No page pointer is used twice: page ranges have one pointer each.
NoSharedPages(f) ==
  /\ \A i, j \in {n \in DOMAIN f.slots : IsChildPage(f.slots[n])} :
       PageOf(f.slots[i]) = PageOf(f.slots[j]) => i = j
  /\ \A e \in SlotEntries(f) : IsChildPage(e) => PageOf(e) # RootPage(f)

DisjointPages(f) ==
  \A p, q \in AllPages(f) : p # q => p[1] + p[2] <= q[1] \/ q[1] + q[2] <= p[1]

\* A key has one entry, or a pointer and a node in the page it points to.
KeysInOrder(f) ==
  \A i, j \in DOMAIN f.slots :
    i # j /\ f.slots[i].key = f.slots[j].key =>
      \E e, d \in {f.slots[i], f.slots[j]} :
        IsChildPage(e) /\ ~ IsChildPage(d) /\ d \in EntriesIn(f, PageOf(e))

\* A file whose pages, entries, chunks and totals are all in order.
WellFormed(f) ==
  LET entries == AllEntries(f)
      chunks == {e \in entries : HasPointData(e)} IN
  /\ ValidSections(f) /\ SubtreeFile(f) /\ NoSharedPages(f) /\ DisjointPages(f) /\ KeysInOrder(f)
  /\ \A e \in entries : ValidEntry(e) /\ EntryInSection(f, e)
  /\ \A d, e \in chunks :
       d # e => \/ d.offset + d.byte_size <= e.offset
                \/ e.offset + e.byte_size <= d.offset
  /\ \A p \in AllPages(f) : p[2] % EntryBytes = 0 /\ p[2] <= MaxPageBytes
  /\ SumFunction([e \in chunks |-> e.point_count]) = f.number_of_points
  /\ SumFunction([p \in AllPages(f) |-> p[2]]) <= MaxTotalBytes
=============================================================================

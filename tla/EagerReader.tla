----------------------------- MODULE EagerReader -----------------------------
(***************************************************************************)
(* CopcFile (copc-reader lib.rs): the seek-based reader.  It loads every   *)
(* hierarchy page when the file is opened, with a stack of pages to read,  *)
(* checks the chunk ranges and the point total of the whole map, and then  *)
(* answers queries out of that map.                                        *)
(*                                                                         *)
(* pc says where the call in progress is:                                  *)
(*   open    from_reader, before the root page                             *)
(*   read    insert_hierarchy_pages, at pending.pop()                      *)
(*   scan    queue_hierarchy_page, the loop that inserts entries           *)
(*   queue   queue_hierarchy_page, the loop that pushes child pages        *)
(*   ranges  validate_point_chunk_ranges                                   *)
(*   total   validate_hierarchy_point_count                                *)
(*   idle    no call in progress                                           *)
(*   select  a query, before its chunks are selected                       *)
(*   closed  open failed, there is no reader                               *)
(***************************************************************************)
EXTENDS HierarchyFile, FiniteSets, Functions, SequencesExt

CONSTANTS
  Files,      \* the files that may be opened
  Queries,    \* the queries that may be asked
  MaxFaults   \* bound: how many page reads fail

ASSUME FilesAssumption == \A f \in Files : IsFile(f)

ASSUME FaultsAssumption == MaxFaults \in Nat

VARIABLES
  file,           \* the file behind the reader
  pc,
  hierarchy,      \* key -> entry
  visited_pages,  \* page ranges ever pushed
  pending,        \* the stack of page ranges to read
  total_bytes,    \* HierarchyReadLimits::total_bytes
  page,           \* the entries of the page just read
  rest,           \* those the loop in progress has not come to
  unchecked,      \* keys of chunks whose range is not inserted yet
  ranges,         \* chunk start -> chunk end
  query, outcome, answer,
  requests,       \* history: hierarchy page ranges read, in order
  faults          \* history: page reads that failed

loading == <<hierarchy, visited_pages, pending, total_bytes, page, rest, unchecked, ranges>>
vars == <<file, pc, loading, query, outcome, answer, requests, faults>>

EmptyMap == [k \in {} |-> 0]

Init ==
  /\ file \in Files
  /\ pc = "open"
  /\ hierarchy = EmptyMap
  /\ visited_pages = {}
  /\ pending = <<>>
  /\ total_bytes = 0
  /\ page = <<>> /\ rest = <<>>
  /\ unchecked = {}
  /\ ranges = EmptyMap
  /\ query = QueryAll
  /\ outcome = "none"
  /\ answer = {}
  /\ requests = <<>>
  /\ faults = 0

\* from_reader returns Err: everything it has loaded is dropped.
Fail ==
  /\ pc' = "closed"
  /\ outcome' = "err"
  /\ UNCHANGED <<file, loading, query, answer>>

-----------------------------------------------------------------------------
\* from_reader up to the root page.  The root page is read like the others;
\* it is here the first page on the stack.
Open ==
  /\ pc = "open"
  /\ IF ValidSections(file)
       THEN /\ pc' = "read"
            /\ pending' = <<RootPage(file)>>
            /\ visited_pages' = {RootPage(file)}
            /\ UNCHANGED <<file, hierarchy, total_bytes, page, rest, unchecked, ranges,
                           query, outcome, answer>>
       ELSE Fail
  /\ UNCHANGED <<requests, faults>>

\* read_hierarchy_page_at, the checks before the bytes are read.
PageFits(p) ==
  /\ p[2] > 0 /\ p[2] % EntryBytes = 0
  /\ p[2] <= MaxPageBytes
  /\ total_bytes + p[2] <= MaxTotalBytes
  /\ p[1] + p[2] <= file.len

RefusePage ==
  /\ pc = "read"
  /\ pending # <<>>
  /\ ~ PageFits(Last(pending))
  /\ Fail
  /\ UNCHANGED <<requests, faults>>

\* pending.pop(), the page is read and decoded.
ReadPage ==
  /\ pc = "read"
  /\ pending # <<>>
  /\ LET p == Last(pending) IN
       /\ PageFits(p)
       /\ requests' = Append(requests, p)
       /\ IF \A e \in EntriesIn(file, p) : ValidEntry(e)
            THEN /\ pc' = "scan"
                 /\ pending' = Front(pending)
                 /\ total_bytes' = total_bytes + p[2]
                 /\ page' = PageEntries(file, p)
                 /\ rest' = PageEntries(file, p)
                 /\ UNCHANGED <<file, hierarchy, visited_pages, unchecked, ranges,
                                query, outcome, answer>>
            ELSE Fail
  /\ UNCHANGED faults

\* Mutant (ReadFails): a page that cannot be read is passed over.
ReadFails_Skip ==
  /\ pc = "read" /\ pending # <<>> /\ PageFits(Last(pending))
  /\ faults < MaxFaults
  /\ faults' = faults + 1
  /\ requests' = Append(requests, Last(pending))
  /\ pending' = Front(pending)
  /\ UNCHANGED <<file, pc, hierarchy, visited_pages, total_bytes, page, rest, unchecked,
                 ranges, query, outcome, answer>>

\* The page cannot be read.
ReadFails ==
  /\ pc = "read"
  /\ pending # <<>>
  /\ PageFits(Last(pending))
  /\ faults < MaxFaults
  /\ faults' = faults + 1
  /\ requests' = Append(requests, Last(pending))
  /\ Fail

\* The first loop of queue_hierarchy_page.
ScanEntry ==
  /\ pc = "scan"
  /\ rest # <<>>
  /\ LET e == Head(rest) IN
       IF EntryInSection(file, e) /\ ~ KeyConflict(hierarchy, e)
         THEN /\ hierarchy' = Insert(hierarchy, e)
              /\ rest' = Tail(rest)
              /\ UNCHANGED <<file, pc, visited_pages, pending, total_bytes, page, unchecked,
                             ranges, query, outcome, answer>>
         ELSE Fail
  /\ UNCHANGED <<requests, faults>>

EndScan ==
  /\ pc = "scan"
  /\ rest = <<>>
  /\ pc' = "queue"
  /\ rest' = page
  /\ UNCHANGED <<file, hierarchy, visited_pages, pending, total_bytes, page, unchecked, ranges,
                 query, outcome, answer, requests, faults>>

\* The second loop: a child page is pushed the first time it is seen.
QueueEntry ==
  /\ pc = "queue"
  /\ rest # <<>>
  /\ IF IsChildPage(Head(rest)) /\ PageOf(Head(rest)) \notin visited_pages
       THEN /\ visited_pages' = visited_pages \cup {PageOf(Head(rest))}
            /\ pending' = Append(pending, PageOf(Head(rest)))
       ELSE UNCHANGED <<visited_pages, pending>>
  /\ rest' = Tail(rest)
  /\ UNCHANGED <<file, pc, hierarchy, total_bytes, page, unchecked, ranges, query,
                 outcome, answer, requests, faults>>

EndQueue ==
  /\ pc = "queue"
  /\ rest = <<>>
  /\ pc' = "read"
  /\ page' = <<>>
  /\ UNCHANGED <<file, hierarchy, visited_pages, pending, total_bytes, rest, unchecked, ranges,
                 query, outcome, answer, requests, faults>>

ChunkKeys == {k \in DOMAIN hierarchy : HasPointData(hierarchy[k])}

\* The stack is empty: the hierarchy is complete.
EndRead ==
  /\ pc = "read"
  /\ pending = <<>>
  /\ pc' = "ranges"
  /\ unchecked' = ChunkKeys
  /\ UNCHANGED <<file, hierarchy, visited_pages, pending, total_bytes, page, rest, ranges,
                 query, outcome, answer, requests, faults>>

\* One turn of validate_point_chunk_ranges.  The code takes the keys in
\* order; the verdict is the same in any order.
CheckRange ==
  /\ pc = "ranges"
  /\ \E k \in unchecked :
       IF Overlaps(ranges, hierarchy[k])
         THEN Fail
         ELSE /\ ranges' = AddRange(ranges, hierarchy[k])
              /\ unchecked' = unchecked \ {k}
              /\ UNCHANGED <<file, pc, hierarchy, visited_pages, pending, total_bytes, page,
                             rest, query, outcome, answer>>
  /\ UNCHANGED <<requests, faults>>

EndRanges ==
  /\ pc = "ranges"
  /\ unchecked = {}
  /\ pc' = "total"
  /\ UNCHANGED <<file, loading, query, outcome, answer, requests, faults>>

\* Mutant (TotalMatches): a file with points left over is accepted.
TotalMatches_AtMost ==
  SumFunction([k \in ChunkKeys |-> hierarchy[k].point_count]) <= file.number_of_points

\* validate_hierarchy_point_count
TotalMatches ==
  SumFunction([k \in ChunkKeys |-> hierarchy[k].point_count]) = file.number_of_points

CheckTotal ==
  /\ pc = "total"
  /\ IF TotalMatches
       THEN pc' = "idle" /\ outcome' = "opened" /\ UNCHANGED <<file, loading, query, answer>>
       ELSE Fail
  /\ UNCHANGED <<requests, faults>>

-----------------------------------------------------------------------------
Ask(q) ==
  /\ pc = "idle"
  /\ pc' = "select"
  /\ query' = q
  /\ outcome' = "none"
  /\ answer' = {}
  /\ UNCHANGED <<file, loading, requests, faults>>

\* validate_query, then select_point_chunks.
Select ==
  /\ pc = "select"
  /\ pc' = "idle"
  /\ IF ValidQuery(query) /\ ValidLod(query.lod)
       THEN outcome' = "ok" /\ answer' = Matching(Range(hierarchy), query)
       ELSE outcome' = "err" /\ answer' = {}
  /\ UNCHANGED <<file, loading, query, requests, faults>>

Next ==
  \/ Open \/ RefusePage \/ ReadPage \/ ReadFails
  \/ ScanEntry \/ EndScan \/ QueueEntry \/ EndQueue \/ EndRead
  \/ CheckRange \/ EndRanges \/ CheckTotal
  \/ Select \/ \E q \in Queries : Ask(q)

Spec == Init /\ [][Next]_vars

-----------------------------------------------------------------------------
(***************************************************************************)
(* The inductive invariant behind the proofs of EagerReader_proofs.        *)
(***************************************************************************)
Loaded == {"ranges", "total", "idle", "select"}

InProgress(p) == pc \in {"scan", "queue"} /\ p = Last(requests)

\* Where the page in progress comes from, and that the stack is empty once
\* the hierarchy is loaded.
ControlInv ==
  /\ pc = "open" => requests = <<>>
  /\ pc \in {"scan", "queue"} =>
       /\ requests # <<>>
       /\ page = PageEntries(file, Last(requests))
       /\ Range(rest) \subseteq Range(page)
  /\ pc \in Loaded => pending = <<>>
  /\ pc \notin {"open", "closed"} => RootPage(file) \in visited_pages
  /\ \A e \in Range(rest) \cup Range(page) \cup Range(hierarchy) : ValidEntry(e)

\* All that is loaded comes out of the pages of the file.
OriginInv ==
  /\ pc \in {"scan", "queue"} => Last(requests) \in visited_pages
  /\ visited_pages \subseteq AllPages(file)
  /\ Range(pending) \subseteq visited_pages
  /\ Range(hierarchy) \subseteq AllEntries(file)

\* Nothing a page that has been read holds is forgotten.
PagesAccounted ==
  pc # "closed" =>
    \A p \in visited_pages \ Range(pending) : \A e \in EntriesIn(file, p) :
      /\ HasPointData(e) =>
           \/ e.key \in DOMAIN hierarchy /\ hierarchy[e.key] = e
           \/ pc = "scan" /\ InProgress(p) /\ e \in Range(rest)
      /\ IsChildPage(e) =>
           \/ PageOf(e) \in visited_pages
           \/ InProgress(p) /\ (pc = "scan" \/ e \in Range(rest))

\* The ranges of the chunks checked so far, in order and apart.
RangesInv ==
  /\ \A s \in DOMAIN ranges : s < ranges[s]
  /\ \A s, t \in DOMAIN ranges : s < t => ranges[s] <= t
  /\ pc \in Loaded =>
       /\ unchecked \subseteq ChunkKeys
       /\ pc # "ranges" => unchecked = {}
       /\ \A k \in ChunkKeys \ unchecked :
            /\ hierarchy[k].offset \in DOMAIN ranges
            /\ ranges[hierarchy[k].offset] = hierarchy[k].offset + hierarchy[k].byte_size
            /\ \A l \in ChunkKeys \ unchecked :
                 hierarchy[k].offset = hierarchy[l].offset => k = l

\* A page is on the stack or has been requested, and never twice.
RequestsInv ==
  /\ IsInjective(requests)
  /\ pc # "closed" =>
       /\ Range(requests) \subseteq visited_pages
       /\ IsInjective(pending)
       /\ Range(requests) \cap Range(pending) = {}

\* Nothing goes wrong while a well-formed file is loaded: every page but the
\* root has its pointer in a page read before it, an entry at hand is not in
\* the map yet, and a recorded range is that of a chunk checked before.
NothingWrong ==
  /\ pc # "closed"
  /\ total_bytes = SumFunction([i \in DOMAIN requests |-> requests[i][2]])
  /\ \A d \in Range(hierarchy) : \E p \in Range(requests) : d \in EntriesIn(file, p)
  /\ \A p \in visited_pages \ {RootPage(file)} : \E r \in Range(requests) :
       /\ pc = "scan" => r # Last(requests)
       /\ \E e \in EntriesIn(file, r) : IsChildPage(e) /\ PageOf(e) = p
  /\ pc = "scan" => IsInjective(rest) /\ Range(rest) \cap Range(hierarchy) = {}
  /\ pc \notin Loaded => DOMAIN ranges = {}
  /\ \A s \in DOMAIN ranges : \E k \in ChunkKeys \ unchecked :
       s = hierarchy[k].offset /\ ranges[s] = s + hierarchy[k].byte_size

WellFormedInv == WellFormed(file) /\ faults = 0 => NothingWrong

-----------------------------------------------------------------------------
(***************************************************************************)
(* Properties.                                                             *)
(***************************************************************************)
Opened == pc \in {"idle", "select"}

\* Every variable has its type (CopcFile, and the locals of from_reader).
TypeOK ==
  /\ file \in Files
  /\ pc \in {"open", "read", "scan", "queue", "ranges", "total", "idle", "select", "closed"}
  /\ DOMAIN hierarchy \subseteq Key
  /\ \A k \in DOMAIN hierarchy : hierarchy[k] \in Entry /\ hierarchy[k].key = k
  /\ visited_pages \subseteq PageRange
  /\ pending \in Seq(PageRange)
  /\ total_bytes \in Nat
  /\ page \in Seq(Entry)
  /\ rest \in Seq(Entry)
  /\ unchecked \subseteq DOMAIN hierarchy
  /\ DOMAIN ranges \subseteq Nat
  /\ \A s \in DOMAIN ranges : ranges[s] \in Nat
  /\ query \in Queries \cup {QueryAll}
  /\ outcome \in {"none", "opened", "ok", "err"}
  /\ answer \subseteq Entry
  /\ requests \in Seq(PageRange)
  /\ faults \in 0..MaxFaults

\* A file that opens answers every query with exactly the matching chunks of
\* all its pages, also where pages are shared, point back, or hold voxels
\* outside the subtree that leads to them (insert_hierarchy_pages).
AnswerExact == outcome = "ok" => answer = CompleteAnswer(file, query)

\* A well-formed file opens, whatever the order of its pages and entries
\* (from_reader; tests/ranged.rs expects the range reader to agree).
OpensWellFormed == WellFormed(file) /\ faults = 0 => pc # "closed"

\* The chunks of a file that opened never share a byte, although each is
\* compared with two neighbours only (validate_point_chunk_ranges).
ChunksDisjoint ==
  Opened =>
    \A d, e \in {x \in AllEntries(file) : HasPointData(x)} :
      d # e => \/ d.offset + d.byte_size <= e.offset
               \/ e.offset + e.byte_size <= d.offset

\* The nodes of a file that opened hold the points its header announces,
\* counting each node once however its page was reached (CHANGELOG 0.9.0).
TotalExact ==
  Opened =>
    SumFunction([e \in {x \in AllEntries(file) : HasPointData(x)} |-> e.point_count])
      = file.number_of_points

\* No page is read twice, however many pointers lead to it
\* (queue_hierarchy_page).
PagesReadOnce == IsInjective(requests)

\* Where the calls of HierarchyService are.
Phase ==
  CASE pc = "idle"   -> "ready"
    [] pc = "select" -> "busy"
    [] pc = "closed" -> "closed"
    [] OTHER         -> "opening"

Service == INSTANCE HierarchyService WITH phase <- Phase, lost <- {}

\* The seek-based reader keeps the promise of HierarchyService without ever
\* losing a page.
ImplementsService == Service!SSpec
=============================================================================

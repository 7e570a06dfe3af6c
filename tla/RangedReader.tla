---------------------------- MODULE RangedReader ----------------------------
(***************************************************************************)
(* CopcRangeReader (copc-reader ranged.rs): a reader that fetches byte     *)
(* ranges, loads the root hierarchy page when it is opened, and loads the  *)
(* other pages when a query can reach them.  One reader value answers many *)
(* queries, one after the other; what it has learnt stays in its fields    *)
(* from one call to the next, and so does what a failed call left behind.  *)
(*                                                                         *)
(* pc says where the call in progress is:                                  *)
(*   open   CopcRangeReader::open, before the root page                    *)
(*   idle   no call in progress                                            *)
(*   drain  ensure_hierarchy_for, partitioning pending_pages               *)
(*   load   the loop over the relevant pages, at load_page                 *)
(*   scan   the loop over the entries of a page just fetched               *)
(*   closed open failed, there is no reader                                *)
(***************************************************************************)
EXTENDS HierarchyFile, FiniteSets, FiniteSetsExt, Functions

CONSTANTS
  Files,      \* the files that may be opened
  Queries,    \* the queries that may be asked
  MaxFaults   \* bound: how many range reads fail

ASSUME FilesAssumption == \A f \in Files : IsFile(f)

ASSUME FaultsAssumption == MaxFaults \in Nat

\* The side of a voxel is halved from level to level; in the integers of the
\* model the halves are whole, down to the deepest voxel a file has.
ASSUME GridAssumption ==
  /\ RootSide \in Nat
  /\ \A f \in Files : \A e \in SlotEntries(f) :
       e.key.level >= 0 => RootSide % VoxelsPerAxis(e.key.level) = 0

\* A selection that level_range accepts is a range of levels, from a level
\* that exists, and a box has integer corners.
ASSUME QueriesAssumption ==
  \A q \in Queries :
    /\ ValidLod(q.lod) => LevelMin(q.lod) \in Nat /\ LevelMax(q.lod) \in Int
    /\ q.bounds.kind = "within" =>
         \A a \in Axis : q.bounds.box.min[a] \in Int /\ q.bounds.box.max[a] \in Int

VARIABLES
  file,                \* the file behind the range source
  hierarchy,           \* self.hierarchy: key -> entry
  pending_pages,       \* self.pending_pages: page entries not loaded yet
  visited_pages,       \* self.visited_pages: page ranges ever tried
  total_bytes,         \* self.limits.total_bytes
  loaded_point_total,  \* self.loaded_point_total
  point_ranges,        \* self.point_ranges: chunk start -> chunk end
  pc, opening, query,  \* the call in progress
  draining,            \* what is left of pending_pages.drain(..)
  relevant, rest,      \* the two halves of the partition
  page,                \* entries of the fetched page still to be inserted
  outcome, answer,     \* what the last call returned
  requests,            \* history: hierarchy page ranges read, in order
  lost,                \* history: pages a failed call took off the worklist
  faults,              \* history: range reads that failed
  completed            \* history: pages load_page returned Ok for after it read them

loaded == <<hierarchy, visited_pages, total_bytes, loaded_point_total, point_ranges>>
locals == <<draining, relevant, rest, page>>
vars == <<file, loaded, pending_pages, pc, opening, query, locals,
          outcome, answer, requests, lost, faults, completed>>

Pages(s) == {PageOf(e) : e \in Range(s)}

EmptyMap == [k \in {} |-> 0]

Init ==
  /\ file \in Files
  /\ hierarchy = EmptyMap
  /\ pending_pages = <<>>
  /\ visited_pages = {}
  /\ total_bytes = 0
  /\ loaded_point_total = 0
  /\ point_ranges = EmptyMap
  /\ pc = "open"
  /\ opening = TRUE
  /\ query = QueryAll
  /\ draining = <<>> /\ relevant = <<>> /\ rest = <<>> /\ page = <<>>
  /\ outcome = "none"
  /\ answer = {}
  /\ requests = <<>>
  /\ lost = {}
  /\ faults = 0
  /\ completed = {}

\* A call returns Err.  Its local vectors go with it: the pages in them are
\* in no field of the reader any more.
Fail ==
  /\ pc' = IF opening THEN "closed" ELSE "idle"
  /\ outcome' = "err"
  /\ answer' = {}
  /\ draining' = <<>> /\ relevant' = <<>> /\ rest' = <<>> /\ page' = <<>>
  /\ lost' = lost \cup Pages(draining) \cup Pages(relevant) \cup Pages(rest)
  /\ UNCHANGED <<file, opening, query>>

\* The drain that starts a round of ensure_hierarchy_for.
StartDrain ==
  /\ pc' = "drain"
  /\ draining' = pending_pages
  /\ pending_pages' = <<>>

-----------------------------------------------------------------------------
\* open: the header, the VLRs and the hierarchy EVLR header, then the root page.
Open ==
  /\ pc = "open"
  /\ IF ValidSections(file)
       THEN /\ pc' = "load"
            /\ relevant' = <<RootEntry(file)>>
            /\ UNCHANGED <<file, opening, query, draining, rest, page, outcome, answer, lost>>
       ELSE Fail
  /\ UNCHANGED <<loaded, pending_pages, requests, faults, completed>>

\* hierarchy_for, as far as the first drain.
HierarchyFor(q) ==
  /\ pc = "idle"
  /\ query' = q
  /\ answer' = {}
  /\ IF ValidQuery(q)
       THEN StartDrain /\ outcome' = "none"
       ELSE outcome' = "err" /\ UNCHANGED <<pc, draining, pending_pages>>
  /\ UNCHANGED <<file, loaded, opening, relevant, rest, page, requests, lost, faults, completed>>

\* Mutant (Partition): the level and bounds of the query are not consulted.
Partition_Eager ==
  /\ pc = "drain"
  /\ draining # <<>>
  /\ IF ValidLod(query.lod)
       THEN /\ draining' = Tail(draining)
            /\ relevant' = Append(relevant, Head(draining))
            /\ UNCHANGED <<file, pc, opening, query, rest, page, outcome, answer, lost>>
       ELSE Fail
  /\ UNCHANGED <<loaded, pending_pages, requests, faults, completed>>

\* One element of the drain.  page_may_match evaluates level_range, and the
\* ? on it leaves with the drain half done.
Partition ==
  /\ pc = "drain"
  /\ draining # <<>>
  /\ IF ValidLod(query.lod)
       THEN /\ draining' = Tail(draining)
            /\ IF PageMayMatch(Head(draining).key, query)
                 THEN relevant' = Append(relevant, Head(draining)) /\ UNCHANGED rest
                 ELSE rest' = Append(rest, Head(draining)) /\ UNCHANGED relevant
            /\ UNCHANGED <<file, pc, opening, query, page, outcome, answer, lost>>
       ELSE Fail
  /\ UNCHANGED <<loaded, pending_pages, requests, faults, completed>>

\* Mutant (EndPartition): the relevant pages stay on the worklist as well.
EndPartition_KeepRelevant ==
  /\ pc = "drain" /\ draining = <<>> /\ relevant # <<>>
  /\ pending_pages' = rest \o relevant
  /\ rest' = <<>>
  /\ pc' = "load"
  /\ UNCHANGED <<file, loaded, opening, query, draining, relevant, page,
                 outcome, answer, requests, lost, faults, completed>>

\* pending_pages = rest, and there are pages to load.
EndPartition ==
  /\ pc = "drain"
  /\ draining = <<>>
  /\ relevant # <<>>
  /\ pending_pages' = rest
  /\ rest' = <<>>
  /\ pc' = "load"
  /\ UNCHANGED <<file, loaded, opening, query, draining, relevant, page,
                 outcome, answer, requests, lost, faults, completed>>

\* Mutant (SelectedChunks): the level range is ignored.
SelectedChunks_AnyLevel(q) ==
  {e \in Range(hierarchy) : HasPointData(e) /\ BoundsSelected(e.key, q.bounds)}

\* select_point_chunks_from; the sort by offset is left out, an answer is a set.
SelectedChunks(q) == Matching(Range(hierarchy), q)

\* pending_pages = rest, there is nothing to load, and the chunks are selected.
Answer ==
  /\ pc = "drain"
  /\ draining = <<>>
  /\ relevant = <<>>
  /\ pending_pages' = rest
  /\ rest' = <<>>
  /\ pc' = "idle"
  /\ IF ValidLod(query.lod)
       THEN outcome' = "ok" /\ answer' = SelectedChunks(query)
       ELSE outcome' = "err" /\ answer' = {}
  /\ UNCHANGED <<file, loaded, opening, query, draining, relevant, page,
                 requests, lost, faults, completed>>

-----------------------------------------------------------------------------
(***************************************************************************)
(* load_page.  The page is marked visited before anything that can fail.   *)
(***************************************************************************)
NextPage == PageOf(Head(relevant))

AtPage == pc = "load" /\ relevant # <<>>

\* Mutant (AtNewPage): the visited set is not consulted.
AtNewPage_Always == AtPage

AtNewPage == AtPage /\ NextPage \notin visited_pages

SkipVisitedPage ==
  /\ AtPage
  /\ NextPage \in visited_pages
  /\ relevant' = Tail(relevant)
  /\ UNCHANGED <<file, loaded, pending_pages, pc, opening, query, draining, rest,
                 page, outcome, answer, requests, lost, faults, completed>>

WholeEntries(size) == size > 0 /\ size % EntryBytes = 0

WithinBudget(size) == size <= MaxPageBytes /\ total_bytes + size <= MaxTotalBytes

PageFits(p) ==
  WholeEntries(p[2]) /\ WithinBudget(p[2]) /\ p[1] + p[2] <= file.len

\* The page is refused before it is fetched.  HierarchyReadLimits::add_page
\* has already counted a page that breaks the total.
RefusePage ==
  /\ AtNewPage
  /\ ~ PageFits(NextPage)
  /\ visited_pages' = visited_pages \cup {NextPage}
  /\ total_bytes' = IF WholeEntries(NextPage[2]) /\ NextPage[2] <= MaxPageBytes
                      THEN total_bytes + NextPage[2]
                      ELSE total_bytes
  /\ Fail
  /\ UNCHANGED <<hierarchy, loaded_point_total, point_ranges, pending_pages,
                 requests, faults, completed>>

\* Mutant (RequestPage): each page is counted for itself.
RequestPage_FreshTotal ==
  /\ AtNewPage
  /\ PageFits(NextPage)
  /\ visited_pages' = visited_pages \cup {NextPage}
  /\ total_bytes' = NextPage[2]
  /\ requests' = Append(requests, NextPage)
  /\ UNCHANGED <<hierarchy, loaded_point_total, point_ranges, pending_pages>>

RequestPage ==
  /\ AtNewPage
  /\ PageFits(NextPage)
  /\ visited_pages' = visited_pages \cup {NextPage}
  /\ total_bytes' = total_bytes + NextPage[2]
  /\ requests' = Append(requests, NextPage)
  /\ UNCHANGED <<hierarchy, loaded_point_total, point_ranges, pending_pages>>

\* The range read succeeds and the page is decoded.
FetchPage ==
  /\ RequestPage
  /\ IF \A e \in EntriesIn(file, NextPage) : ValidEntry(e)
       THEN /\ pc' = "scan"
            /\ page' = PageEntries(file, NextPage)
            /\ UNCHANGED <<file, opening, query, draining, relevant, rest,
                           outcome, answer, lost>>
       ELSE Fail
  /\ UNCHANGED <<faults, completed>>

\* The range read fails.
FetchFails ==
  /\ faults < MaxFaults
  /\ RequestPage
  /\ faults' = faults + 1
  /\ Fail
  /\ UNCHANGED completed

\* One turn of the loop over the page's entries.
EntryRefused(e) ==
  \/ ~ EntryInSection(file, e)
  \/ KeyConflict(hierarchy, e)
  \/ HasPointData(e) /\ Overlaps(point_ranges, e)

ScanEntry ==
  /\ pc = "scan"
  /\ page # <<>>
  /\ LET e == Head(page) IN
       IF EntryRefused(e)
         THEN Fail /\ UNCHANGED <<loaded, pending_pages>>
         ELSE /\ hierarchy' = Insert(hierarchy, e)
              /\ IF HasPointData(e)
                   THEN /\ point_ranges' = AddRange(point_ranges, e)
                        /\ loaded_point_total' = loaded_point_total + e.point_count
                   ELSE UNCHANGED <<point_ranges, loaded_point_total>>
              /\ pending_pages' = IF IsChildPage(e) THEN Append(pending_pages, e)
                                  ELSE pending_pages
              /\ page' = Tail(page)
              /\ UNCHANGED <<file, visited_pages, total_bytes, pc, opening, query,
                             draining, relevant, rest, outcome, answer, lost>>
  /\ UNCHANGED <<requests, faults, completed>>

\* Mutant (TotalRefused): only a total that is too large is refused.
TotalRefused_TooManyOnly == loaded_point_total > file.number_of_points

\* The point-total checks that end load_page.
TotalRefused ==
  \/ loaded_point_total > file.number_of_points
  \/ pending_pages = <<>> /\ loaded_point_total # file.number_of_points

EndPage ==
  /\ pc = "scan"
  /\ page = <<>>
  /\ IF TotalRefused
       THEN Fail /\ UNCHANGED completed
       ELSE /\ pc' = "load"
            /\ relevant' = Tail(relevant)
            /\ completed' = completed \cup {NextPage}
            /\ UNCHANGED <<file, opening, query, draining, rest, page,
                           outcome, answer, lost>>
  /\ UNCHANGED <<loaded, pending_pages, requests, faults>>

\* The loop over the relevant pages is done: open returns the reader, a
\* query starts another round.
EndLoad ==
  /\ pc = "load"
  /\ relevant = <<>>
  /\ IF opening
       THEN pc' = "idle" /\ outcome' = "opened" /\ opening' = FALSE /\ UNCHANGED <<draining, pending_pages>>
       ELSE StartDrain /\ UNCHANGED <<outcome, opening>>
  /\ UNCHANGED <<file, loaded, query, relevant, rest, page, answer,
                 requests, lost, faults, completed>>

-----------------------------------------------------------------------------
\* The steps of a call that has begun: the reader runs it to its end.
Step ==
  \/ Open \/ Partition \/ EndPartition \/ Answer
  \/ SkipVisitedPage \/ RefusePage \/ FetchPage \/ FetchFails
  \/ ScanEntry \/ EndPage \/ EndLoad

Next == Step \/ \E q \in Queries : HierarchyFor(q)

Spec == Init /\ [][Next]_vars

\* A call is a plain function on &mut self: no one else can stop it.
FairSpec == Spec /\ WF_vars(Step)

-----------------------------------------------------------------------------
(***************************************************************************)
(* Properties.                                                             *)
(***************************************************************************)
\* Every variable has its type; the hierarchy maps a key to an entry with
\* that key (copc-reader ranged.rs, the fields of CopcRangeReader).  The type
\* of completed follows from CompletedInv.
TypeOK ==
  /\ file \in Files
  /\ DOMAIN hierarchy \subseteq Key
  /\ \A k \in DOMAIN hierarchy : hierarchy[k] \in Entry /\ hierarchy[k].key = k
  /\ pending_pages \in Seq(Entry)
  /\ visited_pages \subseteq PageRange
  /\ total_bytes \in Nat
  /\ loaded_point_total \in Nat
  /\ DOMAIN point_ranges \subseteq Nat
  /\ \A s \in DOMAIN point_ranges : point_ranges[s] \in Nat
  /\ pc \in {"open", "idle", "drain", "load", "scan", "closed"}
  /\ opening \in BOOLEAN
  /\ query \in Queries \cup {QueryAll}
  /\ draining \in Seq(Entry)
  /\ relevant \in Seq(Entry)
  /\ rest \in Seq(Entry)
  /\ page \in Seq(Entry)
  /\ outcome \in {"none", "opened", "ok", "err"}
  /\ answer \subseteq Entry
  /\ requests \in Seq(PageRange)
  /\ lost \subseteq PageRange
  /\ faults \in 0..MaxFaults

Answered == pc = "idle" /\ outcome = "ok"

\* A query that returns Ok gives the caller exactly the matching chunks of
\* the whole file (ranged.rs, hierarchy_for: "loading any hierarchy pages the
\* query can reach that have not been fetched yet"), provided page pointers
\* respect subtrees and no page the query reaches was taken off the worklist
\* by an earlier failed call.  The laziness, the visited set and the order in
\* which earlier queries loaded pages must not show.
AnswerComplete ==
  /\ Answered
  /\ SubtreeFile(file)
  /\ lost \cap ReachablePages(file, query) = {}
  => answer = CompleteAnswer(file, query)

\* The same from the side of the pages, on any file: an Ok answer holds every
\* matching chunk of every page the query reaches from the root.
AnswerCovers ==
  Answered /\ lost \cap ReachablePages(file, query) = {}
  => ReachableChunks(file, query) \subseteq answer

\* Whatever failed before, and on any file, an answer holds only chunks the
\* file lists that match the query (select_point_chunks_from).
AnswerSound == Answered => answer \subseteq CompleteAnswer(file, query)

\* Two chunks the reader knows of never share a byte of the file, although
\* insert_point_chunk_range looks at two neighbours only and a page may have
\* been abandoned half way.
ChunksDisjoint ==
  \A d, e \in {x \in Range(hierarchy) : HasPointData(x)} :
    d # e => \/ d.offset + d.byte_size <= e.offset
             \/ e.offset + e.byte_size <= d.offset

\* When every page has been loaded, the reader has accepted the file only if
\* its nodes hold exactly the points the header announces (load_page; the
\* seek-based reader checks the same total at open).
AcceptedTotalExact ==
  /\ pc = "idle" /\ outcome \in {"opened", "ok"}
  /\ pending_pages = <<>> /\ lost = {}
  /\ NoSharedPages(file)
  => loaded_point_total = file.number_of_points

\* A page that was read and taken in is not asked for again, by this call or a
\* later one, however many queries reach it and however many entries point to
\* it, to itself too (hierarchy_for loads the pages "that have not been fetched
\* yet").  A page whose load failed is left out: nothing here forbids a retry.
CompletedOnce ==
  [][requests' # requests => requests'[Len(requests')] \notin completed]_vars

\* All the hierarchy a reader ever asks for, whatever is asked of it and how
\* often a call fails, is within the limit: MAX_HIERARCHY_TOTAL_BYTES is a
\* limit of the reader, not of a call.
BytesWithinBudget ==
  SumFunction([i \in DOMAIN requests |-> requests[i][2]]) <= MaxTotalBytes

\* A page is fetched only on behalf of a query that reaches it from the root
\* page through pointers that may match (CHANGELOG: "load hierarchy pages only
\* when a query's LOD/bounds can reach them").
FetchedWhenReachable ==
  [][requests' # requests /\ ~ opening /\ SubtreeFile(file)
       => requests'[Len(requests')] \in ReachablePages(file, query)]_vars

\* Every call returns: the rounds of ensure_hierarchy_for end, on cyclic and
\* shared page pointers too.
CallReturns == pc \notin {"idle", "closed"} ~> pc \in {"idle", "closed"}

\* The promise of HierarchyService, with the steps inside a call hidden.
Phase ==
  CASE opening /\ pc # "closed" -> "opening"
    [] pc = "closed"            -> "closed"
    [] ~ opening /\ pc = "idle" -> "ready"
    [] OTHER                    -> "busy"

Service == INSTANCE HierarchyService WITH phase <- Phase

\* Every behaviour of the range reader is one its callers were promised:
\* exact answers until a call fails, and then answers that are sound and
\* incomplete only about the pages that call lost.
ImplementsService == Service!SSpec

-----------------------------------------------------------------------------
(***************************************************************************)
(* The inductive invariant behind the proofs of RangedReader_proofs.       *)
(***************************************************************************)
Worklist == Range(pending_pages) \cup Range(draining) \cup Range(relevant) \cup Range(rest)

\* Which local vectors are in use where, and what is known of the root page.
ControlInv ==
  /\ pc = "open" =>
       opening /\ relevant = <<>> /\ pending_pages = <<>> /\ visited_pages = {}
  /\ pc = "idle" => ~ opening /\ relevant = <<>>
  /\ pc = "drain" => ~ opening /\ pending_pages = <<>>
  /\ pc # "drain" => draining = <<>> /\ rest = <<>>
  /\ pc # "scan" => page = <<>>
  /\ pc = "scan" => relevant # <<>> /\ NextPage \in visited_pages
  /\ pc \notin {"open", "closed"} =>
       \/ RootPage(file) \in visited_pages
       \/ pc = "load" /\ opening /\ relevant = <<RootEntry(file)>>
  /\ opening /\ pc = "load" =>
       relevant = <<RootEntry(file)>> \/ relevant = <<>>
  /\ opening /\ pc = "scan" => relevant = <<RootEntry(file)>>

\* Everything the reader holds comes out of the pages of the file.
OriginInv ==
  /\ \A e \in Worklist : PageOf(e) \in AllPages(file)
  /\ Range(hierarchy) \subseteq AllEntries(file)
  /\ visited_pages \subseteq AllPages(file)
  /\ pc = "scan" =>
       Range(page) \subseteq {e \in EntriesIn(file, NextPage) : ValidEntry(e)}

\* An entry of a loaded page has been taken in: a chunk is in the map, and a
\* page pointer is on the worklist unless its page was visited or lost.
TakenIn(e) ==
  /\ HasPointData(e) => e.key \in DOMAIN hierarchy /\ hierarchy[e.key] = e
  /\ IsChildPage(e) => e \in Worklist \/ PageOf(e) \in visited_pages \cup lost

\* Nothing a page holds is forgotten, but by a failed call that lost the page.
PagesAccounted ==
  \A p \in visited_pages \ lost : \A e \in EntriesIn(file, p) :
    TakenIn(e) \/ (pc = "scan" /\ p = NextPage /\ e \in Range(page))

\* Pages set aside in this round are out of the query's reach.
RestInv == pc = "drain" => \A e \in Range(rest) : ~ PageMayMatch(e.key, query)

\* point_ranges holds the ranges of the chunks in the map, in order and apart.
RangesInv ==
  /\ \A s \in DOMAIN point_ranges : s < point_ranges[s]
  /\ \A s, t \in DOMAIN point_ranges : s < t => point_ranges[s] <= t
  /\ \A k \in DOMAIN hierarchy : HasPointData(hierarchy[k]) =>
       /\ hierarchy[k].offset \in DOMAIN point_ranges
       /\ point_ranges[hierarchy[k].offset] = hierarchy[k].offset + hierarchy[k].byte_size
  /\ \A k, l \in DOMAIN hierarchy :
       /\ HasPointData(hierarchy[k]) /\ HasPointData(hierarchy[l])
       /\ hierarchy[k].offset = hierarchy[l].offset
       => k = l

\* A page that was taken in was marked visited, and stays so.
CompletedInv == completed \subseteq visited_pages

\* A page on the worklist has a valid pointer in some page, or is the root
\* page; once the reader is open, what it loads is what the query may want.
PointersInv ==
  /\ \A e \in Worklist \ {RootEntry(file)} :
       e \in AllEntries(file) /\ ValidEntry(e) /\ IsChildPage(e)
  /\ ~ opening /\ relevant # <<>> =>
       ValidLod(query.lod) /\ \A e \in Range(relevant) : PageMayMatch(e.key, query)
  /\ Answered => ValidLod(query.lod)

\* The bytes requested so far have all been counted.
BudgetInv ==
  LET requested == SumFunction([i \in DOMAIN requests |-> requests[i][2]]) IN
  requested <= total_bytes /\ requested <= MaxTotalBytes

\* A pointer is on one list, and there once.
WaitsOnce ==
  /\ IsInjective(pending_pages) /\ IsInjective(draining)
  /\ IsInjective(relevant) /\ IsInjective(rest)
  /\ Range(relevant) \cap (Range(pending_pages) \cup Range(draining) \cup Range(rest)) = {}
  /\ Range(draining) \cap Range(rest) = {}

\* The pointer of a page that waits, or has been visited, was taken in.
Announced ==
  /\ \A e \in Worklist \ {RootEntry(file)} : e.key \in DOMAIN hierarchy
  /\ \A p \in visited_pages \ {RootPage(file)} :
       \E e \in PagePointers(file) : PageOf(e) = p /\ e.key \in DOMAIN hierarchy

\* A page that waits was not visited before.
Unvisited ==
  \A e \in Worklist : PageOf(e) \in visited_pages => pc = "scan" /\ e = Head(relevant)

\* When nothing waits, the last page found the worklist empty at its end.
AllCounted ==
  pc \in {"idle", "drain", "load"} /\ Worklist = {} =>
    loaded_point_total = file.number_of_points

\* So it is while no page has two pointers and none is lost.
UnsharedInv ==
  NoSharedPages(file) /\ lost = {} => WaitsOnce /\ Announced /\ Unvisited /\ AllCounted

\* The parts above together: no step of the reader leaves it.
IInv ==
  /\ TypeOK /\ ControlInv /\ OriginInv /\ PointersInv /\ PagesAccounted
  /\ RestInv /\ RangesInv /\ CompletedInv /\ BudgetInv /\ UnsharedInv
  /\ AnswerCovers /\ AnswerSound

-----------------------------------------------------------------------------
(***************************************************************************)
(* What the documentation says without a proviso, and the code does not    *)
(* keep: these are the properties of the runs that expect a violation.     *)
(***************************************************************************)
\* ranged.rs, hierarchy_for: an Ok answer has every matching entry, loading
\* any page the query can reach that has not been fetched yet.
AnswerAlwaysComplete ==
  Answered /\ SubtreeFile(file) => answer = CompleteAnswer(file, query)

\* tests/ranged.rs, lines 1-2: "equivalence with the seek-based reader".  A
\* well-formed file, read without a fault, answers every valid query.
ValidQueryAnswered ==
  WellFormed(file) /\ ValidQuery(query) /\ ValidLod(query.lod) /\ faults = 0
    => outcome # "err"
=============================================================================

# A TLA+ development for copc-rust

COPC is LAZ with an octree: the points of a cloud are compressed in chunks, one per octree node, and a hierarchy of
pages says which node is where, so that a reader fetches only what a query needs. copc-rust has three crates:
`copc-core` (keys, bounds, hierarchy entries, records), `copc-reader` (a seek-based reader and a lazy reader over byte
ranges, for instance HTTP) and `copc-writer` (the octree, the chunks, the pages, the records, the output file). This directory
holds TLA+ models of their control, configurations that check them with TLC on small instances, and proofs that
TLAPS checks for every instance.

Paths below are relative to the root of the repository. `PROJECT.json` lists, for each definition, the lines it models.

## 1. The system

| Part | Code | State it keeps | Operations |
|---|---|---|---|
| Octree geometry, queries | `copc-core/src/{key,bounds,entry}.rs`, `copc-reader/src/points.rs` | none | children and voxels of a key, selections by level, resolution and box, which pages may matter to a query |
| Seek-based reader | `copc-reader/src/lib.rs` | file, hierarchy map, chunk ranges, totals | open (loads every page), query |
| Lazy range reader | `copc-reader/src/ranged.rs` | hierarchy map, `pending_pages`, `visited_pages`, chunk ranges, totals, all kept **across calls** | open, `hierarchy_for`, `read_points`, `read_columns` |
| HTTP byte ranges | `copc-reader/src/range_read.rs` | the length it has once seen | `len`, `read_range` |
| Point decoding | `copc-reader/src/points.rs` | decoder, chunk window, counters of `PointIter` | `next`, `size_hint`, `read_columns` |
| Spill | `copc-writer/src/spill.rs` | temporary file, `BufWriter`, count, bounds, statistics | `push`, `finalize`, random access |
| Conversion | `copc-writer/src/{writer,validate}.rs` | position in the source | `write_streaming*`, `convert_las_to_copc_streaming*`, `write_source*` |
| LOD index | `copc-writer/src/lod.rs` | index runs and order file on disk, call stack, node list | `build_lod_index` |
| Chunk compression | `copc-writer/src/writer.rs` (`compress_nodes`) | writer position, chunk table, entries, results of the workers | sequential and parallel compression |
| Hierarchy pages | `copc-writer/src/hierarchy_pages.rs` | tree of page plans | plan, assign offsets, write |
| Output file | `copc-writer/src/writer.rs` (`write_copc_inner`, `PendingOutput`) | temporary file next to the destination | create, patch, flush, sync, rename, sync the directory |
| File layout | `copc-writer/src/{writer,las_out}.rs` (`write_copc_inner`) | counts, sizes and offsets taken before and between writes | header, VLRs, chunks, pages, EVLRs, two patches |
| Source metadata | `copc-writer/src/{metadata,validate}.rs` | none | which records of a source go into a new file |
| Column values | `copc-writer/src/source.rs`, `copc-core/src/{columns,streaming}.rs` | none | value conversions |

How they meet. A conversion pushes its source into a spill, builds the LOD index over the spill, compresses the
nodes in the order of the index, plans and writes the pages from the entries the compression returned, and publishes
the file. A reader loads pages into a map, takes the entries a query selects, in file order, and decodes them; the
range reader does so over a `RangeRead`, of which `HttpRangeReader` is one. Everything runs in the caller's thread,
except the rayon workers that compress and decode chunks with the `parallel` feature. There are no callbacks but
`CancelCheck`, which the writer polls and which can only end a call. Processes share nothing but the destination of a
write and the file at a URL.

What is hard about it, and what makes each part correct:

* **The range reader has a memory.** What a call leaves in `pending_pages` and `visited_pages`, also when it fails, decides
  what later calls can find. An `Ok` answer should be exactly the matching chunks, in whatever order the queries came.
* **Files are damaged.** Pages point to pages, to themselves, twice to one; entries overlap, lie outside their
  section, claim wrong totals. Loading must end, refuse, and never count a byte twice; a decoder must not read past
  its chunk.
* **Offsets are counted, not looked up.** The pages' offsets, the chunks' offsets with `parallel`, the slices of a joint
  request, the start of the point data announced before the VLRs are written: each is arithmetic that must agree
  with what another loop does.
* **A file is found in two ways.** The seek-based reader walks the EVLRs from the header, the range reader goes where the
  COPC info points and looks 60 bytes in front of it. On any file they should agree on what it holds.
* **Any LAS file is a source**, a COPC file too: records that describe the old file must go, the others must stay, and
  the counts that result must still be ones the readers take.
* **The octree recursion works on disk.** Points are handed from run to run by prefix arithmetic; none may be
  lost, doubled, or end up in a voxel a reader does not look in.
* **The crash window.** Flush, sync, rename and directory sync, with failures, cancellation, kills, power losses, and a
  second writer of the same destination.
* **Workers** finish in any order and any may fail.
* **Partial writes.** A failed `push` leaves part of a buffer in the file, and the caller may go on.
* **The file at the URL is replaced** between two requests; a server or a proxy answers something else.

`PROJECT.json` lists the hazards by line, each with the properties that would catch it going wrong.

## 2. The modules

```
Octree --- HierarchyFile ---+--- RangedReader --- HierarchyService (refined)
   |                        +--- EagerReader  --- HierarchyService (refined)
   |                        +--- HierarchyPages -----+--- FileLayout
   |                        +--- FileOpen -----------+
   |                    Lists --- SourceMetadata ----+
   +------ LodIndex
PointChunks --- PointStream, ColumnRead, RangeFetch -> PointReads --- PointAnswer (refined)
ChunkFile ---+- ParallelChunks --- ChunkStream (refined)
Spill --------- Conversion
AtomicOutput -- AtomicPublish (refined)          HttpRange
```

### Readers

`Octree` and `HierarchyFile` are operators: keys, voxels and selections; entries, pages, the checks on an entry, the map of
entries, the ranges of chunks. A file is its section limits, its announced total and its sequence of 32-byte slots.
`HierarchyFile!WellFormed` says independently of both readers what a good file is: its pages are whole numbers of entries
within the page limit, each but the root is pointed to once, its entries lie in their sections and apart.

`HierarchyService` is what a reader promises. A file opens or not; a call returns an error or chunks; what it returns
matches the query; nothing is missing that the query reaches, except through pages lost to an earlier *failed* call.

`RangedReader` has one action per step of a call. `pc` says where the call is; `pending_pages`, `visited_pages`,
`hierarchy`, `chunk_ranges`, `loaded_point_total` and `hierarchy_bytes` are the fields of `CopcRangeReader`; `relevant` is the local vector
of `ensure_hierarchy_for`; `page` holds the entries of the page that `load_page` has still to look at. Every early return
is a disjunct that leaves the fields as the code leaves them: that is where its errors come from (section 6). `EagerReader`
does the same for `CopcFile`, whose stack is lost with the reader if opening fails.

`FileOpen` is what both do before: the header, the VLRs, and the hierarchy's EVLR, each reader in its own way. A file is
its length and what starts at which offset, so that a record looked for at a wrong place is not found. `SeekOpens` and
`RangeOpens` say which files get past this stage, `SeekView` and `RangeView` the record of a file, with its sections and slots, from
which `EagerReader` and `RangedReader` go on. `ValidSections`, which these two assume of their files, is an
invariant of what `FileOpen` lets pass.

`PointChunks` has the pure part of point reading and the variables every way to read has (`file`, `chunks`, `bounds`, `out`, `result`, `pc`);
`PointAnswer` is the promise: the points, chunk after chunk in file order,
filtered; success only when none is left; nothing after an error. `PointReads` composes the three ways to read, of which `how` is the
one a behaviour takes, and shows that each keeps it, so that one query has one answer. `PointStream` is `PointIter` with the reads
its decoder makes through `ChunkReadWindow`; `ColumnRead` is `read_columns` in batches with the workers' results
placed in any order; `RangeFetch` has the joint requests of the range reader. `HttpRange` is `HttpRangeReader` against a server
whose file is replaced between requests.

### Writer

`LodIndex`: the recursion of `LodIndexBuilder::assign` is a stack of frames in the state. A frame's `run` is the index
file it reads, as the set of unread indices (runs are written in ascending order); `order` is the order file; `nodes` the list.
`SourceMetadata`: which records a call of the writer puts into a file, from the filters of `metadata.rs` and the refusals of
`validate.rs`. `HierarchyPages`: the three recursive functions over page plans; `work` is the list of calls not yet made. Both use `Lists`, the
filters and sums over a `Vec`.
`FileLayout` composes both with the rest of `write_copc_inner`: the counts and the start of the point data worked out first, the
header and VLRs, a chunk for each node, the pages, the EVLRs, the two patches. `file` is what is on disk; its output is opened by `FileOpen` and judged by
`HierarchyFile!WellFormed`, so by what the readers accept. After that, `Damage` changes one thing, for the comparison of
the two readers; counts, sizes and offsets are read as unsigned numbers (`UnsignedFields`), so it changes them to such.
`ChunkFile`, `ChunkStream` and `ParallelChunks`: the point data section as a function from offsets to pieces;
the sequential compressor is the specification, the parallel one, which counts offsets and writes the chunk table by
hand, the implementation. `AtomicOutput`: writers as processes, a file as the set of its sections that are on disk or in
the page cache, the destination's entry as the sequence of values it has had since its last sync. `AtomicPublish` is the
promise: the destination is always a whole file, it changes at once, and a reported success survives power losses.
`Spill`: bytes known by record and place; `BufWriter` writes out its buffer in pieces of any size, and what a failed write
left in the buffer stays there. `Conversion` puts the callers around `Spill`: both ways in (records through the spill, points
from memory with declared bounds, which are looked at one point at a time), their different times of checking, and the
published file.

### Abstractions

A byte is "part *i* of chunk *c*" or "byte *i* of record *r*"; a point is a number. The floating-point coordinates of the octree are integers, with a
storage grid (`Scale`) where rounding matters; in `conversion` its step is four units, with points on the grid, off it and half way
between two places, and ones stored outside the bounds on either side. `Noise` is a point decoded from bytes that are not a point; it passes
every bounds filter, so that it cannot hide. A response's headers are true of its body's place in the file, while
the body's length is not trusted. A VLR or EVLR is its kind, its length and a name for its payload; reading one where none
starts is refused, though bytes at a wrong place could by chance pass for a record. The LAZ codec, `BufWriter`, `tempfile` and the file system are modelled from how the code uses
them, marked external in the map. Messages and formats of values are left out.

## 3. What TLC checks

Each `MC` module gives a specification its instance; the `.cfg` of the run names the properties.

| Run | Instance | Shows |
|---|---|---|
| `ranged` | 515 files: five well-formed ones (one page, chain, siblings, two forks), shared and cyclic pages, and every file one field away from these over values at the limits of some check; seven queries, two of them invalid; at most one failed read; any number of calls | a page that was taken in is not asked for again, chunks in the map are disjoint, the pages requested are within the byte budget over all calls, a total that was accepted after all pages is exact, answers are complete unless a failed call lost pages, each call returns, `HierarchyService` is implemented |
| `eager` | the same files and queries, one failed read | well-formed files open, what opens is complete with the exact total, `HierarchyService` is implemented with nothing ever lost |
| `ranged_lost`, `ranged_siblings` | a chain of pages with one failed read; the well-formed files | violations, section 6 |
| `point_reads` | all selections of the two to six chunks of four files: right ones, one with too many layers, ones with the wrong number of points, gaps below, at and above the limit, a chunk larger than a request; by iterator with reads of any size, by columns in batches of one and two with any order of completion, by byte ranges; any step fails | the iterator stays inside its chunks, its size hint brackets what is left, requests are within limits, disjoint and no more than needed, `PointAnswer` is implemented in all three ways |
| `http_range` | three versions of a file, two of one length, three requests; responses of every kind the code tells apart | an `Ok` read has the bytes asked for of one version; no two `Ok` answers belong to files of different lengths |
| `lod` | all clouds of five (and of two) points on five chosen corners, a point in each octant, crowds of six to eight; nodes of two points, two levels | no point lost or doubled, ranges tile the order file, keys form a tree, points lie in their voxels, only crowds are refused, the build ends |
| `lod_quantized` | a storage grid of 3 | violation, section 6 |
| `file_layout` | 28 octrees of 1 to 16 nodes in pages of nine entries; 90 conversions of sources with no, plain and COPC records as VLRs and as EVLRs, with and without extra bytes, with no, a blank and a real CRS text; counts and sizes at each limit and past it; then every finished file with one count, offset, size, kind or its length changed | every count, offset and size announced is that of what is written, the file is well formed and has every node at its chunk and nothing else, pages stay within the limit, what a reader finds of the source is what should be left of it, the two readers see the same file |
| `parallel_chunks` | three lists of up to five nodes, batches of two, chunk sizes below and above an entry's limit | entries lead to their chunks, the section is closed, `ChunkStream` is implemented |
| `atomic_output` | two writers, two power losses, an older file | never a partial file, `Ok` is durable, no litter after a return, `AtomicPublish` is implemented |
| `conversion` | all sources of up to three items out of good, refused and unencodable points, on the storage grid and off it, and source errors, with and without GPS time in the layout; through the spill, by the library's own loop or by a caller that goes on after a failed push, or from memory with right and wrong declared bounds; a buffer of one and a half records, writes cut short, cancellation at each poll, any failure | a spill that opens has exactly the accepted records and their summary; a published file is the whole source, rounded to the grid, under a header that is true (of the bounds: to half a step of the grid), `Ok` only with a file |

**Why the bounds are enough.** The worklist algorithms treat pages one by one: two siblings, one of them with a child, give
every relation between "pending", "relevant" and "visited"; a pointer shared and a cycle give the others; a longer chain
repeats them. An entry is compared with its two neighbours, so three chunks in any order exercise the comparison, and five are
there. A file of `file_layout` has a record of each kind in each place a source may have it, and with the list of damages each
field that one of the two readers looks at is wrong once. The limits (page, total, chunk, records, VLR section) are set so that some files meet them exactly and others exceed them by one
entry. A batch of two workers has both orders; three batches have a first, a middle and a short last one. Five points in
nodes of two fill a node, hand points down twice and reach the depth limit. Two writers are what can race; two power losses are
one before and one after a recovery. `MaxFaults = 1` bounds failed reads in the reader runs; what a second failure does is
covered by the proofs, which hold for any number.

**Deadlock.** `CHECK_DEADLOCK FALSE` stands where a system really ends: a reader that failed to open and has no more
calls to serve, a build or a write that has returned, an iterator that is exhausted. `http_range` always has a
next step and is checked for deadlock.

**Fairness.** `RangedReader!FairSpec` and `LodIndex!Spec` have weak fairness of `Step`, a call's own next step: a call is a plain function
in its caller's thread, nothing else can take its place. Failing and beginning a call are outside
`Step`: neither is ever owed. The other specifications have none, and only safety is checked of them.

**Mutants.** For each property of a passing run `PROJECT.json` names a mutated definition (`X_Something`, next to `X`, marked
*Mutant*) that a plausible bug would produce and that breaks the property.

## 4. What TLAPS proves

For every set of files that satisfies `IsFile`, every set of queries, every limit, every number of faults, writers, power
losses, points, levels, nodes, batch sizes, records, sources, buffer sizes, files of point chunks, bounds, gap and request limits, and versions of a served file. The assumptions are the `ASSUME`s of the
modules, which TLC evaluates in the runs: constants are of their types, files are records of numbers with slots that are entries, `Before` is no
writer, no node is empty. `GridAssumption` (in `LodIndex` and `RangedReader`) says that the cube divides evenly down to the deepest
level, which integers need where the code halves floating-point numbers; `QueriesAssumption` that the bounds of a query are boxes of integers;
`SpillAssumption` that a record is known by its `id`, which is what a byte of the spill names; `PointFilesAssumption` that the chunks of a file that was
opened lie in it and are disjoint, which `ChunksNeverOverlap` shows of the range reader's map; `ColumnsAssumption` and `RangeAssumption` that some column
is selected, batches are not empty and the limits are numbers; `PagesAssumption` that a page holds at least nine entries (the code's 4096), which
a node and its eight children need; `JobsAssumption` that a job has at least one node (`writer.rs:93` and `225` refuse
to write no points), that its nodes are of one octree and no two have one key (`NodesFormTree` of `LodIndex`, whose list it is), and that the
sizes of its records are numbers.

`RangedReader_proofs` and `EagerReader_proofs`:

* `TypeCorrect`, and that the map holds under each key an entry of that key.
* `CompletedPageOnce` (`RangedReader`): a page that was read and taken in is within `visited_pages` (`CompletedInv`), and no page
  in that set is requested. A page whose load failed is left out on purpose: that it is not asked for again either is finding 1.
  `PageReadOnce` (`EagerReader`): the history of requests is injective; there a failed read ends the reader.
* `ChunksNeverOverlap`. The code compares a new range with its nearest neighbours only. `RangesInv`: the ranges in the
  ordered map are apart and one for each chunk; `NeighboursSuffice` shows that the two comparisons imply all others
  *provided* they were apart before, which is why the property is inductive only in this form.
* `AnswersCover` / `AnswersExact`. The strengthening is an account of pages (`PagesAccounted`): every page that a visited page refers to is visited,
  pending, relevant, in progress, or lost to a failed call; and every entry of a visited page is in the map, still to be
  scanned, or of a lost page. When a call returns, nothing is relevant, and what is pending cannot match: so the visited pages
  are closed under the references the query can reach, and by `LeadToLeast` they contain all pages it reaches.
* `AnswersComplete`. The other half: on a file whose pointers respect subtrees, a page that holds a match is one the query reaches. It needs the geometry: the
  voxel of a key contains those of its descendants, so a match below a pointer makes the pointer one that may match.
* `FetchesAreReachable`. `PointersInv` and `ControlInv`: what waits in the worklist is a pointer the file has, on a page that was
  visited; what is relevant was found so for the query of this call.
* `WithinTheLimit`. `BudgetInv`: the counter is the sum of the sizes of all requests; it is never set back between calls.
* `AcceptedTotals`. The range reader compares the totals at the end of the page that empties `pending_pages`, and only if that page was not skipped as visited.
  `UnsharedInv`: while no page has two pointers and none was lost, a pointer waits on one list, once, and its page is not visited; so the worklist never gets
  empty without the comparison.
* `OpenedTotals`. The seek-based reader adds up its map; `TotalsAgree` renames that sum, key by key, into the one over the entries of all pages.
* `WellFormedOpens`. No check refuses a well-formed file. `NothingWrong` lists, for each place where the reader could give up, why it will not: a page fits because the
  pages still to come fit (`BudgetSuffices`), a key is new because one page is reached over one pointer only (`OnePointerTo`), the
  ranges are in order because the file's are.
* `ReaderKeepsPromise`. Steps inside a call stutter, returns are returns of `HierarchyService`, failing calls lose what
  they lose.

`LodIndex_proofs`: `TypeCorrect`, and `PointsConserved`: at any time each point is in exactly one of the order file, the
unread runs of the frames, and the selections held by a frame (`Once`), for which the control invariant says which frames are at
which stage. `OrderTiled`: each node starts where the order file ended when its selection was written. `NodesAreOctree`: a frame's
key is below that of the frame under it, in an octant not begun before, so the subtrees of frames and nodes are apart. `PointsFound`:
a point is handed to the octant whose half-open box contains it (by halving, as the builder does), and that is the voxel of the
key as a reader computes it (by one division); it is about sources on the storage grid, off it the code does otherwise (section 6). `RefusedForACrowd`: at the greatest depth, all points of a
frame are in its voxel, and each frame below it has written a full node.

`OutputFile_proofs`, about `FileLayout`, for any octree and any records of the source:

* `LayoutInvariance`. `LayoutInv` is the inductive invariant of `write_copc_inner`. Its parts:
  `PlanInv`: what waits for `plan_hierarchy_pages` is, for each call, exactly the entries below its key (`Below`), so that the pages planned hold with the calls to
  come the whole octree, and a page with children would not have fitted without them (`SplitPage`).
  `AssignInv`: the subtrees of the pages still to be visited are apart, and from those visited; so no page gets two offsets. And the
  walk leaves its stops behind: a set `C` of pairs of what is still to be visited and the offset reached, in which every stop but the present
  one `Follows` to another by the rule of the second walk. `WriteInv`: the walk that writes the pages is at a stop of such a set. This is what
  relates two recursions that never meet: a page's offset, assigned long ago and perhaps not needed for a while, is the place where the writer
  is when its turn comes. Neither the order of the pages nor the sum of their sizes has to be computed for that.
  `RangesInv`: every child page has its range when its parent's entry is written. `WriterInv`: what is in the file at each step is at
  offsets, and the two places that will be patched are the header and a VLR.
* `NeverRefusedHolds`. At the three places where the writer compares its position with what was announced, they agree: behind the VLRs
  (`VlrsEnd`: the sum of the parts is the sum of the whole), at the root page, and at each page, by `WriteInv`. Nor is a page ever
  planned that is too long (`SplitPage`).
* `PagesWithinLimitHolds`, from `PlanInv`.
* `ReadersAgreeHolds`. It is about every file with unsigned numbers in it, not only what the writer makes. `WalkFinds`: a walk over
  records that does not fail has a record in the file at each of its stops; the first hierarchy EVLR among them is the one the range
  reader finds 60 bytes in front of the root page, because the seek-based reader has compared the two (`SeekAgrees`).

At the end of the same module, about `AtomicOutput`: `FileInv` follows the sections from the writer's list through buffer and cache to the disk;
`EntryInv` says a file got its name only when it was complete and synced; `NeverPartialHolds`, `SuccessIsDurable` and
`WriterKeepsPromise` follow. `NoLitterLeft` needs `TempInv`: no two later entries of the destination are the same file, a writer
whose rename is done has no temporary file, and one that gave up has one only if the power was lost since.

`PointReads_proofs`, about the three ways to read points:

* `ReadsInside`. `StreamInv`: while a chunk is read, the source's cursor is the window's position, the window ends with the chunk, and the layers read are the
  bytes from the chunk's start to the cursor; so `Allowed` bytes never lead out of it, whatever the chunk claims.
* `HintIsRight`. The points out are those of the chunks behind and of the decoded part of the current one (`YieldedInv`), and the
  counter is the number of candidate points of the rest: with bounds at least the points to come, without exactly those.
* `RequestsAreFrugal`. `Tile`: the groups, entry by entry, are the selected chunks in order, each group from its first
  chunk's start to its last one's end, without a gap above the limit, and within the size limit unless it is one chunk. `CoalescedTile` proves it of
  `CoalesceChunks` chunk by chunk, `RequestsInv` carries it to the requests made.
* `ReadsAnswer`, the refinement of `PointAnswer`. The three invariants agree in form: what is out is what is promised of the chunks
  behind (`YieldedInv`, `Merged` for columns, `FetchedInv` for ranges), so each step lets the answer go on, end well, fail or wait
  (`StreamAnswers`, `ColumnsAnswer`, `RangesAnswer`). For the columns, the workers' results at the places of a batch are those of its
  chunks in whatever order they came; for the ranges, `SliceOfChunk` shows a slice of a joint answer to be the bytes of its chunk.

A filter, a sum and the joining of chunks go through a sequence. In `PointChunks` and `Lists` each is a function of how far it has come, and so is the walk
over records in `FileOpen`; the proofs follow it one element at a time, and `CountUp` and `Recursion` make up for the induction theorems that cannot be used.

At the end of the same module, about `HttpRange`: `BytesAreRight` and `LengthIsKept`. The accepted body is the slice because it has the slice's length
(`WholeBody`) and its place was compared with the request (`CallInv`); every answer was given under the length that is kept
(`TotalsInv`), which is never replaced.

`ParallelChunks_proofs`: `OffsetsAreRight`, `SectionIsClosed` and `SameAsSequential`. `EntriesInv` says each entry's chunk is in
the file and lies before the next offset; `FileInv` says that while chunks are written this offset is the writer's position, so that
a new chunk overwrites none; `BatchInv` says the result at place *j* of a batch, if it is there, is of the *j*-th node
behind the entries made so far, whatever order the workers take. In the refinement the table is hidden and the pointer
unset until the writer has gone back to the end, so that the three steps the code does by hand are the one of `done`.

`Conversion_proofs`, about `Spill` and `Conversion`. `SpillFaithful` and `SpillSummary`: file and buffer *together* hold the accepted records one behind
the other (`ContentInv`), which no cut of a write and no failed push changes; once the buffer is flushed, the file alone does. The summary is that of the accepted records at any time
(`SummaryInv`), with least and greatest elements in place of `Min` and `Max` so that one more record is one step. `CallUsesSpill`:
each step of a conversion is one of the spill or leaves it alone, so both hold of every conversion.
`ConversionIsWhole`: on the stream's way in, the accepted records are the points taken, the last of them perhaps on its way
(`IntakeInv`); from memory, the points looked at are good and recorded (`ValidateInv`); by either, what is encoded is the whole
source under its own header (`WholeInv`). `Nearest`: rounding moves a coordinate by half a step of the grid at most, so an encoded point is the
source's point to that extent (`EncodedKept`), and as far outside the header's bounds at most. That `SpillSource` gives back the source needs that a record is known by its bytes.

`HierarchyFile_proofs` has the lemmas about sequences, finite sets, sums, pages, subtrees and reachability. Each invariant that TLC can evaluate was first checked by it on the
instance of the component's run.

**Sums.** `SumFunction` is defined by recursion over a finite set, and the library's induction theorems cannot be used here. What
the proofs need of it (one element more, disjoint unions, a part is at most the whole) is proved from the choice of a least counterexample:
if some finite set had no sum of the wanted kind, one of least cardinality would exist (`SmallerSets`), and taking an element from it
contradicts that.

**Only model-checked.** All liveness (`CallReturns`, `BuildEnds`): fairness and ENABLED are outside the prover.
Of `FileLayout`, what a reader finds in the finished file: `WrittenWellFormed`, `AllNodesWritten` and `RecordsCarried`. They read the file
back, through the walk, the pages and the entries at their slots, and need that nothing the writer lays down overlaps what is there already. `WrittenWellFormed`
does not hold for every value of the constants: the writer does not hold its output against the readers' limits (section 6), so a theorem would
have to assume that they are large enough for the octree. `LayoutInv` itself is not checked by TLC, which cannot enumerate the sets of stops; `NeverRefused`,
which it was made for, is.

## 5. Not modelled

The LAZ codec (the `laz` crate). Of the LAS header, the versions, point formats, numbers, dates and identifiers: `FileOpen` takes them
to be right, `FileLayout` has one job whose identifiers do not fit. The conversion of point fields and columns (`columns.rs`, `source.rs`, `streaming.rs`), and
formats, are values without control; of them only rounding (`quantize_axis`, in `LodIndex` and `Conversion`) and the range of what can be encoded (in `Conversion`) are modelled.
Of directories, what Unix does: elsewhere `sync_parent_directory` does nothing. A temporary name that a failed writer has removed does not come back
after a power loss (`PowerLoss`), though the removal is not synced: `NoLitter` is about what a writer leaves behind, not about what the disk forgets.
Fuzz targets and benchmarks drive the public interface and keep no state of their own.

## 6. Disagreements between the code and what it says

Shown by a run:

1. `ranged.rs:310`, run `ranged_lost`. A page is marked visited before it is fetched, and the pages to fetch wait in a local
   vector: after a failed range read the retry skips them and answers `Ok` without their chunks. The `?` in the loop over
   `pending_pages.drain(..)` (line 286) loses all pending pages in the same way when a query's level range is refused.
   `AnswerComplete`, checked by `ranged`, says what holds all the same.
2. `ranged.rs:360`, run `ranged_siblings`. The total is checked when `pending_pages` is empty, though sibling pages wait in the
   local vector: a valid file with two sibling pages is refused.
3. `lod.rs:192`, run `lod_quantized`. Points are sorted into octants by their exact coordinates and stored rounded: next to a dividing plane
   a point can be stored outside its node's voxel, where a bounded query does not find it.

Stated as the exception in a property that holds:

* `ranged.rs:310`. If the last pointer leads to a page already visited, the check of the header's total is skipped
  (`AcceptedTotalExact`).
* `writer.rs:381`. The header gets the bounds of the coordinates as they came, the declared ones or those the spill took, and the records
  get them rounded to the storage grid: off the grid a stored point can lie outside the header's bounds, by half a step of the grid at most (`HeaderTrue`).
* `spill.rs:62`. Without GPS time in a streaming layout the statistics are taken of times that are not stored: the header
  announces a time range that no point of the file has (`HeaderTrue`).

Seen while modelling, in no property: `PointIter::size_hint` keeps a positive lower bound after an error, when
`next` only returns `None`; the writer sets no limit on the VLRs together, and the range reader refuses a section of more than
64 MiB of them, which the seek-based one opens (`ReadersAgree` names the case); the range reader never looks at the header's list
of EVLRs, so it also opens files whose list is damaged and which the seek-based reader refuses; a source
with an empty WKT record counts as one with a CRS, and its GeoTIFF records are dropped beside it; `commit` may return `Err` after the rename; no reader checks that a page's entries lie below
the key of the pointer to it; the writer does not hold its output against the readers' limits (512 MiB per chunk, 64 MiB
per page, 256 MiB of pages); a file replaced on the server by one of the same length goes unnoticed, and the length is
remembered before the body that came with it has been checked.

## 7. Plan

Done, in this order: the readers' core (`Octree`, `HierarchyFile`, `HierarchyService`, `RangedReader`, `EagerReader`); the writer's
core (`LodIndex`, `HierarchyPages`, `AtomicOutput`); chunk compression and HTTP; the point readers; spill and conversion; the layout of a
whole file with the metadata rules, and both readers' way into it. Then the proofs: every safety property that the runs `ranged`,
`eager`, `point_reads`, `http_range`, `lod`, `parallel_chunks`, `atomic_output` and `conversion` check is a theorem,
and of `file_layout` three: `NeverRefused`, `PagesWithinLimit` and `ReadersAgree`.

Left, most important first:

1. Proofs of `AllNodesWritten` and `RecordsCarried`, and of `WrittenWellFormed` for limits that the octree fits.
2. A composed reader: `RangedReader` over `HttpRange`, the file replaced between the pages and the chunks.
3. `Conversion` over `LodIndex`'s order: the points of the published file as a permutation.

------------------------- MODULE RangedReader_proofs -------------------------
(***************************************************************************)
(* Proofs about RangedReader, for every set of files and queries and every *)
(* value of the limits: its types, that no page is requested twice or      *)
(* without need, that the byte budget holds over all calls, that chunks    *)
(* never overlap, that an accepted total is exact, and that an answer is   *)
(* complete unless a failed call lost pages.                               *)
(***************************************************************************)
EXTENDS RangedReader, HierarchyFile_proofs

-----------------------------------------------------------------------------
(***************************************************************************)
(* The data of a step.                                                     *)
(***************************************************************************)
LEMMA PagesType ==
  ASSUME NEW s \in Seq(Entry) PROVE Pages(s) \subseteq PageRange
<1>1. Range(s) \subseteq Entry
  BY RangeEquality
<1>2. QED
  BY <1>1, PageOfType DEF Pages

-----------------------------------------------------------------------------
(***************************************************************************)
(* Types.  The type invariant needs two facts more to be inductive: the    *)
(* entries of a page in progress were validated when it was decoded, which *)
(* makes the sums over them sums of natural numbers; and a page in         *)
(* progress is still the first of the relevant ones.                       *)
(***************************************************************************)
TypeInv ==
  /\ TypeOK
  /\ \A e \in Range(page) : ValidEntry(e)
  /\ pc = "scan" => relevant # <<>>

LEMMA FileType == ASSUME TypeOK PROVE IsFile(file)
  BY FilesAssumption DEF TypeOK

\* What a call leaves behind when it fails has its type.
LEMMA FailType ==
  ASSUME TypeInv, Fail
  PROVE  /\ file' = file /\ opening' = opening /\ query' = query
         /\ pc' \in {"idle", "closed"} /\ outcome' = "err" /\ answer' = {}
         /\ draining' = <<>> /\ relevant' = <<>> /\ rest' = <<>> /\ page' = <<>>
         /\ lost' \in SUBSET PageRange
  BY PagesType DEF TypeInv, TypeOK, Fail

\* The page being looked at is a page range.
LEMMA NextPageType ==
  ASSUME TypeOK, relevant # <<>>
  PROVE  NextPage \in PageRange /\ Head(relevant) \in Entry
  BY RangeTail, PageOfType DEF TypeOK, NextPage

LEMMA InitType == Init => TypeInv
<1> SUFFICES ASSUME Init PROVE TypeInv
  OBVIOUS
<1>1. <<>> \in Seq(Entry) /\ <<>> \in Seq(PageRange) /\ Range(<<>>) = {}
  BY RangeEmpty
<1>2. DOMAIN EmptyMap = {}
  BY DEF EmptyMap
<1>3. 0 \in 0..MaxFaults
  BY FaultsAssumption
<1>4. QED
  BY <1>1, <1>2, <1>3 DEF Init, TypeInv, TypeOK

LEMMA StepType == ASSUME TypeInv, [Next]_vars PROVE TypeInv'
<1> USE DEF TypeInv, TypeOK, loaded, locals
<1>0. <<>> \in Seq(Entry) /\ Range(<<>>) = {}
  BY RangeEmpty
<1>1. CASE Open
  <2>1. CASE Fail
    BY <1>1, <1>0, <2>1, FailType DEF Open
  <2>2. CASE ValidSections(file)
    <3>1. Append(<<>>, RootEntry(file)) \in Seq(Entry)
      BY <1>0, FileType, RootEntryType, RangeAppend
    <3>2. <<RootEntry(file)>> \in Seq(Entry)
      BY FileType, RootEntryType
    <3>3. QED
      BY <1>1, <2>2, <3>2 DEF Open
  <2>3. QED
    BY <1>1, <2>1, <2>2 DEF Open
<1>2. ASSUME NEW q \in Queries, HierarchyFor(q) PROVE TypeInv'
  BY <1>2, <1>0 DEF HierarchyFor, StartDrain
<1>3. CASE Partition
  <2>1. CASE Fail
    BY <1>3, <1>0, <2>1, FailType DEF Partition
  <2>2. CASE ValidLod(query.lod)
    <3>1. Head(draining) \in Entry /\ Tail(draining) \in Seq(Entry)
      BY <1>3, RangeTail DEF Partition
    <3>2. /\ Append(relevant, Head(draining)) \in Seq(Entry)
          /\ Append(rest, Head(draining)) \in Seq(Entry)
      BY <3>1, RangeAppend
    <3>3. QED
      BY <1>3, <2>2, <3>1, <3>2 DEF Partition
  <2>3. QED
    BY <1>3, <2>1, <2>2 DEF Partition
<1>4. CASE EndPartition
  BY <1>4, <1>0 DEF EndPartition
<1>5. CASE Answer
  <2>1. SelectedChunks(query) \subseteq Entry
    BY RangeOfMap DEF SelectedChunks, Matching, MapOK
  <2>2. QED
    BY <1>5, <1>0, <2>1 DEF Answer
<1>6. CASE SkipVisitedPage
  BY <1>6, RangeTail DEF SkipVisitedPage, AtPage
<1>7. CASE RefusePage
  <2>1. NextPage \in PageRange
    BY <1>7, NextPageType DEF RefusePage, AtNewPage, AtPage
  <2>2. total_bytes' \in Nat
    BY <1>7, <2>1 DEF RefusePage, WholeEntries, PageRange
  <2>3. QED
    BY <1>0, <1>7, <2>1, <2>2, FailType DEF RefusePage
<1>8. CASE RequestPage /\ (FetchPage \/ FetchFails)
  <2>1. NextPage \in PageRange
    BY <1>8, NextPageType DEF RequestPage, AtNewPage, AtPage
  <2>2. /\ total_bytes' \in Nat
        /\ visited_pages' \subseteq PageRange
        /\ requests' \in Seq(PageRange)
    <3>1. /\ visited_pages' = visited_pages \cup {NextPage}
          /\ total_bytes' = total_bytes + NextPage[2]
          /\ requests' = Append(requests, NextPage)
          /\ NextPage[2] >= 0
      <4>1. RequestPage
        BY <1>8
      <4>2. WholeEntries(NextPage[2])
        BY <4>1 DEF RequestPage, PageFits
      <4>3. NextPage[2] >= 0
        BY <2>1, <4>2 DEF WholeEntries, PageRange
      <4>4. QED
        BY <4>1, <4>3 DEF RequestPage
    <3>2. NextPage[2] \in Nat
      BY <2>1, <3>1 DEF PageRange
    <3>3. /\ visited_pages \subseteq PageRange /\ total_bytes \in Nat
          /\ requests \in Seq(PageRange)
      BY DEF TypeInv, TypeOK
    <3>4. requests' \in Seq(PageRange)
      BY <2>1, <3>1, <3>3, AppendProperties
    <3>5. QED
      BY <2>1, <3>1, <3>2, <3>3, <3>4
  <2>3. CASE Fail
    <3>1. faults' \in 0..MaxFaults
      BY <1>8, FaultsAssumption DEF FetchPage, FetchFails
    <3>2. QED
      BY <1>0, <1>8, <2>2, <2>3, <3>1, FailType DEF RequestPage
  <2>4. CASE FetchPage /\ \A e \in EntriesIn(file, NextPage) : ValidEntry(e)
    <3>1. /\ PageEntries(file, NextPage) \in Seq(Entry)
          /\ Range(PageEntries(file, NextPage)) = EntriesIn(file, NextPage)
      BY <2>1, FileType, PageEntriesType
    <3>2. QED
      BY <2>2, <2>4, <3>1 DEF FetchPage, RequestPage, AtNewPage, AtPage
  <2>5. QED
    BY <1>8, <2>3, <2>4 DEF FetchPage, FetchFails
<1>9. CASE ScanEntry
  <2> DEFINE e == Head(page)
  <2>1. /\ e \in Entry /\ Tail(page) \in Seq(Entry)
        /\ ValidEntry(e) /\ \A d \in Range(Tail(page)) : ValidEntry(d)
    BY <1>9, RangeTail DEF ScanEntry
  <2>a. MapOK(hierarchy)
    BY DEF MapOK
  <2>2. CASE Fail /\ UNCHANGED <<loaded, pending_pages>>
    BY <1>0, <1>9, <2>2, FailType DEF ScanEntry
  <2>3. CASE ~ EntryRefused(e)
    <3>1. MapOK(Insert(hierarchy, e))
      <4> HIDE DEF e
      <4>1. QED
        BY <2>1, <2>a, InsertMap
    <3>2. HasPointData(e) => /\ e.offset + e.byte_size \in Nat
                             /\ loaded_point_total + e.point_count \in Nat
      <4> HIDE DEF e
      <4>1. QED
        BY <2>1, ChunkNumbers
    <3>3. loaded_point_total' \in Nat
      BY <1>9, <2>3, <3>2 DEF ScanEntry
    <3>4. e.offset \in Nat
      BY <2>1 DEF Entry
    <3>5. DOMAIN point_ranges' \subseteq Nat /\ \A s \in DOMAIN point_ranges' : point_ranges'[s] \in Nat
      <4>1. CASE HasPointData(e)
        <5>1. point_ranges' = AddRange(point_ranges, e)
          BY <1>9, <2>3, <4>1 DEF ScanEntry
        <5> DEFINE r == AddRange(point_ranges, e)
        <5>2. /\ DOMAIN r = DOMAIN point_ranges \cup {e.offset}
              /\ r[e.offset] = e.offset + e.byte_size
              /\ \A s \in DOMAIN point_ranges : s # e.offset => r[s] = point_ranges[s]
          BY AddRangeMap
        <5>3. e.offset + e.byte_size \in Nat
          BY <3>2, <4>1
        <5> HIDE DEF e, r
        <5>4. QED
          BY <3>4, <5>1, <5>2, <5>3 DEF r
      <4>2. CASE ~ HasPointData(e)
        BY <1>9, <2>3, <4>2 DEF ScanEntry
      <4>3. QED
        BY <4>1, <4>2
    <3>6. pending_pages' \in Seq(Entry)
      <4>1. pending_pages' = Append(pending_pages, e) \/ pending_pages' = pending_pages
        BY <1>9, <2>3 DEF ScanEntry
      <4> HIDE DEF e
      <4>2. QED
        <5>1. Append(pending_pages, e) \in Seq(Entry)
          BY <2>1, RangeAppend
        <5>2. QED
          BY <4>1, <5>1
    <3>7. QED
      BY <1>9, <2>1, <2>3, <3>1, <3>3, <3>5, <3>6 DEF ScanEntry, MapOK
  <2>4. QED
    BY <1>9, <2>2, <2>3 DEF ScanEntry
<1>10. CASE EndPage
  <2>1. CASE Fail
    BY <1>0, <1>10, <2>1, FailType DEF EndPage
  <2>2. CASE ~ TotalRefused
    BY <1>10, <2>2, RangeTail DEF EndPage
  <2>3. QED
    BY <1>10, <2>1, <2>2 DEF EndPage
<1>11. CASE EndLoad
  BY <1>0, <1>11 DEF EndLoad, StartDrain
<1>12. CASE UNCHANGED vars
  BY <1>12 DEF vars
<1>13. QED
  BY <1>1, <1>2, <1>3, <1>4, <1>5, <1>6, <1>7, <1>8, <1>9, <1>10, <1>11, <1>12
     DEF Next, Step, FetchPage, FetchFails

\* Every variable has its type, in every state of every behaviour, and the
\* map holds under each key an entry of that key.
THEOREM TypeCorrect == Spec => []TypeOK
<1>1. Spec => []TypeInv
  BY InitType, StepType, PTL DEF Spec
<1>2. TypeInv => TypeOK
  BY DEF TypeInv
<1>3. QED
  BY <1>1, <1>2, PTL

-----------------------------------------------------------------------------
(***************************************************************************)
(* Control: which local vector is in use where, and the root page is       *)
(* visited before anything else happens.                                   *)
(***************************************************************************)
LEMMA InitControl == Init => ControlInv
  BY DEF Init, ControlInv

LEMMA StepControl ==
  ASSUME TypeInv, ControlInv, [Next]_vars PROVE ControlInv'
<1> USE DEF ControlInv, loaded, locals, RootPage
<1>1. CASE Open
  BY <1>1 DEF Open, Fail
<1>2. ASSUME NEW q \in Queries, HierarchyFor(q) PROVE ControlInv'
  BY <1>2 DEF HierarchyFor, StartDrain
<1>3. CASE Partition
  BY <1>3 DEF Partition, Fail
<1>4. CASE EndPartition
  BY <1>4 DEF EndPartition
<1>5. CASE Answer
  BY <1>5 DEF Answer
<1>6. CASE SkipVisitedPage
  BY <1>6 DEF SkipVisitedPage, AtPage, NextPage
<1>7. CASE RefusePage
  BY <1>7 DEF RefusePage, AtNewPage, AtPage, NextPage, Fail
<1>8. CASE FetchPage
  BY <1>8 DEF FetchPage, RequestPage, AtNewPage, AtPage, NextPage, Fail
<1>9. CASE FetchFails
  BY <1>9 DEF FetchFails, RequestPage, AtNewPage, AtPage, NextPage, Fail
<1>10. CASE ScanEntry
  BY <1>10 DEF ScanEntry, NextPage, Fail
<1>11. CASE EndPage
  <2>1. Tail(<<RootEntry(file)>>) = <<>> /\ Head(<<RootEntry(file)>>) = RootEntry(file)
    OBVIOUS
  <2>2. CASE Fail
    BY <1>11, <2>2 DEF EndPage, Fail
  <2>3. CASE ~ TotalRefused /\ opening
    BY <1>11, <2>1, <2>3 DEF EndPage, NextPage
  <2>4. CASE ~ TotalRefused /\ ~ opening
    BY <1>11, <2>4 DEF EndPage
  <2>5. QED
    BY <1>11, <2>2, <2>3, <2>4 DEF EndPage
<1>12. CASE EndLoad
  BY <1>12 DEF EndLoad, StartDrain
<1>13. CASE UNCHANGED vars
  BY <1>13 DEF vars, NextPage
<1>14. QED
  BY <1>1, <1>2, <1>3, <1>4, <1>5, <1>6, <1>7, <1>8, <1>9, <1>10, <1>11, <1>12, <1>13
     DEF Next, Step

-----------------------------------------------------------------------------
(***************************************************************************)
(* Origin: all that the reader holds comes out of pages of the file.       *)
(***************************************************************************)
\* The worklists after a call failed: what was pending is still pending.
LEMMA FailWorklist ==
  ASSUME Fail
  PROVE  Worklist' = Range(pending_pages')
  BY RangeEmpty DEF Fail, Worklist

\* The file is a constant of the behaviour.
LEMMA FileStays == ASSUME [Next]_vars PROVE file' = file
  BY DEF Next, Step, vars, Fail, Open, HierarchyFor, Partition, EndPartition, Answer,
         SkipVisitedPage, RefusePage, FetchPage, FetchFails, ScanEntry, EndPage, EndLoad

\* What a step can do to the worklists taken together.  An entry gets on them
\* from the page in progress only, and gets off them when its page has been
\* visited or lost.
LEMMA WorklistStep ==
  ASSUME TypeInv, ControlInv, [Next]_vars
  PROVE  /\ Worklist' \subseteq
              Worklist \cup {e \in Range(page) : IsChildPage(e)} \cup {RootEntry(file)}
         /\ \A e \in Worklist : e \in Worklist' \/ PageOf(e) \in visited_pages \cup lost'
         /\ lost \subseteq lost' /\ visited_pages \subseteq visited_pages'
<1> USE DEF loaded, locals, TypeInv, TypeOK, ControlInv
<1>0. Range(<<>>) = {}
  BY RangeEmpty
<1>1. CASE Open
  <2>1. Range(<<RootEntry(file)>>) = {RootEntry(file)}
    BY DEF Range
  <2>2. QED
    BY <1>0, <1>1, <2>1, FailWorklist DEF Open, Worklist, Fail
<1>2. ASSUME NEW q \in Queries, HierarchyFor(q)
      PROVE  Worklist' = Worklist /\ UNCHANGED <<lost, visited_pages>>
  BY <1>2, <1>0 DEF HierarchyFor, StartDrain, Worklist
<1>3. CASE Partition
  <2>1. CASE Fail
    BY <1>0, <1>3, <2>1, FailWorklist DEF Partition, Worklist, Fail, Pages
  <2>2. CASE ValidLod(query.lod)
    <3>1. Range(draining) = {Head(draining)} \cup Range(Tail(draining)) /\ Head(draining) \in Entry
      BY <1>3, RangeTail DEF Partition
    <3>2. /\ Range(Append(relevant, Head(draining))) = Range(relevant) \cup {Head(draining)}
          /\ Range(Append(rest, Head(draining))) = Range(rest) \cup {Head(draining)}
      BY <3>1, RangeAppend
    <3>3. QED
      BY <1>3, <2>2, <3>1, <3>2 DEF Partition, Worklist
  <2>3. QED
    BY <1>3, <2>1, <2>2 DEF Partition
<1>4. CASE EndPartition
  BY <1>0, <1>4 DEF EndPartition, Worklist
<1>5. CASE Answer
  BY <1>0, <1>5 DEF Answer, Worklist
<1>6. CASE SkipVisitedPage
  <2>1. Range(relevant) = {Head(relevant)} \cup Range(Tail(relevant))
    BY <1>6, RangeTail DEF SkipVisitedPage, AtPage
  <2>2. QED
    BY <1>6, <2>1 DEF SkipVisitedPage, Worklist, NextPage
<1>7. CASE RefusePage
  BY <1>7, <1>0, FailWorklist DEF RefusePage, AtNewPage, AtPage, Fail, Worklist, Pages
<1>8. CASE FetchPage
  <2>1. CASE Fail
    BY <1>8, <2>1, <1>0, FailWorklist DEF FetchPage, RequestPage, AtNewPage, AtPage, Fail, Worklist, Pages
  <2>2. CASE UNCHANGED <<relevant, rest, draining, pending_pages, lost>>
    BY <1>8, <2>2 DEF FetchPage, RequestPage, Worklist
  <2>3. QED
    BY <1>8, <2>1, <2>2 DEF FetchPage, RequestPage
<1>9. CASE FetchFails
  BY <1>9, <1>0, FailWorklist DEF FetchFails, RequestPage, AtNewPage, AtPage, Fail, Worklist, Pages
<1>10. CASE ScanEntry
  <2>1. Head(page) \in Range(page) /\ Head(page) \in Entry
    BY <1>10, RangeTail DEF ScanEntry
  <2>2. CASE Fail
    BY <1>10, <2>2, <1>0, FailWorklist DEF ScanEntry, Fail, Worklist, Pages
  <2>3. CASE ~ EntryRefused(Head(page))
    <3>1. Range(Append(pending_pages, Head(page))) = Range(pending_pages) \cup {Head(page)}
      BY <2>1, RangeAppend
    <3>2. QED
      BY <1>10, <2>1, <2>3, <3>1 DEF ScanEntry, Worklist
  <2>4. QED
    BY <1>10, <2>2, <2>3 DEF ScanEntry
<1>11. CASE EndPage
  <2>1. CASE Fail
    BY <1>11, <2>1, <1>0, FailWorklist DEF EndPage, Fail, Worklist, Pages
  <2>2. CASE ~ TotalRefused
    <3>1. Range(relevant) = {Head(relevant)} \cup Range(Tail(relevant))
      BY <1>11, RangeTail DEF EndPage
    <3>2. QED
      BY <1>11, <2>2, <3>1 DEF EndPage, Worklist, NextPage
  <2>3. QED
    BY <1>11, <2>1, <2>2 DEF EndPage
<1>12. CASE EndLoad
  BY <1>0, <1>12 DEF EndLoad, StartDrain, Worklist
<1>13. CASE UNCHANGED vars
  BY <1>13 DEF vars, Worklist
<1>14. QED
  BY <1>1, <1>2, <1>3, <1>4, <1>5, <1>6, <1>7, <1>8, <1>9, <1>10, <1>11, <1>12, <1>13
     DEF Next, Step

\* Likewise for the visited pages: only the next page is added.
LEMMA VisitedStep ==
  ASSUME TypeInv, [Next]_vars
  PROVE  visited_pages' \subseteq visited_pages \cup (IF relevant # <<>> THEN {NextPage} ELSE {})
  BY DEF Next, Step, vars, loaded, locals, Fail, Open, HierarchyFor, Partition, EndPartition, Answer,
         SkipVisitedPage, RefusePage, FetchPage, FetchFails, RequestPage, AtNewPage, AtPage,
         ScanEntry, EndPage, EndLoad

\* What a step can do to the map: take in the entry being scanned, under a
\* key that was free or had a page pointer.
LEMMA HierarchyStep ==
  ASSUME TypeInv, [Next]_vars
  PROVE  \/ hierarchy' = hierarchy
         \/ /\ ScanEntry /\ page # <<>> /\ ~ EntryRefused(Head(page))
            /\ Head(page) \in Entry
            /\ hierarchy' = Insert(hierarchy, Head(page))
            /\ Head(page).key \in DOMAIN hierarchy =>
                 IsChildPage(hierarchy[Head(page).key]) /\ ~ IsChildPage(Head(page))
<1>1. CASE ScanEntry /\ ~ EntryRefused(Head(page))
  <2>1. Head(page) \in Entry /\ hierarchy' = Insert(hierarchy, Head(page))
    BY <1>1, RangeTail DEF ScanEntry, TypeInv, TypeOK
  <2>2. QED
    BY <1>1, <2>1 DEF ScanEntry, EntryRefused, KeyConflict
<1>2. CASE ScanEntry /\ EntryRefused(Head(page))
  BY <1>2 DEF ScanEntry, loaded
<1>3. CASE ~ ScanEntry
  BY <1>3 DEF Next, Step, vars, loaded, Open, HierarchyFor, Partition, EndPartition,
     Answer, SkipVisitedPage, RefusePage, FetchPage, FetchFails, RequestPage, EndPage, EndLoad
<1>4. QED
  BY <1>1, <1>2, <1>3

\* A chunk in the map stays where it is.
LEMMA ChunksStay ==
  ASSUME TypeInv, [Next]_vars, NEW k \in DOMAIN hierarchy, HasPointData(hierarchy[k])
  PROVE  k \in DOMAIN hierarchy' /\ hierarchy'[k] = hierarchy[k]
<1>1. MapOK(hierarchy)
  BY DEF MapOK, TypeInv, TypeOK
<1>2. CASE hierarchy' = hierarchy
  BY <1>2
<1>3. CASE hierarchy' # hierarchy
  <2> DEFINE e == Head(page)
  <2>1. /\ e \in Entry /\ hierarchy' = Insert(hierarchy, e)
        /\ e.key \in DOMAIN hierarchy => IsChildPage(hierarchy[e.key])
    BY <1>3, HierarchyStep
  <2> HIDE DEF e
  <2>2. k # e.key
    BY <2>1 DEF HasPointData, IsChildPage
  <2>3. QED
    <3>1. /\ DOMAIN Insert(hierarchy, e) = DOMAIN hierarchy \cup {e.key}
          /\ \A l \in DOMAIN hierarchy : l # e.key => Insert(hierarchy, e)[l] = hierarchy[l]
      BY <1>1, <2>1, InsertMap
    <3>2. QED
      BY <2>1, <2>2, <3>1
<1>4. QED
  BY <1>2, <1>3

\* The entries of the page in progress come from the page being loaded.
LEMMA PageInProgress ==
  ASSUME TypeInv, ControlInv, OriginInv, NEW e \in Range(page)
  PROVE  /\ pc = "scan" /\ e \in EntriesIn(file, NextPage)
         /\ NextPage \in AllPages(file) /\ e \in AllEntries(file)
         /\ IsChildPage(e) => PageOf(e) \in AllPages(file)
<1>1. pc = "scan"
  BY RangeEmpty DEF ControlInv
<1>2. e \in EntriesIn(file, NextPage) /\ NextPage \in AllPages(file)
  BY <1>1 DEF OriginInv, ControlInv
<1>3. QED
  BY <1>1, <1>2, FileType, PageOfFile DEF TypeInv

LEMMA InitOrigin == Init => OriginInv
<1> SUFFICES ASSUME Init PROVE OriginInv
  OBVIOUS
<1>1. Worklist = {}
  BY RangeEmpty DEF Init, Worklist
<1>2. Range(hierarchy) = {}
  BY DEF Init, EmptyMap, Range
<1>3. QED
  BY <1>1, <1>2 DEF Init, OriginInv

LEMMA StepOrigin ==
  ASSUME TypeInv, ControlInv, OriginInv, [Next]_vars PROVE OriginInv'
<1>0. file' = file
  BY FileStays
<1>a. RootPage(file) \in AllPages(file)
  BY LeadToRoot DEF AllPages
<1>1. \A e \in Worklist' : PageOf(e) \in AllPages(file)
  <2> TAKE e \in Worklist'
  <2>1. CASE e \in Worklist
    BY <2>1 DEF OriginInv
  <2>2. CASE e \in Range(page) /\ IsChildPage(e)
    BY <2>2, PageInProgress
  <2>3. CASE e = RootEntry(file)
    BY <1>a, <2>3 DEF RootPage
  <2>4. QED
    BY <2>1, <2>2, <2>3, WorklistStep
<1>2. Range(hierarchy') \subseteq AllEntries(file)
  <2>1. CASE hierarchy' = hierarchy
    BY <2>1 DEF OriginInv
  <2>2. CASE hierarchy' # hierarchy
    <3> DEFINE e == Head(page)
    <3>1. e \in Range(page) /\ hierarchy' = Insert(hierarchy, e)
      BY <2>2, HierarchyStep, RangeTail DEF TypeInv, TypeOK
    <3>2. e \in AllEntries(file)
      BY <3>1, PageInProgress
    <3> HIDE DEF e
    <3>3. Range(Insert(hierarchy, e)) \subseteq Range(hierarchy) \cup {e}
      BY DEF Range, Insert
    <3>4. QED
      BY <3>1, <3>2, <3>3 DEF OriginInv
  <2>3. QED
    BY <2>1, <2>2
<1>3. visited_pages' \subseteq AllPages(file)
  <2>1. relevant # <<>> => NextPage \in AllPages(file)
    BY RangeTail DEF TypeInv, TypeOK, OriginInv, Worklist, NextPage
  <2>2. QED
    BY <2>1, VisitedStep DEF OriginInv
<1>4. ASSUME pc' = "scan"
      PROVE  Range(page') \subseteq {e \in EntriesIn(file, NextPage') : ValidEntry(e)}
  <2>1. CASE pc = "scan"
    <3>1. relevant' = relevant /\ (page' = page \/ (page # <<>> /\ page' = Tail(page)))
      BY <1>4, <2>1 DEF Next, Step, vars, locals, Fail, Open, HierarchyFor, Partition, EndPartition,
         Answer, SkipVisitedPage, RefusePage, FetchPage, FetchFails, RequestPage, AtNewPage, AtPage,
         ScanEntry, EndPage, EndLoad
    <3>2. Range(page') \subseteq Range(page)
      BY <3>1, RangeTail DEF TypeInv, TypeOK
    <3>3. QED
      BY <2>1, <3>1, <3>2 DEF OriginInv, NextPage
  <2>2. CASE pc # "scan"
    <3>1. /\ FetchPage /\ relevant' = relevant /\ relevant # <<>>
          /\ page' = PageEntries(file, NextPage)
          /\ \A e \in EntriesIn(file, NextPage) : ValidEntry(e)
      BY <1>4, <2>2 DEF Next, Step, vars, locals, Fail, Open, HierarchyFor, StartDrain, Partition,
         EndPartition, Answer, SkipVisitedPage, RefusePage, FetchPage, FetchFails, RequestPage,
         AtNewPage, AtPage, ScanEntry, EndPage, EndLoad
    <3>2. Range(page') = EntriesIn(file, NextPage)
      BY <3>1, NextPageType, FileType, PageEntriesType DEF TypeInv
    <3>3. QED
      BY <3>1, <3>2 DEF NextPage
  <2>3. QED
    BY <2>1, <2>2
<1>5. QED
  BY <1>0, <1>1, <1>2, <1>3, <1>4 DEF OriginInv

-----------------------------------------------------------------------------
(***************************************************************************)
(* Requests: a page that was taken in is in the visited set, and what is   *)
(* in the visited set is not fetched.                                      *)
(***************************************************************************)
LEMMA InitCompleted == Init => CompletedInv
  BY DEF Init, CompletedInv

LEMMA StepCompleted ==
  ASSUME TypeInv, ControlInv, CompletedInv, [Next]_vars PROVE CompletedInv'
<1>1. visited_pages \subseteq visited_pages'
  BY WorklistStep
<1>2. CASE completed' = completed
  BY <1>1, <1>2 DEF CompletedInv
<1>3. CASE EndPage /\ completed' = completed \cup {NextPage}
  <2>1. NextPage \in visited_pages
    BY <1>3 DEF EndPage, ControlInv
  <2>2. QED
    BY <1>1, <1>3, <2>1 DEF CompletedInv
<1>4. QED
  BY <1>2, <1>3 DEF Next, Step, vars, Open, HierarchyFor, Partition, EndPartition, Answer,
     SkipVisitedPage, RefusePage, FetchPage, FetchFails, ScanEntry, EndPage, EndLoad

\* However many queries reach a page and however many entries point to it,
\* once it was read and taken in its bytes are not requested again in the life
\* of the reader (load_page looks it up in visited_pages first).
THEOREM CompletedPageOnce == Spec => CompletedOnce
<1> DEFINE Inv == TypeInv /\ ControlInv /\ CompletedInv
           NewPage == requests' # requests => requests'[Len(requests')] \notin completed
<1>1. Init => Inv
  BY InitType, InitControl, InitCompleted
<1>2. Inv /\ [Next]_vars => Inv'
  BY StepType, StepControl, StepCompleted
<1>3. Inv /\ [Next]_vars => NewPage
  <2> SUFFICES ASSUME Inv, [Next]_vars, requests' # requests
               PROVE  requests'[Len(requests')] \notin completed
    OBVIOUS
  <2>1. RequestPage
    BY DEF Next, Step, vars, Open, HierarchyFor, Partition, EndPartition, Answer,
       SkipVisitedPage, RefusePage, FetchPage, FetchFails, ScanEntry, EndPage, EndLoad
  <2>2. NextPage \notin completed
    BY <2>1 DEF RequestPage, AtNewPage, CompletedInv
  <2>3. requests \in Seq(PageRange) /\ requests' = Append(requests, NextPage)
    BY <2>1 DEF RequestPage, TypeInv, TypeOK
  <2>4. requests'[Len(requests')] = NextPage
    <3> DEFINE q == NextPage
    <3>1. q \in PageRange
      BY <2>1, NextPageType DEF RequestPage, AtNewPage, AtPage, TypeInv
    <3> HIDE DEF q
    <3>2. Append(requests, q)[Len(Append(requests, q))] = q
      BY <2>3, <3>1
    <3>3. QED
      BY <2>3, <3>2 DEF q
  <2>5. QED
    BY <2>2, <2>4
<1>4. QED
  BY <1>1, <1>2, <1>3, PTL DEF Spec, CompletedOnce

-----------------------------------------------------------------------------
(***************************************************************************)
(* Chunk ranges: in order and apart, one for each chunk of the map.        *)
(***************************************************************************)
LEMMA InitRanges == Init => RangesInv
  BY DEF Init, RangesInv, EmptyMap

LEMMA StepRanges ==
  ASSUME TypeInv, RangesInv, [Next]_vars PROVE RangesInv'
<1>0. MapOK(hierarchy)
  BY DEF TypeInv, TypeOK, MapOK
<1>1. CASE hierarchy' = hierarchy /\ point_ranges' = point_ranges
  BY <1>1 DEF RangesInv
<1>2. CASE ScanEntry /\ page # <<>> /\ ~ EntryRefused(Head(page))
  <2> DEFINE e == Head(page)
             h == Insert(hierarchy, e)
             r == AddRange(point_ranges, e)
  <2>1. e \in Entry /\ ValidEntry(e)
    BY <1>2, RangeTail DEF TypeInv, TypeOK
  <2>2. hierarchy' = h
    BY <1>2 DEF ScanEntry
  <2>3. HasPointData(e) => ~ Overlaps(point_ranges, e) /\ point_ranges' = r
    BY <1>2 DEF EntryRefused, ScanEntry
  <2>4. ~ HasPointData(e) => point_ranges' = point_ranges
    BY <1>2 DEF ScanEntry
  <2> HIDE DEF e
  <2>5. /\ DOMAIN h = DOMAIN hierarchy \cup {e.key} /\ h[e.key] = e
        /\ \A k \in DOMAIN hierarchy : k # e.key => h[k] = hierarchy[k]
    BY <1>0, <2>1, InsertMap
  <2>6. /\ DOMAIN r = DOMAIN point_ranges \cup {e.offset}
        /\ r[e.offset] = e.offset + e.byte_size
        /\ \A s \in DOMAIN point_ranges : s # e.offset => r[s] = point_ranges[s]
    BY AddRangeMap
  <2> HIDE DEF h, r
  <2>7. CASE ~ HasPointData(e)
    BY <2>2, <2>4, <2>5, <2>7 DEF RangesInv
  <2>8. CASE HasPointData(e)
    <3>1. e.offset \in Nat /\ e.byte_size \in Nat \ {0}
      BY <2>1, <2>8, ChunkNumbers
    <3>2. e.offset \notin DOMAIN point_ranges /\ Apart(r)
      BY <2>3, <2>8, <3>1, NeighboursSuffice DEF r, RangesInv, Apart, TypeInv, TypeOK
    <3>3. \A k \in DOMAIN h : HasPointData(h[k]) =>
            h[k].offset \in DOMAIN r /\ r[h[k].offset] = h[k].offset + h[k].byte_size
      BY <2>5, <2>6, <3>2 DEF RangesInv
    <3>4. \A k, l \in DOMAIN h :
            HasPointData(h[k]) /\ HasPointData(h[l]) /\ h[k].offset = h[l].offset => k = l
      BY <2>5, <3>2 DEF RangesInv
    <3>5. QED
      BY <2>2, <2>3, <2>8, <3>2, <3>3, <3>4 DEF RangesInv, Apart
  <2>9. QED
    BY <2>7, <2>8
<1>3. QED
  BY <1>1, <1>2 DEF Next, Step, vars, loaded, Open, HierarchyFor, Partition, EndPartition,
     Answer, SkipVisitedPage, RefusePage, FetchPage, FetchFails, RequestPage, ScanEntry,
     EndPage, EndLoad

\* Two chunks the reader knows of never share a byte, although a new chunk is
\* compared with two recorded neighbours only (insert_point_chunk_range).
THEOREM ChunksNeverOverlap == Spec => []ChunksDisjoint
<1> DEFINE Inv == TypeInv /\ RangesInv
<1>1. Init => Inv
  BY InitType, InitRanges
<1>2. Inv /\ [Next]_vars => Inv'
  BY StepType, StepRanges
<1>3. Inv => ChunksDisjoint
  <2> SUFFICES ASSUME Inv,
                      NEW k \in DOMAIN hierarchy, HasPointData(hierarchy[k]),
                      NEW l \in DOMAIN hierarchy, HasPointData(hierarchy[l]),
                      hierarchy[k] # hierarchy[l]
               PROVE  \/ hierarchy[k].offset + hierarchy[k].byte_size <= hierarchy[l].offset
                      \/ hierarchy[l].offset + hierarchy[l].byte_size <= hierarchy[k].offset
    BY DEF ChunksDisjoint, Range
  <2>1. hierarchy[k].offset \in Nat /\ hierarchy[l].offset \in Nat
    BY DEF TypeInv, TypeOK, Entry
  <2>2. hierarchy[k].offset # hierarchy[l].offset
    BY DEF RangesInv
  <2>3. hierarchy[k].offset < hierarchy[l].offset \/ hierarchy[l].offset < hierarchy[k].offset
    BY <2>1, <2>2
  <2>4. QED
    BY <2>3 DEF RangesInv
<1>4. QED
  BY <1>1, <1>2, <1>3, PTL DEF Spec

-----------------------------------------------------------------------------
(***************************************************************************)
(* Budget: what is requested is counted first.                             *)
(***************************************************************************)
LEMMA InitBudget == Init => BudgetInv
  BY BytesOfNone, LimitsAssumption DEF Init, BudgetInv

LEMMA StepBudget ==
  ASSUME TypeInv, BudgetInv, [Next]_vars PROVE BudgetInv'
<1> DEFINE bytes(s) == SumFunction([i \in DOMAIN s |-> s[i][2]])
<1>1. CASE RequestPage
  <2> DEFINE p == NextPage
  <2>1. /\ p \in PageRange /\ requests \in Seq(PageRange)
        /\ requests' = Append(requests, p) /\ total_bytes' = total_bytes + p[2]
        /\ total_bytes + p[2] <= MaxTotalBytes
    BY <1>1, NextPageType DEF RequestPage, AtNewPage, AtPage, PageFits, WithinBudget, TypeInv, TypeOK
  <2>2. p[2] \in Int /\ total_bytes \in Int /\ MaxTotalBytes \in Int
    BY <2>1, LimitsAssumption DEF PageRange, TypeInv, TypeOK
  <2> HIDE DEF p
  <2>3. bytes(requests) \in Int /\ bytes(Append(requests, p)) = bytes(requests) + p[2]
    BY <2>1, BytesOfAppend
  <2>4. bytes(requests) <= total_bytes
    BY DEF BudgetInv
  <2> HIDE DEF bytes
  <2>5. bytes(requests') <= total_bytes' /\ bytes(requests') <= MaxTotalBytes
    BY <2>1, <2>2, <2>3, <2>4
  <2>6. QED
    BY <2>5 DEF BudgetInv, bytes
<1>2. CASE ~ RequestPage
  <2>1. requests' = requests /\ total_bytes' \in Int /\ total_bytes <= total_bytes'
    <3>1. CASE RefusePage
      <4>1. NextPage[2] \in Int /\ WholeEntries(NextPage[2]) => NextPage[2] > 0
        BY DEF WholeEntries
      <4>2. NextPage \in PageRange
        BY <3>1, NextPageType DEF RefusePage, AtNewPage, AtPage, TypeInv
      <4>3. NextPage[2] \in Int
        BY <4>2 DEF PageRange
      <4>4. QED
        BY <3>1, <4>1, <4>3 DEF RefusePage, TypeInv, TypeOK
    <3>2. CASE ~ RefusePage
      BY <1>2, <3>2 DEF TypeInv, TypeOK, Next, Step, vars, loaded, Open, HierarchyFor, Partition,
         EndPartition, Answer, SkipVisitedPage, FetchPage, FetchFails, ScanEntry, EndPage, EndLoad
    <3>3. QED
      BY <3>1, <3>2
  <2>2. bytes(requests) \in Int
    <3>1. requests \in Seq(PageRange) /\ <<0, 0>> \in PageRange
      BY DEF TypeInv, TypeOK, PageRange
    <3>2. QED
      BY <3>1, BytesOfAppend
  <2>3. bytes(requests) <= total_bytes /\ bytes(requests) <= MaxTotalBytes
    BY DEF BudgetInv
  <2> HIDE DEF bytes
  <2>4. bytes(requests') <= total_bytes' /\ bytes(requests') <= MaxTotalBytes
    BY <2>1, <2>2, <2>3 DEF TypeInv, TypeOK
  <2>5. QED
    BY <2>4 DEF BudgetInv, bytes
<1>3. QED
  BY <1>1, <1>2

\* All the hierarchy a reader requests in its life, whatever is asked and
\* however often a call fails, is within the limit (HierarchyReadLimits).
THEOREM WithinTheLimit == Spec => []BytesWithinBudget
<1> DEFINE Inv == TypeInv /\ BudgetInv
<1>1. Init => Inv
  BY InitType, InitBudget
<1>2. Inv /\ [Next]_vars => Inv'
  BY StepType, StepBudget
<1>3. Inv => BytesWithinBudget
  BY DEF BudgetInv, BytesWithinBudget
<1>4. QED
  BY <1>1, <1>2, <1>3, PTL DEF Spec

-----------------------------------------------------------------------------
(***************************************************************************)
(* Accounting: nothing a loaded page holds is forgotten.                   *)
(***************************************************************************)
LEMMA InitRest == Init => RestInv
  BY DEF Init, RestInv

LEMMA StepRest ==
  ASSUME TypeInv, ControlInv, RestInv, [Next]_vars PROVE RestInv'
<1> SUFFICES ASSUME pc' = "drain", NEW e \in Range(rest') PROVE ~ PageMayMatch(e.key, query')
  BY DEF RestInv
<1>1. CASE pc # "drain"
  <2>1. rest' = <<>>
    BY <1>1 DEF ControlInv, Next, Step, vars, locals, Fail, Open, HierarchyFor, StartDrain, Partition,
       EndPartition, Answer, SkipVisitedPage, RefusePage, FetchPage, FetchFails, RequestPage,
       AtNewPage, AtPage, ScanEntry, EndPage, EndLoad
  <2>2. QED
    BY <2>1, RangeEmpty
<1>2. CASE Partition
  <2>1. ValidLod(query.lod) /\ query' = query
    BY <1>2 DEF Partition, Fail
  <2>2. CASE PageMayMatch(Head(draining).key, query)
    BY <1>2, <2>1, <2>2 DEF Partition, RestInv
  <2>3. CASE ~ PageMayMatch(Head(draining).key, query)
    <3>1. rest' = Append(rest, Head(draining))
      BY <1>2, <2>1, <2>3 DEF Partition
    <3>2. Head(draining) \in Entry /\ rest \in Seq(Entry)
      BY <1>2, RangeTail DEF Partition, TypeInv, TypeOK
    <3>3. Range(Append(rest, Head(draining))) = Range(rest) \cup {Head(draining)}
      BY <3>2, RangeAppend
    <3>4. QED
      BY <1>2, <2>1, <2>3, <3>1, <3>3 DEF Partition, RestInv
  <2>4. QED
    BY <2>2, <2>3
<1>3. CASE pc = "drain" /\ ~ Partition
  <2>1. rest' = rest /\ query' = query
    BY <1>3 DEF Next, Step, vars, locals, Open, HierarchyFor, EndPartition, Answer,
       SkipVisitedPage, RefusePage, FetchPage, FetchFails, RequestPage, AtNewPage, AtPage,
       ScanEntry, EndPage, EndLoad
  <2>2. QED
    BY <1>3, <2>1 DEF RestInv
<1>4. QED
  BY <1>1, <1>2, <1>3

LEMMA InitAccounted == Init => PagesAccounted
  BY DEF Init, PagesAccounted

\* What was taken in stays taken in.
LEMMA TakenInStays ==
  ASSUME TypeInv, ControlInv, [Next]_vars, NEW e, TakenIn(e) PROVE TakenIn(e)'
<1>1. HasPointData(e) => e.key \in DOMAIN hierarchy' /\ hierarchy'[e.key] = e
  BY ChunksStay DEF TakenIn
<1>2. IsChildPage(e) => e \in Worklist' \/ PageOf(e) \in visited_pages' \cup lost'
  BY WorklistStep DEF TakenIn
<1>3. QED
  BY <1>1, <1>2 DEF TakenIn

\* The page a failed call was at is lost.
LEMMA FailLosesPage ==
  ASSUME TypeInv, Fail, relevant # <<>> PROVE NextPage \in lost'
<1>1. Head(relevant) \in Range(relevant)
  BY RangeTail DEF TypeInv, TypeOK
<1>2. QED
  BY <1>1 DEF Fail, Pages, NextPage

LEMMA StepAccounted ==
  ASSUME TypeInv, ControlInv, PagesAccounted, [Next]_vars PROVE PagesAccounted'
<1> SUFFICES ASSUME NEW p \in visited_pages' \ lost', NEW e \in EntriesIn(file, p)
             PROVE  TakenIn(e)' \/ (pc' = "scan" /\ p = NextPage' /\ e \in Range(page'))
  BY FileStays DEF PagesAccounted
<1>1. CASE p \in visited_pages /\ TakenIn(e)
  BY <1>1, TakenInStays
<1>2. CASE p \in visited_pages /\ ~ TakenIn(e)
  <2>1. pc = "scan" /\ p = NextPage /\ e \in Range(page) /\ page # <<>>
    BY <1>2, WorklistStep, RangeEmpty DEF PagesAccounted
  <2>2. relevant # <<>>
    BY <2>1 DEF TypeInv
  <2>3. ~ Fail
    BY <2>1, <2>2, FailLosesPage
  <2>4. CASE UNCHANGED vars
    BY <2>1, <2>4 DEF vars, locals, NextPage
  <2>5. CASE ScanEntry
    <3> DEFINE d == Head(page)
    <3>1. /\ ~ EntryRefused(d) /\ hierarchy' = Insert(hierarchy, d)
          /\ pc' = pc /\ relevant' = relevant /\ page' = Tail(page)
          /\ pending_pages' = IF IsChildPage(d) THEN Append(pending_pages, d) ELSE pending_pages
      BY <2>1, <2>3, <2>5 DEF ScanEntry
    <3>2. d \in Entry /\ Range(page) = {d} \cup Range(Tail(page))
      BY <2>1, RangeTail DEF TypeInv, TypeOK
    <3> HIDE DEF d
    <3>3. CASE e \in Range(Tail(page))
      BY <2>1, <3>1, <3>3 DEF NextPage
    <3>4. CASE e = d
      <4>1. d.key \in DOMAIN hierarchy' /\ hierarchy'[d.key] = d
        <5>1. MapOK(hierarchy)
          BY DEF TypeInv, TypeOK, MapOK
        <5>2. DOMAIN Insert(hierarchy, d) = DOMAIN hierarchy \cup {d.key} /\ Insert(hierarchy, d)[d.key] = d
          BY <3>2, <5>1, InsertMap
        <5>3. QED
          BY <3>1, <5>2
      <4>2. IsChildPage(d) => d \in Range(pending_pages')
        <5>1. d \in Range(Append(pending_pages, d))
          BY <3>2, RangeAppend DEF TypeInv, TypeOK
        <5>2. QED
          BY <3>1, <5>1
      <4>3. QED
        BY <3>4, <4>1, <4>2 DEF TakenIn, Worklist
    <3>5. QED
      BY <2>1, <3>2, <3>3, <3>4
  <2>6. QED
    BY <2>1, <2>4, <2>5 DEF Next, Step, Open, HierarchyFor, Partition, EndPartition, Answer,
       SkipVisitedPage, RefusePage, FetchPage, FetchFails, RequestPage, AtNewPage, AtPage,
       EndPage, EndLoad
<1>3. CASE p \notin visited_pages
  <2>1. p = NextPage /\ relevant # <<>>
    BY <1>3, VisitedStep
  <2>2. ~ Fail
    BY <2>1, FailLosesPage
  <2>3. FetchPage /\ pc' = "scan" /\ page' = PageEntries(file, NextPage) /\ relevant' = relevant
    BY <1>3, <2>1, <2>2 DEF Next, Step, vars, loaded, locals, Open, HierarchyFor, Partition,
       EndPartition, Answer, SkipVisitedPage, RefusePage, FetchPage, FetchFails, ScanEntry,
       EndPage, EndLoad
  <2>4. Range(PageEntries(file, NextPage)) = EntriesIn(file, NextPage)
    BY <2>1, NextPageType, FileType, PageEntriesType DEF TypeInv
  <2>5. QED
    BY <2>1, <2>3, <2>4 DEF NextPage
<1>4. QED
  BY <1>1, <1>2, <1>3

-----------------------------------------------------------------------------
(***************************************************************************)
(* Answers.  When the drain ends with nothing relevant, the visited pages  *)
(* within the query's reach are closed under the pointers the query        *)
(* follows, unless one is lost.  They hold the root page, so they are all  *)
(* the pages the query reaches, and their chunks are in the map.           *)
(***************************************************************************)
LEMMA ReachedPagesVisited ==
  ASSUME TypeInv, ControlInv, PagesAccounted, RestInv,
         pc = "drain", draining = <<>>, relevant = <<>>,
         lost \cap ReachablePages(file, query) = {}
  PROVE  ReachablePages(file, query) \subseteq visited_pages
<1> DEFINE reached == ReachablePages(file, query)
           S == reached \cap visited_pages
<1>1. IsFile(file)
  BY FileType DEF TypeInv
<1>2. reached \subseteq PageRefs(file)
  BY DEF ReachablePages, LeadTo
<1>3. RootPage(file) \in S
  BY LeadToRoot DEF ReachablePages, ControlInv
<1>4. Worklist = Range(rest)
  BY RangeEmpty DEF Worklist, ControlInv
<1>5. ASSUME NEW p \in S, NEW e \in EntriesIn(file, p) \cap Followed(file, query)
      PROVE  PageOf(e) \in S
  <2>1. PageOf(e) \in reached
    BY <1>1, <1>5, LeadToClosed DEF ReachablePages, Followed
  <2>2. IsChildPage(e) /\ PageMayMatch(e.key, query)
    BY DEF Followed, PagePointers
  <2>3. TakenIn(e)
    BY <1>5 DEF PagesAccounted
  <2>4. e \notin Worklist
    BY <1>4, <2>2 DEF RestInv
  <2>5. PageOf(e) \in visited_pages \cup lost
    BY <2>2, <2>3, <2>4 DEF TakenIn
  <2>6. QED
    BY <2>1, <2>5
<1>6. Closed(file, Followed(file, query), S)
  BY <1>5 DEF Closed
<1> HIDE DEF S
<1>7. LeadTo(file, Followed(file, query)) \subseteq S
  <2>1. S \in SUBSET PageRefs(file)
    BY <1>2 DEF S
  <2>2. QED
    BY <1>3, <1>6, <2>1, LeadToLeast
<1>8. QED
  BY <1>7 DEF S, ReachablePages

LEMMA SelectionCovers ==
  ASSUME TypeInv, ControlInv, PagesAccounted, RestInv,
         pc = "drain", draining = <<>>, relevant = <<>>,
         lost \cap ReachablePages(file, query) = {}
  PROVE  ReachableChunks(file, query) \subseteq SelectedChunks(query)
<1> SUFFICES ASSUME NEW p \in ReachablePages(file, query), NEW e \in EntriesIn(file, p),
                    HasPointData(e), VoxelMatches(e.key, query)
             PROVE  e \in SelectedChunks(query)
  BY DEF ReachableChunks, Matching
<1>1. p \in visited_pages \ lost
  BY ReachedPagesVisited
<1>2. TakenIn(e)
  BY <1>1 DEF PagesAccounted
<1>3. e \in Range(hierarchy)
  BY <1>2 DEF TakenIn, Range
<1>4. QED
  BY <1>3 DEF SelectedChunks, Matching

LEMMA SelectionSound ==
  ASSUME OriginInv PROVE SelectedChunks(query) \subseteq CompleteAnswer(file, query)
  BY DEF OriginInv, SelectedChunks, CompleteAnswer, Matching

\* A call returns Ok with an answer in one place only.
LEMMA AnsweredStep ==
  ASSUME TypeInv, ControlInv, [Next]_vars, Answered'
  PROVE  \/ UNCHANGED <<file, query, answer, lost>> /\ Answered
         \/ Answer /\ ValidLod(query.lod)
<1>1. CASE UNCHANGED vars
  BY <1>1 DEF vars, Answered
<1>2. CASE Next
  BY <1>2 DEF ControlInv, Answered, Next, Step, vars, locals, Fail, Open, HierarchyFor, StartDrain,
     Partition, EndPartition, Answer, SkipVisitedPage, RefusePage, FetchPage, FetchFails,
     RequestPage, AtNewPage, AtPage, ScanEntry, EndPage, EndLoad
<1>3. QED
  BY <1>1, <1>2

-----------------------------------------------------------------------------
(***************************************************************************)
(* Pointers: what is on the worklist was read from a page, and what is     *)
(* loaded was found relevant to the query.                                 *)
(***************************************************************************)
LEMMA InitPointers == Init => PointersInv
<1> SUFFICES ASSUME Init PROVE PointersInv
  OBVIOUS
<1>1. Worklist = {}
  BY RangeEmpty DEF Init, Worklist
<1>2. QED
  BY <1>1 DEF Init, PointersInv, Answered

LEMMA StepPointers ==
  ASSUME TypeInv, ControlInv, OriginInv, PointersInv, [Next]_vars PROVE PointersInv'
<1>1. ASSUME NEW e \in Worklist', e # RootEntry(file')
      PROVE  e \in AllEntries(file') /\ ValidEntry(e) /\ IsChildPage(e)
  <2>1. file' = file
    BY FileStays
  <2>2. CASE e \in Worklist
    BY <1>1, <2>1, <2>2 DEF PointersInv
  <2>3. CASE e \in Range(page) /\ IsChildPage(e)
    <3>1. pc = "scan" /\ e \in AllEntries(file)
      BY <2>3, PageInProgress
    <3>2. QED
      BY <2>1, <2>3, <3>1 DEF OriginInv
  <2>4. QED
    BY <1>1, <2>1, <2>2, <2>3, WorklistStep
<1>2. ASSUME ~ opening', relevant' # <<>>
      PROVE  ValidLod(query'.lod) /\ \A e \in Range(relevant') : PageMayMatch(e.key, query')
  <2>1. CASE Partition
    <3>1. /\ ValidLod(query.lod) /\ query' = query /\ opening' = opening /\ draining # <<>>
          /\ IF PageMayMatch(Head(draining).key, query)
               THEN relevant' = Append(relevant, Head(draining))
               ELSE relevant' = relevant
      BY <1>2, <2>1 DEF Partition, Fail
    <3>2. Range(Append(relevant, Head(draining))) = Range(relevant) \cup {Head(draining)}
      <4>1. Head(draining) \in Entry /\ relevant \in Seq(Entry)
        BY <3>1, RangeTail DEF TypeInv, TypeOK
      <4>2. QED
        BY <4>1, RangeAppend
    <3>3. \A e \in Range(relevant) : PageMayMatch(e.key, query)
      BY <1>2, <3>1, RangeEmpty DEF PointersInv
    <3>4. QED
      BY <3>1, <3>2, <3>3
  <2>2. CASE ~ Partition
    <3>1. /\ query' = query /\ ~ opening /\ relevant # <<>>
          /\ relevant' = relevant \/ relevant' = Tail(relevant)
      BY <1>2, <2>2 DEF ControlInv, Next, Step, vars, locals, Fail, Open, HierarchyFor, StartDrain,
         EndPartition, Answer, SkipVisitedPage, RefusePage, FetchPage, FetchFails, RequestPage,
         AtNewPage, AtPage, ScanEntry, EndPage, EndLoad
    <3>2. Range(relevant') \subseteq Range(relevant)
      BY <3>1, RangeTail DEF TypeInv, TypeOK
    <3>3. QED
      BY <3>1, <3>2 DEF PointersInv
  <2>3. QED
    BY <2>1, <2>2
<1>3. Answered' => ValidLod(query'.lod)
  BY AnsweredStep DEF PointersInv, Answer
<1>4. QED
  BY <1>1, <1>2, <1>3 DEF PointersInv

-----------------------------------------------------------------------------
(***************************************************************************)
(* Totals.  While no page has two pointers and none is lost, each page     *)
(* waits once and is loaded once.  The last page to be loaded finds the    *)
(* worklist empty, and its end is where the total is compared.             *)
(***************************************************************************)
\* A call that fails at a page, or with pages to look at, loses pages.
LEMMA FailLoses ==
  ASSUME TypeInv, Fail, relevant # <<>> \/ draining # <<>> PROVE lost' # {}
<1>1. /\ relevant # <<>> => Head(relevant) \in Range(relevant)
      /\ draining # <<>> => Head(draining) \in Range(draining)
  BY RangeTail DEF TypeInv, TypeOK
<1>2. QED
  BY <1>1 DEF Fail, Pages

\* A page has one pointer, and none if it is the root page.
LEMMA OnePointer ==
  ASSUME NoSharedPages(file), NEW e \in PagePointers(file)
  PROVE  /\ PageOf(e) # RootPage(file) /\ e # RootEntry(file)
         /\ \A d \in PagePointers(file) : PageOf(d) = PageOf(e) => d = e
  BY DEF NoSharedPages, PagePointers, SlotEntries, RootPage

\* What waits is the root page, or has its pointer in the file.
LEMMA WaitingPointer ==
  ASSUME TypeInv, PointersInv, NEW e \in Worklist
  PROVE  e = RootEntry(file) \/ e \in PagePointers(file)
<1>1. IsFile(file)
  BY FileType DEF TypeInv
<1>2. CASE e # RootEntry(file)
  <2>1. PICK p \in AllPages(file) : e \in EntriesIn(file, p)
    BY <1>2 DEF PointersInv, AllEntries
  <2>2. e \in SlotEntries(file)
    BY <1>1, <2>1, PageOfFile
  <2>3. QED
    BY <1>2, <2>2 DEF PointersInv, PagePointers
<1>3. QED
  BY <1>2

\* Two of the waiting pointers lead to two pages.
LEMMA WaitingApart ==
  ASSUME TypeInv, PointersInv, NoSharedPages(file),
         NEW e \in Worklist, NEW d \in Worklist, PageOf(e) = PageOf(d)
  PROVE  e = d
  BY WaitingPointer, OnePointer DEF RootPage

\* The keys of the map stay.
LEMMA KeysStay ==
  ASSUME TypeInv, [Next]_vars PROVE DOMAIN hierarchy \subseteq DOMAIN hierarchy'
<1>1. MapOK(hierarchy)
  BY DEF MapOK, TypeInv, TypeOK
<1>2. QED
  <2> DEFINE e == Head(page)
  <2>1. hierarchy' = hierarchy \/ (e \in Entry /\ hierarchy' = Insert(hierarchy, e))
    BY HierarchyStep
  <2> HIDE DEF e
  <2>2. CASE e \in Entry /\ hierarchy' = Insert(hierarchy, e)
    <3>1. DOMAIN Insert(hierarchy, e) = DOMAIN hierarchy \cup {e.key}
      BY <1>1, <2>2, InsertMap
    <3>2. QED
      BY <2>2, <3>1
  <2>3. QED
    BY <2>1, <2>2

\* A pointer that is scanned is new to the map, and leads to a new page.
LEMMA ScannedPointer ==
  ASSUME TypeInv, ControlInv, OriginInv, PointersInv, NoSharedPages(file), Announced,
         ScanEntry, ~ EntryRefused(Head(page)), IsChildPage(Head(page))
  PROVE  /\ Head(page) \in PagePointers(file) /\ Head(page).key \notin DOMAIN hierarchy
         /\ Head(page) \notin Worklist /\ PageOf(Head(page)) \notin visited_pages
<1> DEFINE e == Head(page)
<1>1. e \in Range(page)
  BY RangeTail DEF ScanEntry, TypeInv, TypeOK
<1>2. e.key \notin DOMAIN hierarchy
  BY DEF EntryRefused, KeyConflict
<1>3. e \in PagePointers(file)
  <2>1. NextPage \in AllPages(file) /\ e \in EntriesIn(file, NextPage)
    BY <1>1, PageInProgress
  <2>2. IsFile(file)
    BY FileType DEF TypeInv
  <2>3. QED
    BY <2>1, <2>2, PageOfFile DEF PagePointers
<1> HIDE DEF e
<1>4. e \notin Worklist
  BY <1>2, <1>3, OnePointer DEF Announced
<1>5. PageOf(e) \notin visited_pages
  BY <1>2, <1>3, OnePointer DEF Announced
<1>6. QED
  BY <1>2, <1>3, <1>4, <1>5 DEF e

LEMMA InitUnshared == Init => UnsharedInv
<1> SUFFICES ASSUME Init PROVE UnsharedInv
  OBVIOUS
<1>1. Range(<<>>) = {} /\ IsInjective(<<>>)
  BY RangeEmpty DEF IsInjective
<1>2. Worklist = {}
  BY <1>1 DEF Init, Worklist
<1>3. QED
  BY <1>1, <1>2 DEF Init, UnsharedInv, WaitsOnce, Announced, Unvisited, AllCounted

LEMMA StepUnshared ==
  ASSUME TypeInv, ControlInv, OriginInv, PointersInv, UnsharedInv, [Next]_vars PROVE UnsharedInv'
<1> SUFFICES ASSUME NoSharedPages(file), lost' = {}
             PROVE  WaitsOnce' /\ Announced' /\ Unvisited' /\ AllCounted'
  BY FileStays DEF UnsharedInv
<1>0. file' = file /\ WaitsOnce /\ Announced /\ Unvisited /\ AllCounted
  BY FileStays, WorklistStep DEF UnsharedInv
<1>a. ~ (Fail /\ (relevant # <<>> \/ draining # <<>>))
  BY FailLoses
<1>b. Range(<<>>) = {} /\ IsInjective(<<>>)
  BY RangeEmpty DEF IsInjective
<1>c. DOMAIN hierarchy \subseteq DOMAIN hierarchy'
  BY KeysStay
<1>d. /\ pending_pages \in Seq(Entry) /\ draining \in Seq(Entry)
      /\ relevant \in Seq(Entry) /\ rest \in Seq(Entry)
  BY DEF TypeInv, TypeOK
<1>1. CASE Open
  <2>1. /\ pending_pages' = <<>> /\ draining' = <<>> /\ rest' = <<>> /\ visited_pages' = {}
        /\ \/ pc' = "closed" /\ relevant' = <<>>
           \/ pc' = "load" /\ relevant' = <<RootEntry(file)>>
    BY <1>1 DEF Open, Fail, ControlInv, loaded
  <2>2. Range(<<RootEntry(file)>>) = {RootEntry(file)} /\ IsInjective(<<RootEntry(file)>>)
    BY DEF Range, IsInjective
  <2>3. WaitsOnce'
    BY <1>b, <2>1, <2>2 DEF WaitsOnce
  <2>4. Worklist' \subseteq {RootEntry(file)} /\ (pc' = "load" => Worklist' # {})
    BY <1>b, <2>1, <2>2 DEF Worklist
  <2>5. Announced' /\ Unvisited' /\ AllCounted'
    BY <1>0, <2>1, <2>4 DEF Announced, Unvisited, AllCounted
  <2>6. QED
    BY <2>3, <2>5
<1>2. ASSUME Worklist' = Worklist, WaitsOnce', visited_pages' = visited_pages,
             pc # "scan", pc \notin {"open", "closed"},
             loaded_point_total' = loaded_point_total
      PROVE  WaitsOnce' /\ Announced' /\ Unvisited' /\ AllCounted'
  BY <1>0, <1>2, <1>c DEF Announced, Unvisited, AllCounted, TypeInv, TypeOK
<1>3. ASSUME NEW q \in Queries, HierarchyFor(q)
      PROVE  WaitsOnce' /\ Announced' /\ Unvisited' /\ AllCounted'
  <2>1. pc = "idle" /\ visited_pages' = visited_pages /\ loaded_point_total' = loaded_point_total
    BY <1>3 DEF HierarchyFor, loaded
  <2>2. Worklist' = Worklist /\ WaitsOnce'
    BY <1>0, <1>b, <1>3 DEF HierarchyFor, StartDrain, ControlInv, Worklist, WaitsOnce
  <2>3. QED
    BY <1>2, <2>1, <2>2
<1>4. CASE Partition
  <2> DEFINE h == Head(draining)
             t == Tail(draining)
  <2>1. /\ pc = "drain" /\ draining # <<>> /\ draining' = t
        /\ \/ relevant' = Append(relevant, h) /\ rest' = rest
           \/ rest' = Append(rest, h) /\ relevant' = relevant
        /\ UNCHANGED <<pending_pages, visited_pages, loaded_point_total>>
    BY <1>4, <1>a DEF Partition, loaded
  <2>2. /\ h \in Entry /\ Range(draining) = {h} \cup Range(t)
        /\ IsInjective(t) /\ h \notin Range(t)
    BY <1>0, <1>d, <2>1, RangeTail, InjectiveTail DEF WaitsOnce
  <2>3. h \notin Range(relevant) /\ h \notin Range(rest)
    BY <1>0, <2>2 DEF WaitsOnce
  <2> HIDE DEF h, t
  <2>4. /\ Range(Append(relevant, h)) = Range(relevant) \cup {h}
        /\ Range(Append(rest, h)) = Range(rest) \cup {h}
        /\ IsInjective(Append(relevant, h)) /\ IsInjective(Append(rest, h))
    BY <1>0, <1>d, <2>2, <2>3, RangeAppend, InjectiveAppend DEF WaitsOnce
  <2>5. pending_pages = <<>>
    BY <2>1 DEF ControlInv
  <2>6. Worklist' = Worklist
    BY <2>1, <2>2, <2>4 DEF Worklist
  <2>7. WaitsOnce'
    <3>1. /\ Range(relevant') \subseteq Range(relevant) \cup {h}
          /\ Range(rest') \subseteq Range(rest) \cup {h}
          /\ h \notin Range(relevant') \/ h \notin Range(rest')
          /\ IsInjective(relevant') /\ IsInjective(rest')
      BY <1>0, <2>1, <2>3, <2>4 DEF WaitsOnce
    <3>2. Range(pending_pages') = {} /\ IsInjective(pending_pages') /\ draining' = t
      BY <1>b, <2>1, <2>5
    <3>3. QED
      BY <1>0, <2>2, <3>1, <3>2 DEF WaitsOnce
  <2>8. QED
    BY <1>2, <2>1, <2>6, <2>7
<1>5. CASE EndPartition \/ Answer
  <2>1. /\ pc = "drain" /\ draining = <<>> /\ pending_pages = <<>>
        /\ pending_pages' = rest /\ rest' = <<>>
        /\ UNCHANGED <<draining, relevant, visited_pages, loaded_point_total>>
    BY <1>5 DEF EndPartition, Answer, ControlInv, loaded
  <2>2. Worklist' = Worklist /\ WaitsOnce'
    BY <1>0, <1>b, <2>1 DEF Worklist, WaitsOnce
  <2>3. QED
    BY <1>2, <2>1, <2>2
<1>6. CASE EndLoad
  <2>1. /\ pc = "load" /\ draining = <<>> /\ rest = <<>> /\ relevant = <<>>
        /\ UNCHANGED <<relevant, rest, visited_pages, loaded_point_total>>
        /\ \/ UNCHANGED <<pending_pages, draining>>
           \/ draining' = pending_pages /\ pending_pages' = <<>>
    BY <1>6 DEF EndLoad, StartDrain, ControlInv, loaded
  <2>2. Worklist' = Worklist /\ WaitsOnce'
    BY <1>0, <1>b, <2>1 DEF Worklist, WaitsOnce
  <2>3. QED
    BY <1>2, <2>1, <2>2
\* A page that waits is not visited before it is the page in progress.
<1>7. CASE SkipVisitedPage
  <2>1. Head(relevant) \in Worklist /\ pc = "load" /\ PageOf(Head(relevant)) \in visited_pages
    BY <1>7, <1>d, RangeTail DEF SkipVisitedPage, AtPage, NextPage, Worklist
  <2>2. QED
    BY <1>0, <2>1 DEF Unvisited
<1>8. CASE RefusePage \/ FetchFails
  BY <1>8, <1>a DEF RefusePage, FetchFails, RequestPage, AtNewPage, AtPage
<1>9. CASE FetchPage
  <2>1. /\ relevant # <<>> /\ pc' = "scan" /\ visited_pages' = visited_pages \cup {NextPage}
        /\ UNCHANGED <<pending_pages, draining, relevant, rest>>
    BY <1>9, <1>a DEF FetchPage, RequestPage, AtNewPage, AtPage
  <2>2. Head(relevant) \in Worklist
    BY <1>d, <2>1, RangeTail DEF Worklist
  <2>3. Worklist' = Worklist /\ WaitsOnce' /\ Head(relevant) = Head(relevant')
    BY <1>0, <2>1 DEF Worklist, WaitsOnce
  <2>4. pc = "load"
    BY <1>9 DEF FetchPage, RequestPage, AtNewPage, AtPage
  <2>5. Unvisited'
    <3> SUFFICES ASSUME NEW e \in Worklist, PageOf(e) \in visited_pages \cup {NextPage}
                 PROVE  e = Head(relevant)
      BY <2>1, <2>3 DEF Unvisited
    <3>1. PageOf(e) = PageOf(Head(relevant))
      BY <1>0, <2>4 DEF Unvisited, NextPage
    <3>2. QED
      BY <2>2, <3>1, WaitingApart
  <2>6. Announced'
    <3>1. ASSUME NEW p \in visited_pages' \ {RootPage(file)}
          PROVE  \E e \in PagePointers(file) : PageOf(e) = p /\ e.key \in DOMAIN hierarchy
      <4>1. CASE p \in visited_pages
        BY <1>0, <3>1, <4>1 DEF Announced
      <4>2. CASE p = PageOf(Head(relevant))
        <5>1. Head(relevant) # RootEntry(file)
          BY <3>1, <4>2 DEF RootPage
        <5>2. Head(relevant) \in PagePointers(file) /\ Head(relevant).key \in DOMAIN hierarchy
          BY <1>0, <2>2, <5>1, WaitingPointer DEF Announced
        <5>3. QED
          BY <4>2, <5>2
      <4>3. QED
        BY <2>1, <4>1, <4>2 DEF NextPage
    <3>2. QED
      BY <1>0, <1>c, <2>3, <3>1 DEF Announced
  <2>7. QED
    BY <2>1, <2>3, <2>5, <2>6 DEF AllCounted
<1>10. CASE ScanEntry
  <2> DEFINE h == Head(page)
  <2>1. relevant # <<>> /\ pc = "scan"
    BY <1>10 DEF ScanEntry, TypeInv
  <2>2. /\ ~ EntryRefused(h) /\ hierarchy' = Insert(hierarchy, h) /\ pc' = "scan"
        /\ pending_pages' = IF IsChildPage(h) THEN Append(pending_pages, h) ELSE pending_pages
        /\ UNCHANGED <<visited_pages, draining, relevant, rest>>
    BY <1>10, <1>a, <2>1 DEF ScanEntry
  <2>3. h \in Entry
    BY <1>10, RangeTail DEF ScanEntry, TypeInv, TypeOK
  <2>4. CASE ~ IsChildPage(h)
    <3>1. Worklist' = Worklist /\ WaitsOnce' /\ Head(relevant') = Head(relevant)
      BY <1>0, <2>2, <2>4 DEF Worklist, WaitsOnce
    <3>2. QED
      BY <1>0, <1>c, <2>1, <2>2, <3>1 DEF Announced, Unvisited, AllCounted
  <2>5. CASE IsChildPage(h)
    <3>1. h \notin Worklist /\ PageOf(h) \notin visited_pages
      BY <1>0, <1>10, <2>2, <2>5, ScannedPointer
    <3>2. h.key \in DOMAIN hierarchy'
      <4>1. MapOK(hierarchy)
        BY DEF MapOK, TypeInv, TypeOK
      <4> HIDE DEF h
      <4>2. QED
        BY <2>2, <2>3, <4>1, InsertMap
    <3>3. draining = <<>> /\ rest = <<>>
      BY <2>1 DEF ControlInv
    <3> HIDE DEF h
    <3>4. /\ Range(Append(pending_pages, h)) = Range(pending_pages) \cup {h}
          /\ IsInjective(Append(pending_pages, h))
      BY <1>0, <1>d, <2>3, <3>1, RangeAppend, InjectiveAppend DEF WaitsOnce, Worklist
    <3>5. Worklist' = Worklist \cup {h}
      BY <2>2, <2>5, <3>4 DEF Worklist
    <3>6. WaitsOnce'
      BY <1>0, <1>b, <2>2, <2>5, <3>1, <3>3, <3>4 DEF WaitsOnce, Worklist
    <3>7. Announced'
      BY <1>0, <1>c, <2>2, <3>2, <3>5 DEF Announced
    <3>8. Unvisited'
      BY <1>0, <2>1, <2>2, <3>1, <3>5 DEF Unvisited
    <3>9. QED
      BY <2>2, <3>6, <3>7, <3>8 DEF AllCounted
  <2>6. QED
    BY <2>4, <2>5
<1>11. CASE EndPage
  <2> DEFINE h == Head(relevant)
             t == Tail(relevant)
  <2>1. /\ relevant # <<>> /\ pc = "scan" /\ pc' = "load" /\ ~ TotalRefused /\ relevant' = t
        /\ UNCHANGED <<pending_pages, visited_pages, draining, rest, loaded_point_total>>
    BY <1>11, <1>a DEF EndPage, TypeInv, loaded
  <2>2. draining = <<>> /\ rest = <<>>
    BY <2>1 DEF ControlInv
  <2>3. h \in Entry /\ Range(relevant) = {h} \cup Range(t) /\ IsInjective(t) /\ h \notin Range(t)
    BY <1>0, <1>d, <2>1, RangeTail, InjectiveTail DEF WaitsOnce
  <2>4. Worklist' \subseteq Worklist /\ h \notin Worklist'
    BY <1>0, <1>b, <2>1, <2>2, <2>3 DEF Worklist, WaitsOnce
  <2>5. WaitsOnce'
    BY <1>0, <1>b, <2>1, <2>2, <2>3 DEF WaitsOnce
  <2>6. Announced' /\ Unvisited'
    BY <1>0, <1>c, <2>1, <2>4 DEF Announced, Unvisited
  <2>7. AllCounted'
    <3>1. ASSUME Worklist' = {} PROVE pending_pages = <<>>
      <4>1. Range(pending_pages) = {}
        BY <2>1, <3>1 DEF Worklist
      <4>2. QED
        BY <1>d, <4>1, EmptyRange
    <3>2. QED
      BY <2>1, <3>1, FileStays DEF AllCounted, TotalRefused
  <2>8. QED
    BY <2>5, <2>6, <2>7
<1>12. CASE UNCHANGED vars
  BY <1>0, <1>12 DEF vars, loaded, locals, Worklist, WaitsOnce, Announced, Unvisited, AllCounted
<1>13. QED
  BY <1>1, <1>3, <1>4, <1>5, <1>6, <1>7, <1>8, <1>9, <1>10, <1>11, <1>12 DEF Next, Step

-----------------------------------------------------------------------------
(***************************************************************************)
(* The invariant as a whole.                                               *)
(***************************************************************************)
LEMMA InitIInv == Init => IInv
<1>1. Init => ~ Answered
  BY DEF Init, Answered
<1>2. TypeInv => TypeOK
  BY DEF TypeInv
<1>3. QED
  BY <1>1, <1>2, InitType, InitControl, InitOrigin, InitPointers, InitAccounted, InitRest,
     InitRanges, InitCompleted, InitBudget, InitUnshared DEF IInv, AnswerCovers, AnswerSound

LEMMA IInvType == IInv => TypeInv
  BY RangeEmpty DEF IInv, TypeInv, OriginInv, ControlInv

LEMMA StepIInv == IInv /\ [Next]_vars => IInv'
<1> SUFFICES ASSUME IInv, [Next]_vars PROVE IInv'
  OBVIOUS
<1>1. /\ TypeInv /\ ControlInv /\ OriginInv /\ PointersInv /\ PagesAccounted
      /\ RestInv /\ RangesInv /\ CompletedInv /\ BudgetInv /\ UnsharedInv
      /\ AnswerCovers /\ AnswerSound
  BY IInvType DEF IInv
<1>2. /\ TypeInv' /\ ControlInv' /\ OriginInv' /\ PointersInv' /\ PagesAccounted'
      /\ RestInv' /\ RangesInv' /\ CompletedInv' /\ BudgetInv' /\ UnsharedInv'
  BY <1>1, StepType, StepControl, StepOrigin, StepPointers, StepAccounted, StepRest, StepRanges,
     StepCompleted, StepBudget, StepUnshared
<1>3. ASSUME Answered'
      PROVE  /\ lost' \cap ReachablePages(file', query') = {}
                  => ReachableChunks(file', query') \subseteq answer'
             /\ answer' \subseteq CompleteAnswer(file', query')
  <2>1. CASE UNCHANGED <<file, query, answer, lost>> /\ Answered
    BY <1>1, <2>1 DEF AnswerCovers, AnswerSound
  <2>2. CASE Answer /\ ValidLod(query.lod)
    <3>1. /\ pc = "drain" /\ draining = <<>> /\ relevant = <<>>
          /\ UNCHANGED <<file, query, lost>> /\ answer' = SelectedChunks(query)
      BY <2>2 DEF Answer
    <3>2. QED
      BY <1>1, <3>1, SelectionCovers, SelectionSound
  <2>3. QED
    BY <1>1, <1>3, <2>1, <2>2, AnsweredStep
<1>4. QED
  BY <1>2, <1>3 DEF IInv, AnswerCovers, AnswerSound, TypeInv

\* On any file, whatever was asked before and whatever failed before: a query
\* that returns Ok has every matching chunk of every page it reaches, unless a
\* failed call lost one of those pages (ensure_hierarchy_for).
THEOREM AnswersCover == Spec => []AnswerCovers
<1>1. IInv => AnswerCovers
  BY DEF IInv
<1>2. QED
  BY <1>1, InitIInv, StepIInv, PTL DEF Spec

\* When every page has been loaded and none was lost, the nodes of the file
\* hold exactly the points its header announces (load_page).
THEOREM AcceptedTotals == Spec => []AcceptedTotalExact
<1>1. IInv => AcceptedTotalExact
  <2> SUFFICES ASSUME IInv, pc = "idle", pending_pages = <<>>, lost = {}, NoSharedPages(file)
               PROVE  loaded_point_total = file.number_of_points
    BY DEF AcceptedTotalExact
  <2>1. Worklist = {}
    BY RangeEmpty DEF IInv, ControlInv, Worklist
  <2>2. QED
    BY <2>1 DEF IInv, UnsharedInv, AllCounted
<1>2. QED
  BY <1>1, InitIInv, StepIInv, PTL DEF Spec

-----------------------------------------------------------------------------
(***************************************************************************)
(* Queries against the file: what a query selects, and the pages it has to *)
(* look at, seen from the pointers of the file.                            *)
(***************************************************************************)
\* A legal query has a range of levels, and a box of integers.
LEMMA QueryNumbers ==
  ASSUME TypeInv, ValidLod(query.lod)
  PROVE  /\ LevelMin(query.lod) \in Nat /\ LevelMax(query.lod) \in Int
         /\ query.bounds.kind = "within" =>
              \A a \in Axis : query.bounds.box.min[a] \in Int /\ query.bounds.box.max[a] \in Int
<1>1. CASE query \in Queries
  BY <1>1, QueriesAssumption
<1>2. CASE query = QueryAll
  BY <1>2 DEF QueryAll, Query, AllLevels, AllBounds, LevelMin, LevelMax, I32_MAX
<1>3. QED
  BY <1>1, <1>2 DEF TypeInv, TypeOK

LEMMA SubtreeOfItself == ASSUME NEW k \in Key PROVE InSubtree(k, k)
<1>1. k.level - k.level = 0 /\ k.level >= k.level
  BY DEF Key
<1>2. \A a \in Axis : k.pos[a] \div 1 = k.pos[a]
  BY DEF Key
<1>3. 2 ^ 0 = 1
  BY PowerDoubles
<1>4. QED
  BY <1>1, <1>2, <1>3 DEF InSubtree

\* page_may_match all the way up from an entry whose voxel the query touches.
LEMMA MayMatchToTheRoot ==
  ASSUME TypeInv, ValidLod(query.lod), NEW e \in SlotEntries(file), e.key \in Key,
         e.key.level >= 0, e.key.level < LevelMax(query.lod),
         BoundsSelected(e.key, query.bounds), NEW k \in Key, InSubtree(e.key, k)
  PROVE  PageMayMatch(k, query)
<1>1. RootSide \in Nat /\ RootSide % 2 ^ e.key.level = 0
  BY GridAssumption DEF TypeInv, TypeOK, VoxelsPerAxis
<1>2. QED
  BY <1>1, QueryNumbers, MayMatchAbove

\* In a file whose pages hold subtrees, the pages a query reaches hold every
\* chunk of the file that it selects.
LEMMA SelectedIsReachable ==
  ASSUME TypeInv, SubtreeFile(file), ValidLod(query.lod)
  PROVE  CompleteAnswer(file, query) \subseteq ReachableChunks(file, query)
<1> SUFFICES ASSUME NEW p \in AllPages(file), NEW c \in EntriesIn(file, p),
                    HasPointData(c), VoxelMatches(c.key, query)
             PROVE  c \in ReachableChunks(file, query)
  BY DEF CompleteAnswer, AllEntries, Matching
<1>1. IsFile(file)
  BY FileType DEF TypeInv
<1>2. c \in SlotEntries(file) /\ c.key \in Key
  BY <1>1, PageOfFile DEF Entry
<1>3. c.key.level >= 0 /\ c.key.level < LevelMax(query.lod) /\ BoundsSelected(c.key, query.bounds)
  BY <1>2, QueryNumbers DEF VoxelMatches, LevelSelected, Key
<1>4. p \in ReachablePages(file, query)
  BY <1>1, <1>2, <1>3, SubtreeOfItself, MayMatchToTheRoot, PageReached
<1>5. QED
  BY <1>4 DEF ReachableChunks, Matching

\* A query that returns Ok has exactly the chunks of the file that match it,
\* when pages hold subtrees and no failed call lost a page the query reaches
\* (hierarchy_for): the laziness of the reader never shows.
THEOREM AnswersComplete == Spec => []AnswerComplete
<1>1. IInv => AnswerComplete
  <2> SUFFICES ASSUME IInv, Answered, SubtreeFile(file),
                      lost \cap ReachablePages(file, query) = {}
               PROVE  answer = CompleteAnswer(file, query)
    BY DEF AnswerComplete
  <2>1. ReachableChunks(file, query) \subseteq answer /\ answer \subseteq CompleteAnswer(file, query)
    BY DEF IInv, AnswerCovers, AnswerSound
  <2>2. CompleteAnswer(file, query) \subseteq ReachableChunks(file, query)
    BY IInvType, SelectedIsReachable DEF IInv, PointersInv
  <2>3. QED
    BY <2>1, <2>2
<1>2. QED
  BY <1>1, InitIInv, StepIInv, PTL DEF Spec

\* The page a query has fetched is one that it reaches.
LEMMA RelevantIsReachable ==
  ASSUME IInv, ~ opening, relevant # <<>>, SubtreeFile(file)
  PROVE  NextPage \in ReachablePages(file, query)
<1> DEFINE e == Head(relevant)
<1>1. IsFile(file) /\ TypeInv
  BY IInvType, FileType DEF TypeInv
<1>2. e \in Entry /\ e \in Range(relevant) /\ NextPage = PageOf(e)
  BY <1>1, RangeTail DEF TypeInv, TypeOK, NextPage
<1>3. ValidLod(query.lod) /\ PageMayMatch(e.key, query)
  BY <1>2 DEF IInv, PointersInv
<1> HIDE DEF e
<1>4. CASE e = RootEntry(file)
  BY <1>2, <1>4, LeadToRoot DEF ReachablePages, RootPage
<1>5. CASE e # RootEntry(file)
  <2>1. e \in AllEntries(file) /\ ValidEntry(e) /\ IsChildPage(e)
    BY <1>2, <1>5 DEF IInv, PointersInv, Worklist
  <2>2. PICK p \in AllPages(file) : e \in EntriesIn(file, p)
    BY <2>1 DEF AllEntries
  <2>3. e \in SlotEntries(file) /\ e.key \in Key
    BY <1>1, <2>2, PageOfFile DEF Entry
  <2>4. e.key.level >= 0 /\ e.key.level < LevelMax(query.lod) /\ BoundsSelected(e.key, query.bounds)
    BY <1>3, <2>1 DEF ValidEntry, ValidKey, PageMayMatch
  <2>5. p \in ReachablePages(file, query)
    BY <1>1, <1>3, <2>2, <2>3, <2>4, SubtreeOfItself, MayMatchToTheRoot, PageReached
  <2>6. e \in Followed(file, query) /\ Followed(file, query) \in SUBSET PagePointers(file)
    BY <1>3, <2>1, <2>3 DEF Followed, PagePointers
  <2>7. QED
    BY <1>1, <1>2, <2>2, <2>5, <2>6, LeadToClosed DEF ReachablePages
<1>6. QED
  BY <1>4, <1>5

\* Once the reader is open, no page is requested but on behalf of a query that
\* reaches it from the root page (ensure_hierarchy_for, page_may_match).
THEOREM FetchesAreReachable == Spec => FetchedWhenReachable
<1>1. ASSUME IInv, [Next]_vars
      PROVE  [requests' # requests /\ ~ opening /\ SubtreeFile(file)
                => requests'[Len(requests')] \in ReachablePages(file, query)]_vars
  <2> SUFFICES ASSUME requests' # requests, ~ opening, SubtreeFile(file)
               PROVE  requests'[Len(requests')] \in ReachablePages(file, query)
    OBVIOUS
  <2>1. requests' = Append(requests, NextPage) /\ relevant # <<>>
    BY <1>1 DEF Next, Step, vars, Open, HierarchyFor, Partition, EndPartition, Answer,
       SkipVisitedPage, RefusePage, FetchPage, FetchFails, RequestPage, AtNewPage, AtPage,
       ScanEntry, EndPage, EndLoad
  <2>2. Append(requests, NextPage)[Len(Append(requests, NextPage))] = NextPage
    <3>1. requests \in Seq(PageRange) /\ NextPage \in PageRange
      BY <1>1, <2>1, NextPageType DEF IInv, TypeOK
    <3> HIDE DEF NextPage
    <3>2. QED
      BY <3>1, AppendProperties
  <2>3. NextPage \in ReachablePages(file, query)
    BY <1>1, <2>1, RelevantIsReachable
  <2>4. QED
    BY <2>1, <2>2, <2>3
<1>2. Init => IInv
  BY InitIInv
<1>3. IInv /\ [Next]_vars => IInv'
  BY StepIInv
<1>4. QED
  BY <1>1, <1>2, <1>3, PTL DEF Spec, FetchedWhenReachable

-----------------------------------------------------------------------------
(***************************************************************************)
(* Refinement: with the steps inside a call hidden, the reader keeps the   *)
(* promise of HierarchyService.                                            *)
(***************************************************************************)
LEMMA InitService == Init => Service!SInit
  BY DEF Init, Service!SInit, Phase

LEMMA FailService ==
  ASSUME ControlInv, Fail, pc \in {"open", "drain", "load", "scan"},
         pc = "open" => opening
  PROVE  Service!SNext
<1>1. lost \subseteq lost'
  BY DEF Fail
<1>2. CASE opening
  <2>1. Service!OpenFails
    BY <1>1, <1>2 DEF Fail, Service!OpenFails, Service!LoseSome, Phase
  <2>2. QED
    BY <2>1 DEF Service!SNext
<1>3. CASE ~ opening
  <2>1. Service!ReturnErr
    BY <1>1, <1>3 DEF Fail, Service!ReturnErr, Service!LoseSome, Phase
  <2>2. QED
    BY <2>1 DEF Service!SNext
<1>4. QED
  BY <1>2, <1>3

LEMMA StepService == IInv /\ [Next]_vars => [Service!SNext]_Service!svars
<1> SUFFICES ASSUME IInv, [Next]_vars, ~ UNCHANGED Service!svars PROVE Service!SNext
  OBVIOUS
<1> USE DEF locals
<1>0. ControlInv /\ TypeOK /\ OriginInv /\ PagesAccounted /\ RestInv /\ TypeInv
  BY IInvType DEF IInv
<1>a. opening \in BOOLEAN
  BY <1>0 DEF TypeOK
<1>f. CASE Fail /\ pc \in {"open", "drain", "load", "scan"}
  BY <1>0, <1>f, FailService DEF ControlInv
<1>1. CASE Open /\ ~ Fail
  BY <1>0, <1>1 DEF Open, Service!svars, Phase, ControlInv
<1>2. ASSUME NEW q \in Queries, HierarchyFor(q) PROVE Service!SNext
  <2>1. CASE ValidQuery(q)
    <3>1. Service!Ask(q)
      BY <1>0, <1>2, <2>1 DEF HierarchyFor, StartDrain, Service!Ask, Phase, ControlInv
    <3>2. QED
      BY <3>1 DEF Service!SNext
  <2>2. CASE ~ ValidQuery(q)
    <3>1. Service!Refuse(q)
      BY <1>0, <1>2, <2>2 DEF HierarchyFor, Service!Refuse, Phase, ControlInv
    <3>2. QED
      BY <3>1 DEF Service!SNext
  <2>3. QED
    BY <2>1, <2>2
<1>3. CASE Partition /\ ~ Fail
  BY <1>3 DEF Partition, Service!svars, Phase
<1>4. CASE EndPartition
  BY <1>4 DEF EndPartition, Service!svars, Phase
<1>5. CASE Answer
  <2>1. /\ pc = "drain" /\ pc' = "idle" /\ ~ opening /\ ~ opening'
        /\ draining = <<>> /\ relevant = <<>> /\ UNCHANGED <<file, query, lost>>
    BY <1>0, <1>5 DEF Answer, ControlInv
  <2>2. Phase = "busy" /\ Phase' = "ready"
    BY <2>1 DEF Phase
  <2>3. CASE ValidLod(query.lod)
    <3>1. outcome' = "ok" /\ answer' = SelectedChunks(query)
      BY <1>5, <2>3 DEF Answer
    <3>2. Service!Sound(answer')
      BY <1>0, <3>1, SelectionSound DEF Service!Sound
    <3>3. Service!Covers(answer')
      BY <1>0, <2>1, <3>1, SelectionCovers DEF Service!Covers
    <3>4. Service!ReturnOk
      BY <2>1, <2>2, <3>1, <3>2, <3>3 DEF Service!ReturnOk
    <3>5. QED
      BY <3>4 DEF Service!SNext
  <2>4. CASE ~ ValidLod(query.lod)
    <3>1. Service!ReturnErr
      BY <1>5, <2>1, <2>2, <2>4 DEF Answer, Service!ReturnErr, Service!LoseSome
    <3>2. QED
      BY <3>1 DEF Service!SNext
  <2>5. QED
    BY <2>3, <2>4
<1>6. CASE SkipVisitedPage
  BY <1>6 DEF SkipVisitedPage, Service!svars, Phase
<1>7. CASE RefusePage
  BY <1>f, <1>7 DEF RefusePage, AtNewPage, AtPage
<1>8. CASE FetchPage /\ ~ Fail
  BY <1>8 DEF FetchPage, RequestPage, AtNewPage, AtPage, Service!svars, Phase
<1>9. CASE FetchFails
  BY <1>f, <1>9 DEF FetchFails, RequestPage, AtNewPage, AtPage
<1>10. CASE ScanEntry /\ ~ Fail
  BY <1>10 DEF ScanEntry, Service!svars, Phase
<1>11. CASE EndPage /\ ~ Fail
  BY <1>11 DEF EndPage, Service!svars, Phase
<1>12. CASE EndLoad
  <2>1. CASE opening
    <3>1. Service!Opened
      BY <1>12, <2>1 DEF EndLoad, Service!Opened, Phase
    <3>2. QED
      BY <3>1 DEF Service!SNext
  <2>2. CASE ~ opening
    BY <1>12, <2>2 DEF EndLoad, StartDrain, Service!svars, Phase
  <2>3. QED
    BY <2>1, <2>2
<1>13. CASE UNCHANGED vars
  BY <1>13 DEF vars, Service!svars, Phase
<1>14. QED
  BY <1>f, <1>1, <1>2, <1>3, <1>4, <1>5, <1>6, <1>7, <1>8, <1>9, <1>10, <1>11, <1>12, <1>13
     DEF Next, Step, Open, Partition, FetchPage, RequestPage, AtNewPage, AtPage, ScanEntry, EndPage

\* Every behaviour of the range reader is one HierarchyService allows: answers
\* that are exact about the pages in reach until a call fails, and after that
\* incomplete only about the pages that call lost.
THEOREM ReaderKeepsPromise == Spec => ImplementsService
<1>1. Spec => []IInv
  BY InitIInv, StepIInv, PTL DEF Spec
<1>2. QED
  BY <1>1, InitService, StepService, PTL DEF Spec, ImplementsService, Service!SSpec
=============================================================================

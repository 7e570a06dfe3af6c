------------------------- MODULE EagerReader_proofs -------------------------
(***************************************************************************)
(* Proofs about EagerReader, for every set of files and queries and every  *)
(* value of the limits: its types, that no page is read twice, that a file *)
(* that opens is loaded completely with the total it announces, and that a *)
(* file in order opens.                                                    *)
(***************************************************************************)
EXTENDS EagerReader, HierarchyFile_proofs

LEMMA FileType == ASSUME TypeOK PROVE IsFile(file)
  BY FilesAssumption DEF TypeOK

LEMMA InitType == Init => TypeOK /\ ControlInv
<1> SUFFICES ASSUME Init PROVE TypeOK /\ ControlInv
  OBVIOUS
<1>1. /\ <<>> \in Seq(Entry) /\ <<>> \in Seq(PageRange) /\ Range(<<>>) = {}
      /\ DOMAIN EmptyMap = {} /\ Range(EmptyMap) = {}
  BY RangeEmpty DEF EmptyMap, Range
<1>2. 0 \in 0..MaxFaults
  BY FaultsAssumption
<1>3. QED
  BY <1>1, <1>2 DEF Init, TypeOK, ControlInv, Loaded

\* The page at the top of the stack.
LEMMA TopOfStack ==
  ASSUME TypeOK, pending # <<>>
  PROVE  /\ Last(pending) \in PageRange
         /\ Front(pending) \in Seq(PageRange)
         /\ Range(pending) = Range(Front(pending)) \cup {Last(pending)}
         /\ PageEntries(file, Last(pending)) \in Seq(Entry)
         /\ Range(PageEntries(file, Last(pending))) = EntriesIn(file, Last(pending))
         /\ Append(requests, Last(pending)) \in Seq(PageRange)
         /\ Append(requests, Last(pending)) # <<>>
         /\ Last(Append(requests, Last(pending))) = Last(pending)
<1>1. pending \in Seq(PageRange) /\ requests \in Seq(PageRange)
  BY DEF TypeOK
<1>2. /\ Last(pending) \in PageRange
      /\ Front(pending) \in Seq(PageRange)
      /\ Range(pending) = Range(Front(pending)) \cup {Last(pending)}
  BY <1>1, RangeFront
<1>3. /\ PageEntries(file, Last(pending)) \in Seq(Entry)
      /\ Range(PageEntries(file, Last(pending))) = EntriesIn(file, Last(pending))
  BY <1>2, FileType, PageEntriesType
<1>4. Append(requests, Last(pending)) \in Seq(PageRange)
  BY <1>1, <1>2, RangeAppend
<1>5. /\ Append(requests, Last(pending)) # <<>>
      /\ Last(Append(requests, Last(pending))) = Last(pending)
  BY <1>1, <1>2, LastAppend
<1>6. QED
  BY <1>2, <1>3, <1>4, <1>5

\* The entry a loop is at.
LEMMA HeadOfRest ==
  ASSUME TypeOK, rest # <<>>
  PROVE  /\ Head(rest) \in Entry /\ Tail(rest) \in Seq(Entry)
         /\ Head(rest) \in Range(rest)
         /\ Range(rest) = {Head(rest)} \cup Range(Tail(rest))
  BY RangeTail DEF TypeOK

\* What inserting the entry at hand does to the map.
LEMMA InsertHead ==
  ASSUME TypeOK, NEW e \in Entry
  PROVE  /\ MapOK(Insert(hierarchy, e))
         /\ DOMAIN Insert(hierarchy, e) = DOMAIN hierarchy \cup {e.key}
         /\ Insert(hierarchy, e)[e.key] = e
         /\ \A k \in DOMAIN hierarchy : k # e.key => Insert(hierarchy, e)[k] = hierarchy[k]
         /\ Range(Insert(hierarchy, e)) \subseteq Range(hierarchy) \cup {e}
<1>1. MapOK(hierarchy)
  BY DEF TypeOK, MapOK
<1>2. Range(Insert(hierarchy, e)) \subseteq Range(hierarchy) \cup {e}
  BY DEF Range, Insert
<1>3. QED
  BY <1>1, <1>2, InsertMap

\* Pushing a page adds it to the stack.
LEMMA PushPage ==
  ASSUME TypeOK, NEW e \in Entry
  PROVE  /\ PageOf(e) \in PageRange
         /\ Append(pending, PageOf(e)) \in Seq(PageRange)
         /\ Range(Append(pending, PageOf(e))) = Range(pending) \cup {PageOf(e)}
<1>1. PageOf(e) \in PageRange
  BY PageOfType
<1>2. pending \in Seq(PageRange)
  BY DEF TypeOK
<1>3. QED
  BY <1>1, <1>2, RangeAppend

-----------------------------------------------------------------------------
LEMMA StepType ==
  ASSUME TypeOK, ControlInv, [Next]_vars PROVE TypeOK'
<1> USE DEF TypeOK, loading
<1>1. CASE Open
  <2>1. RootPage(file) \in PageRange /\ <<RootPage(file)>> \in Seq(PageRange)
    BY FileType, RootEntryType, PageOfType DEF RootPage
  <2>2. QED
    BY <1>1, <2>1 DEF Open, Fail
<1>2. CASE RefusePage
  BY <1>2 DEF RefusePage, Fail
<1>3. CASE ReadPage
  <2>1. total_bytes + Last(pending)[2] \in Nat
    <3> DEFINE p == Last(pending)
    <3>1. p \in PageRange
      BY <1>3, TopOfStack DEF ReadPage
    <3>2. p[2] > 0
      BY <1>3 DEF ReadPage, PageFits
    <3> HIDE DEF p
    <3>3. total_bytes + p[2] \in Nat
      BY <3>1, <3>2 DEF PageRange
    <3>4. QED
      BY <3>3 DEF p
  <2>2. QED
    BY <1>3, <2>1, TopOfStack DEF ReadPage, Fail
<1>4. CASE ReadFails
  <2>1. faults' \in 0..MaxFaults
    BY <1>4, FaultsAssumption DEF ReadFails
  <2>2. QED
    BY <1>4, <2>1, TopOfStack DEF ReadFails, Fail
<1>5. CASE ScanEntry
  <2> DEFINE e == Head(rest)
  <2>1. e \in Entry /\ Tail(rest) \in Seq(Entry)
    BY <1>5, HeadOfRest DEF ScanEntry
  <2>2. MapOK(Insert(hierarchy, e)) /\ DOMAIN hierarchy \subseteq DOMAIN Insert(hierarchy, e)
    BY <2>1, InsertHead
  <2>3. QED
    BY <1>5, <2>1, <2>2 DEF ScanEntry, Fail, MapOK
<1>6. CASE EndScan
  BY <1>6 DEF EndScan
<1>7. CASE QueueEntry
  <2>1. Head(rest) \in Entry /\ Tail(rest) \in Seq(Entry)
    BY <1>7, HeadOfRest DEF QueueEntry
  <2>2. PageOf(Head(rest)) \in PageRange /\ Append(pending, PageOf(Head(rest))) \in Seq(PageRange)
    BY <2>1, PushPage
  <2>3. QED
    BY <1>7, <2>1, <2>2 DEF QueueEntry
<1>8. CASE EndQueue
  <2>1. <<>> \in Seq(Entry)
    BY RangeEmpty
  <2>2. QED
    BY <1>8, <2>1 DEF EndQueue
<1>9. CASE EndRead
  BY <1>9 DEF EndRead, ChunkKeys
<1>10. CASE CheckRange
  <2> PICK k \in unchecked :
        IF Overlaps(ranges, hierarchy[k])
          THEN Fail
          ELSE /\ ranges' = AddRange(ranges, hierarchy[k])
               /\ unchecked' = unchecked \ {k}
               /\ UNCHANGED <<file, pc, hierarchy, visited_pages, pending, total_bytes, page,
                              rest, query, outcome, answer>>
    BY <1>10 DEF CheckRange
  <2>1. CASE Fail
    BY <1>10, <2>1 DEF CheckRange, Fail
  <2>2. CASE ~ Overlaps(ranges, hierarchy[k])
    <3> DEFINE e == hierarchy[k]
               r == AddRange(ranges, e)
    <3>1. e \in Entry /\ e.offset \in Nat /\ e.byte_size \in Int /\ ValidEntry(e)
      BY DEF Entry, ControlInv, Range
    <3>2. e.offset + e.byte_size \in Nat
      BY <3>1 DEF ValidEntry
    <3> HIDE DEF e
    <3>3. /\ DOMAIN r = DOMAIN ranges \cup {e.offset}
          /\ r[e.offset] = e.offset + e.byte_size
          /\ \A s \in DOMAIN ranges : s # e.offset => r[s] = ranges[s]
      BY AddRangeMap DEF AddRange
    <3>4. ranges' = r
      BY <2>2 DEF e
    <3> HIDE DEF r
    <3>5. DOMAIN ranges' \subseteq Nat /\ \A s \in DOMAIN ranges' : ranges'[s] \in Nat
      BY <3>1, <3>2, <3>3, <3>4
    <3>6. QED
      BY <1>10, <2>2, <3>5 DEF CheckRange
  <2>3. QED
    BY <2>1, <2>2
<1>11. CASE EndRanges
  BY <1>11 DEF EndRanges
<1>12. CASE CheckTotal
  BY <1>12 DEF CheckTotal, Fail
<1>13. CASE Select
  <2>1. Matching(Range(hierarchy), query) \subseteq Entry
    BY DEF Matching, Range
  <2>2. QED
    BY <1>13, <2>1 DEF Select
<1>14. ASSUME NEW q \in Queries, Ask(q) PROVE TypeOK'
  BY <1>14 DEF Ask
<1>15. CASE UNCHANGED vars
  BY <1>15 DEF vars
<1>16. QED
  BY <1>1, <1>2, <1>3, <1>4, <1>5, <1>6, <1>7, <1>8, <1>9, <1>10, <1>11, <1>12, <1>13, <1>14, <1>15
     DEF Next

LEMMA StepControl ==
  ASSUME TypeOK, ControlInv, [Next]_vars PROVE ControlInv'
<1> USE DEF ControlInv, Loaded, loading
<1>0. Range(<<>>) = {}
  BY RangeEmpty
<1>1. CASE Open
  BY <1>1 DEF Open, Fail
<1>2. CASE RefusePage
  BY <1>2 DEF RefusePage, Fail
<1>3. CASE ReadPage
  <2>1. CASE Fail
    BY <1>3, <2>1 DEF ReadPage, Fail
  <2>2. CASE ~ Fail
    <3>1. /\ pc = "read" /\ pending # <<>> /\ pc' = "scan"
          /\ page' = PageEntries(file, Last(pending)) /\ rest' = page'
          /\ requests' = Append(requests, Last(pending))
          /\ \A e \in EntriesIn(file, Last(pending)) : ValidEntry(e)
          /\ UNCHANGED <<file, hierarchy, visited_pages>>
      BY <1>3, <2>2 DEF ReadPage
    <3>2. requests' # <<>> /\ Last(requests') = Last(pending) /\ Last(pending) \in Range(pending)
      BY <3>1, TopOfStack
    <3>3. Range(page') = EntriesIn(file, Last(pending))
      BY <3>1, TopOfStack
    <3>4. QED
      BY <3>1, <3>2, <3>3
  <2>3. QED
    BY <2>1, <2>2
<1>4. CASE ReadFails
  BY <1>4 DEF ReadFails, Fail
<1>5. CASE ScanEntry
  <2>1. CASE Fail
    BY <1>5, <2>1 DEF ScanEntry, Fail
  <2>2. CASE ~ Fail
    <3> DEFINE e == Head(rest)
    <3>1. /\ hierarchy' = Insert(hierarchy, e) /\ rest' = Tail(rest)
          /\ UNCHANGED <<file, pc, visited_pages, pending, page, requests>>
      BY <1>5, <2>2 DEF ScanEntry
    <3>2. e \in Entry /\ e \in Range(rest) /\ Range(rest) = {e} \cup Range(Tail(rest))
      BY <1>5, HeadOfRest DEF ScanEntry
    <3> HIDE DEF e
    <3>3. Range(Insert(hierarchy, e)) \subseteq Range(hierarchy) \cup {e}
      BY <3>2, InsertHead
    <3>4. QED
      BY <3>1, <3>2, <3>3
  <2>3. QED
    BY <2>1, <2>2
<1>6. CASE EndScan
  BY <1>6 DEF EndScan
<1>7. CASE QueueEntry
  <2>1. Range(rest) = {Head(rest)} \cup Range(Tail(rest))
    BY <1>7, HeadOfRest DEF QueueEntry
  <2>2. QED
    BY <1>7, <2>1 DEF QueueEntry
<1>8. CASE EndQueue
  BY <1>0, <1>8 DEF EndQueue
<1>9. CASE EndRead
  BY <1>9 DEF EndRead
<1>10. CASE CheckRange
  BY <1>10 DEF CheckRange, Fail
<1>11. CASE EndRanges
  BY <1>11 DEF EndRanges
<1>12. CASE CheckTotal
  BY <1>12 DEF CheckTotal, Fail
<1>13. CASE Select
  BY <1>13 DEF Select
<1>14. ASSUME NEW q \in Queries, Ask(q) PROVE ControlInv'
  BY <1>14 DEF Ask
<1>15. CASE UNCHANGED vars
  BY <1>15 DEF vars
<1>16. QED
  BY <1>1, <1>2, <1>3, <1>4, <1>5, <1>6, <1>7, <1>8, <1>9, <1>10, <1>11, <1>12, <1>13, <1>14, <1>15
     DEF Next

\* Every variable of the seek-based reader has its type.
THEOREM TypeCorrect == Spec => []TypeOK
<1>1. TypeOK /\ ControlInv /\ [Next]_vars => (TypeOK /\ ControlInv)'
  BY StepType, StepControl
<1>2. QED
  BY <1>1, InitType, PTL DEF Spec

-----------------------------------------------------------------------------
\* The page in progress is a page of the file, and so are those it points to.
LEMMA PageInProgress ==
  ASSUME TypeOK, ControlInv, OriginInv, pc \in {"scan", "queue"}
  PROVE  /\ Last(requests) \in AllPages(file)
         /\ Range(page) = EntriesIn(file, Last(requests))
         /\ Range(page) \subseteq AllEntries(file)
         /\ \A e \in Range(page) : IsChildPage(e) => PageOf(e) \in AllPages(file)
<1>1. Last(requests) \in AllPages(file)
  BY DEF OriginInv
<1>2. Last(requests) \in PageRange
  BY <1>1, FileType, PageOfFile
<1>3. Range(page) = EntriesIn(file, Last(requests))
  BY <1>2, FileType, PageEntriesType DEF ControlInv
<1>4. QED
  BY <1>1, <1>3, FileType, PageOfFile

LEMMA InitOrigin == Init => OriginInv
<1>1. Range(<<>>) = {} /\ Range(EmptyMap) = {}
  BY RangeEmpty DEF EmptyMap, Range
<1>2. QED
  BY <1>1 DEF Init, OriginInv

LEMMA StepOrigin ==
  ASSUME TypeOK, ControlInv, OriginInv, [Next]_vars PROVE OriginInv'
<1> USE DEF loading, OriginInv
<1>1. CASE Open
  <2>1. RootPage(file) \in AllPages(file) /\ Range(<<RootPage(file)>>) = {RootPage(file)}
    BY LeadToRoot DEF AllPages, Range
  <2>2. QED
    BY <1>1, <2>1 DEF Open, Fail
<1>2. CASE RefusePage
  BY <1>2 DEF RefusePage, Fail
<1>3. CASE ReadPage
  <2>1. CASE Fail
    BY <1>3, <2>1 DEF ReadPage, Fail
  <2>2. CASE ~ Fail
    <3>1. /\ pending # <<>> /\ pending' = Front(pending)
          /\ requests' = Append(requests, Last(pending))
          /\ UNCHANGED <<file, hierarchy, visited_pages>>
      BY <1>3, <2>2 DEF ReadPage
    <3>2. /\ Last(requests') = Last(pending)
          /\ Range(pending) = Range(Front(pending)) \cup {Last(pending)}
      BY <3>1, TopOfStack
    <3>3. QED
      BY <3>1, <3>2
  <2>3. QED
    BY <2>1, <2>2
<1>4. CASE ReadFails
  BY <1>4 DEF ReadFails, Fail
<1>5. CASE ScanEntry
  <2>1. CASE Fail
    BY <1>5, <2>1 DEF ScanEntry, Fail
  <2>2. CASE ~ Fail
    <3> DEFINE e == Head(rest)
    <3>1. /\ pc = "scan" /\ rest # <<>> /\ hierarchy' = Insert(hierarchy, e)
          /\ UNCHANGED <<file, pc, visited_pages, pending, requests>>
      BY <1>5, <2>2 DEF ScanEntry
    <3>2. e \in Entry /\ e \in Range(page)
      BY <3>1, HeadOfRest DEF ControlInv
    <3>3. e \in AllEntries(file)
      BY <3>1, <3>2, PageInProgress
    <3> HIDE DEF e
    <3>4. Range(Insert(hierarchy, e)) \subseteq Range(hierarchy) \cup {e}
      BY <3>2, InsertHead
    <3>5. QED
      BY <3>1, <3>3, <3>4
  <2>3. QED
    BY <2>1, <2>2
<1>6. CASE EndScan
  BY <1>6 DEF EndScan
<1>7. CASE QueueEntry
  <2> DEFINE e == Head(rest)
  <2>1. pc = "queue" /\ rest # <<>>
    BY <1>7 DEF QueueEntry
  <2>2. e \in Entry /\ e \in Range(page)
    BY <2>1, HeadOfRest DEF ControlInv
  <2>3. IsChildPage(e) => PageOf(e) \in AllPages(file)
    BY <2>1, <2>2, PageInProgress
  <2>4. Range(Append(pending, PageOf(e))) = Range(pending) \cup {PageOf(e)}
    BY <2>2, PushPage
  <2>5. /\ \/ /\ IsChildPage(e)
              /\ visited_pages' = visited_pages \cup {PageOf(e)}
              /\ pending' = Append(pending, PageOf(e))
           \/ UNCHANGED <<visited_pages, pending>>
        /\ UNCHANGED <<file, pc, hierarchy, requests>>
    BY <1>7 DEF QueueEntry
  <2> HIDE DEF e
  <2>6. QED
    BY <2>3, <2>4, <2>5
<1>8. CASE EndQueue \/ EndRead \/ EndRanges \/ Select
  BY <1>8 DEF EndQueue, EndRead, EndRanges, Select
<1>9. CASE CheckRange \/ CheckTotal
  BY <1>9 DEF CheckRange, CheckTotal, Fail
<1>10. ASSUME NEW q \in Queries, Ask(q) PROVE OriginInv'
  BY <1>10 DEF Ask
<1>11. CASE UNCHANGED vars
  BY <1>11 DEF vars
<1>12. QED
  BY <1>1, <1>2, <1>3, <1>4, <1>5, <1>6, <1>7, <1>8, <1>9, <1>10, <1>11 DEF Next

-----------------------------------------------------------------------------
(***************************************************************************)
(* Accounting.                                                             *)
(***************************************************************************)
LEMMA InitAccounted == Init => PagesAccounted
  BY DEF Init, PagesAccounted

LEMMA StepAccounted ==
  ASSUME TypeOK, ControlInv, OriginInv, PagesAccounted, [Next]_vars PROVE PagesAccounted'
<1> USE DEF loading, InProgress
<1> SUFFICES ASSUME pc' # "closed",
                    NEW p \in visited_pages' \ Range(pending'), NEW e \in EntriesIn(file', p)
             PROVE  /\ HasPointData(e) =>
                         \/ e.key \in DOMAIN hierarchy' /\ hierarchy'[e.key] = e
                         \/ pc' = "scan" /\ InProgress(p)' /\ e \in Range(rest')
                    /\ IsChildPage(e) =>
                         \/ PageOf(e) \in visited_pages'
                         \/ InProgress(p)' /\ (pc' = "scan" \/ e \in Range(rest'))
  BY DEF PagesAccounted
<1>0. ~ Fail
  BY DEF Fail
<1>1. CASE Open
  <2>1. Range(<<RootPage(file)>>) = {RootPage(file)}
    BY DEF Range
  <2>2. QED
    BY <1>0, <1>1, <2>1 DEF Open
<1>2. CASE ReadPage
  <2>1. /\ pc = "read" /\ pending # <<>> /\ pc' = "scan"
        /\ pending' = Front(pending) /\ rest' = PageEntries(file, Last(pending))
        /\ requests' = Append(requests, Last(pending))
        /\ UNCHANGED <<file, hierarchy, visited_pages>>
    BY <1>0, <1>2 DEF ReadPage
  <2>2. /\ Last(requests') = Last(pending)
        /\ Range(pending) = Range(Front(pending)) \cup {Last(pending)}
        /\ Range(rest') = EntriesIn(file, Last(pending))
    BY <2>1, TopOfStack
  <2>3. CASE p = Last(pending)
    BY <2>1, <2>2, <2>3
  <2>4. CASE p # Last(pending)
    BY <2>1, <2>2, <2>4 DEF PagesAccounted
  <2>5. QED
    BY <2>3, <2>4
<1>3. CASE ScanEntry
  <2> DEFINE d == Head(rest)
  <2>1. /\ pc = "scan" /\ rest # <<>> /\ ~ KeyConflict(hierarchy, d)
        /\ hierarchy' = Insert(hierarchy, d) /\ rest' = Tail(rest)
        /\ UNCHANGED <<file, pc, visited_pages, pending, requests>>
    BY <1>0, <1>3 DEF ScanEntry
  <2>2. d \in Entry /\ Range(rest) = {d} \cup Range(Tail(rest))
    BY <2>1, HeadOfRest
  <2> HIDE DEF d
  <2>3. /\ DOMAIN Insert(hierarchy, d) = DOMAIN hierarchy \cup {d.key}
        /\ Insert(hierarchy, d)[d.key] = d
        /\ \A k \in DOMAIN hierarchy : k # d.key => Insert(hierarchy, d)[k] = hierarchy[k]
    BY <2>2, InsertHead
  <2>4. ASSUME HasPointData(e), e.key \in DOMAIN hierarchy, hierarchy[e.key] = e
        PROVE  e.key \in DOMAIN hierarchy' /\ hierarchy'[e.key] = e
    <3>1. e.key # d.key
      BY <2>1, <2>4 DEF KeyConflict, HasPointData, IsChildPage
    <3>2. QED
      BY <2>1, <2>3, <2>4, <3>1
  <2>5. QED
    BY <2>1, <2>2, <2>3, <2>4 DEF PagesAccounted
<1>4. CASE EndScan
  <2>1. pc = "scan" /\ Range(rest) = {} /\ pc' = "queue" /\ rest' = page
        /\ UNCHANGED <<file, hierarchy, visited_pages, pending, requests>>
    BY <1>4, RangeEmpty DEF EndScan
  <2>2. Range(page) = EntriesIn(file, Last(requests))
    BY <2>1, PageInProgress
  <2>3. QED
    BY <2>1, <2>2 DEF PagesAccounted
<1>5. CASE QueueEntry
  <2> DEFINE d == Head(rest)
  <2>1. /\ pc = "queue" /\ rest # <<>> /\ rest' = Tail(rest)
        /\ UNCHANGED <<file, pc, hierarchy, requests>>
        /\ IF IsChildPage(d) /\ PageOf(d) \notin visited_pages
             THEN /\ visited_pages' = visited_pages \cup {PageOf(d)}
                  /\ pending' = Append(pending, PageOf(d))
             ELSE UNCHANGED <<visited_pages, pending>>
    BY <1>5 DEF QueueEntry
  <2>2. d \in Entry /\ Range(rest) = {d} \cup Range(Tail(rest))
    BY <2>1, HeadOfRest
  <2> HIDE DEF d
  <2>3. Range(Append(pending, PageOf(d))) = Range(pending) \cup {PageOf(d)}
    BY <2>2, PushPage
  <2>4. p \in visited_pages \ Range(pending) /\ visited_pages \subseteq visited_pages'
    BY <2>1, <2>3
  <2>5. QED
    BY <2>1, <2>2, <2>4 DEF PagesAccounted
<1>6. CASE EndQueue
  <2>1. pc = "queue" /\ Range(rest) = {}
        /\ UNCHANGED <<file, hierarchy, visited_pages, pending, requests>>
    BY <1>6, RangeEmpty DEF EndQueue
  <2>2. QED
    BY <2>1 DEF PagesAccounted
<1>7. CASE EndRead \/ EndRanges \/ Select \/ CheckRange \/ CheckTotal \/ \E q \in Queries : Ask(q)
  <2>1. /\ pc \notin {"scan", "queue", "closed"}
        /\ UNCHANGED <<file, hierarchy, visited_pages, pending>>
    BY <1>7 DEF EndRead, EndRanges, Select, CheckRange, CheckTotal, Fail, Ask
  <2>2. QED
    BY <2>1 DEF PagesAccounted
<1>8. CASE UNCHANGED vars
  BY <1>8 DEF vars, PagesAccounted
<1>9. QED
  BY <1>0, <1>1, <1>2, <1>3, <1>4, <1>5, <1>6, <1>7, <1>8 DEF Next, RefusePage, ReadFails

-----------------------------------------------------------------------------
(***************************************************************************)
(* Requests.                                                               *)
(***************************************************************************)
LEMMA InitRequests == Init => RequestsInv
<1>1. Range(<<>>) = {} /\ IsInjective(<<>>)
  BY RangeEmpty DEF IsInjective
<1>2. QED
  BY <1>1 DEF Init, RequestsInv

LEMMA StepRequests ==
  ASSUME TypeOK, ControlInv, OriginInv, RequestsInv, [Next]_vars PROVE RequestsInv'
<1> USE DEF loading, RequestsInv
<1>0. requests \in Seq(PageRange) /\ pending \in Seq(PageRange)
  BY DEF TypeOK
<1>1. CASE Open
  <2>1. Range(<<>>) = {} /\ IsInjective(<<RootPage(file)>>)
    BY RangeEmpty DEF IsInjective
  <2>2. CASE Fail
    BY <1>1, <2>2 DEF Open, Fail
  <2>3. CASE ~ Fail
    <3>1. pc = "open" /\ requests' = requests
          /\ pending' = <<RootPage(file)>> /\ visited_pages' = {RootPage(file)}
      BY <1>1, <2>3 DEF Open
    <3>2. requests = <<>>
      BY <3>1 DEF ControlInv
    <3>3. QED
      BY <2>1, <3>1, <3>2
  <2>4. QED
    BY <2>2, <2>3
<1>2. CASE ReadPage \/ ReadFails
  <2> DEFINE p == Last(pending)
  <2>1. /\ pc = "read" /\ pending # <<>> /\ requests' = Append(requests, p)
        /\ visited_pages' = visited_pages
        /\ pc' = "closed" \/ pending' = Front(pending)
    BY <1>2 DEF ReadPage, ReadFails, Fail
  <2>2. /\ p \in PageRange /\ p \in Range(pending)
        /\ Range(pending) = Range(Front(pending)) \cup {p}
        /\ IsInjective(Front(pending)) /\ p \notin Range(Front(pending))
    BY <1>0, <2>1, RangeFront
  <2> HIDE DEF p
  <2>3. /\ Range(Append(requests, p)) = Range(requests) \cup {p}
        /\ IsInjective(Append(requests, p))
    BY <1>0, <2>1, <2>2, RangeAppend, InjectiveAppend
  <2>4. QED
    BY <2>1, <2>2, <2>3 DEF OriginInv
<1>3. CASE QueueEntry
  <2> DEFINE d == Head(rest)
  <2>1. /\ pc = "queue" /\ rest # <<>> /\ UNCHANGED <<pc, requests>>
        /\ \/ /\ PageOf(d) \notin visited_pages
              /\ visited_pages' = visited_pages \cup {PageOf(d)}
              /\ pending' = Append(pending, PageOf(d))
           \/ UNCHANGED <<visited_pages, pending>>
    BY <1>3 DEF QueueEntry
  <2>2. d \in Entry
    BY <2>1, HeadOfRest
  <2> HIDE DEF d
  <2>3. PageOf(d) \in PageRange /\ Range(Append(pending, PageOf(d))) = Range(pending) \cup {PageOf(d)}
    BY <2>2, PushPage
  <2>4. PageOf(d) \notin visited_pages => IsInjective(Append(pending, PageOf(d)))
    BY <1>0, <2>1, <2>3, InjectiveAppend DEF OriginInv
  <2>5. QED
    BY <2>1, <2>3, <2>4
<1>4. CASE UNCHANGED <<visited_pages, pending, requests>> /\ (pc' # "closed" => pc # "closed")
  BY <1>4
<1>5. QED
  BY <1>1, <1>2, <1>3, <1>4 DEF Next, vars, RefusePage, ScanEntry, EndScan, EndQueue, EndRead,
     CheckRange, EndRanges, CheckTotal, Select, Ask, Fail

\* No page is read twice, however many pointers lead to it
\* (queue_hierarchy_page pushes a page the first time it is seen).
THEOREM PageReadOnce == Spec => []PagesReadOnce
<1> DEFINE Inv == TypeOK /\ ControlInv /\ OriginInv /\ RequestsInv
<1>1. Init => Inv
  BY InitType, InitOrigin, InitRequests
<1>2. Inv /\ [Next]_vars => Inv'
  BY StepType, StepControl, StepOrigin, StepRequests
<1>3. Inv => PagesReadOnce
  BY DEF RequestsInv, PagesReadOnce
<1>4. QED
  BY <1>1, <1>2, <1>3, PTL DEF Spec

-----------------------------------------------------------------------------
(***************************************************************************)
(* Answers.  When the stack is empty the visited pages are closed under    *)
(* the pointers in them, so they are all the pages of the file.            *)
(***************************************************************************)
LEMMA EverythingLoaded ==
  ASSUME TypeOK, ControlInv, OriginInv, PagesAccounted, pc \in Loaded
  PROVE  \A e \in AllEntries(file) :
           HasPointData(e) => e.key \in DOMAIN hierarchy /\ hierarchy[e.key] = e
<1>1. IsFile(file)
  BY FileType
<1>2. Range(pending) = {} /\ pc \notin {"closed", "scan", "queue", "open"}
  BY RangeEmpty DEF ControlInv, Loaded
<1>3. visited_pages \in SUBSET PageRefs(file)
  BY <1>1, PageOfFile DEF OriginInv
<1>4. RootPage(file) \in visited_pages
  BY <1>2 DEF ControlInv
<1>5. Closed(file, PagePointers(file), visited_pages)
  BY <1>2 DEF PagesAccounted, InProgress, Closed, PagePointers
<1>6. AllPages(file) \subseteq visited_pages
  BY <1>3, <1>4, <1>5, LeadToLeast DEF AllPages
<1>7. QED
  BY <1>2, <1>6 DEF PagesAccounted, InProgress, AllEntries

LEMMA SelectionExact ==
  ASSUME TypeOK, ControlInv, OriginInv, PagesAccounted, pc \in Loaded
  PROVE  Matching(Range(hierarchy), query) = CompleteAnswer(file, query)
<1>1. Range(hierarchy) \subseteq AllEntries(file)
  BY DEF OriginInv
<1>2. \A e \in AllEntries(file) : HasPointData(e) => e \in Range(hierarchy)
  BY EverythingLoaded DEF Range
<1>3. QED
  BY <1>1, <1>2 DEF Matching, CompleteAnswer

EInv ==
  TypeOK /\ ControlInv /\ OriginInv /\ PagesAccounted /\ AnswerExact

LEMMA InitEInv == Init => EInv
  BY InitType, InitOrigin, InitAccounted DEF EInv, Init, AnswerExact

LEMMA StepEInv == EInv /\ [Next]_vars => EInv'
<1> SUFFICES ASSUME EInv, [Next]_vars PROVE EInv'
  OBVIOUS
<1>1. TypeOK' /\ ControlInv' /\ OriginInv' /\ PagesAccounted'
  BY StepType, StepControl, StepOrigin, StepAccounted DEF EInv
<1>2. ASSUME outcome' = "ok" PROVE answer' = CompleteAnswer(file', query')
  <2>1. CASE Select
    BY <1>2, <2>1, SelectionExact DEF EInv, Select, Loaded
  <2>2. CASE ~ Select
    <3>1. UNCHANGED <<file, query, answer>> /\ outcome = "ok"
      BY <1>2, <2>2 DEF Next, vars, loading, Fail, Open, RefusePage, ReadPage, ReadFails, ScanEntry,
         EndScan, QueueEntry, EndQueue, EndRead, CheckRange, EndRanges, CheckTotal, Ask
    <3>2. QED
      BY <3>1 DEF EInv, AnswerExact
  <2>3. QED
    BY <2>1, <2>2
<1>3. QED
  BY <1>1, <1>2 DEF EInv, AnswerExact

\* Whatever the file: if it opens, every query is answered with exactly the
\* matching chunks of all its pages (insert_hierarchy_pages leaves none out).
THEOREM AnswersExact == Spec => []AnswerExact
<1>1. EInv => AnswerExact
  BY DEF EInv
<1>2. QED
  BY <1>1, InitEInv, StepEInv, PTL DEF Spec

-----------------------------------------------------------------------------
(***************************************************************************)
(* Chunk ranges.                                                           *)
(***************************************************************************)
LEMMA InitRanges == Init => RangesInv
  BY DEF Init, RangesInv, EmptyMap, Loaded

LEMMA StepRanges ==
  ASSUME TypeOK, ControlInv, RangesInv, [Next]_vars PROVE RangesInv'
<1> USE DEF loading
<1>1. CASE UNCHANGED <<ranges, hierarchy, unchecked>> /\ (pc' \in Loaded => pc \in Loaded /\ (pc' # "ranges" => pc # "ranges"))
  BY <1>1 DEF RangesInv, ChunkKeys
<1>2. CASE (Open \/ RefusePage \/ ReadPage \/ ReadFails \/ ScanEntry \/ EndScan
            \/ QueueEntry \/ EndQueue)
  <2>1. pc' \notin Loaded /\ ranges' = ranges
    BY <1>2 DEF Open, RefusePage, ReadPage, ReadFails, ScanEntry, EndScan, QueueEntry, EndQueue,
       Fail, Loaded
  <2>2. QED
    BY <2>1 DEF RangesInv
<1>3. CASE EndRead
  BY <1>3 DEF EndRead, RangesInv, ChunkKeys
<1>4. CASE CheckRange
  <2> PICK k \in unchecked :
        IF Overlaps(ranges, hierarchy[k])
          THEN Fail
          ELSE /\ ranges' = AddRange(ranges, hierarchy[k])
               /\ unchecked' = unchecked \ {k}
               /\ UNCHANGED <<file, pc, hierarchy, visited_pages, pending, total_bytes, page,
                              rest, query, outcome, answer>>
    BY <1>4 DEF CheckRange
  <2>1. CASE Fail
    BY <2>1 DEF Fail, RangesInv, Loaded
  <2>2. CASE ~ Overlaps(ranges, hierarchy[k])
    <3> DEFINE e == hierarchy[k]
               r == AddRange(ranges, e)
    <3>1. pc \in Loaded /\ pc = "ranges"
      BY <1>4 DEF CheckRange, Loaded
    <3>2. /\ k \in ChunkKeys
          /\ ranges' = r /\ unchecked' = unchecked \ {k} /\ UNCHANGED <<pc, hierarchy>>
      BY <2>2, <3>1 DEF RangesInv
    <3>3. e \in Entry /\ ValidEntry(e) /\ HasPointData(e)
      BY <3>2 DEF TypeOK, ControlInv, Range, ChunkKeys
    <3>4. e.offset \in Nat /\ e.byte_size \in Nat \ {0}
      <4> HIDE DEF e
      <4>1. QED
        BY <3>3, ChunkNumbers
    <3>5. /\ DOMAIN r = DOMAIN ranges \cup {e.offset}
          /\ r[e.offset] = e.offset + e.byte_size
          /\ \A s \in DOMAIN ranges : s # e.offset => r[s] = ranges[s]
      BY AddRangeMap
    <3>6. e.offset \notin DOMAIN ranges /\ Apart(r)
      <4>1. Apart(ranges) /\ DOMAIN ranges \subseteq Nat /\ \A s \in DOMAIN ranges : ranges[s] \in Nat
        BY DEF RangesInv, Apart, TypeOK
      <4>2. ~ Overlaps(ranges, e)
        BY <2>2
      <4> HIDE DEF e
      <4>3. QED
        BY <3>4, <4>1, <4>2, NeighboursSuffice
    <3>7. ChunkKeys' = ChunkKeys
      BY <3>2 DEF ChunkKeys
    <3> HIDE DEF r
    <3>8. ASSUME NEW l \in ChunkKeys \ unchecked'
          PROVE  /\ hierarchy[l].offset \in DOMAIN r
                 /\ r[hierarchy[l].offset] = hierarchy[l].offset + hierarchy[l].byte_size
                 /\ l # k => hierarchy[l].offset \in DOMAIN ranges
      BY <3>1, <3>2, <3>5, <3>6, <3>8 DEF RangesInv
    <3>9. ASSUME NEW l \in ChunkKeys \ unchecked', NEW m \in ChunkKeys \ unchecked',
                 hierarchy[l].offset = hierarchy[m].offset
          PROVE  l = m
      <4>1. CASE l # k /\ m # k
        <5>1. l \in ChunkKeys \ unchecked /\ m \in ChunkKeys \ unchecked
          BY <3>2, <4>1
        <5>2. QED
          BY <3>1, <3>9, <5>1 DEF RangesInv
      <4>2. CASE l = k \/ m = k
        BY <3>6, <3>8, <3>9, <4>2
      <4>3. QED
        BY <4>1, <4>2
    <3>10. QED
      BY <3>1, <3>2, <3>6, <3>7, <3>8, <3>9 DEF RangesInv, Apart
  <2>3. QED
    BY <2>1, <2>2
<1>5. CASE EndRanges
  BY <1>5 DEF EndRanges, RangesInv, ChunkKeys, Loaded
<1>6. QED
  BY <1>1, <1>2, <1>3, <1>4, <1>5 DEF Next, vars, CheckTotal, Select, Ask, Fail, Loaded

\* The chunks of a file that opened never share a byte, although each was
\* compared with its two neighbours only (validate_point_chunk_ranges).
THEOREM ChunksNeverOverlap == Spec => []ChunksDisjoint
<1> DEFINE Inv == EInv /\ RangesInv
<1>1. Init => Inv
  BY InitEInv, InitRanges
<1>2. Inv /\ [Next]_vars => Inv'
  BY StepEInv, StepRanges DEF EInv
<1>3. Inv => ChunksDisjoint
  <2> SUFFICES ASSUME Inv, Opened,
                      NEW d \in AllEntries(file), HasPointData(d),
                      NEW e \in AllEntries(file), HasPointData(e), d # e
               PROVE  \/ d.offset + d.byte_size <= e.offset
                      \/ e.offset + e.byte_size <= d.offset
    BY DEF ChunksDisjoint
  <2>1. pc \in Loaded /\ pc # "ranges"
    BY DEF Opened, Loaded
  <2>2. /\ d.key \in ChunkKeys /\ hierarchy[d.key] = d
        /\ e.key \in ChunkKeys /\ hierarchy[e.key] = e
    BY <2>1, EverythingLoaded DEF EInv, ChunkKeys
  <2>3. unchecked = {}
    BY <2>1 DEF RangesInv
  <2>4. /\ d.offset \in DOMAIN ranges /\ ranges[d.offset] = d.offset + d.byte_size
        /\ e.offset \in DOMAIN ranges /\ ranges[e.offset] = e.offset + e.byte_size
        /\ d.offset # e.offset
    BY <2>1, <2>2, <2>3 DEF RangesInv
  <2>5. d.offset \in Nat /\ e.offset \in Nat
    BY <2>4 DEF EInv, TypeOK
  <2>6. d.offset < e.offset \/ e.offset < d.offset
    BY <2>4, <2>5
  <2>7. QED
    BY <2>4, <2>6 DEF RangesInv
<1>4. QED
  BY <1>1, <1>2, <1>3, PTL DEF Spec

-----------------------------------------------------------------------------
(***************************************************************************)
(* Totals.  The map holds the chunks of the file under their keys, so the  *)
(* sum over its keys is the sum over the chunks.                           *)
(***************************************************************************)
Chunks(f) == {x \in AllEntries(f) : HasPointData(x)}

LEMMA ChunksLoaded ==
  ASSUME TypeOK, ControlInv, OriginInv, PagesAccounted, pc \in Loaded
  PROVE  /\ {hierarchy[k] : k \in ChunkKeys} = Chunks(file)
         /\ \A k \in ChunkKeys : hierarchy[k].key = k
         /\ IsFiniteSet(ChunkKeys) /\ IsFiniteSet(Chunks(file))
<1>1. \A k \in ChunkKeys : hierarchy[k] \in Chunks(file) /\ hierarchy[k].key = k
  BY DEF ChunkKeys, Chunks, OriginInv, Range, TypeOK
<1>2. \A e \in Chunks(file) : e.key \in ChunkKeys /\ hierarchy[e.key] = e
  BY EverythingLoaded DEF Chunks, ChunkKeys
<1>3. {hierarchy[k] : k \in ChunkKeys} = Chunks(file)
  BY <1>1, <1>2
<1>4. IsFiniteSet(Chunks(file))
  <2>1. Chunks(file) \in SUBSET AllEntries(file)
    BY DEF Chunks
  <2>2. QED
    BY <2>1, FileType, FileFinite, FS_Subset
<1>5. IsFiniteSet(ChunkKeys)
  <2> DEFINE h == [e \in Chunks(file) |-> e.key]
             K == {h[e] : e \in Chunks(file)}
  <2>1. IsFiniteSet(K)
    <3> HIDE DEF h
    <3>1. QED
      BY <1>4, ImageFinite
  <2>2. ChunkKeys = K
    BY <1>1, <1>2
  <2> HIDE DEF K
  <2>3. QED
    BY <2>1, <2>2
<1>6. QED
  BY <1>1, <1>3, <1>4, <1>5

LEMMA TotalsAgree ==
  ASSUME TypeOK, ControlInv, OriginInv, PagesAccounted, pc \in Loaded
  PROVE  SumFunction([k \in ChunkKeys |-> hierarchy[k].point_count])
           = SumFunction([e \in Chunks(file) |-> e.point_count])
<1> DEFINE S == ChunkKeys
           C == Chunks(file)
           h == hierarchy
           w == [k \in ChunkKeys |-> hierarchy[k].point_count]
           v == [e \in Chunks(file) |-> e.point_count]
<1>1. /\ IsFiniteSet(S) /\ C = {h[x] : x \in S}
      /\ \A x, y \in S : h[x] = h[y] => x = y
      /\ \A x \in S : w[x] \in Int /\ v[h[x]] = w[x]
      /\ DOMAIN w = S /\ DOMAIN v = C
  <2>1. \A x \in S : h[x] \in C /\ h[x].key = x
    BY ChunksLoaded
  <2>2. \A x \in S : h[x].point_count \in Int
    BY DEF TypeOK, ChunkKeys, Entry
  <2>3. QED
    BY <2>1, <2>2, ChunksLoaded
<1> HIDE DEF S, C, h, w, v
<1>2. SumFunctionOnSet(w, S) = SumFunctionOnSet(v, {h[x] : x \in S})
  BY <1>1, SumRenamed
<1>3. SumFunctionOnSet(w, DOMAIN w) = SumFunctionOnSet(v, DOMAIN v)
  BY <1>1, <1>2
<1>4. QED
  BY <1>3 DEF w, v, SumFunction

\* A file that opens holds the points its header announces, each node
\* counted once however its page was reached (validate_hierarchy_point_count
\* adds up the map of the keys).
THEOREM OpenedTotals == Spec => []TotalExact
<1> DEFINE Inv == EInv /\ (Opened => TotalMatches)
<1>1. Init => Inv
  BY InitEInv DEF Init, Opened
<1>2. Inv /\ [Next]_vars => Inv'
  <2> SUFFICES ASSUME Inv, [Next]_vars, Opened' PROVE TotalMatches'
    BY StepEInv
  <2>1. TotalMatches /\ UNCHANGED <<hierarchy, file>>
    BY DEF Next, vars, loading, Opened, Fail, Open, RefusePage, ReadPage, ReadFails, ScanEntry,
       EndScan, QueueEntry, EndQueue, EndRead, CheckRange, EndRanges, CheckTotal, Ask, Select
  <2>2. QED
    BY <2>1 DEF TotalMatches, ChunkKeys
<1>3. Inv => TotalExact
  <2> SUFFICES ASSUME Inv, Opened
               PROVE  SumFunction([e \in Chunks(file) |-> e.point_count]) = file.number_of_points
    BY DEF TotalExact, Chunks
  <2>1. pc \in Loaded
    BY DEF Opened, Loaded
  <2>2. QED
    BY <2>1, TotalsAgree DEF EInv, TotalMatches
<1>4. QED
  BY <1>1, <1>2, <1>3, PTL DEF Spec

-----------------------------------------------------------------------------
(***************************************************************************)
(* Well-formed files open.  Each way to fail is ruled out by one of the    *)
(* facts WellFormedInv keeps while the pages come in.                      *)
(***************************************************************************)
Base == EInv /\ RangesInv /\ RequestsInv

LEMMA InitBase == Init => Base
  BY InitEInv, InitRanges, InitRequests DEF Base

LEMMA StepBase == Base /\ [Next]_vars => Base'
  BY StepEInv, StepRanges, StepRequests DEF Base, EInv

LEMMA InitWellFormed == Init => WellFormedInv
<1> SUFFICES ASSUME Init PROVE NothingWrong
  BY DEF WellFormedInv
<1>1. DOMAIN EmptyMap = {} /\ Range(EmptyMap) = {}
  BY DEF EmptyMap, Range
<1>2. QED
  BY <1>1, BytesOfNone DEF Init, NothingWrong, Loaded

\* The file is what it was, and a read that failed stays counted.
LEMMA StepFaults ==
  ASSUME TypeOK, [Next]_vars
  PROVE  file' = file /\ (faults' = 0 => faults = 0 /\ ~ ReadFails)
<1>1. faults \in Nat
  BY FaultsAssumption DEF TypeOK
<1>2. CASE ReadFails
  BY <1>1, <1>2 DEF ReadFails, Fail
<1>3. CASE ~ ReadFails
  BY <1>1, <1>3 DEF Next, vars, loading, Fail, Open, RefusePage, ReadPage, ScanEntry,
     EndScan, QueueEntry, EndQueue, EndRead, CheckRange, EndRanges, CheckTotal, Ask, Select
<1>4. QED
  BY <1>2, <1>3

\* A page on the stack is a page of the file, and was not read before.
LEMMA WaitingPage ==
  ASSUME Base, pc = "read", pending # <<>>
  PROVE  /\ Last(pending) \in AllPages(file) /\ Last(pending) \in PageRange
         /\ Last(pending) \notin Range(requests)
         /\ Range(requests) \subseteq AllPages(file)
<1>1. TypeOK /\ OriginInv /\ RequestsInv
  BY DEF Base, EInv
<1>2. Last(pending) \in Range(pending) /\ Last(pending) \in PageRange
  BY <1>1, TopOfStack
<1>3. QED
  BY <1>1, <1>2 DEF OriginInv, RequestsInv

LEMMA PageAccepted ==
  ASSUME Base, WellFormed(file), NothingWrong, pc = "read", pending # <<>>
  PROVE  /\ PageFits(Last(pending))
         /\ \A e \in EntriesIn(file, Last(pending)) : ValidEntry(e)
<1> DEFINE p == Last(pending)
           bytes(s) == SumFunction([i \in DOMAIN s |-> s[i][2]])
           r == Append(requests, p)
<1>1. TypeOK /\ RequestsInv /\ IsFile(file)
  BY FileType DEF Base, EInv
<1>2. p \in AllPages(file) /\ p \in PageRange /\ p \notin Range(requests)
      /\ Range(requests) \subseteq AllPages(file)
  BY WaitingPage
<1>3. requests \in Seq(PageRange) /\ IsInjective(requests)
  BY <1>1 DEF TypeOK, RequestsInv
<1> HIDE DEF p
<1>4. /\ p[2] \in Nat /\ p[2] > 0 /\ p[2] % EntryBytes = 0
      /\ p[2] <= MaxPageBytes /\ p[1] + p[2] <= file.len
  BY <1>1, <1>2, PageInOrder
<1>5. r \in Seq(PageRange) /\ IsInjective(r) /\ Range(r) = Range(requests) \cup {p}
  BY <1>2, <1>3, RangeAppend, InjectiveAppend
<1>6. bytes(r) = bytes(requests) + p[2]
  BY <1>2, <1>3, BytesOfAppend
<1>7. bytes(r) <= MaxTotalBytes
  <2> HIDE DEF r
  <2>1. Range(r) \subseteq AllPages(file)
    BY <1>2, <1>5
  <2>2. QED
    BY <1>1, <1>5, <2>1, BudgetSuffices
<1>8. total_bytes = bytes(requests)
  BY DEF NothingWrong
<1>9. total_bytes + p[2] <= MaxTotalBytes
  <2> HIDE DEF bytes, r
  <2>1. QED
    BY <1>6, <1>7, <1>8
<1>10. PageFits(p)
  BY <1>4, <1>9 DEF PageFits
<1>11. \A e \in EntriesIn(file, p) : ValidEntry(e)
  BY <1>2 DEF WellFormed, AllEntries
<1>12. QED
  BY <1>10, <1>11 DEF p

LEMMA EntryAccepted ==
  ASSUME Base, WellFormed(file), NothingWrong, pc = "scan", rest # <<>>
  PROVE  EntryInSection(file, Head(rest)) /\ ~ KeyConflict(hierarchy, Head(rest))
<1> DEFINE e == Head(rest)
           p == Last(requests)
<1>1. TypeOK /\ ControlInv /\ OriginInv /\ RequestsInv /\ IsFile(file)
  BY FileType DEF Base, EInv
<1>2. /\ p \in AllPages(file)
      /\ Range(page) = EntriesIn(file, p) /\ Range(page) \subseteq AllEntries(file)
  BY <1>1, PageInProgress
<1>3. e \in Entry /\ e \in Range(rest) /\ Range(rest) \subseteq Range(page)
  BY <1>1, HeadOfRest DEF ControlInv
<1> HIDE DEF e, p
<1>4. EntryInSection(file, e)
  BY <1>2, <1>3 DEF WellFormed
<1>5. ~ KeyConflict(hierarchy, e)
  <2> SUFFICES ASSUME e.key \in DOMAIN hierarchy,
                      ~ (IsChildPage(hierarchy[e.key]) /\ ~ IsChildPage(e))
               PROVE  FALSE
    BY DEF KeyConflict
  <2> DEFINE d == hierarchy[e.key]
  <2>1. d \in Range(hierarchy) /\ d.key = e.key
    BY <1>1 DEF TypeOK, Range
  <2> HIDE DEF d
  <2>2. PICK q \in Range(requests) : d \in EntriesIn(file, q)
    BY <2>1 DEF NothingWrong
  <2>3. q \in visited_pages /\ q \in AllPages(file)
    BY <1>1 DEF RequestsInv, OriginInv
  <2>4. e # d
    BY <1>3, <2>1 DEF NothingWrong
  <2>5. \/ IsChildPage(d) /\ ~ IsChildPage(e)
        \/ IsChildPage(e) /\ PageOf(e) = q /\ q # RootPage(file)
    BY <1>1, <1>2, <1>3, <2>1, <2>2, <2>3, <2>4, PointerAndNode
  <2>6. IsChildPage(e) /\ PageOf(e) = q /\ q # RootPage(file)
    BY <2>5 DEF d
  <2>7. PICK r \in Range(requests) :
          /\ pc = "scan" => r # Last(requests)
          /\ \E x \in EntriesIn(file, r) : IsChildPage(x) /\ PageOf(x) = q
    BY <2>3, <2>6 DEF NothingWrong
  <2>8. PICK x \in EntriesIn(file, r) : IsChildPage(x) /\ PageOf(x) = q
    BY <2>7
  <2>9. r \in AllPages(file) /\ r # p
    BY <1>1, <2>7 DEF RequestsInv, OriginInv, p
  <2>10. r = p
    BY <1>1, <1>2, <1>3, <2>6, <2>8, <2>9, OnePointerTo
  <2>11. QED
    BY <2>9, <2>10
<1>6. QED
  BY <1>4, <1>5 DEF e

LEMMA RangeAccepted ==
  ASSUME Base, WellFormed(file), NothingWrong, pc = "ranges", NEW k \in unchecked
  PROVE  ~ Overlaps(ranges, hierarchy[k])
<1> DEFINE e == hierarchy[k]
<1>1. TypeOK /\ ControlInv /\ OriginInv /\ RangesInv
  BY DEF Base, EInv
<1>2. k \in ChunkKeys
  BY <1>1 DEF RangesInv, Loaded
<1>3. \A l \in ChunkKeys :
        /\ hierarchy[l] \in Chunks(file) /\ hierarchy[l] \in Entry /\ ValidEntry(hierarchy[l])
        /\ HasPointData(hierarchy[l]) /\ hierarchy[l].key = l
  BY <1>1 DEF TypeOK, ControlInv, OriginInv, ChunkKeys, Chunks, Range
<1>4. e \in Chunks(file) /\ e.offset \in Nat /\ e.byte_size \in Nat \ {0} /\ e.key = k
  BY <1>2, <1>3, ChunkNumbers
<1>5. ASSUME NEW s \in DOMAIN ranges
      PROVE  /\ s \in Nat /\ ranges[s] \in Nat
             /\ s + e.byte_size \in Nat
             /\ ranges[s] <= e.offset \/ e.offset + e.byte_size <= s
             /\ s < ranges[s]
  <2>1. PICK l \in ChunkKeys \ unchecked :
          s = hierarchy[l].offset /\ ranges[s] = s + hierarchy[l].byte_size
    BY DEF NothingWrong
  <2> DEFINE d == hierarchy[l]
  <2>2. d \in Chunks(file) /\ d.offset \in Nat /\ d.byte_size \in Nat \ {0} /\ d.key = l /\ l # k
    BY <1>3, <2>1, ChunkNumbers
  <2>3. s = d.offset /\ ranges[s] = d.offset + d.byte_size
    BY <2>1
  <2> HIDE DEF d, e
  <2>4. d # e
    BY <1>4, <2>2
  <2>5. d.offset + d.byte_size <= e.offset \/ e.offset + e.byte_size <= d.offset
    BY <1>4, <2>2, <2>4 DEF WellFormed, Chunks
  <2>6. QED
    BY <1>4, <2>2, <2>3, <2>5
<1> HIDE DEF e
<1>6. ~ OverlapsPrevious(ranges, e)
  BY <1>4, <1>5 DEF OverlapsPrevious
<1>7. ~ OverlapsNext(ranges, e)
  BY <1>4, <1>5 DEF OverlapsNext
<1>8. QED
  BY <1>6, <1>7 DEF Overlaps, e

LEMMA TotalAccepted ==
  ASSUME Base, WellFormed(file), pc = "total" PROVE TotalMatches
<1>1. pc \in Loaded
  BY DEF Loaded
<1>2. SumFunction([e \in Chunks(file) |-> e.point_count]) = file.number_of_points
  BY DEF WellFormed, Chunks
<1>3. QED
  BY <1>1, <1>2, TotalsAgree DEF TotalMatches, Base, EInv

\* So no step fails.
LEMMA NothingFails ==
  ASSUME Base, WellFormed(file), NothingWrong, [Next]_vars, ~ ReadFails PROVE ~ Fail
<1>1. SUFFICES ASSUME Fail PROVE FALSE
  OBVIOUS
<1>2. pc # "closed" /\ pc' = "closed"
  BY <1>1 DEF Fail, NothingWrong
<1>3. CASE Open
  <2>1. ValidSections(file)
    BY DEF WellFormed
  <2>2. QED
    BY <1>2, <1>3, <2>1 DEF Open
<1>4. CASE RefusePage
  BY <1>4, PageAccepted DEF RefusePage
<1>5. CASE ReadPage
  <2>1. \A e \in EntriesIn(file, Last(pending)) : ValidEntry(e)
    BY <1>5, PageAccepted DEF ReadPage
  <2>2. QED
    BY <1>2, <1>5, <2>1 DEF ReadPage
<1>6. CASE ScanEntry
  <2>1. EntryInSection(file, Head(rest)) /\ ~ KeyConflict(hierarchy, Head(rest))
    BY <1>6, EntryAccepted DEF ScanEntry
  <2>2. QED
    BY <1>2, <1>6, <2>1 DEF ScanEntry
<1>7. CASE CheckRange
  <2>1. PICK k \in unchecked :
          IF Overlaps(ranges, hierarchy[k]) THEN Fail ELSE UNCHANGED pc
    BY <1>7 DEF CheckRange
  <2>2. ~ Overlaps(ranges, hierarchy[k])
    BY <1>7, RangeAccepted DEF CheckRange
  <2>3. QED
    BY <1>2, <2>1, <2>2
<1>8. CASE CheckTotal
  <2>1. TotalMatches
    BY <1>8, TotalAccepted DEF CheckTotal
  <2>2. QED
    BY <1>2, <1>8, <2>1 DEF CheckTotal
<1>9. QED
  BY <1>2, <1>3, <1>4, <1>5, <1>6, <1>7, <1>8 DEF Next, vars, EndScan, QueueEntry, EndQueue, EndRead,
     EndRanges, Select, Ask

\* The page read last.
LEMMA LastRequest ==
  ASSUME TypeOK, requests # <<>> PROVE Last(requests) \in Range(requests)
<1>1. requests \in Seq(PageRange)
  BY DEF TypeOK
<1>2. Range(requests) = Range(Front(requests)) \cup {Last(requests)}
  BY <1>1, RangeFront
<1>3. QED
  BY <1>2

LEMMA StepNothingWrong ==
  ASSUME Base, WellFormed(file), NothingWrong, [Next]_vars, ~ ReadFails, ~ Fail, file' = file
  PROVE  NothingWrong'
<1> USE DEF loading, Loaded
<1>0. /\ TypeOK /\ ControlInv /\ OriginInv /\ RequestsInv /\ IsFile(file)
      /\ KeysInOrder(file) /\ DisjointPages(file)
  BY FileType DEF Base, EInv, WellFormed
<1>1. CASE Open
  <2>1. /\ pc = "open" /\ pc' = "read" /\ visited_pages' = {RootPage(file)}
        /\ UNCHANGED <<file, hierarchy, total_bytes, rest, unchecked, ranges, requests>>
    BY <1>1 DEF Open
  <2>2. QED
    BY <2>1 DEF NothingWrong, ChunkKeys
<1>2. CASE ReadPage
  <2> DEFINE p == Last(pending)
             bytes(s) == SumFunction([i \in DOMAIN s |-> s[i][2]])
  <2>1. /\ pc = "read" /\ pending # <<>> /\ pc' = "scan"
        /\ total_bytes' = total_bytes + p[2]
        /\ rest' = PageEntries(file, p) /\ requests' = Append(requests, p)
        /\ UNCHANGED <<file, hierarchy, visited_pages, unchecked, ranges>>
    BY <1>2 DEF ReadPage
  <2>2. p \in AllPages(file) /\ p \in PageRange /\ p \notin Range(requests)
        /\ Range(requests) \subseteq AllPages(file)
    BY <2>1, WaitingPage
  <2>3. requests \in Seq(PageRange)
    BY <1>0 DEF TypeOK
  <2> HIDE DEF p
  <2>4. /\ Range(requests') = Range(requests) \cup {p}
        /\ Last(requests') = p
    BY <2>1, <2>2, <2>3, RangeAppend, LastAppend
  <2>5. total_bytes' = bytes(requests')
    <3>1. bytes(Append(requests, p)) = bytes(requests) + p[2]
      BY <2>2, <2>3, BytesOfAppend
    <3>2. total_bytes = bytes(requests)
      BY DEF NothingWrong
    <3> HIDE DEF bytes
    <3>3. QED
      BY <2>1, <3>1, <3>2
  <2>6. IsInjective(rest') /\ Range(rest') = EntriesIn(file, p)
    BY <1>0, <2>1, <2>2, PageInjective, PageEntriesType
  <2>7. ASSUME NEW d \in EntriesIn(file, p), d \in Range(hierarchy) PROVE FALSE
    <3>1. PICK q \in Range(requests) : d \in EntriesIn(file, q)
      BY <2>7 DEF NothingWrong
    <3>2. q = p
      BY <1>0, <2>2, <2>7, <3>1, PagesApart
    <3>3. QED
      BY <2>2, <3>1, <3>2
  <2>8. \A d \in Range(hierarchy') : \E q \in Range(requests') : d \in EntriesIn(file', q)
    BY <2>1, <2>4 DEF NothingWrong
  <2>9. ASSUME NEW q \in visited_pages' \ {RootPage(file')}
        PROVE  \E r \in Range(requests') :
                 /\ r # Last(requests')
                 /\ \E e \in EntriesIn(file', r) : IsChildPage(e) /\ PageOf(e) = q
    <3>1. PICK r \in Range(requests) : \E e \in EntriesIn(file, r) : IsChildPage(e) /\ PageOf(e) = q
      BY <2>1, <2>9 DEF NothingWrong
    <3>2. r \in Range(requests') /\ r # Last(requests')
      BY <2>2, <2>4
    <3>3. QED
      BY <2>1, <3>1, <3>2
  <2>10. DOMAIN ranges = {}
    BY <2>1 DEF NothingWrong
  <2> HIDE DEF bytes
  <2>11. QED
    BY <2>1, <2>5, <2>6, <2>7, <2>8, <2>9, <2>10 DEF NothingWrong, bytes
<1>3. CASE ScanEntry
  <2> DEFINE e == Head(rest)
  <2>1. /\ pc = "scan" /\ rest # <<>> /\ hierarchy' = Insert(hierarchy, e) /\ rest' = Tail(rest)
        /\ UNCHANGED <<file, pc, visited_pages, total_bytes, page, unchecked, ranges, requests>>
    BY <1>3 DEF ScanEntry
  <2>2. /\ e \in Entry /\ e \in Range(page)
        /\ Range(rest) = {e} \cup Range(Tail(rest))
    BY <1>0, <2>1, HeadOfRest DEF ControlInv
  <2>3. IsInjective(Tail(rest)) /\ e \notin Range(Tail(rest))
    <3>1. rest \in Seq(Entry) /\ IsInjective(rest)
      BY <1>0, <2>1 DEF TypeOK, NothingWrong
    <3>2. QED
      BY <2>1, <3>1, InjectiveTail
  <2>4. e \in EntriesIn(file, Last(requests)) /\ Last(requests) \in Range(requests)
    <3>1. Range(page) = EntriesIn(file, Last(requests))
      BY <1>0, <2>1, PageInProgress
    <3>2. requests # <<>>
      BY <1>0, <2>1 DEF ControlInv
    <3>3. Last(requests) \in Range(requests)
      BY <1>0, <3>2, LastRequest
    <3>4. QED
      BY <2>2, <3>1, <3>3
  <2> HIDE DEF e
  <2>5. Range(Insert(hierarchy, e)) \subseteq Range(hierarchy) \cup {e}
    BY <1>0, <2>2, InsertHead
  <2>6. \A d \in Range(hierarchy') : \E p \in Range(requests') : d \in EntriesIn(file', p)
    BY <2>1, <2>4, <2>5 DEF NothingWrong
  <2>7. IsInjective(rest') /\ Range(rest') \cap Range(hierarchy') = {}
    BY <2>1, <2>2, <2>3, <2>5 DEF NothingWrong
  <2>8. DOMAIN ranges = {}
    BY <2>1 DEF NothingWrong
  <2>9. QED
    BY <2>1, <2>6, <2>7, <2>8 DEF NothingWrong
<1>4. CASE EndScan \/ EndQueue
  BY <1>4 DEF EndScan, EndQueue, NothingWrong, ChunkKeys
<1>5. CASE QueueEntry
  <2> DEFINE e == Head(rest)
             p == Last(requests)
  <2>1. /\ pc = "queue" /\ rest # <<>>
        /\ \/ IsChildPage(e) /\ visited_pages' = visited_pages \cup {PageOf(e)}
           \/ UNCHANGED visited_pages
        /\ UNCHANGED <<file, pc, hierarchy, total_bytes, unchecked, ranges, requests>>
    BY <1>5 DEF QueueEntry
  <2>2. e \in Range(page)
    BY <1>0, <2>1, HeadOfRest DEF ControlInv
  <2>3. Range(page) = EntriesIn(file, p)
    BY <1>0, <2>1, PageInProgress
  <2>4. p \in Range(requests)
    <3>1. requests # <<>>
      BY <1>0, <2>1 DEF ControlInv
    <3>2. QED
      BY <1>0, <3>1, LastRequest DEF p
  <2> HIDE DEF e, p
  <2>5. ASSUME NEW q \in visited_pages' \ {RootPage(file')}
        PROVE  \E r \in Range(requests') :
                 \E x \in EntriesIn(file', r) : IsChildPage(x) /\ PageOf(x) = q
    <3>1. CASE q \in visited_pages
      BY <2>1, <2>5, <3>1 DEF NothingWrong
    <3>2. CASE q \notin visited_pages
      <4>1. IsChildPage(e) /\ q = PageOf(e)
        BY <2>1, <2>5, <3>2
      <4>2. e \in EntriesIn(file', p) /\ p \in Range(requests')
        BY <2>1, <2>2, <2>3, <2>4
      <4>3. QED
        BY <4>1, <4>2
    <3>3. QED
      BY <3>1, <3>2
  <2>6. QED
    BY <2>1, <2>5 DEF NothingWrong, ChunkKeys
<1>6. CASE EndRead
  BY <1>6 DEF EndRead, NothingWrong
<1>7. CASE CheckRange
  <2>1. PICK k \in unchecked :
          /\ ranges' = AddRange(ranges, hierarchy[k])
          /\ unchecked' = unchecked \ {k}
          /\ UNCHANGED <<file, pc, hierarchy, visited_pages, pending, total_bytes, page,
                         rest, query, outcome, answer>>
    BY <1>7 DEF CheckRange
  <2>2. pc = "ranges" /\ requests' = requests /\ k \in ChunkKeys
    BY <1>7 DEF CheckRange, Base, RangesInv
  <2>3. /\ DOMAIN ranges' = DOMAIN ranges \cup {hierarchy[k].offset}
        /\ ranges'[hierarchy[k].offset] = hierarchy[k].offset + hierarchy[k].byte_size
        /\ \A s \in DOMAIN ranges : s # hierarchy[k].offset => ranges'[s] = ranges[s]
    BY <2>1, AddRangeMap
  <2>4. ASSUME NEW s \in DOMAIN ranges'
        PROVE  \E l \in ChunkKeys' \ unchecked' :
                 s = hierarchy'[l].offset /\ ranges'[s] = s + hierarchy'[l].byte_size
    <3>1. ChunkKeys' = ChunkKeys
      BY <2>1 DEF ChunkKeys
    <3>2. CASE s = hierarchy[k].offset
      BY <2>1, <2>2, <2>3, <3>1, <3>2
    <3>3. CASE s # hierarchy[k].offset
      <4>1. PICK l \in ChunkKeys \ unchecked :
              s = hierarchy[l].offset /\ ranges[s] = s + hierarchy[l].byte_size
        BY <2>3, <2>4, <3>3 DEF NothingWrong
      <4>2. QED
        BY <2>1, <2>3, <2>4, <3>1, <3>3, <4>1
    <3>4. QED
      BY <3>2, <3>3
  <2>5. QED
    BY <2>1, <2>2, <2>4 DEF NothingWrong
<1>8. CASE EndRanges \/ CheckTotal \/ Select \/ (\E q \in Queries : Ask(q))
  BY <1>8 DEF EndRanges, CheckTotal, Select, Ask, NothingWrong, ChunkKeys
<1>9. CASE UNCHANGED vars
  BY <1>9 DEF vars, NothingWrong, ChunkKeys
<1>10. QED
  BY <1>1, <1>2, <1>3, <1>4, <1>5, <1>6, <1>7, <1>8, <1>9 DEF Next, RefusePage

LEMMA StepWellFormed ==
  ASSUME Base, WellFormedInv, [Next]_vars PROVE WellFormedInv'
<1> SUFFICES ASSUME WellFormed(file'), faults' = 0 PROVE NothingWrong'
  BY DEF WellFormedInv
<1>1. file' = file /\ faults = 0 /\ ~ ReadFails
  BY StepFaults DEF Base, EInv
<1>2. WellFormed(file) /\ NothingWrong
  BY <1>1 DEF WellFormedInv
<1>3. ~ Fail
  BY <1>1, <1>2, NothingFails
<1>4. QED
  BY <1>1, <1>2, <1>3, StepNothingWrong

\* A well-formed file opens, whatever the order of its pages and entries:
\* none of the checks of from_reader, insert_hierarchy_pages and
\* queue_hierarchy_page refuses it.
THEOREM WellFormedOpens == Spec => []OpensWellFormed
<1>1. Init => Base /\ WellFormedInv
  BY InitBase, InitWellFormed
<1>2. Base /\ WellFormedInv /\ [Next]_vars => (Base /\ WellFormedInv)'
  BY StepBase, StepWellFormed
<1>3. WellFormedInv => OpensWellFormed
  BY DEF WellFormedInv, NothingWrong, OpensWellFormed
<1>4. QED
  BY <1>1, <1>2, <1>3, PTL DEF Spec

-----------------------------------------------------------------------------
(***************************************************************************)
(* Refinement.                                                             *)
(***************************************************************************)
\* The pages a query reaches are pages of the file.
LEMMA ReachablePagesOfFile ==
  ASSUME NEW f, IsFile(f), NEW q
  PROVE  ReachableChunks(f, q) \subseteq CompleteAnswer(f, q)
<1>1. AllPages(f) \subseteq PageRefs(f) /\ RootPage(f) \in AllPages(f)
  BY LeadToRoot DEF AllPages, LeadTo
<1>2. Closed(f, Followed(f, q), AllPages(f))
  BY PageOfFile DEF Closed, Followed, PagePointers
<1>3. ReachablePages(f, q) \subseteq AllPages(f)
  BY <1>1, <1>2, LeadToLeast DEF ReachablePages
<1>4. QED
  BY <1>3 DEF ReachableChunks, CompleteAnswer, Matching, AllEntries

LEMMA InitService == Init => Service!SInit
  BY DEF Init, Service!SInit, Phase

LEMMA FailService ==
  ASSUME Fail, pc \notin {"idle", "select", "closed"}, answer = {}
  PROVE  Service!SNext
<1>1. Service!OpenFails
  BY DEF Fail, Service!OpenFails, Service!LoseSome, Phase
<1>2. QED
  BY <1>1 DEF Service!SNext

\* Before the file is open there is no answer.
NoAnswerYet == pc \notin {"idle", "select"} => answer = {}

LEMMA StepNoAnswer == ASSUME TypeOK, NoAnswerYet, [Next]_vars PROVE NoAnswerYet'
  BY DEF NoAnswerYet, Next, vars, loading, Fail, Open, RefusePage, ReadPage, ReadFails, ScanEntry,
     EndScan, QueueEntry, EndQueue, EndRead, CheckRange, EndRanges, CheckTotal, Ask, Select

LEMMA StepService == EInv /\ NoAnswerYet /\ [Next]_vars => [Service!SNext]_Service!svars
<1> SUFFICES ASSUME EInv, NoAnswerYet, [Next]_vars, ~ UNCHANGED Service!svars PROVE Service!SNext
  OBVIOUS
<1>1. CASE Fail /\ pc \notin {"idle", "select", "closed"}
  BY <1>1, FailService DEF NoAnswerYet
<1>2. CASE CheckTotal /\ ~ Fail
  <2>1. Service!Opened
    BY <1>2 DEF CheckTotal, Service!Opened, Phase
  <2>2. QED
    BY <2>1 DEF Service!SNext
<1>3. ASSUME NEW q \in Queries, Ask(q) PROVE Service!SNext
  <2>1. Service!Ask(q)
    BY <1>3 DEF Ask, Service!Ask, Phase
  <2>2. QED
    BY <2>1 DEF Service!SNext
<1>4. CASE Select
  <2>1. Phase = "busy" /\ Phase' = "ready" /\ UNCHANGED <<file, query>> /\ pc \in Loaded
    BY <1>4 DEF Select, Phase, Loaded
  <2>2. CASE ValidQuery(query) /\ ValidLod(query.lod)
    <3>1. outcome' = "ok" /\ answer' = CompleteAnswer(file, query)
      BY <1>4, <2>1, <2>2, SelectionExact DEF Select, EInv
    <3>2. ReachableChunks(file, query) \subseteq CompleteAnswer(file, query)
      BY FileType, ReachablePagesOfFile DEF EInv
    <3>3. Service!ReturnOk
      BY <2>1, <3>1, <3>2 DEF Service!ReturnOk, Service!Sound, Service!Covers
    <3>4. QED
      BY <3>3 DEF Service!SNext
  <2>3. CASE ~ (ValidQuery(query) /\ ValidLod(query.lod))
    <3>1. Service!ReturnErr
      BY <1>4, <2>1, <2>3 DEF Select, Service!ReturnErr, Service!LoseSome
    <3>2. QED
      BY <3>1 DEF Service!SNext
  <2>4. QED
    BY <2>2, <2>3
<1>5. QED
  BY <1>1, <1>2, <1>3, <1>4 DEF Next, vars, loading, Open, RefusePage, ReadPage, ReadFails, ScanEntry,
     EndScan, QueueEntry, EndQueue, EndRead, CheckRange, EndRanges, CheckTotal, Service!svars, Phase

\* Every behaviour of the seek-based reader is one HierarchyService allows
\* in which no page is ever lost.
THEOREM ReaderKeepsPromise == Spec => ImplementsService
<1>1. Init => NoAnswerYet
  BY DEF Init, NoAnswerYet
<1>2. EInv => TypeOK
  BY DEF EInv
<1>3. Spec => [](EInv /\ NoAnswerYet)
  BY <1>1, <1>2, InitEInv, StepEInv, StepNoAnswer, PTL DEF Spec
<1>4. QED
  BY <1>3, InitService, StepService, PTL DEF Spec, ImplementsService, Service!SSpec
=============================================================================

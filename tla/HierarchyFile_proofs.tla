------------------------- MODULE HierarchyFile_proofs -------------------------
(***************************************************************************)
(* Lemmas about the data both hierarchy readers are built from: the        *)
(* sequences that stand for the code's Vecs, pages and their entries, the  *)
(* map, the chunk ranges, the pages that pointers lead to, sums over the   *)
(* entries of a file, subtrees of nodes, and what makes a file in order    *)
(* (WellFormed) one that opens: every page is reached over one pointer.    *)
(***************************************************************************)
EXTENDS HierarchyFile, SequenceTheorems, SequencesExt, WellFoundedInduction,
        FiniteSetTheorems, FunctionTheorems, TLAPS

\* Vec::push adds one element.
LEMMA RangeAppend ==
  ASSUME NEW S, NEW s \in Seq(S), NEW e \in S
  PROVE  Append(s, e) \in Seq(S) /\ Range(Append(s, e)) = Range(s) \cup {e}
<1> DEFINE t == Append(s, e)
<1>1. /\ t \in Seq(S) /\ Len(t) = Len(s) + 1 /\ t[Len(s) + 1] = e
      /\ \A i \in 1..Len(s) : t[i] = s[i]
  BY AppendProperties
<1>2. Len(s) \in Nat /\ Range(s) = {s[i] : i \in 1..Len(s)}
  BY RangeEquality, LenProperties
<1>3. Range(t) = {t[i] : i \in 1..(Len(s) + 1)}
  BY <1>1, RangeEquality
<1>4. 1..(Len(s) + 1) = 1..Len(s) \cup {Len(s) + 1}
  BY <1>2
<1> HIDE DEF t
<1>5. Range(t) = Range(s) \cup {e}
  BY <1>1, <1>2, <1>3, <1>4
<1>6. QED
  BY <1>1, <1>5 DEF t

\* A loop over a Vec takes the head; the other elements are left.
LEMMA RangeTail ==
  ASSUME NEW S, NEW s \in Seq(S), s # <<>>
  PROVE  /\ Head(s) \in S
         /\ Head(s) = s[1]
         /\ Tail(s) \in Seq(S)
         /\ Range(s) = {Head(s)} \cup Range(Tail(s))
<1> DEFINE t == Tail(s)
<1>1. Head(s) \in S /\ t \in Seq(S) /\ Len(t) = Len(s) - 1
      /\ \A i \in 1..Len(t) : t[i] = s[i + 1]
  BY HeadTailProperties
<1>2. Len(s) \in Nat \ {0}
  BY EmptySeq
<1>3. Range(s) = {s[i] : i \in 1..Len(s)} /\ Range(t) = {t[i] : i \in 1..Len(t)}
  BY <1>1, RangeEquality
<1>4. Head(s) = s[1]
  OBVIOUS
<1> HIDE DEF t
<1>5. \A i \in 1..Len(s) : s[i] \in {s[1]} \cup Range(t)
  <2> TAKE i \in 1..Len(s)
  <2>1. CASE i = 1
    BY <2>1
  <2>2. CASE i # 1
    <3>1. i - 1 \in 1..Len(t) /\ t[i - 1] = s[(i - 1) + 1]
      BY <1>1, <1>2, <2>2
    <3>2. (i - 1) + 1 = i
      OBVIOUS
    <3>3. QED
      BY <1>3, <3>1, <3>2
  <2>3. QED
    BY <2>1, <2>2
<1>6. \A i \in 1..Len(t) : t[i] \in Range(s)
  <2> TAKE i \in 1..Len(t)
  <2>1. t[i] = s[i + 1] /\ i + 1 \in 1..Len(s)
    BY <1>1, <1>2
  <2>2. QED
    BY <1>3, <2>1
<1>7. s[1] \in Range(s)
  BY <1>2, <1>3
<1>8. Range(s) = {s[1]} \cup Range(t)
  BY <1>3, <1>5, <1>6, <1>7
<1>9. QED
  BY <1>1, <1>4, <1>8 DEF t

\* An empty Vec.
LEMMA RangeEmpty == ASSUME NEW S PROVE <<>> \in Seq(S) /\ Range(<<>>) = {}
<1> DEFINE t == <<>>
<1>1. t \in Seq(S) /\ Len(t) = 0
  OBVIOUS
<1>2. Range(t) = {t[i] : i \in 1..Len(t)}
  <2> HIDE DEF t
  <2>1. QED
    BY <1>1, RangeEquality
<1>3. 1..Len(t) = {}
  BY <1>1
<1>4. QED
  BY <1>1, <1>2, <1>3

\* The last element taken leaves nothing.
LEMMA LastTail ==
  ASSUME NEW S, NEW s \in Seq(S), s # <<>>
  PROVE  Len(s) = 1 <=> Tail(s) = <<>>
<1>1. Tail(s) \in Seq(S) /\ Len(Tail(s)) = Len(s) - 1
  BY HeadTailProperties
<1>2. Len(s) \in Nat
  BY LenProperties
<1>3. Tail(s) = <<>> <=> Len(Tail(s)) = 0
  BY <1>1, EmptySeq
<1>4. QED
  BY <1>1, <1>2, <1>3

\* A Vec without elements is the empty one.
LEMMA EmptyRange ==
  ASSUME NEW S, NEW s \in Seq(S), Range(s) = {}
  PROVE  s = <<>>
<1>1. SUFFICES ASSUME s # <<>> PROVE FALSE
  OBVIOUS
<1>2. QED
  BY <1>1, RangeTail

\* A slice of a Vec holds elements of it.
LEMMA RangeSubSeq ==
  ASSUME NEW S, NEW s \in Seq(S), NEW m \in Int, NEW n \in Int,
         m >= 1, n <= Len(s)
  PROVE  SubSeq(s, m, n) \in Seq(S) /\ Range(SubSeq(s, m, n)) \subseteq Range(s)
<1>1. CASE n < m
  BY <1>1, SubSeqEmpty, RangeEmpty
<1>2. CASE n >= m
  <2>1. Len(s) \in Nat
    BY LenProperties
  <2>2. m \in 1..Len(s) + 1 /\ n \in m - 1..Len(s)
    BY <1>2, <2>1
  <2> DEFINE t == SubSeq(s, m, n)
  <2>3. t \in Seq(S) /\ Len(t) = n - m + 1 /\ \A i \in 1..n - m + 1 : t[i] = s[m + i - 1]
    BY <2>2, SubSeqProperties
  <2> HIDE DEF t
  <2>4. Range(t) = {t[i] : i \in 1..Len(t)} /\ Range(s) = {s[i] : i \in 1..Len(s)}
    BY <2>3, RangeEquality
  <2>5. \A i \in 1..Len(t) : m + i - 1 \in 1..Len(s)
    BY <2>1, <2>3
  <2>6. QED
    BY <2>3, <2>4, <2>5 DEF t
<1>3. QED
  BY <1>1, <1>2

\* A log in which every new element is new has no element twice.
LEMMA InjectiveAppend ==
  ASSUME NEW S, NEW s \in Seq(S), NEW e \in S, IsInjective(s), e \notin Range(s)
  PROVE  IsInjective(Append(s, e))
<1> DEFINE t == Append(s, e)
<1>1. /\ t \in Seq(S) /\ Len(t) = Len(s) + 1 /\ t[Len(s) + 1] = e
      /\ \A i \in 1..Len(s) : t[i] = s[i]
  BY AppendProperties
<1>2. Len(s) \in Nat /\ Range(s) = {s[i] : i \in 1..Len(s)} /\ DOMAIN s = 1..Len(s)
  BY RangeEquality, LenProperties
<1>3. DOMAIN t = 1..(Len(s) + 1)
  BY <1>1, LenProperties
<1> HIDE DEF t
<1>4. \A i \in 1..Len(s) : s[i] # e
  BY <1>2
<1>5. ASSUME NEW a \in DOMAIN t, NEW b \in DOMAIN t, t[a] = t[b]
      PROVE  a = b
  <2>1. CASE a \in 1..Len(s) /\ b \in 1..Len(s)
    BY <1>1, <1>2, <1>5, <2>1 DEF IsInjective
  <2>2. CASE a = Len(s) + 1 /\ b \in 1..Len(s)
    BY <1>1, <1>4, <1>5, <2>2
  <2>3. CASE a \in 1..Len(s) /\ b = Len(s) + 1
    BY <1>1, <1>4, <1>5, <2>3
  <2>4. CASE a = Len(s) + 1 /\ b = Len(s) + 1
    BY <2>4
  <2>5. QED
    BY <1>2, <1>3, <1>5, <2>1, <2>2, <2>3, <2>4
<1>6. QED
  BY <1>5 DEF IsInjective, t

\* Vec::pop takes the last element and leaves the others.
LEMMA RangeFront ==
  ASSUME NEW S, NEW s \in Seq(S), s # <<>>
  PROVE  /\ Last(s) \in S
         /\ Front(s) \in Seq(S)
         /\ Range(s) = Range(Front(s)) \cup {Last(s)}
         /\ IsInjective(s) => IsInjective(Front(s)) /\ Last(s) \notin Range(Front(s))
<1> DEFINE n == Len(s)
           t == SubSeq(s, 1, n - 1)
<1>1. n \in Nat \ {0} /\ s \in [1..n -> S]
  BY EmptySeq, LenProperties
<1>2. /\ t \in Seq(S) /\ Len(t) = n - 1
      /\ \A i \in 1..(n - 1) : t[i] = s[i]
  <2> DEFINE m == n - 1
  <2>1. m \in Int /\ 1 \in Int /\ \A i \in 1..m : s[i] \in S
    BY <1>1
  <2> HIDE DEF m
  <2>2. /\ SubSeq(s, 1, m) \in Seq(S)
        /\ Len(SubSeq(s, 1, m)) = IF 1 <= m THEN m - 1 + 1 ELSE 0
        /\ \A i \in 1..m - 1 + 1 : SubSeq(s, 1, m)[i] = s[1 + i - 1]
    BY <2>1, SubSeqProperties
  <2>3. m - 1 + 1 = m /\ m \in Nat /\ \A i \in 1..m : 1 + i - 1 = i
    BY <1>1 DEF m
  <2>4. t = SubSeq(s, 1, m)
    BY DEF m
  <2> HIDE DEF t
  <2>5. t \in Seq(S) /\ Len(t) = m /\ \A i \in 1..m : t[i] = s[i]
    BY <2>2, <2>3, <2>4
  <2>6. QED
    BY <2>5 DEF m
<1>3. DOMAIN t = 1..(n - 1) /\ DOMAIN s = 1..n /\ 1..n = 1..(n - 1) \cup {n} /\ n \notin 1..(n - 1)
  <2> HIDE DEF t
  <2>1. QED
    BY <1>1, <1>2, LenProperties
<1> HIDE DEF t, n
<1>4. Range(s) = Range(t) \cup {s[n]}
  BY <1>2, <1>3 DEF Range
<1>5. IsInjective(s) => IsInjective(t) /\ s[n] \notin Range(t)
  BY <1>2, <1>3 DEF Range, IsInjective
<1>6. s[n] \in S
  BY <1>1, <1>3
<1>7. QED
  BY <1>2, <1>4, <1>5, <1>6 DEF t, n, Last, Front

\* The element pushed last is the last one.
LEMMA LastAppend ==
  ASSUME NEW S, NEW s \in Seq(S), NEW e \in S
  PROVE  Append(s, e) # <<>> /\ Last(Append(s, e)) = e
<1> DEFINE t == Append(s, e)
<1>1. t \in Seq(S) /\ Len(t) = Len(s) + 1 /\ t[Len(s) + 1] = e /\ Len(s) \in Nat
  BY AppendProperties, LenProperties
<1> HIDE DEF t
<1>2. t # <<>> /\ t[Len(t)] = e
  BY <1>1
<1>3. QED
  BY <1>2 DEF Last, t

\* range(x..).next(): a set of numbers that is not empty has a least one.
LEMMA LeastElement ==
  ASSUME NEW S, S \subseteq Nat, S # {}
  PROVE  \E m \in S : \A n \in S : m <= n
<1>1. PICK x \in S : \A y \in S : ~ <<y, x>> \in OpToRel(<, Nat)
  <2>1. IsWellFoundedOn(OpToRel(<, Nat), Nat)
    BY NatLessThanWellFounded
  <2> HIDE DEF OpToRel
  <2>2. QED
    BY <2>1, WFMin
<1>2. \A y \in S : ~(y < x)
  BY <1>1 DEF OpToRel
<1>3. QED
  BY <1>2

\* range(..=x).next_back(): one that is bounded has a greatest one.
LEMMA GreatestElement ==
  ASSUME NEW S, S \subseteq Nat, S # {}, NEW b \in Nat, \A n \in S : n <= b
  PROVE  \E m \in S : \A n \in S : n <= m
<1> DEFINE T == {d \in Nat : \E n \in S : d = b - n}
<1>1. T \subseteq Nat
  OBVIOUS
<1>2. \A n \in S : b - n \in T
  OBVIOUS
<1>3. T # {}
  BY <1>2
<1>4. PICK m \in T : \A d \in T : m <= d
  <2> HIDE DEF T
  <2>1. QED
    BY <1>1, <1>3, LeastElement
<1>5. PICK x \in S : m = b - x
  OBVIOUS
<1>6. \A n \in S : b - x <= b - n
  BY <1>2, <1>4, <1>5
<1>7. QED
  BY <1>6

-----------------------------------------------------------------------------
\* PageOf names a byte range.
LEMMA PageOfType == ASSUME NEW e \in Entry PROVE PageOf(e) \in PageRange
  BY DEF PageOf, PageRange, Entry

LEMMA RootEntryType ==
  ASSUME NEW f, IsFile(f) PROVE RootEntry(f) \in Entry
<1>1. Root \in Key
  BY DEF Root, Key, Axis
<1>2. QED
  BY <1>1 DEF RootEntry, Entry, IsFile

\* A slot number is the quotient of a length that the slots cover.
LEMMA QuotientNat ==
  ASSUME NEW a \in Nat, NEW b \in Nat \ {0}
  PROVE  a \div b \in Nat
  OBVIOUS

LEMMA QuotientBound ==
  ASSUME NEW a \in Nat, NEW b \in Nat \ {0}, NEW c \in Nat, a <= b * c
  PROVE  a \div b <= c
  OBVIOUS

LEMMA QuotientNegative ==
  ASSUME NEW a \in Int, NEW b \in Nat \ {0}, a < 0
  PROVE  a \div b \in Int /\ a \div b <= 0
  OBVIOUS

\* The slots a page starts and ends at.
LEMMA PageBounds ==
  ASSUME NEW f, IsFile(f), NEW p \in PageRange, InHierarchyBody(f, p)
  PROVE  /\ SlotAt(f, p[1]) \in Nat
         /\ SlotAt(f, p[1] + p[2]) \in Int /\ SlotAt(f, p[1] + p[2]) <= Len(f.slots)
<1> DEFINE m == SlotAt(f, p[1])
           n == SlotAt(f, p[1] + p[2])
<1>1. /\ p[1] \in Nat /\ p[2] \in Int
      /\ f.hierarchy_start \in Nat /\ f.hierarchy_end \in Nat
      /\ f.hierarchy_start <= p[1] /\ p[1] + p[2] <= f.hierarchy_end
      /\ f.hierarchy_end <= f.hierarchy_start + EntryBytes * Len(f.slots)
      /\ EntryBytes \in Nat \ {0} /\ Len(f.slots) \in Nat
  BY LimitsAssumption, LenProperties
     DEF PageRange, IsFile, InHierarchyBody
<1> DEFINE low == p[1] - f.hierarchy_start
           high == (p[1] + p[2]) - f.hierarchy_start
           c == Len(f.slots)
<1>a. low \in Nat /\ high \in Int /\ c \in Nat /\ EntryBytes \in Nat \ {0}
  BY <1>1
<1>b. high <= EntryBytes * c
  <2> DEFINE product == EntryBytes * c
  <2>1. product \in Nat
    BY <1>1
  <2>2. f.hierarchy_end <= f.hierarchy_start + product
    BY <1>1
  <2> HIDE DEF product
  <2>3. high <= product
    BY <1>1, <2>1, <2>2
  <2>4. QED
    BY <2>3, Zenon DEF product
<1>c. m = low \div EntryBytes /\ n = high \div EntryBytes
  BY Zenon DEF SlotAt
<1> HIDE DEF low, high, c, m, n
<1>2. m \in Int /\ m >= 0
  <2>1. low \div EntryBytes \in Nat
    BY <1>a, QuotientNat
  <2>2. QED
    BY <1>c, <2>1
<1>d. n \in Int /\ n <= c
  <2>1. CASE high >= 0
    <3>1. high \in Nat
      BY <1>a, <2>1
    <3>2. high \div EntryBytes <= c /\ high \div EntryBytes \in Nat
      BY <1>a, <1>b, <3>1, QuotientBound, QuotientNat
    <3>3. QED
      BY <1>a, <1>c, <3>2
  <2>2. CASE high < 0
    <3>1. high \div EntryBytes \in Int /\ high \div EntryBytes <= 0
      BY <1>a, <2>2, QuotientNegative
    <3>2. QED
      BY <1>a, <1>c, <3>1
  <2>3. QED
    BY <1>a, <2>1, <2>2
<1>3. n \in Int /\ n <= Len(f.slots)
  BY <1>d DEF c
<1>4. QED
  BY <1>2, <1>3 DEF m, n

\* The entries of a page are slots of the file.
LEMMA PageEntriesType ==
  ASSUME NEW f, IsFile(f), NEW p \in PageRange
  PROVE  /\ PageEntries(f, p) \in Seq(Entry)
         /\ Range(PageEntries(f, p)) = EntriesIn(f, p)
         /\ EntriesIn(f, p) \subseteq SlotEntries(f)
         /\ SlotEntries(f) \subseteq Entry
<1>1. f.slots \in Seq(Entry) /\ Range(f.slots) = SlotEntries(f)
  BY DEF IsFile, SlotEntries, Range
<1>2. SlotEntries(f) \subseteq Entry
  BY <1>1, RangeEquality
<1>3. Range(PageEntries(f, p)) = EntriesIn(f, p)
  BY DEF Range, EntriesIn
<1>4. CASE ~ InHierarchyBody(f, p)
  BY <1>1, <1>2, <1>3, <1>4, RangeEmpty DEF PageEntries
<1>5. CASE InHierarchyBody(f, p)
  <2> DEFINE m == SlotAt(f, p[1])
             n == SlotAt(f, p[1] + p[2])
  <2>1. m \in Nat /\ n \in Int /\ n <= Len(f.slots)
    BY <1>5, PageBounds
  <2>2. PageEntries(f, p) = SubSeq(f.slots, m + 1, n)
    BY <1>5 DEF PageEntries, m, n
  <2> HIDE DEF m, n
  <2>3. m + 1 \in Int /\ m + 1 >= 1
    BY <2>1
  <2>4. /\ SubSeq(f.slots, m + 1, n) \in Seq(Entry)
        /\ Range(SubSeq(f.slots, m + 1, n)) \subseteq Range(f.slots)
    BY <1>1, <2>1, <2>3, RangeSubSeq
  <2>5. QED
    BY <1>1, <1>2, <1>3, <2>2, <2>4
<1>6. QED
  BY <1>4, <1>5

\* The map the reader builds, with one more entry.
MapOK(h) == DOMAIN h \subseteq Key /\ \A k \in DOMAIN h : h[k] \in Entry /\ h[k].key = k

LEMMA InsertMap ==
  ASSUME NEW h, MapOK(h), NEW e \in Entry
  PROVE  /\ MapOK(Insert(h, e))
         /\ DOMAIN Insert(h, e) = DOMAIN h \cup {e.key}
         /\ Insert(h, e)[e.key] = e
         /\ \A k \in DOMAIN h : k # e.key => Insert(h, e)[k] = h[k]
<1>1. e.key \in Key
  BY DEF Entry
<1>2. QED
  BY <1>1 DEF MapOK, Insert

LEMMA RangeOfMap ==
  ASSUME NEW h, MapOK(h) PROVE Range(h) \subseteq Entry
  BY DEF MapOK, Range

\* The ranges a reader records, with one more range.
LEMMA AddRangeMap ==
  ASSUME NEW ranges, NEW e
  PROVE  /\ DOMAIN AddRange(ranges, e) = DOMAIN ranges \cup {e.offset}
         /\ AddRange(ranges, e)[e.offset] = e.offset + e.byte_size
         /\ \A s \in DOMAIN ranges : s # e.offset => AddRange(ranges, e)[s] = ranges[s]
  BY DEF AddRange

\* The numbers of a valid entry with points.
LEMMA ChunkNumbers ==
  ASSUME NEW e \in Entry, ValidEntry(e), HasPointData(e)
  PROVE  /\ e.offset \in Nat /\ e.byte_size \in Nat \ {0} /\ e.point_count \in Nat \ {0}
         /\ e.offset + e.byte_size \in Nat
  BY DEF ValidEntry, HasPointData, IsEmpty, IsChildPage, Entry

-----------------------------------------------------------------------------
(***************************************************************************)
(* The pages that pointers lead to.                                        *)
(***************************************************************************)
LEMMA PageRefsType ==
  ASSUME NEW f, IsFile(f) PROVE PageRefs(f) \subseteq PageRange
<1>1. RootPage(f) \in PageRange
  BY RootEntryType, PageOfType DEF RootPage
<1>2. SlotEntries(f) \subseteq Entry
  BY <1>1, PageEntriesType
<1>3. QED
  BY <1>1, <1>2, PageOfType DEF PageRefs, PagePointers

LEMMA LeadToRoot ==
  ASSUME NEW f, NEW pointers PROVE RootPage(f) \in LeadTo(f, pointers)
  BY DEF LeadTo, PageRefs

\* A pointer in a page that is led to leads to its page.
LEMMA LeadToClosed ==
  ASSUME NEW f, IsFile(f), NEW pointers \in SUBSET PagePointers(f),
         NEW p \in LeadTo(f, pointers), NEW e \in EntriesIn(f, p), e \in pointers
  PROVE  PageOf(e) \in LeadTo(f, pointers)
<1>1. PageOf(e) \in PageRefs(f)
  BY DEF PageRefs
<1>2. ASSUME NEW pages \in SUBSET PageRefs(f),
             RootPage(f) \in pages, Closed(f, pointers, pages)
      PROVE  PageOf(e) \in pages
  <2>1. p \in pages
    BY <1>2 DEF LeadTo
  <2>2. QED
    BY <1>2, <2>1 DEF Closed
<1>3. QED
  BY <1>1, <1>2 DEF LeadTo

LEMMA LeadToLeast ==
  ASSUME NEW f, NEW pointers, NEW pages \in SUBSET PageRefs(f),
         RootPage(f) \in pages, Closed(f, pointers, pages)
  PROVE  LeadTo(f, pointers) \subseteq pages
  BY DEF LeadTo

\* A page of the file: its range, its entries, and the pages it points to.
LEMMA PageOfFile ==
  ASSUME NEW f, IsFile(f), NEW p \in AllPages(f)
  PROVE  /\ p \in PageRefs(f) /\ p \in PageRange
         /\ EntriesIn(f, p) \subseteq Entry \cap SlotEntries(f)
         /\ EntriesIn(f, p) \subseteq AllEntries(f)
         /\ \A e \in EntriesIn(f, p) : IsChildPage(e) => PageOf(e) \in AllPages(f)
<1>1. p \in PageRefs(f) /\ p \in PageRange
  BY PageRefsType DEF AllPages, LeadTo
<1>2. EntriesIn(f, p) \subseteq Entry \cap SlotEntries(f)
  BY <1>1, PageEntriesType
<1>3. \A e \in EntriesIn(f, p) : IsChildPage(e) => PageOf(e) \in AllPages(f)
  BY <1>2, LeadToClosed DEF AllPages, PagePointers
<1>4. QED
  BY <1>1, <1>2, <1>3 DEF AllEntries

-----------------------------------------------------------------------------
(***************************************************************************)
(* Chunk ranges.  A range is compared with its nearest neighbours only;    *)
(* since the recorded ranges are in order and apart, that is enough.       *)
(***************************************************************************)
Apart(ranges) ==
  /\ \A s \in DOMAIN ranges : s < ranges[s]
  /\ \A s, t \in DOMAIN ranges : s < t => ranges[s] <= t

LEMMA NeighboursSuffice ==
  ASSUME NEW ranges, DOMAIN ranges \subseteq Nat,
         \A s \in DOMAIN ranges : ranges[s] \in Nat,
         Apart(ranges),
         NEW e, e.offset \in Nat, e.byte_size \in Nat \ {0},
         ~ Overlaps(ranges, e)
  PROVE  /\ e.offset \notin DOMAIN ranges
         /\ Apart(AddRange(ranges, e))
<1> DEFINE D == DOMAIN ranges
           o == e.offset
           u == e.offset + e.byte_size
           r == AddRange(ranges, e)
<1>1. \A s \in D : s <= o => ranges[s] <= o
  <2> SUFFICES ASSUME NEW s \in D, s <= o PROVE ranges[s] <= o
    OBVIOUS
  <2> DEFINE B == {t \in D : t <= o}
  <2>1. B \subseteq Nat /\ B # {} /\ \A t \in B : t <= o
    OBVIOUS
  <2>2. PICK m \in B : \A t \in B : t <= m
    <3> HIDE DEF B, o
    <3>1. o \in Nat
      BY DEF o
    <3>2. QED
      BY <2>1, <3>1, GreatestElement
  <2>3. ranges[m] <= o
    BY <2>2 DEF Overlaps, OverlapsPrevious
  <2>4. s = m \/ s < m
    BY <2>2
  <2>5. QED
    BY <2>2, <2>3, <2>4 DEF Apart
<1>2. \A s \in D : s >= o => u <= s
  <2> SUFFICES ASSUME NEW s \in D, s >= o PROVE u <= s
    OBVIOUS
  <2> DEFINE B == {t \in D : t >= o}
  <2>1. B \subseteq Nat /\ B # {}
    OBVIOUS
  <2>2. PICK m \in B : \A t \in B : m <= t
    <3> HIDE DEF B
    <3>1. QED
      BY <2>1, LeastElement
  <2>3. u <= m
    BY <2>2 DEF Overlaps, OverlapsNext
  <2>4. QED
    BY <2>2, <2>3
<1>3. o \notin D
  BY <1>2
<1>4. /\ DOMAIN r = D \cup {o} /\ r[o] = u
      /\ \A s \in D : r[s] = ranges[s]
  <2>1. \A s \in D : s # e.offset
    BY <1>3, Zenon
  <2>2. /\ DOMAIN AddRange(ranges, e) = DOMAIN ranges \cup {e.offset}
        /\ AddRange(ranges, e)[e.offset] = e.offset + e.byte_size
        /\ \A s \in DOMAIN ranges :
             s # e.offset => AddRange(ranges, e)[s] = ranges[s]
    BY AddRangeMap, Zenon
  <2>3. QED
    BY <2>1, <2>2, Zenon
<1>5. u \in Nat /\ o < u
  OBVIOUS
<1> HIDE DEF D, r, u
<1>6. \A s \in D \cup {o} : s < r[s]
  BY <1>4, <1>5 DEF Apart, D
<1>7. ASSUME NEW s \in D \cup {o}, NEW t \in D \cup {o}, s < t
      PROVE  r[s] <= t
  <2>1. CASE s \in D /\ t \in D
    BY <1>4, <1>7, <2>1 DEF Apart, D
  <2>2. CASE s \in D /\ t = o
    BY <1>1, <1>4, <1>7, <2>2 DEF D
  <2>3. CASE s = o /\ t \in D
    BY <1>2, <1>4, <1>7, <2>3 DEF D
  <2>4. CASE s = o /\ t = o
    BY <1>7, <2>4
  <2>5. QED
    BY <2>1, <2>2, <2>3, <2>4
<1>8. QED
  BY <1>3, <1>4, <1>6, <1>7 DEF Apart, D, r

-----------------------------------------------------------------------------
(***************************************************************************)
(* Sums over finite sets.  SumFunctionOnSet is a recursive function on the *)
(* subsets of the set: it exists, level by level of their sizes, and the   *)
(* order in which it takes the elements does not matter.                   *)
(***************************************************************************)
\* What holds of a set when it holds of that set without any one element,
\* holds of every finite set.
LEMMA SmallerSets ==
  ASSUME NEW S, IsFiniteSet(S), NEW F,
         \A s \in SUBSET S : (\A x \in s : s \ {x} \in F) => s \in F
  PROVE  \A s \in SUBSET S : s \in F
<1> SUFFICES ASSUME NEW t \in SUBSET S, t \notin F PROVE FALSE
  OBVIOUS
<1> DEFINE out == {s \in SUBSET S : s \notin F}
           sizes == {Cardinality(s) : s \in out}
<1>1. \A s \in SUBSET S : IsFiniteSet(s) /\ Cardinality(s) \in Nat
  BY FS_Subset, FS_CardinalityType
<1>2. sizes \subseteq Nat /\ sizes # {}
  BY <1>1
<1>3. PICK m \in sizes : \A n \in sizes : m <= n
  <2> HIDE DEF sizes
  <2>1. QED
    BY <1>2, LeastElement
<1>4. PICK s \in out : Cardinality(s) = m
  OBVIOUS
<1>5. ASSUME NEW x \in s PROVE s \ {x} \in F
  <2>1. Cardinality(s \ {x}) = Cardinality(s) - 1
    BY <1>1, FS_RemoveElement
  <2>2. Cardinality(s \ {x}) \notin sizes
    <3> HIDE DEF sizes
    <3>1. Cardinality(s \ {x}) = m - 1 /\ m \in Nat
      BY <1>2, <1>3, <1>4, <2>1
    <3>2. m - 1 \notin sizes
      BY <1>2, <1>3, <3>1
    <3>3. QED
      BY <3>1, <3>2
  <2>3. QED
    BY <2>2
<1>6. QED
  BY <1>4, <1>5

\* One round of the recursion.
Pick(s) == CHOOSE x \in s : TRUE
SumRound(w, it, s) == IF s = {} THEN 0 ELSE w[Pick(s)] + it[s \ {Pick(s)}]
Sums(w, S) == CHOOSE it : it = [s \in SUBSET S |-> SumRound(w, it, s)]

LEMMA SumIsRecursive ==
  ASSUME NEW w, NEW S PROVE SumFunctionOnSet(w, S) = Sums(w, S)[S]
  BY DEF SumFunctionOnSet, FoldFunctionOnSet, MapThenFoldSet, Sums, SumRound, Pick

LEMMA PickInSet == ASSUME NEW s, s # {} PROVE Pick(s) \in s
  BY DEF Pick

\* The subsets of up to n elements, and their sums.
UpTo(S, n) == {s \in SUBSET S : Cardinality(s) <= n}

LEMMA SumsOfSize ==
  ASSUME NEW S, IsFiniteSet(S), NEW w, \A x \in S : w[x] \in Int
  PROVE  \A n \in Nat :
           \E it \in [UpTo(S, n) -> Int] : \A s \in UpTo(S, n) : it[s] = SumRound(w, it, s)
<1> DEFINE upTo(n) == UpTo(S, n)
           good(n) == \E it \in [upTo(n) -> Int] : \A s \in upTo(n) : it[s] = SumRound(w, it, s)
           bad == {n \in Nat : ~ good(n)}
<1>0. \A s \in SUBSET S : IsFiniteSet(s) /\ Cardinality(s) \in Nat
  BY FS_Subset, FS_CardinalityType
<1> USE DEF UpTo
<1>1. good(0)
  <2> DEFINE it == [s \in upTo(0) |-> 0]
  <2>1. \A s \in upTo(0) : s = {}
    BY <1>0, FS_EmptySet
  <2>2. it \in [upTo(0) -> Int] /\ \A s \in upTo(0) : it[s] = SumRound(w, it, s)
    BY <2>1 DEF SumRound
  <2>3. QED
    BY <2>2
<1>2. ASSUME NEW n \in Nat, good(n) PROVE good(n + 1)
  <2>1. PICK it \in [upTo(n) -> Int] : \A s \in upTo(n) : it[s] = SumRound(w, it, s)
    BY <1>2
  <2> DEFINE next == [s \in upTo(n + 1) |-> SumRound(w, it, s)]
  <2>2. ASSUME NEW s \in upTo(n + 1), s # {}
        PROVE  Pick(s) \in S /\ s \ {Pick(s)} \in upTo(n) \cap upTo(n + 1)
    <3>1. Pick(s) \in s /\ s \in SUBSET S /\ s \ {Pick(s)} \in SUBSET S
      BY <2>2, PickInSet
    <3>2. Cardinality(s \ {Pick(s)}) = Cardinality(s) - 1
      BY <1>0, <3>1, FS_RemoveElement
    <3>3. QED
      BY <1>0, <3>1, <3>2
  <2>3. \A s \in upTo(n + 1) : SumRound(w, it, s) \in Int
    BY <2>2 DEF SumRound
  <2>4. \A s \in upTo(n) : s \in upTo(n + 1) /\ next[s] = it[s]
    BY <1>0, <2>1
  <2>5. ASSUME NEW s \in upTo(n + 1) PROVE next[s] = SumRound(w, next, s)
    <3>1. next[s] = SumRound(w, it, s)
      OBVIOUS
    <3> HIDE DEF next, upTo, UpTo
    <3>2. QED
      BY <2>2, <2>4, <3>1 DEF SumRound
  <2>6. next \in [upTo(n + 1) -> Int]
    BY <2>3
  <2> HIDE DEF next, upTo, UpTo
  <2>7. QED
    BY <2>5, <2>6
<1>3. bad = {}
  <2> SUFFICES ASSUME bad # {} PROVE FALSE
    OBVIOUS
  <2> HIDE DEF good
  <2>1. bad \subseteq Nat
    OBVIOUS
  <2>2. PICK m \in bad : \A n \in bad : m <= n
    <3> HIDE DEF bad
    <3>1. QED
      BY <2>1, LeastElement
  <2>3. m \in Nat /\ m # 0
    BY <1>1
  <2>4. m - 1 \in Nat /\ m - 1 \notin bad /\ (m - 1) + 1 = m
    BY <2>2, <2>3
  <2>5. QED
    BY <1>2, <2>4
<1>4. QED
  BY <1>3

\* The recursion is well defined.
LEMMA SumsDefined ==
  ASSUME NEW S, IsFiniteSet(S), NEW w, \A x \in S : w[x] \in Int
  PROVE  /\ Sums(w, S) \in [SUBSET S -> Int]
         /\ \A s \in SUBSET S : Sums(w, S)[s] = SumRound(w, Sums(w, S), s)
<1> DEFINE n == Cardinality(S)
<1>1. n \in Nat /\ \A s \in SUBSET S : Cardinality(s) <= n
  BY FS_Subset, FS_CardinalityType
<1>3. PICK f \in [SUBSET S -> Int] : \A s \in SUBSET S : f[s] = SumRound(w, f, s)
  <2>1. UpTo(S, n) = SUBSET S
    BY <1>1 DEF UpTo
  <2> HIDE DEF n
  <2>2. \E it \in [UpTo(S, n) -> Int] : \A s \in UpTo(S, n) : it[s] = SumRound(w, it, s)
    BY <1>1, SumsOfSize
  <2>3. QED
    BY <2>1, <2>2
<1> DEFINE it == Sums(w, S)
<1>4. it = [s \in SUBSET S |-> SumRound(w, it, s)]
  <2>1. f = [s \in SUBSET S |-> SumRound(w, f, s)]
    BY <1>3
  <2> DEFINE eqn(g) == g = [s \in SUBSET S |-> SumRound(w, g, s)]
  <2>2. it = CHOOSE g : eqn(g)
    BY DEF Sums
  <2>3. \E g : eqn(g)
    BY <2>1
  <2> HIDE DEF eqn, it
  <2>4. eqn(it)
    BY <2>2, <2>3
  <2>5. QED
    BY <2>4 DEF eqn
<1> HIDE DEF it
<1>5. \A s \in SUBSET S : it[s] = SumRound(w, it, s)
  BY <1>4
<1>6. \A s \in SUBSET S : it[s] \in Int
  <2> DEFINE F == {s \in SUBSET S : it[s] \in Int}
  <2>1. ASSUME NEW s \in SUBSET S, \A x \in s : s \ {x} \in F PROVE s \in F
    <3>1. it[s] = SumRound(w, it, s)
      BY <1>5
    <3>2. ASSUME s # {} PROVE w[Pick(s)] \in Int /\ it[s \ {Pick(s)}] \in Int
      BY <2>1, <3>2, PickInSet
    <3>3. QED
      BY <3>1, <3>2 DEF SumRound
  <2> HIDE DEF F
  <2>2. \A s \in SUBSET S : s \in F
    BY <2>1, SmallerSets
  <2>3. QED
    BY <2>2 DEF F
<1>7. QED
  BY <1>4, <1>5, <1>6 DEF it

\* The sum over a set, from the sum without the element taken first.
LEMMA SumStep ==
  ASSUME NEW S, IsFiniteSet(S), NEW w, \A x \in S : w[x] \in Int
  PROVE  /\ SumFunctionOnSet(w, S) \in Int
         /\ SumFunctionOnSet(w, {}) = 0
         /\ S # {} => SumFunctionOnSet(w, S) = w[Pick(S)] + SumFunctionOnSet(w, S \ {Pick(S)})
<1>1. SumFunctionOnSet(w, S) \in Int
  BY SumIsRecursive, SumsDefined
<1>2. SumFunctionOnSet(w, {}) = 0
  <2>1. IsFiniteSet({}) /\ {} \in SUBSET {}
    BY FS_EmptySet
  <2>2. Sums(w, {})[{}] = SumRound(w, Sums(w, {}), {})
    BY <2>1, SumsDefined
  <2>3. QED
    BY <2>2, SumIsRecursive DEF SumRound
<1>3. ASSUME S # {} PROVE SumFunctionOnSet(w, S) = w[Pick(S)] + SumFunctionOnSet(w, S \ {Pick(S)})
  <2> DEFINE T == S \ {Pick(S)}
             f == Sums(w, S)
             g == Sums(w, T)
  <2>1. T \subseteq S /\ IsFiniteSet(T)
    BY FS_Subset
  <2>2. \A s \in SUBSET S : f[s] = SumRound(w, f, s)
    BY SumsDefined
  <2>3. \A s \in SUBSET T : g[s] = SumRound(w, g, s)
    <3> HIDE DEF T
    <3>1. QED
      BY <2>1, SumsDefined
  <2> HIDE DEF f, g
  <2> DEFINE F == {s \in SUBSET T : f[s] = g[s]}
  <2>4. ASSUME NEW s \in SUBSET T, \A x \in s : s \ {x} \in F PROVE s \in F
    <3>1. s \in SUBSET S
      BY <2>1
    <3> HIDE DEF T
    <3>2. QED
      BY <2>2, <2>3, <2>4, <3>1, PickInSet DEF SumRound
  <2>5. \A s \in SUBSET T : s \in F
    <3> HIDE DEF F, T
    <3>1. QED
      BY <2>1, <2>4, SmallerSets
  <2>6. f[T] = g[T] /\ f[S] = w[Pick(S)] + f[T]
    BY <1>3, <2>2, <2>5 DEF SumRound
  <2>7. SumFunctionOnSet(w, S) = f[S] /\ SumFunctionOnSet(w, T) = g[T]
    BY SumIsRecursive DEF f, g
  <2>8. QED
    BY <2>6, <2>7
<1>4. QED
  BY <1>1, <1>2, <1>3

\* One element more.
LEMMA SumAdd ==
  ASSUME NEW S, IsFiniteSet(S), NEW w, \A x \in S : w[x] \in Int, NEW y, y \notin S, w[y] \in Int
  PROVE  SumFunctionOnSet(w, S \cup {y}) = SumFunctionOnSet(w, S) + w[y]
<1> DEFINE U == S \cup {y}
           sum(s) == SumFunctionOnSet(w, s)
           F == {s \in SUBSET U : \A x \in U \ s : sum(s \cup {x}) = sum(s) + w[x]}
<1>1. IsFiniteSet(U) /\ \A x \in U : w[x] \in Int
  BY FS_AddElement
<1> HIDE DEF U
<1>2. ASSUME NEW s \in SUBSET U
      PROVE  /\ sum(s) \in Int
             /\ s # {} => sum(s) = w[Pick(s)] + sum(s \ {Pick(s)}) /\ Pick(s) \in s
  BY <1>1, FS_Subset, SumStep, PickInSet
<1> HIDE DEF sum
<1>3. ASSUME NEW s \in SUBSET U, \A x \in s : s \ {x} \in F PROVE s \in F
  <2> SUFFICES ASSUME NEW x \in U \ s PROVE sum(s \cup {x}) = sum(s) + w[x]
    OBVIOUS
  <2> DEFINE T == s \cup {x}
             z == Pick(T)
  <2>1. T \in SUBSET U /\ z \in T /\ sum(T) = w[z] + sum(T \ {z})
    BY <1>2
  <2> HIDE DEF z
  <2>2. CASE z = x
    <3>1. T \ {z} = s
      BY <2>2
    <3>2. w[z] \in Int /\ sum(s) \in Int
      BY <1>1, <1>2, <2>2
    <3>3. sum(T) = w[x] + sum(s)
      BY <2>1, <2>2, <3>1
    <3> HIDE DEF T
    <3>4. sum(T) = sum(s) + w[x]
      BY <2>2, <3>2, <3>3
    <3>5. QED
      BY <3>4 DEF T
  <2>3. CASE z # x
    <3> DEFINE t == s \ {z}
    <3>1. z \in s /\ T \ {z} = t \cup {x} /\ x \in U \ t /\ z \in U \ t /\ t \cup {z} = s
      BY <2>1, <2>3
    <3>2. t \in F
      BY <1>3, <3>1
    <3>3. sum(t \cup {x}) = sum(t) + w[x] /\ sum(t \cup {z}) = sum(t) + w[z]
      BY <3>1, <3>2
    <3>4. w[z] \in Int /\ w[x] \in Int /\ sum(t) \in Int
      BY <1>1, <1>2, <3>1
    <3>5. sum(T) = w[z] + (sum(t) + w[x]) /\ sum(s) = sum(t) + w[z]
      BY <2>1, <3>1, <3>3
    <3>6. sum(T) = sum(s) + w[x]
      <4> HIDE DEF t, T
      <4>1. QED
        BY <3>4, <3>5
    <3>7. QED
      BY <3>6
  <2>4. QED
    BY <2>2, <2>3
<1>4. S \in F
  <2> HIDE DEF F
  <2>1. \A s \in SUBSET U : s \in F
    BY <1>1, <1>3, SmallerSets
  <2>2. QED
    BY <2>1 DEF U
<1>5. QED
  BY <1>4 DEF sum, U

\* The sum depends on the weights of the elements of the set alone.
LEMMA SumSame ==
  ASSUME NEW S, IsFiniteSet(S), NEW w, NEW v, \A x \in S : w[x] \in Int /\ v[x] = w[x]
  PROVE  SumFunctionOnSet(v, S) = SumFunctionOnSet(w, S)
<1> DEFINE F == {s \in SUBSET S : SumFunctionOnSet(v, s) = SumFunctionOnSet(w, s)}
<1>1. ASSUME NEW s \in SUBSET S, \A x \in s : s \ {x} \in F PROVE s \in F
  <2>1. IsFiniteSet(s) /\ \A x \in s : w[x] \in Int /\ v[x] \in Int /\ v[x] = w[x]
    BY FS_Subset
  <2>2. CASE s = {}
    BY <2>1, <2>2, SumStep
  <2>3. CASE s # {}
    <3>1. Pick(s) \in s /\ s \ {Pick(s)} \in F
      BY <1>1, <2>3, PickInSet
    <3>2. /\ SumFunctionOnSet(v, s) = v[Pick(s)] + SumFunctionOnSet(v, s \ {Pick(s)})
          /\ SumFunctionOnSet(w, s) = w[Pick(s)] + SumFunctionOnSet(w, s \ {Pick(s)})
      BY <2>1, <2>3, SumStep
    <3>3. QED
      BY <2>1, <3>1, <3>2
  <2>4. QED
    BY <2>2, <2>3
<1>2. \A s \in SUBSET S : s \in F
  <2> HIDE DEF F
  <2>1. QED
    BY <1>1, SmallerSets
<1>3. QED
  BY <1>2

\* Leaving elements out does not make a sum of natural numbers greater.
LEMMA SumOfPart ==
  ASSUME NEW S, IsFiniteSet(S), NEW T \in SUBSET S, NEW w, \A x \in S : w[x] \in Nat
  PROVE  0 <= SumFunctionOnSet(w, T) /\ SumFunctionOnSet(w, T) <= SumFunctionOnSet(w, S)
<1>0. \A x \in S : w[x] \in Int /\ 0 <= w[x]
  OBVIOUS
<1>1. ASSUME NEW U \in SUBSET S, NEW V \in SUBSET U
      PROVE  SumFunctionOnSet(w, V) <= SumFunctionOnSet(w, U)
  <2> DEFINE sum(s) == SumFunctionOnSet(w, s)
             F == {s \in SUBSET (U \ V) : sum(V) <= sum(V \cup s)}
  <2>1. \A s \in SUBSET S : IsFiniteSet(s) /\ sum(s) \in Int
    BY <1>0, FS_Subset, SumStep
  <2>2. ASSUME NEW s \in SUBSET (U \ V), \A x \in s : s \ {x} \in F PROVE s \in F
    <3>1. CASE s = {}
      <4>1. V \cup s = V /\ sum(V) \in Int
        BY <2>1, <3>1
      <4> HIDE DEF sum
      <4>2. QED
        BY <4>1
    <3>2. ASSUME NEW y \in s PROVE s \in F
      <4> DEFINE Z == V \cup (s \ {y})
      <4>1. Z \in SUBSET S /\ y \notin Z /\ V \cup s = Z \cup {y} /\ y \in S
        OBVIOUS
      <4>2. IsFiniteSet(Z) /\ \A x \in Z : w[x] \in Int
        BY <1>0, <2>1, <4>1
      <4>3. sum(Z \cup {y}) = sum(Z) + w[y]
        <5> HIDE DEF Z
        <5>1. QED
          BY <1>0, <4>1, <4>2, SumAdd
      <4>4. sum(V) <= sum(Z)
        BY <2>2
      <4>5. sum(V) \in Int /\ sum(Z) \in Int /\ w[y] \in Int /\ 0 <= w[y]
        BY <1>0, <2>1, <4>1
      <4> HIDE DEF sum, Z
      <4>6. sum(V) <= sum(V \cup s)
        BY <4>1, <4>3, <4>4, <4>5
      <4>7. QED
        BY <4>6
    <3>3. QED
      BY <3>1, <3>2
  <2>3. U \ V \in F
    <3> DEFINE D == U \ V
    <3>1. IsFiniteSet(D) /\ \A s \in SUBSET D : (\A x \in s : s \ {x} \in F) => s \in F
      BY <2>1, <2>2
    <3> HIDE DEF F, D
    <3>2. \A s \in SUBSET D : s \in F
      BY <3>1, SmallerSets
    <3>3. D \in F
      BY <3>2
    <3>4. QED
      BY <3>3 DEF D
  <2>4. V \cup (U \ V) = U
    OBVIOUS
  <2>5. QED
    BY <2>3, <2>4
<1>2. SumFunctionOnSet(w, {}) = 0
  BY <1>0, SumStep
<1>3. QED
  BY <1>1, <1>2

\* The elements of a set may be renamed.
LEMMA SumRenamed ==
  ASSUME NEW S, IsFiniteSet(S), NEW h, \A x, y \in S : h[x] = h[y] => x = y,
         NEW w, NEW v, \A x \in S : w[x] \in Int /\ v[h[x]] = w[x]
  PROVE  SumFunctionOnSet(w, S) = SumFunctionOnSet(v, {h[x] : x \in S})
<1> DEFINE image(s) == {h[x] : x \in s}
           F == {s \in SUBSET S :
                   IsFiniteSet(image(s)) /\ SumFunctionOnSet(w, s) = SumFunctionOnSet(v, image(s))}
<1>1. ASSUME NEW s \in SUBSET S, \A x \in s : s \ {x} \in F PROVE s \in F
  <2>1. CASE s = {}
    <3>1. image(s) = {}
      BY <2>1
    <3>2. SumFunctionOnSet(w, {}) = 0
      BY SumStep
    <3>3. SumFunctionOnSet(v, {}) = 0
      <4>1. IsFiniteSet({}) /\ \A x \in {} : v[x] \in Int
        BY FS_EmptySet
      <4>2. QED
        BY <4>1, SumStep
    <3>4. IsFiniteSet(image(s))
      BY <3>1, FS_EmptySet
    <3>5. QED
      BY <2>1, <3>1, <3>2, <3>3, <3>4
  <2>2. ASSUME NEW y \in s PROVE s \in F
    <3> DEFINE t == s \ {y}
    <3>1. t \in SUBSET S /\ y \notin t /\ s = t \cup {y} /\ IsFiniteSet(t) /\ t \in F
      BY <1>1, FS_Subset
    <3>2. image(s) = image(t) \cup {h[y]} /\ h[y] \notin image(t)
      OBVIOUS
    <3>3. IsFiniteSet(image(t)) /\ (\A x \in image(t) : v[x] \in Int) /\ v[h[y]] \in Int
      <4> HIDE DEF t
      <4>1. QED
        BY <3>1
    <3>4. /\ IsFiniteSet(image(t) \cup {h[y]})
          /\ SumFunctionOnSet(v, image(t) \cup {h[y]}) = SumFunctionOnSet(v, image(t)) + v[h[y]]
      <4> DEFINE J == image(t)
                 z == h[y]
      <4>1. IsFiniteSet(J) /\ (\A x \in J : v[x] \in Int) /\ v[z] \in Int /\ z \notin J
        BY <3>2, <3>3
      <4> HIDE DEF J, z
      <4>2. IsFiniteSet(J \cup {z}) /\ SumFunctionOnSet(v, J \cup {z}) = SumFunctionOnSet(v, J) + v[z]
        BY <4>1, SumAdd, FS_AddElement
      <4>3. QED
        BY <4>2 DEF J, z
    <3>5. SumFunctionOnSet(w, t \cup {y}) = SumFunctionOnSet(w, t) + w[y]
      <4> HIDE DEF t
      <4>1. QED
        BY <3>1, SumAdd
    <3>6. SumFunctionOnSet(w, t) = SumFunctionOnSet(v, image(t)) /\ v[h[y]] = w[y]
      BY <3>1
    <3> HIDE DEF image, t
    <3>7. SumFunctionOnSet(w, s) = SumFunctionOnSet(v, image(s))
      BY <3>1, <3>2, <3>4, <3>5, <3>6
    <3>8. QED
      BY <3>2, <3>4, <3>7
  <2>3. QED
    BY <2>1, <2>2
<1>2. S \in F
  <2> HIDE DEF F
  <2>1. \A s \in SUBSET S : s \in F
    BY <1>1, SmallerSets
  <2>2. QED
    BY <2>1
<1>3. QED
  BY <1>2

\* As many images as elements at most.
LEMMA ImageFinite ==
  ASSUME NEW S, IsFiniteSet(S), NEW h PROVE IsFiniteSet({h[x] : x \in S})
<1> DEFINE T == {h[x] : x \in S}
           g == [x \in S |-> h[x]]
<1>1. g \in Surjection(S, T)
  BY DEF Surjection
<1>2. QED
  <2> HIDE DEF T, g
  <2>1. IsFiniteSet(T)
    BY <1>1, FS_Surjection
  <2>2. QED
    BY <2>1 DEF T

\* A file has finitely many entries and pages.
LEMMA FileFinite ==
  ASSUME NEW f, IsFile(f)
  PROVE  IsFiniteSet(SlotEntries(f)) /\ IsFiniteSet(AllEntries(f)) /\ IsFiniteSet(AllPages(f))
<1>1. f.slots \in Seq(Entry) /\ DOMAIN f.slots = 1..Len(f.slots) /\ Len(f.slots) \in Nat
  BY LenProperties DEF IsFile
<1>2. IsFiniteSet(DOMAIN f.slots)
  <2> DEFINE n == Len(f.slots)
  <2>1. n \in Nat /\ DOMAIN f.slots = 1..n
    BY <1>1
  <2> HIDE DEF n
  <2>2. IsFiniteSet(1..n)
    BY <2>1, FS_Interval
  <2>3. QED
    BY <2>1, <2>2
<1>3. IsFiniteSet(SlotEntries(f))
  <2> DEFINE h == f.slots
             S == DOMAIN f.slots
  <2>1. IsFiniteSet(S) /\ SlotEntries(f) = {h[x] : x \in S}
    BY <1>2 DEF SlotEntries
  <2> HIDE DEF h, S
  <2>2. QED
    BY <2>1, ImageFinite
<1>4. IsFiniteSet(AllEntries(f))
  <2>1. AllEntries(f) \subseteq SlotEntries(f)
    BY PageOfFile DEF AllEntries
  <2>2. QED
    BY <1>3, <2>1, FS_Subset
<1>5. IsFiniteSet(PageRefs(f))
  <2> DEFINE h == [e \in SlotEntries(f) |-> PageOf(e)]
             S == PagePointers(f)
             T == {h[x] : x \in S}
             r == RootPage(f)
  <2>1. S \in SUBSET SlotEntries(f) /\ T = {PageOf(e) : e \in S}
    BY DEF PagePointers
  <2>2. PageRefs(f) = {r} \cup T
    BY <2>1 DEF PageRefs
  <2>3. IsFiniteSet(S)
    BY <1>3, <2>1, FS_Subset
  <2> HIDE DEF h, S
  <2>4. IsFiniteSet(T)
    BY <2>3, ImageFinite
  <2> HIDE DEF T, r
  <2>5. IsFiniteSet(T \cup {r})
    BY <2>4, FS_AddElement
  <2>6. T \cup {r} = {r} \cup T
    OBVIOUS
  <2>7. QED
    BY <2>2, <2>5, <2>6
<1>6. IsFiniteSet(AllPages(f))
  <2>1. AllPages(f) \in SUBSET PageRefs(f)
    BY DEF AllPages, LeadTo
  <2>2. QED
    BY <1>5, <2>1, FS_Subset
<1>7. QED
  BY <1>3, <1>4, <1>6

\* Elements of a list that are all different stay so when the first is taken.
LEMMA InjectiveTail ==
  ASSUME NEW S, NEW s \in Seq(S), s # <<>>, IsInjective(s)
  PROVE  IsInjective(Tail(s)) /\ Head(s) \notin Range(Tail(s))
<1> DEFINE t == Tail(s)
<1>1. t \in Seq(S) /\ Len(t) = Len(s) - 1 /\ \A i \in 1..Len(t) : t[i] = s[i + 1]
  BY HeadTailProperties
<1>2. Len(s) \in Nat \ {0} /\ DOMAIN s = 1..Len(s) /\ DOMAIN t = 1..Len(t) /\ Head(s) = s[1]
  BY <1>1, EmptySeq, LenProperties
<1>3. Range(t) = {t[i] : i \in 1..Len(t)}
  BY <1>1, RangeEquality
<1> HIDE DEF t
<1>4. \A i, j \in 1..Len(s) : s[i] = s[j] => i = j
  BY <1>2 DEF IsInjective
<1>5. \A i \in 1..Len(t) : i + 1 \in 1..Len(s) /\ i + 1 # 1 /\ 1 \in 1..Len(s)
  BY <1>1, <1>2
<1>6. IsInjective(t)
  <2> SUFFICES ASSUME NEW i \in 1..Len(t), NEW j \in 1..Len(t), t[i] = t[j] PROVE i = j
    BY <1>2 DEF IsInjective
  <2>1. i + 1 = j + 1
    BY <1>1, <1>4, <1>5
  <2>2. QED
    BY <2>1
<1>7. Head(s) \notin Range(t)
  BY <1>1, <1>2, <1>3, <1>4, <1>5
<1>8. QED
  BY <1>6, <1>7 DEF t

\* The bytes of a list of pages that gets one page more.
LEMMA BytesOfAppend ==
  ASSUME NEW r \in Seq(PageRange), NEW p \in PageRange
  PROVE  LET bytes(s) == SumFunction([i \in DOMAIN s |-> s[i][2]]) IN
         bytes(r) \in Int /\ bytes(Append(r, p)) = bytes(r) + p[2]
<1> DEFINE t == Append(r, p)
           n == Len(r)
           w == [i \in DOMAIN r |-> r[i][2]]
           v == [i \in DOMAIN t |-> t[i][2]]
<1>1. n \in Nat /\ DOMAIN r = 1..n
  BY LenProperties
<1>2. /\ t \in Seq(PageRange) /\ Len(t) = n + 1 /\ t[n + 1] = p
      /\ \A i \in 1..n : t[i] = r[i]
  BY AppendProperties
<1>3. DOMAIN t = 1..n \cup {n + 1} /\ n + 1 \notin 1..n
  BY <1>1, <1>2, LenProperties
<1>4. \A i \in 1..n : r[i] \in PageRange /\ r[i][2] \in Int
  BY <1>1, ElementOfSeq DEF PageRange
<1>5. p[2] \in Int
  BY DEF PageRange
<1> HIDE DEF t, n
<1>6. /\ DOMAIN w = 1..n /\ DOMAIN v = 1..n \cup {n + 1}
      /\ \A i \in 1..n : w[i] \in Int /\ v[i] = w[i]
      /\ v[n + 1] = p[2]
  BY <1>1, <1>2, <1>3, <1>4
<1> HIDE DEF w, v
<1>7. IsFiniteSet(1..n)
  BY <1>1, FS_Interval
<1>8. SumFunctionOnSet(w, 1..n) \in Int
  BY <1>6, <1>7, SumStep
<1>9. SumFunctionOnSet(v, 1..n) = SumFunctionOnSet(w, 1..n)
  BY <1>6, <1>7, SumSame
<1>10. SumFunctionOnSet(v, 1..n \cup {n + 1}) = SumFunctionOnSet(v, 1..n) + v[n + 1]
  <2> DEFINE S == 1..n
             y == n + 1
  <2>1. IsFiniteSet(S) /\ (\A x \in S : v[x] \in Int) /\ y \notin S /\ v[y] \in Int
    BY <1>3, <1>5, <1>6, <1>7
  <2> HIDE DEF S, y
  <2>2. SumFunctionOnSet(v, S \cup {y}) = SumFunctionOnSet(v, S) + v[y]
    BY <2>1, SumAdd
  <2>3. QED
    BY <2>2 DEF S, y
<1>11. SumFunction(w) \in Int /\ SumFunction(v) = SumFunction(w) + p[2]
  BY <1>6, <1>8, <1>9, <1>10 DEF SumFunction
<1>12. QED
  BY <1>11 DEF w, v, t

\* No pages have no bytes.
LEMMA BytesOfNone == SumFunction([i \in DOMAIN <<>> |-> <<>>[i][2]]) = 0
<1> DEFINE w == [i \in DOMAIN <<>> |-> <<>>[i][2]]
<1>1. DOMAIN w = {} /\ IsFiniteSet({})
  BY FS_EmptySet
<1> HIDE DEF w
<1>2. SumFunctionOnSet(w, {}) = 0
  BY <1>1, SumStep
<1>3. QED
  BY <1>1, <1>2 DEF SumFunction, w

-----------------------------------------------------------------------------
(***************************************************************************)
(* Subtrees.  A voxel lies inside every voxel above it, so a query that    *)
(* may want something in a page may want it from every page on the way.    *)
(***************************************************************************)
\* A set has twice as many subsets when it has one element more.
LEMMA PowerDoubles ==
  ASSUME NEW n \in Nat PROVE 2 ^ n \in Nat \ {0} /\ 2 ^ (n + 1) = 2 * 2 ^ n
<1> DEFINE S == 1..n
           A == SUBSET S
           x == n + 1
           B == {s \cup {x} : s \in A}
           f == [s \in A |-> s \cup {x}]
<1>1. IsFiniteSet(S) /\ Cardinality(S) = n
  BY FS_Interval
<1>2. IsFiniteSet(A) /\ Cardinality(A) = 2 ^ n
  BY <1>1, FS_SUBSET
<1>3. 1..(n + 1) = S \cup {x} /\ x \notin S
  OBVIOUS
<1>4. IsFiniteSet(S \cup {x}) /\ Cardinality(S \cup {x}) = n + 1
  BY <1>1, <1>3, FS_AddElement
<1>5. IsFiniteSet(SUBSET (S \cup {x})) /\ Cardinality(SUBSET (S \cup {x})) = 2 ^ (n + 1)
  BY <1>4, FS_SUBSET
<1> HIDE DEF S, x
<1>6. SUBSET (S \cup {x}) = A \cup B
  <2>1. \A t \in SUBSET (S \cup {x}) : t \in A \cup B
    <3> TAKE t \in SUBSET (S \cup {x})
    <3>1. CASE x \in t
      <4>1. t \ {x} \in A /\ t = (t \ {x}) \cup {x}
        BY <3>1
      <4>2. QED
        BY <4>1
    <3>2. CASE x \notin t
      BY <3>2
    <3>3. QED
      BY <3>1, <3>2
  <2>2. QED
    BY <2>1
<1>7. A \cap B = {}
  BY <1>3
<1>8. f \in Bijection(A, B)
  <2>1. \A s, t \in A : s \cup {x} = t \cup {x} => s = t
    BY <1>3
  <2>2. \A s \in A : s \cup {x} \in B
    OBVIOUS
  <2>3. \A b \in B : \E s \in A : s \cup {x} = b
    OBVIOUS
  <2> HIDE DEF A, B
  <2>4. f \in [A -> B] /\ \A s \in A : f[s] = s \cup {x}
    BY <2>2
  <2> HIDE DEF f
  <2>5. \A s, t \in A : f[s] = f[t] => s = t
    BY <2>1, <2>4
  <2>6. \A b \in B : \E s \in A : f[s] = b
    BY <2>3, <2>4
  <2>7. QED
    BY <2>4, <2>5, <2>6, Fun_IsBij
<1>9. IsFiniteSet(B) /\ Cardinality(B) = Cardinality(A)
  BY <1>2, <1>8, FS_Bijection DEF ExistsBijection
<1> HIDE DEF A, B
<1>10. 2 ^ (n + 1) = 2 ^ n + 2 ^ n
  <2>1. Cardinality(A \cap B) = 0
    BY <1>7, FS_EmptySet
  <2>2. Cardinality(A) \in Nat
    BY <1>2, FS_CardinalityType
  <2>3. Cardinality(A \cup B) = Cardinality(A) + Cardinality(B) - Cardinality(A \cap B)
    BY <1>2, <1>9, FS_Union
  <2>4. Cardinality(A \cup B) = Cardinality(A) + Cardinality(A)
    BY <1>9, <2>1, <2>2, <2>3
  <2>5. QED
    BY <1>2, <1>5, <1>6, <2>4
<1>11. 2 ^ n \in Nat
  BY <1>2, FS_CardinalityType
<1>12. 2 ^ n # 0
  <2>1. {} \in A
    BY DEF A
  <2>2. QED
    BY <1>2, <2>1, FS_EmptySet
<1>13. QED
  BY <1>10, <1>11, <1>12

\* A quotient is known by the multiples it lies between.
LEMMA Quotient ==
  ASSUME NEW x \in Int, NEW d \in Nat \ {0}, NEW q \in Int
  PROVE  x \div d = q <=> q * d <= x /\ x < (q + 1) * d
<1>1. (x \div d) * d <= x /\ x < ((x \div d) + 1) * d /\ x \div d \in Int
  BY Z3
<1> DEFINE y == x \div d
<1> HIDE DEF y
<1>2. ASSUME q * d <= x, x < (q + 1) * d, y \in Int, y * d <= x, x < (y + 1) * d PROVE y = q
  <2>1. CASE y < q
    <3>1. (y + 1) * d <= q * d
      BY <1>2, <2>1
    <3>2. QED
      BY <1>2, <3>1
  <2>2. CASE q < y
    <3>1. (q + 1) * d <= y * d
      BY <1>2, <2>2
    <3>2. QED
      BY <1>2, <3>1
  <2>3. QED
    BY <1>2, <2>1, <2>2
<1>3. QED
  BY <1>1, <1>2 DEF y

LEMMA PowerAdds == \A a, b \in Nat : 2 ^ (a + b) = 2 ^ a * 2 ^ b
<1> SUFFICES ASSUME NEW a \in Nat PROVE \A b \in Nat : 2 ^ (a + b) = 2 ^ a * 2 ^ b
  OBVIOUS
<1> DEFINE Wrong == {b \in Nat : 2 ^ (a + b) # 2 ^ a * 2 ^ b}
<1>1. SUFFICES ASSUME Wrong # {} PROVE FALSE
  OBVIOUS
<1>2. Wrong \subseteq Nat
  OBVIOUS
<1>3. PICK b \in Wrong : \A n \in Wrong : b <= n
  <2> HIDE DEF Wrong
  <2>1. QED
    BY <1>1, <1>2, LeastElement
<1>4. b # 0
  <2>1. 2 ^ a \in Nat
    BY PowerDoubles
  <2>2. a + 0 = a /\ 2 ^ 0 = 1 /\ 2 ^ a * 1 = 2 ^ a
    BY <2>1
  <2>3. QED
    BY <2>2
<1> DEFINE c == b - 1
<1>5. c \in Nat /\ b = c + 1 /\ ~(b <= c)
  BY <1>4
<1> HIDE DEF c
<1>6. 2 ^ (a + c) = 2 ^ a * 2 ^ c
  BY <1>3, <1>5
<1>7. a + b = (a + c) + 1 /\ a + c \in Nat
  BY <1>5
<1>8. 2 ^ (a + b) = 2 * 2 ^ (a + c) /\ 2 ^ b = 2 * 2 ^ c /\ 2 ^ a \in Nat /\ 2 ^ c \in Nat
  BY <1>5, <1>7, PowerDoubles
<1> DEFINE A == 2 ^ a
           C == 2 ^ c
<1>9. A \in Nat /\ C \in Nat /\ 2 ^ (a + b) = 2 * (A * C) /\ 2 ^ b = 2 * C
  BY <1>6, <1>8
<1> HIDE DEF A, C
<1>10. 2 * (A * C) = A * (2 * C)
  BY <1>9
<1>11. QED
  BY <1>9, <1>10 DEF A

\* How far apart the levels of a voxel and of one above it are.
LEMMA SubtreePower ==
  ASSUME NEW d \in Key, NEW k \in Key, InSubtree(d, k)
  PROVE  /\ d.level - k.level \in Nat /\ 2 ^ (d.level - k.level) \in Nat \ {0}
         /\ \A a \in Axis :
              /\ k.pos[a] * 2 ^ (d.level - k.level) <= d.pos[a]
              /\ d.pos[a] < (k.pos[a] + 1) * 2 ^ (d.level - k.level)
<1> DEFINE e == d.level - k.level
           P == 2 ^ e
<1>1. e \in Nat
  BY DEF InSubtree, Key
<1>2. P \in Nat \ {0}
  BY <1>1, PowerDoubles
<1>3. ASSUME NEW a \in Axis PROVE k.pos[a] * P <= d.pos[a] /\ d.pos[a] < (k.pos[a] + 1) * P
  <2>1. d.pos[a] \in Int /\ k.pos[a] \in Int /\ d.pos[a] \div P = k.pos[a]
    BY DEF InSubtree, Key
  <2> HIDE DEF P
  <2>2. QED
    BY <1>2, <2>1, Quotient
<1>4. QED
  BY <1>1, <1>2, <1>3

LEMMA SubtreeTransitive ==
  ASSUME NEW c \in Key, NEW d \in Key, NEW k \in Key, InSubtree(c, d), InSubtree(d, k)
  PROVE  InSubtree(c, k)
<1> DEFINE P == 2 ^ (c.level - d.level)
           Q == 2 ^ (d.level - k.level)
<1>1. /\ P \in Nat \ {0} /\ Q \in Nat \ {0}
      /\ c.level - d.level \in Nat /\ d.level - k.level \in Nat
  BY SubtreePower
<1>2. /\ (c.level - d.level) + (d.level - k.level) = c.level - k.level
      /\ c.level >= k.level
  BY <1>1 DEF Key
<1>3. 2 ^ (c.level - k.level) = P * Q
  BY <1>1, <1>2, PowerAdds
<1>4. ASSUME NEW a \in Axis PROVE c.pos[a] \div (P * Q) = k.pos[a]
  <2> DEFINE x == c.pos[a]
             y == d.pos[a]
             z == k.pos[a]
  <2>1. x \in Int /\ y \in Int /\ z \in Int
    BY DEF Key
  <2>2. y * P <= x /\ x < (y + 1) * P /\ z * Q <= y /\ y < (z + 1) * Q
    BY SubtreePower
  <2> HIDE DEF x, y, z, P, Q
  <2>3. P * Q \in Nat \ {0} /\ y + 1 <= (z + 1) * Q
    BY <1>1, <2>1, <2>2
  <2>4. (z * Q) * P <= y * P /\ (y + 1) * P <= ((z + 1) * Q) * P
    BY <1>1, <2>1, <2>2, <2>3
  <2>5. (z * Q) * P = z * (P * Q) /\ ((z + 1) * Q) * P = (z + 1) * (P * Q)
    BY <1>1, <2>1
  <2> DEFINE D == P * Q
  <2>6. D \in Nat \ {0} /\ z * D <= x /\ x < (z + 1) * D
    <3> DEFINE u == z * D
               v == (z + 1) * D
               m == y * P
               n == (y + 1) * P
    <3>1. u \in Int /\ v \in Int /\ m \in Int /\ n \in Int
      BY <1>1, <2>1, <2>3
    <3>2. u <= m /\ m <= x /\ x < n /\ n <= v
      BY <2>2, <2>4, <2>5
    <3> HIDE DEF u, v, m, n
    <3>3. u <= x /\ x < v
      BY <2>1, <3>1, <3>2
    <3>4. QED
      BY <2>3, <3>3 DEF u, v
  <2> HIDE DEF D
  <2>7. x \div D = z
    BY <2>1, <2>6, Quotient
  <2>8. QED
    BY <2>7 DEF D, x, z
<1>5. QED
  BY <1>2, <1>3, <1>4 DEF InSubtree

\* A voxel lies inside the voxels above it, when halving leaves no remainder.
LEMMA VoxelInside ==
  ASSUME RootSide \in Nat, NEW c \in Key, NEW k \in Key, InSubtree(c, k),
         k.level >= 0, RootSide % 2 ^ c.level = 0
  PROVE  \A a \in Axis :
           /\ VoxelBounds(k).min[a] \in Int /\ VoxelBounds(k).max[a] \in Int
           /\ VoxelBounds(c).min[a] \in Int /\ VoxelBounds(c).max[a] \in Int
           /\ VoxelBounds(k).min[a] <= VoxelBounds(c).min[a]
           /\ VoxelBounds(c).max[a] <= VoxelBounds(k).max[a]
<1> DEFINE P == 2 ^ (c.level - k.level)
           K == 2 ^ k.level
           s == RootSide \div 2 ^ c.level
<1>1. P \in Nat \ {0} /\ c.level - k.level \in Nat
  BY SubtreePower
<1>2. k.level \in Nat /\ c.level \in Nat /\ k.level + (c.level - k.level) = c.level
  BY <1>1 DEF Key
<1>3. K \in Nat \ {0} /\ 2 ^ c.level \in Nat \ {0}
  BY <1>2, PowerDoubles
<1>4. 2 ^ c.level = K * P
  BY <1>1, <1>2, PowerAdds
<1>5. s \in Nat /\ RootSide = 2 ^ c.level * s
  <2> DEFINE C == 2 ^ c.level
  <2>1. C \in Nat \ {0} /\ RootSide % C = 0
    BY <1>3
  <2> HIDE DEF C
  <2>2. RootSide \div C \in Nat /\ RootSide = C * (RootSide \div C)
    BY <2>1, Z3
  <2>3. QED
    BY <2>2 DEF C
<1> HIDE DEF s, P, K
<1>6. RootSide = (s * P) * K
  BY <1>1, <1>3, <1>4, <1>5
<1>7. VoxelSide(c.level) = s
  BY DEF VoxelSide, VoxelsPerAxis, s
<1>8. VoxelSide(k.level) = s * P
  <2> DEFINE t == s * P
  <2>1. t \in Nat /\ t * K <= RootSide /\ RootSide < (t + 1) * K
    <3>1. t \in Nat
      BY <1>1, <1>5
    <3> HIDE DEF t
    <3>2. (t + 1) * K = t * K + K /\ t * K \in Nat
      BY <1>3, <3>1
    <3>3. RootSide = t * K
      BY <1>6 DEF t
    <3>4. QED
      BY <1>3, <3>1, <3>2, <3>3
  <2> HIDE DEF t
  <2>2. RootSide \div K = t
    <3> DEFINE x == RootSide
    <3>1. x \in Int /\ t \in Int /\ K \in Nat \ {0} /\ t * K <= x /\ x < (t + 1) * K
      BY <1>3, <2>1
    <3> HIDE DEF x
    <3>2. x \div K = t
      BY <3>1, Quotient
    <3>3. QED
      BY <3>2 DEF x
  <2>3. QED
    BY <2>2 DEF VoxelSide, VoxelsPerAxis, K, t
<1>9. ASSUME NEW a \in Axis
      PROVE  /\ k.pos[a] * (s * P) <= c.pos[a] * s
             /\ (c.pos[a] + 1) * s <= (k.pos[a] + 1) * (s * P)
             /\ k.pos[a] * (s * P) \in Int /\ c.pos[a] * s \in Int
             /\ (c.pos[a] + 1) * s \in Int /\ (k.pos[a] + 1) * (s * P) \in Int
  <2> DEFINE x == c.pos[a]
             q == k.pos[a]
  <2>1. x \in Int /\ q \in Int
    BY DEF Key
  <2>2. q * P <= x /\ x < (q + 1) * P
    BY SubtreePower DEF P
  <2> HIDE DEF x, q
  <2>3. (q * P) * s <= x * s /\ (x + 1) * s <= ((q + 1) * P) * s
    BY <1>1, <1>5, <2>1, <2>2
  <2>4. q * (s * P) = (q * P) * s /\ (q + 1) * (s * P) = ((q + 1) * P) * s
    BY <1>1, <1>5, <2>1
  <2>5. (q * P) * s \in Int /\ x * s \in Int /\ (x + 1) * s \in Int /\ ((q + 1) * P) * s \in Int
    BY <1>1, <1>5, <2>1
  <2>6. QED
    BY <2>3, <2>4, <2>5 DEF x, q
<1>10. QED
  BY <1>7, <1>8, <1>9 DEF VoxelBounds, Box

\* page_may_match above a key whose voxel the query's box touches.
LEMMA MayMatchAbove ==
  ASSUME RootSide \in Nat, NEW c \in Key, NEW k \in Key, InSubtree(c, k), c.level >= 0,
         RootSide % 2 ^ c.level = 0, NEW q,
         LevelMax(q.lod) \in Int, c.level < LevelMax(q.lod),
         q.bounds.kind = "within" =>
           \A a \in Axis : q.bounds.box.min[a] \in Int /\ q.bounds.box.max[a] \in Int,
         BoundsSelected(c, q.bounds)
  PROVE  PageMayMatch(k, q)
<1>1. k.level < LevelMax(q.lod)
  BY DEF InSubtree, Key
<1>2. ASSUME ValidKey(k), q.bounds.kind = "within" PROVE Intersects(VoxelBounds(k), q.bounds.box)
  <2>1. Intersects(VoxelBounds(c), q.bounds.box)
    BY <1>2 DEF BoundsSelected
  <2>2. k.level >= 0
    BY <1>2 DEF ValidKey
  <2>3. ASSUME NEW a \in Axis
        PROVE  /\ VoxelBounds(k).max[a] >= q.bounds.box.min[a]
               /\ VoxelBounds(k).min[a] <= q.bounds.box.max[a]
    <3>1. /\ VoxelBounds(k).min[a] \in Int /\ VoxelBounds(k).max[a] \in Int
          /\ VoxelBounds(c).min[a] \in Int /\ VoxelBounds(c).max[a] \in Int
          /\ VoxelBounds(k).min[a] <= VoxelBounds(c).min[a]
          /\ VoxelBounds(c).max[a] <= VoxelBounds(k).max[a]
      BY <2>2, VoxelInside
    <3>2. /\ VoxelBounds(c).max[a] >= q.bounds.box.min[a]
          /\ VoxelBounds(c).min[a] <= q.bounds.box.max[a]
      BY <2>1 DEF Intersects
    <3>3. q.bounds.box.min[a] \in Int /\ q.bounds.box.max[a] \in Int
      BY <1>2
    <3>4. QED
      BY <3>1, <3>2, <3>3
  <2>4. QED
    BY <2>3 DEF Intersects
<1>3. QED
  BY <1>1, <1>2 DEF PageMayMatch, BoundsSelected

\* In a file whose pages hold subtrees, a page with something the query may
\* want at key c, or above c, is reached through pointers it may follow.
LEMMA PageReached ==
  ASSUME NEW f, IsFile(f), SubtreeFile(f), NEW q, NEW c \in Key,
         \A k \in Key : InSubtree(c, k) => PageMayMatch(k, q),
         NEW p \in AllPages(f), NEW d \in EntriesIn(f, p), InSubtree(c, d.key)
  PROVE  p \in ReachablePages(f, q)
<1> DEFINE Leads(r) == \E x \in EntriesIn(f, r) : InSubtree(c, x.key)
           good == {r \in AllPages(f) : Leads(r) => r \in ReachablePages(f, q)}
<1>1. good \in SUBSET PageRefs(f)
  BY PageOfFile
<1>2. RootPage(f) \in good
  BY LeadToRoot DEF AllPages, ReachablePages
<1>3. ASSUME NEW r \in good, NEW e \in EntriesIn(f, r) \cap PagePointers(f)
      PROVE  PageOf(e) \in good
  <2>1. r \in AllPages(f) /\ IsChildPage(e) /\ e \in AllEntries(f) /\ e.key \in Key
    BY PageOfFile DEF PagePointers, Entry
  <2>2. PageOf(e) \in AllPages(f)
    BY <2>1, PageOfFile
  <2>3. ASSUME NEW x \in EntriesIn(f, PageOf(e)), InSubtree(c, x.key)
        PROVE  PageOf(e) \in ReachablePages(f, q)
    <3>1. x.key \in Key
      BY <2>2, PageOfFile DEF Entry
    <3>2. InSubtree(x.key, e.key)
      BY <2>1 DEF SubtreeFile
    <3>3. InSubtree(c, e.key)
      BY <2>1, <2>3, <3>1, <3>2, SubtreeTransitive
    <3>4. r \in ReachablePages(f, q)
      BY <3>3
    <3>5. e \in Followed(f, q) /\ Followed(f, q) \in SUBSET PagePointers(f)
      BY <2>1, <3>3 DEF Followed
    <3> HIDE DEF good
    <3>6. QED
      BY <3>4, <3>5, LeadToClosed DEF ReachablePages
  <2>4. QED
    BY <2>2, <2>3
<1>4. Closed(f, PagePointers(f), good)
  BY <1>3 DEF Closed
<1>5. AllPages(f) \subseteq good
  <2> HIDE DEF good
  <2>1. QED
    BY <1>1, <1>2, <1>4, LeadToLeast DEF AllPages
<1>6. QED
  BY <1>5
-----------------------------------------------------------------------------
(***************************************************************************)
(* Files in order.  In a well-formed file a slot holds an entry no other   *)
(* slot holds, so distinct pages have no entry in common, and a page has   *)
(* one pointer.                                                            *)
(***************************************************************************)
\* The entries of a page are the slots between its first and last byte.
LEMMA PageSlots ==
  ASSUME NEW f, IsFile(f), NEW p \in PageRange, NEW i \in DOMAIN PageEntries(f, p)
  PROVE  /\ i \in Nat \ {0}
         /\ SlotAt(f, p[1]) \in Nat /\ SlotAt(f, p[1] + p[2]) \in Int
         /\ SlotAt(f, p[1]) + i \in DOMAIN f.slots
         /\ SlotAt(f, p[1]) + i <= SlotAt(f, p[1] + p[2])
         /\ PageEntries(f, p)[i] = f.slots[SlotAt(f, p[1]) + i]
<1> DEFINE m == SlotAt(f, p[1])
           n == SlotAt(f, p[1] + p[2])
           s == f.slots
           t == PageEntries(f, p)
<1>1. InHierarchyBody(f, p)
  <2>1. t \in Seq(Entry) /\ DOMAIN t = 1..Len(t) /\ Len(t) \in Nat
    BY PageEntriesType, LenProperties
  <2>2. t # <<>>
    <3> HIDE DEF t
    <3>1. i \in 1..Len(t)
      BY <2>1 DEF t
    <3>2. QED
      BY <2>1, <3>1, EmptySeq
  <2>3. QED
    BY <2>2 DEF PageEntries
<1>2. m \in Nat /\ n \in Int /\ n <= Len(s) /\ s \in Seq(Entry) /\ Len(s) \in Nat /\ DOMAIN s = 1..Len(s)
  BY <1>1, PageBounds, LenProperties DEF IsFile
<1>3. t = SubSeq(s, m + 1, n)
  BY <1>1 DEF PageEntries
<1>4. i \in DOMAIN t
  OBVIOUS
<1> HIDE DEF m, n, s, t
<1>5. \A j \in (m + 1)..n : s[j] \in Entry
  BY <1>2, ElementOfSeq
<1> DEFINE a == m + 1
<1>6. a \in Int /\ \A j \in a..n : s[j] \in Entry
  BY <1>2, <1>5
<1> HIDE DEF a
<1>7. /\ SubSeq(s, a, n) \in Seq(Entry)
      /\ Len(SubSeq(s, a, n)) = IF a <= n THEN n - a + 1 ELSE 0
      /\ \A j \in 1..n - a + 1 : SubSeq(s, a, n)[j] = s[a + j - 1]
  BY <1>2, <1>6, SubSeqProperties
<1>8. t \in Seq(Entry) /\ DOMAIN t = 1..Len(t) /\ t = SubSeq(s, a, n)
  BY <1>3, <1>7, LenProperties DEF a
<1>9. i \in 1..n - a + 1 /\ a <= n
  BY <1>2, <1>4, <1>6, <1>7, <1>8
<1>10. t[i] = s[a + i - 1] /\ a + i - 1 = m + i
  BY <1>2, <1>7, <1>8, <1>9 DEF a
<1>11. i \in Nat \ {0} /\ m + i \in DOMAIN s /\ m + i <= n
  BY <1>2, <1>6, <1>9 DEF a
<1>12. QED
  BY <1>2, <1>10, <1>11 DEF m, n, s, t

LEMMA SlotOrder ==
  ASSUME NEW f, IsFile(f), NEW a \in Int, NEW b \in Int, a <= b
  PROVE  /\ SlotAt(f, a) \in Int /\ SlotAt(f, b) \in Int
         /\ SlotAt(f, a) <= SlotAt(f, b)
<1> DEFINE x == a - f.hierarchy_start
           y == b - f.hierarchy_start
           d == EntryBytes
           q == x \div d
           r == y \div d
<1>1. x \in Int /\ y \in Int /\ x <= y /\ d \in Nat \ {0}
  BY LimitsAssumption DEF IsFile
<1>2. SlotAt(f, a) = q /\ SlotAt(f, b) = r
  BY DEF SlotAt
<1> HIDE DEF x, y, d
<1>3. q \in Int /\ r \in Int
  BY <1>1
<1> HIDE DEF q, r
<1>4. q * d <= x /\ y < (r + 1) * d
  BY <1>1, <1>3, Quotient DEF q, r
<1>5. q <= r
  <2> SUFFICES ASSUME q > r PROVE FALSE
    BY <1>3
  <2>1. q - (r + 1) \in Nat
    BY <1>3
  <2>2. (r + 1) * d <= q * d
    <3> DEFINE e == q - (r + 1)
    <3>1. e \in Nat /\ q = (r + 1) + e
      BY <1>3, <2>1
    <3> HIDE DEF e
    <3>2. q * d = (r + 1) * d + e * d /\ e * d >= 0
      BY <1>1, <1>3, <3>1
    <3>3. QED
      BY <1>1, <1>3, <3>1, <3>2
  <2>3. q * d \in Int /\ (r + 1) * d \in Int
    BY <1>1, <1>3
  <2>4. QED
    BY <1>1, <1>4, <2>2, <2>3
<1>6. QED
  BY <1>2, <1>3, <1>5

LEMMA OneSlot ==
  ASSUME NEW f, KeysInOrder(f), NEW i \in DOMAIN f.slots, NEW j \in DOMAIN f.slots,
         f.slots[i] = f.slots[j]
  PROVE  i = j
  BY DEF KeysInOrder

\* A page has no entry twice.
LEMMA PageInjective ==
  ASSUME NEW f, IsFile(f), KeysInOrder(f), NEW p \in PageRange
  PROVE  IsInjective(PageEntries(f, p))
<1> SUFFICES ASSUME NEW i \in DOMAIN PageEntries(f, p), NEW j \in DOMAIN PageEntries(f, p),
                    PageEntries(f, p)[i] = PageEntries(f, p)[j]
             PROVE  i = j
  BY DEF IsInjective
<1> DEFINE m == SlotAt(f, p[1])
<1>1. /\ i \in Nat /\ j \in Nat /\ m \in Nat
      /\ m + i \in DOMAIN f.slots /\ m + j \in DOMAIN f.slots
      /\ f.slots[m + i] = f.slots[m + j]
  BY PageSlots
<1> HIDE DEF m
<1>2. m + i = m + j
  BY <1>1, OneSlot
<1>3. QED
  BY <1>1, <1>2

LEMMA PagesApart ==
  ASSUME NEW f, IsFile(f), KeysInOrder(f), DisjointPages(f),
         NEW p \in AllPages(f), NEW q \in AllPages(f),
         NEW e \in EntriesIn(f, p), e \in EntriesIn(f, q)
  PROVE  p = q
<1>1. p \in PageRange /\ q \in PageRange
  BY PageOfFile
<1>2. PICK i \in DOMAIN PageEntries(f, p) : e = PageEntries(f, p)[i]
  BY DEF EntriesIn
<1>3. PICK j \in DOMAIN PageEntries(f, q) : e = PageEntries(f, q)[j]
  BY DEF EntriesIn
<1> DEFINE m == SlotAt(f, p[1])
           n == SlotAt(f, q[1])
           mm == SlotAt(f, p[1] + p[2])
           nn == SlotAt(f, q[1] + q[2])
<1>4. /\ i \in Nat \ {0} /\ m \in Nat /\ mm \in Int
      /\ m + i \in DOMAIN f.slots /\ m + i <= mm /\ e = f.slots[m + i]
  BY <1>1, <1>2, PageSlots
<1>5. /\ j \in Nat \ {0} /\ n \in Nat /\ nn \in Int
      /\ n + j \in DOMAIN f.slots /\ n + j <= nn /\ e = f.slots[n + j]
  BY <1>1, <1>3, PageSlots
<1>6. ASSUME p # q PROVE mm <= n \/ nn <= m
  <2>1. p[1] \in Nat /\ p[2] \in Int /\ q[1] \in Nat /\ q[2] \in Int
    BY <1>1 DEF PageRange
  <2>2. p[1] + p[2] <= q[1] \/ q[1] + q[2] <= p[1]
    BY <1>6 DEF DisjointPages
  <2> DEFINE a == p[1]
             b == q[1]
             aa == p[1] + p[2]
             bb == q[1] + q[2]
  <2>3. a \in Int /\ b \in Int /\ aa \in Int /\ bb \in Int /\ (aa <= b \/ bb <= a)
    BY <2>1, <2>2
  <2>4. mm = SlotAt(f, aa) /\ nn = SlotAt(f, bb) /\ m = SlotAt(f, a) /\ n = SlotAt(f, b)
    OBVIOUS
  <2> HIDE DEF a, b, aa, bb, m, n, mm, nn
  <2>5. QED
    BY <2>3, <2>4, SlotOrder
<1> HIDE DEF m, n, mm, nn
<1>7. m + i = n + j
  BY <1>4, <1>5, OneSlot
<1>8. QED
  BY <1>4, <1>5, <1>6, <1>7

\* Every page but the root has a pointer.
LEMMA PointerTo ==
  ASSUME NEW f, IsFile(f), NEW p \in AllPages(f), p # RootPage(f)
  PROVE  \E e \in AllEntries(f) : IsChildPage(e) /\ PageOf(e) = p
<1> DEFINE good == {r \in AllPages(f) :
                      r # RootPage(f) => \E e \in AllEntries(f) : IsChildPage(e) /\ PageOf(e) = r}
<1>1. good \in SUBSET PageRefs(f)
  BY PageOfFile
<1>2. RootPage(f) \in good
  BY LeadToRoot DEF AllPages
<1>3. ASSUME NEW r \in good, NEW e \in EntriesIn(f, r) \cap PagePointers(f)
      PROVE  PageOf(e) \in good
  <2>1. r \in AllPages(f) /\ IsChildPage(e) /\ e \in AllEntries(f)
    BY PageOfFile DEF PagePointers
  <2>2. PageOf(e) \in AllPages(f)
    BY <2>1, PageOfFile
  <2>3. QED
    BY <2>1, <2>2
<1>4. Closed(f, PagePointers(f), good)
  BY <1>3 DEF Closed
<1>5. AllPages(f) \subseteq good
  <2> HIDE DEF good
  <2>1. QED
    BY <1>1, <1>2, <1>4, LeadToLeast DEF AllPages
<1>6. QED
  BY <1>5

\* What a reader requires of a page before it reads it.
LEMMA PageInOrder ==
  ASSUME NEW f, IsFile(f), WellFormed(f), NEW p \in AllPages(f)
  PROVE  /\ p[2] \in Nat /\ p[2] > 0 /\ p[2] % EntryBytes = 0
         /\ p[2] <= MaxPageBytes
         /\ p[1] + p[2] <= f.len
<1>1. p[2] \in Int /\ p[2] % EntryBytes = 0 /\ p[2] <= MaxPageBytes
  BY PageOfFile DEF WellFormed, PageRange
<1>2. p[2] > 0 /\ p[1] + p[2] <= f.len
  <2>1. CASE p = RootPage(f)
    <3>1. p[1] = f.hierarchy_start /\ p[2] = f.root_size
      BY <2>1 DEF RootPage, PageOf, RootEntry
    <3>2. ValidSections(f)
      BY DEF WellFormed
    <3>3. QED
      BY <3>1, <3>2 DEF ValidSections, IsFile
  <2>2. CASE p # RootPage(f)
    <3>1. PICK e \in AllEntries(f) : IsChildPage(e) /\ PageOf(e) = p
      BY <2>2, PointerTo
    <3>2. ValidEntry(e) /\ EntryInSection(f, e)
      BY DEF WellFormed
    <3>3. QED
      BY <3>1, <3>2 DEF ValidEntry, EntryInSection, IsChildPage, HasPointData, IsEmpty, PageOf
  <2>3. QED
    BY <2>1, <2>2
<1>3. QED
  BY <1>1, <1>2

\* The bytes of different pages are within the budget.
LEMMA BudgetSuffices ==
  ASSUME NEW f, IsFile(f), WellFormed(f),
         NEW r \in Seq(PageRange), IsInjective(r), Range(r) \subseteq AllPages(f)
  PROVE  SumFunction([i \in DOMAIN r |-> r[i][2]]) <= MaxTotalBytes
<1> DEFINE S == DOMAIN r
           w == [i \in DOMAIN r |-> r[i][2]]
           v == [p \in AllPages(f) |-> p[2]]
           A == AllPages(f)
           T == {r[i] : i \in S}
<1>1. S = 1..Len(r) /\ Len(r) \in Nat
  BY LenProperties
<1>2. IsFiniteSet(S)
  <2> DEFINE n == Len(r)
  <2>1. n \in Int /\ S = 1..n
    BY <1>1
  <2> HIDE DEF n, S
  <2>2. QED
    BY <2>1, FS_Interval
<1>3. T \in SUBSET A
  BY DEF Range
<1>4. IsFiniteSet(A)
  BY FileFinite
<1>5. \A p \in A : v[p] \in Nat /\ v[p] = p[2]
  BY PageInOrder
<1>6. \A i, j \in S : r[i] = r[j] => i = j
  BY DEF IsInjective
<1>7. \A i \in S : w[i] \in Int /\ v[r[i]] = w[i]
  BY <1>3, <1>5
<1>8. SumFunction(w) = SumFunctionOnSet(w, S) /\ SumFunction(v) = SumFunctionOnSet(v, A)
  BY DEF SumFunction
<1>9. SumFunction(v) <= MaxTotalBytes
  BY DEF WellFormed
<1> HIDE DEF S, w, v, A
<1>10. SumFunctionOnSet(w, S) = SumFunctionOnSet(v, T)
  BY <1>2, <1>6, <1>7, SumRenamed
<1> HIDE DEF T
<1>11. SumFunctionOnSet(v, T) <= SumFunctionOnSet(v, A) /\ 0 <= SumFunctionOnSet(v, T)
  BY <1>3, <1>4, <1>5, SumOfPart
<1>12. SumFunctionOnSet(v, A) \in Int /\ SumFunctionOnSet(v, T) \in Int
  <2>1. IsFiniteSet(T) /\ \A p \in A : v[p] \in Int
    BY <1>3, <1>4, <1>5, FS_Subset
  <2>2. \A p \in T : v[p] \in Int
    BY <1>3, <2>1
  <2>3. QED
    BY <1>4, <2>1, <2>2, SumStep
<1>13. SumFunction(w) <= MaxTotalBytes
  BY <1>8, <1>9, <1>10, <1>11, <1>12, LimitsAssumption
<1>14. QED
  BY <1>13 DEF w

\* Two entries with one key are a pointer and an entry of the page it
\* points to.
LEMMA PointerAndNode ==
  ASSUME NEW f, IsFile(f), WellFormed(f),
         NEW p \in AllPages(f), NEW q \in AllPages(f),
         NEW e \in EntriesIn(f, p), NEW d \in EntriesIn(f, q), e # d, e.key = d.key
  PROVE  \/ IsChildPage(d) /\ ~ IsChildPage(e)
         \/ IsChildPage(e) /\ PageOf(e) = q /\ q # RootPage(f)
<1>1. e \in SlotEntries(f) /\ d \in SlotEntries(f)
  BY PageOfFile
<1>2. PICK i \in DOMAIN f.slots : e = f.slots[i]
  BY <1>1 DEF SlotEntries
<1>3. PICK j \in DOMAIN f.slots : d = f.slots[j]
  BY <1>1 DEF SlotEntries
<1>4. KeysInOrder(f) /\ DisjointPages(f) /\ NoSharedPages(f)
  BY DEF WellFormed
<1>5. PICK x \in {e, d}, y \in {e, d} :
        IsChildPage(x) /\ ~ IsChildPage(y) /\ y \in EntriesIn(f, PageOf(x))
  BY <1>2, <1>3, <1>4 DEF KeysInOrder
<1>6. CASE x = e
  <2>1. y = d
    BY <1>5, <1>6
  <2>2. PageOf(e) \in AllPages(f) /\ PageOf(e) # RootPage(f)
    BY <1>1, <1>4, <1>5, <1>6, PageOfFile DEF NoSharedPages
  <2>3. PageOf(e) = q
    BY <1>4, <1>5, <1>6, <2>1, <2>2, PagesApart
  <2>4. QED
    BY <1>5, <1>6, <2>2, <2>3
<1>7. CASE x = d
  BY <1>5, <1>7
<1>8. QED
  BY <1>6, <1>7

\* A page has one pointer, in one page.
LEMMA OnePointerTo ==
  ASSUME NEW f, IsFile(f), WellFormed(f),
         NEW p \in AllPages(f), NEW q \in AllPages(f),
         NEW e \in EntriesIn(f, p), NEW d \in EntriesIn(f, q),
         IsChildPage(e), IsChildPage(d), PageOf(e) = PageOf(d)
  PROVE  p = q
<1>1. e \in SlotEntries(f) /\ d \in SlotEntries(f)
  BY PageOfFile
<1>2. PICK i \in DOMAIN f.slots : e = f.slots[i]
  BY <1>1 DEF SlotEntries
<1>3. PICK j \in DOMAIN f.slots : d = f.slots[j]
  BY <1>1 DEF SlotEntries
<1>4. KeysInOrder(f) /\ DisjointPages(f) /\ NoSharedPages(f)
  BY DEF WellFormed
<1>5. i = j
  BY <1>2, <1>3, <1>4 DEF NoSharedPages
<1>6. QED
  BY <1>2, <1>3, <1>4, <1>5, PagesApart
=============================================================================

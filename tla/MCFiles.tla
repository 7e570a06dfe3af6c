------------------------------- MODULE MCFiles -------------------------------
(***************************************************************************)
(* Small files and queries for the hierarchy readers.                      *)
(*                                                                         *)
(* The root cube has side 8; A and B are its two opposite octants, AA and  *)
(* AB the opposite octants of A.  The point-data section has five chunks   *)
(* of 10 bytes from offset 100; the hierarchy body starts at 300.          *)
(***************************************************************************)
EXTENDS HierarchyFile, FiniteSetsExt

A == Child(Root, 0)
B == Child(Root, 7)
AA == Child(A, 0)
AB == Child(A, 7)

DataStart == 100
HierStart == 300

\* A node with n points in chunk number c, an empty node, and a pointer to
\* the page of n entries that starts at slot s (counted from 0).
Node(k, c, n) ==
  [key |-> k, offset |-> DataStart + 10 * c, byte_size |-> 10, point_count |-> n]
Hollow(k) == [key |-> k, offset |-> 0, byte_size |-> 0, point_count |-> 0]
Pointer(k, s, n) ==
  [key |-> k, offset |-> HierStart + EntryBytes * s,
   byte_size |-> EntryBytes * n, point_count |-> -1]

MakeFile(slots, rootSlots) ==
  LET end == HierStart + EntryBytes * Len(slots) IN
  [len |-> end, point_data_start |-> DataStart, point_data_end |-> DataStart + 50,
   hierarchy_start |-> HierStart, hierarchy_end |-> end,
   root_size |-> EntryBytes * rootSlots,
   number_of_points |->
     MapThenSumSet(LAMBDA i : slots[i].point_count,
                   {i \in DOMAIN slots : HasPointData(slots[i])}),
   slots |-> slots]

\* One page with everything in it.
OnePage == MakeFile(<<Node(Root, 0, 2), Node(A, 1, 1), Hollow(B)>>, 3)

\* Each page points to one further page.
Chain ==
  MakeFile(<<Node(Root, 0, 1), Pointer(A, 2, 2),
             Node(A, 1, 2), Pointer(AA, 4, 1),
             Node(AA, 2, 1)>>, 2)

\* The root page points to two sibling leaf pages.
Siblings ==
  MakeFile(<<Pointer(A, 2, 1), Pointer(B, 3, 1),
             Node(A, 0, 1),
             Node(B, 1, 2)>>, 2)

\* Siblings again, and one of them points further: the order the pages are
\* loaded in decides when the worklist is first empty.
Fork ==
  MakeFile(<<Pointer(A, 2, 2), Pointer(B, 4, 1),
             Hollow(A), Pointer(AB, 5, 1),
             Node(B, 1, 1),
             Node(AB, 0, 1)>>, 2)

ForkLater ==
  MakeFile(<<Pointer(B, 4, 1), Pointer(A, 2, 2),
             Node(A, 2, 1), Pointer(AB, 5, 1),
             Node(B, 1, 1),
             Node(AB, 0, 1)>>, 2)

\* Two pointers to one page, and a page that points back to itself.
Shared ==
  MakeFile(<<Pointer(A, 2, 1), Pointer(B, 2, 1), Node(A, 0, 1)>>, 2)
Cycle ==
  MakeFile(<<Node(Root, 0, 1), Pointer(A, 2, 2), Node(A, 1, 1), Pointer(AB, 2, 2)>>, 2)

WellFormedFiles == {OnePage, Chain, Siblings, Fork, ForkLater}

\* A page pointer that is in section starts on a slot.
Aligned(f) ==
  \A e \in SlotEntries(f) :
    IsChildPage(e) /\ EntryInSection(f, e) =>
      (e.offset - f.hierarchy_start) % EntryBytes = 0

\* Every file one field away from f, over values that are near a limit of
\* some check: keys that clash or leave the subtree, ranges that overlap, end
\* late or lie in the wrong section, wrong counts and a wrong header total.
Damaged(f) ==
  {g \in {[f EXCEPT !.slots[i].point_count = c] :
             i \in DOMAIN f.slots, c \in {-2, -1, 0, 3}}
         \cup {[f EXCEPT !.slots[i].key = k] :
             i \in DOMAIN f.slots, k \in {Root, A, B, AB, [Root EXCEPT !.level = -1]}}
         \cup {[f EXCEPT !.slots[i].offset = o] :
             i \in DOMAIN f.slots,
             o \in {0, DataStart + 5, DataStart + 45, HierStart, HierStart + 2 * EntryBytes,
                    HierStart + 4 * EntryBytes}}
         \cup {[f EXCEPT !.slots[i].byte_size = b] :
             i \in DOMAIN f.slots, b \in {0, 5, 11, 21, EntryBytes, 2 * EntryBytes, 4 * EntryBytes}}
         \cup {[f EXCEPT !.number_of_points = n] :
             n \in {0, f.number_of_points - 1, f.number_of_points + 1}}
         \cup {[f EXCEPT !.root_size = n] : n \in {0, EntryBytes, EntryBytes + 1, 5 * EntryBytes}}
     : Aligned(g)}

NearFiles == UNION {Damaged(f) : f \in WellFormedFiles}

MCFiles == WellFormedFiles \cup {Shared, Cycle} \cup NearFiles

\* A box inside an octant of the root cube, away from its faces.
BoxOfA == Box([a \in Axis |-> 1], [a \in Axis |-> 1])
BoxOfB == Box([a \in Axis |-> 6], [a \in Axis |-> 7])
Inverted == Box([a \in Axis |-> 2], [a \in Axis |-> 1])

ValidQueries ==
  {QueryAll, Query(Level(0), AllBounds), Query(Levels(0, 2), AllBounds),
   Query(AllLevels, Within(BoxOfA)), Query(Resolution(4), Within(BoxOfB))}

RefusedQueries ==
  {Query(Levels(2, 1), AllBounds), Query(AllLevels, Within(Inverted))}

MCQueries == ValidQueries \cup RefusedQueries
=============================================================================

--------------------------- MODULE HierarchyPages ---------------------------
(***************************************************************************)
(* The hierarchy of a new COPC file (copc-writer hierarchy_pages.rs): the  *)
(* chunk entries are dealt out to pages, one page per subtree, the pages   *)
(* get their offsets, and the page tree is written depth first.            *)
(* FileLayout puts the hierarchy into a whole file.                        *)
(*                                                                         *)
(* The three functions call themselves; `work` holds the calls still to be *)
(* made, first call first.  Abstracted: a page is known by its key, the    *)
(* bytes of an entry are the entry.  A failed write ends the run.          *)
(***************************************************************************)
EXTENDS HierarchyFile, Lists

CONSTANT PageMaxEntries   \* HIERARCHY_PAGE_MAX_ENTRIES

Octant == 0..7

\* A split page holds at most its own node and eight child pages.
ASSUME PagesAssumption == PageMaxEntries \in Nat /\ PageMaxEntries >= 9

VARIABLES
  entries,            \* the chunk entries to write
  root_hier_offset,   \* where the root page goes
  pages,              \* HierarchyPagePlan, by key: the items of each page
  ranges,             \* the offset and byte size assigned to each page
  next,               \* the next free offset
  body,               \* the entries written, in file order
  work,               \* calls to be made: subtrees to plan, or keys of pages
  phase               \* "plan", "assign", "write", and those of FileLayout

pageInput == <<entries, root_hier_offset>>

pageVars == <<entries, root_hier_offset, pages, ranges, next, body, work>>

-----------------------------------------------------------------------------
\* HierarchyPageItem
Point(e) == [kind |-> "point", entry |-> e]
ChildPage(k) == [kind |-> "child", key |-> k]

\* key_contains
KeyContains(ancestor, k) == InSubtree(k, ancestor)

Subtree(list, k) == Those(list, {e \in Range(list) : KeyContains(k, e.key)})

OwnEntry(list, k) == Those(list, {e \in Range(list) : e.key = k})

OctantsUsed(list, k) ==
  Those(<<0, 1, 2, 3, 4, 5, 6, 7>>, {o \in Octant : Subtree(list, Child(k, o)) # <<>>})

NoPages ==
  /\ entries = <<>> /\ root_hier_offset = 0 /\ next = 0
  /\ pages = <<>> /\ ranges = <<>> /\ body = <<>> /\ work = <<>>

\* plan_hierarchy_pages is called for these entries.
StartPlan(list, offset) ==
  /\ entries' = list /\ root_hier_offset' = offset /\ next' = offset
  /\ work' = <<[key |-> Root, list |-> list]>>
  /\ phase' = "plan"
  /\ UNCHANGED <<pages, ranges, body>>

Todo == Head(work)

PutPage(k, items) ==
  pages' = [p \in DOMAIN pages \cup {k} |-> IF p = k THEN items ELSE pages[p]]

\* The next phase starts at the root page.
StartPhase(p) == work' = <<Root>> /\ phase' = p

PlanReturns(calls) ==
  IF calls = <<>> THEN StartPhase("assign") ELSE work' = calls /\ UNCHANGED phase

\* Mutant (PlanLeaf): off by one.
PlanLeaf_OneMore ==
  /\ phase = "plan" /\ Len(Todo.list) <= PageMaxEntries + 1
  /\ PutPage(Todo.key, [i \in DOMAIN Todo.list |-> Point(Todo.list[i])])
  /\ PlanReturns(Tail(work))
  /\ UNCHANGED <<pageInput, ranges, next, body>>

\* Everything fits in one page.
PlanLeaf ==
  /\ phase = "plan" /\ Len(Todo.list) <= PageMaxEntries
  /\ PutPage(Todo.key, [i \in DOMAIN Todo.list |-> Point(Todo.list[i])])
  /\ PlanReturns(Tail(work))
  /\ UNCHANGED <<pageInput, ranges, next, body>>

\* Mutant (PlanSplit): the node of the page's own key is dropped.
PlanSplit_NoOwn ==
  /\ phase = "plan" /\ Len(Todo.list) > PageMaxEntries
  /\ LET octants == OctantsUsed(Todo.list, Todo.key)
         child(i) == Child(Todo.key, octants[i]) IN
     /\ PutPage(Todo.key, [i \in DOMAIN octants |-> ChildPage(child(i))])
     /\ PlanReturns([i \in DOMAIN octants |->
                       [key |-> child(i), list |-> Subtree(Todo.list, child(i))]] \o Tail(work))
  /\ UNCHANGED <<pageInput, ranges, next, body>>

\* Too many: one child page for every octant with an entry.
PlanSplit ==
  /\ phase = "plan" /\ Len(Todo.list) > PageMaxEntries
  /\ LET own == OwnEntry(Todo.list, Todo.key)
         octants == OctantsUsed(Todo.list, Todo.key)
         child(i) == Child(Todo.key, octants[i]) IN
     IF \E i \in DOMAIN Todo.list :
          /\ Todo.list[i].key # Todo.key
          /\ \A o \in Octant : ~ KeyContains(Child(Todo.key, o), Todo.list[i].key)
       THEN phase' = "refused" /\ UNCHANGED <<pages, work>>
       ELSE /\ PutPage(Todo.key,
                 (IF own = <<>> THEN <<>> ELSE <<Point(own[Len(own)])>>)
                   \o [i \in DOMAIN octants |-> ChildPage(child(i))])
            /\ PlanReturns([i \in DOMAIN octants |->
                 [key |-> child(i), list |-> Subtree(Todo.list, child(i))]] \o Tail(work))
  /\ UNCHANGED <<pageInput, ranges, next, body>>

-----------------------------------------------------------------------------
\* Both walks visit the child pages of a page, in order, before the rest.
ChildPages(k) ==
  LET children == Those(pages[k], {item \in Range(pages[k]) : item.kind = "child"}) IN
  [i \in DOMAIN children |-> children[i].key]

PageBytes(k) == EntryBytes * Len(pages[k])

\* Mutant (AssignPage): the pages are placed breadth first.
AssignPage_BreadthFirst ==
  /\ phase = "assign" /\ work # <<>>
  /\ ranges' = [p \in DOMAIN ranges \cup {Todo} |->
                  IF p = Todo THEN <<next, PageBytes(p)>> ELSE ranges[p]]
  /\ next' = next + PageBytes(Todo)
  /\ work' = Tail(work) \o ChildPages(Todo)
  /\ UNCHANGED <<pageInput, pages, body, phase>>

\* assign_hierarchy_page_offsets, one page.
AssignPage ==
  /\ phase = "assign" /\ work # <<>>
  /\ ranges' = [p \in DOMAIN ranges \cup {Todo} |->
                  IF p = Todo THEN <<next, PageBytes(p)>> ELSE ranges[p]]
  /\ next' = next + PageBytes(Todo)
  /\ work' = ChildPages(Todo) \o Tail(work)
  /\ UNCHANGED <<pageInput, pages, body, phase>>

Position == root_hier_offset + EntryBytes * Len(body)

\* Mutant (ItemEntry): an offset from the start of the body.
ItemEntry_Relative(item) ==
  IF item.kind = "point" THEN item.entry
  ELSE [key |-> item.key, offset |-> ranges[item.key][1] - root_hier_offset,
        byte_size |-> ranges[item.key][2], point_count |-> -1]

\* hierarchy_page_item_entry
ItemEntry(item) ==
  IF item.kind = "point" THEN item.entry
  ELSE [key |-> item.key, offset |-> ranges[item.key][1],
        byte_size |-> ranges[item.key][2], point_count |-> -1]

\* write_hierarchy_page_tree, one page: its offset must be where the file
\* is.
WritePage ==
  /\ phase = "write" /\ work # <<>>
  /\ IF Position # ranges[Todo][1]
       THEN phase' = "refused" /\ UNCHANGED <<body, work>>
       ELSE /\ body' = body \o [i \in DOMAIN pages[Todo] |-> ItemEntry(pages[Todo][i])]
            /\ work' = ChildPages(Todo) \o Tail(work)
            /\ UNCHANGED phase
  /\ UNCHANGED <<pageInput, pages, ranges, next>>

EndWrite ==
  /\ phase = "write" /\ work = <<>>
  /\ phase' = "records"
  /\ UNCHANGED pageVars

PageStep == PlanLeaf \/ PlanSplit \/ AssignPage \/ WritePage \/ EndWrite

-----------------------------------------------------------------------------
EntriesGiven == {entries[i] : i \in DOMAIN entries}

\* No page is larger than the limit the plan is made for, and a page with a
\* child page would not have fitted without it.
PagesWithinLimit ==
  phase = "done" =>
    \A k \in DOMAIN pages :
      /\ Len(pages[k]) <= PageMaxEntries
      /\ ChildPages(k) # <<>> => Len(Subtree(entries, k)) > PageMaxEntries
=============================================================================

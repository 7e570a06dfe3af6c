---------------------------- MODULE MCFileLayout ----------------------------
(***************************************************************************)
(* Octrees of up to 16 nodes and pages of 9 entries: a root page alone,    *)
(* and root pages over subtrees whose pages are split again, up to three   *)
(* times over.  Sources with every kind of record, as VLR and as EVLR, and *)
(* with counts and sizes at each limit and one past it.                    *)
(***************************************************************************)
EXTENDS FileLayout

A == Child(Root, 0)
B == Child(Root, 7)
AH == Child(A, 7)

Octants(k) == {Child(k, o) : o \in Octant}

\* lod.rs sorts the nodes by level, then by x, y and z.
KeyBefore(j, k) ==
  \/ j.level < k.level
  \/ /\ j.level = k.level
     /\ \E a \in Axis : /\ j.pos[a] < k.pos[a]
                        /\ \A b \in Axis : b < a => j.pos[b] = k.pos[b]

NodesOf(keys) ==
  LET sorted == [i \in 1..Cardinality(keys) |->
                   CHOOSE k \in keys : Cardinality({j \in keys : KeyBefore(j, k)}) = i - 1] IN
  [i \in DOMAIN sorted |-> [key |-> sorted[i], point_count |-> i]]

\* Nine nodes fill a page; what is added makes the root, A and AH split.
Base == {Root, A, AH} \cup Octants(AH)

More == {B, Child(B, 0), Child(B, 3), Child(Root, 2), Child(A, 0)}

Trees ==
  {{Root}, {Root, A, AH}}
  \cup {Base \cup s : s \in {t \in SUBSET More : \A o \in {0, 3} : Child(B, o) \in t => B \in t}}
  \cup {(Base \ {Child(AH, 0), Child(AH, 2)}) \cup s : s \in SUBSET {B, Child(A, 0)}}
  \cup {Base \cup {Child(Child(AH, 7), 1)}}

-----------------------------------------------------------------------------
Job(call, keys, vlrs, evlrs, extra_bytes, wkt, unfit) ==
  [call |-> call, tree |-> NodesOf(keys), vlrs |-> vlrs, evlrs |-> evlrs,
   extra_bytes |-> extra_bytes, wkt |-> wkt, unfit |-> unfit]

Other(n, bytes) == Record("other", bytes, n)
OldInfo == InfoRecord(700, 64)
OldPages == Record("copc hierarchy", 64, "old pages")
OldItems == Record("laszip", 40, "old items")
Wkt(n) == Record("wkt", 30, n)
Geo == Record("geotiff", 20, "keys")
Extra == Record("extra bytes", 192, "descriptors")

\* A COPC source, with everything a source may have.
CopcVlrs == <<OldInfo, OldItems, Extra, Other("a", 5), Geo, Other("b", 0)>>

Sources ==
     {<<>>, CopcVlrs, <<Other("b", 3), Wkt("v"), Other("a", 7), Wkt("w")>>,
      <<Other("a", U16Max), Extra>>, <<Geo>>}
     \X {<<>>, <<OldPages, Other("c", 90000), Wkt("e")>>, <<Extra, Other("c", 8), OldPages, Geo>>}

Conversions ==
  {Job("convert", {Root, A}, s[1], s[2], x, w, {}) :
     s \in Sources, x \in BOOLEAN, w \in {"none", "blank", "text"}}

\* At each limit, and one past it.
Limits ==
  {Job("convert", {Root}, [i \in 1..n |-> Other("v", 1)], [i \in 1..m |-> Other("e", 1)],
       FALSE, "none", {}) :
     n \in {MaxVlrCount - 3, MaxVlrCount - 2, MaxVlrCount, MaxVlrCount + 1},
     m \in {MaxEvlrCount - 1, MaxEvlrCount, MaxEvlrCount + 1}}
  \cup {Job("convert", {Root}, <<Other("v", U16Max + d)>>, <<Other("e", MaxSourceEvlrBytes + e)>>,
            FALSE, "none", {}) : d \in {0, 1}, e \in {0, 1}}
  \cup {Job("convert", {Root}, <<>>, <<>>, FALSE, "none", {u}) : u \in {"point format", "identifiers"}}

Writes ==
  {Job("write", keys, <<>>, <<>>, FALSE, "none", {}) : keys \in Trees}
  \cup {Job("write", {Root}, <<Extra>>, <<>>, TRUE, w, {}) : w \in {"none", "blank", "text"}}

MCJobs == Conversions \cup Limits \cup Writes

-----------------------------------------------------------------------------
RecordsOf(f) == {o \in DOMAIN f.at : f.at[o].form \in {"vlr", "evlr"}}

EvlrStarts(f) == {o \in RecordsOf(f) : f.at[o].form = "evlr"}

Near(n) == {n - 1, n + 1}

\* A count, an offset, a size or an id that is wrong, or a file that is cut.
MCDamaged(f) ==
  LET h == f.at[0]
      info == f.at[LasHeaderBytes].record.data IN
  {[f EXCEPT !.at[0].number_of_vlrs = n] : n \in Near(h.number_of_vlrs)}
  \cup {[f EXCEPT !.at[0].number_of_evlrs = n] : n \in {0} \cup Near(h.number_of_evlrs)}
  \cup {[f EXCEPT !.at[0].offset_to_point_data = n] : n \in {0} \cup Near(h.offset_to_point_data)}
  \cup {[f EXCEPT !.at[0].offset_to_first_evlr = n] : n \in {0, f.len} \cup EvlrStarts(f)}
  \cup {[f EXCEPT !.at[LasHeaderBytes].record.data.root_hier_offset = n] :
          n \in {0, 30, info.root_hier_offset + EntryBytes} \cup {o + 60 : o \in EvlrStarts(f)}}
  \cup {[f EXCEPT !.at[LasHeaderBytes].record.data.root_hier_size = n] :
          n \in {0, 1, EntryBytes, info.root_hier_size + EntryBytes, MaxPageBytes + EntryBytes}}
  \cup {[f EXCEPT !.at[o].record.bytes = n] : o \in RecordsOf(f), n \in {0, EntryBytes, 2000}}
  \cup {[f EXCEPT !.at[o].record.bytes = @ - EntryBytes] : o \in EvlrStarts(f)}
  \cup {[f EXCEPT !.at[o].record.kind = k] :
          o \in RecordsOf(f) \ {LasHeaderBytes}, k \in {"other", "laszip", "copc hierarchy"}}
  \cup {[f EXCEPT !.at[0].wkt = FALSE], [f EXCEPT !.len = 300], [f EXCEPT !.len = @ - 1],
        [f EXCEPT !.len = h.offset_to_first_evlr]}
=============================================================================

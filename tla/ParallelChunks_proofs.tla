------------------------ MODULE ParallelChunks_proofs ------------------------
(***************************************************************************)
(* Proofs about ParallelChunks, for any list of nodes, any batch size and  *)
(* any sizes of chunks: the offsets counted by hand are right, the section *)
(* is closed at the end, and the parallel writer writes what the           *)
(* sequential one of ChunkStream would.                                    *)
(***************************************************************************)
EXTENDS ParallelChunks, SequenceTheorems, TLAPS

Entries == [key : Nat, offset : Nat, byte_size : ChunkBytes, point_count : Nat]

Filling == {"batch", "encode", "compress", "write", "table"}

Closing == {"pointer", "end", "done"}

\* What is counted: the entries, the rows of the table, the next offset.
ListInv ==
  /\ nodes \in NodeLists
  /\ hierarchy \in Seq(Entries)
  /\ Len(hierarchy) <= Len(nodes)
  /\ rows = [i \in 1..Len(hierarchy) |-> Row(nodes[i], hierarchy[i].byte_size)]
  /\ at \in Nat /\ at >= Start + PointerBytes

\* Each entry against the node and the file; all of them lie before the next
\* offset.
EntriesInv ==
  \A i \in 1..Len(hierarchy) :
    /\ hierarchy[i].key = nodes[i].key /\ hierarchy[i].point_count = nodes[i].count
    /\ hierarchy[i].offset >= Start + PointerBytes
    /\ hierarchy[i].offset + hierarchy[i].byte_size <= at
    /\ hierarchy[i].offset \in DOMAIN file
    /\ file[hierarchy[i].offset] = Chunk(NodePoints(nodes[i]), hierarchy[i].byte_size)
    /\ \A j \in 1..Len(hierarchy) :
         i < j => hierarchy[i].offset + hierarchy[i].byte_size <= hierarchy[j].offset

ChunkBefore(o) ==
  /\ o \in Nat /\ o >= Start + PointerBytes
  /\ file[o].kind = "chunk" /\ file[o].bytes \in Nat \ {0} /\ o + file[o].bytes <= at

\* The next offset is where the writer is, as long as chunks are written.
FileInv ==
  /\ file = [o \in DOMAIN file |-> file[o]]
  /\ phase = "start" =>
       file = NoFile /\ pos = Start /\ hierarchy = <<>> /\ at = Start + PointerBytes
  /\ phase \in Filling \cup Closing => Start \in DOMAIN file
  /\ phase \in Filling =>
       /\ file[Start] = Pointer(-1) /\ pos = at
       /\ \A o \in DOMAIN file \ {Start} : ChunkBefore(o)
  /\ phase \in Closing =>
       /\ Len(hierarchy) = Len(nodes)
       /\ at \in DOMAIN file /\ file[at] = Table(rows)
       /\ \A o \in DOMAIN file \ {Start, at} : ChunkBefore(o)
  /\ phase = "pointer" => file[Start] = Pointer(-1)
  /\ phase \in {"end", "done"} => file[Start] = Pointer(at)
  /\ phase \in {"pointer", "done"} => pos = at + TableBytes

Good(r, points) == r = Failed \/ \E bytes \in ChunkBytes : r = Chunk(points, bytes)

\* A place in the batch is a node's place behind the entries made so far.
BatchInv ==
  /\ phase = "encode" =>
       Len(raws) < BatchLen /\ results = <<>>
  /\ phase = "compress" =>
       Len(raws) = BatchLen /\ DOMAIN results \subseteq DOMAIN raws
  /\ phase \in {"encode", "compress"} =>
       /\ raws \in Seq(UNION {[1..n -> Int] : n \in Nat})
       /\ \A j \in DOMAIN raws : raws[j] = NodePoints(nodes[Len(hierarchy) + j])
  /\ phase = "write" =>
       /\ results \in Seq({results[j] : j \in DOMAIN results})
       /\ Len(hierarchy) + Len(results) <= Len(nodes)
  /\ phase \in {"compress", "write"} =>
       /\ results = [j \in DOMAIN results |-> results[j]]
       /\ \A j \in DOMAIN results : Good(results[j], NodePoints(nodes[Len(hierarchy) + j]))
  /\ phase = "table" => Len(hierarchy) = Len(nodes)

PhaseInv == phase \in {"start", "failed"} \cup Filling \cup Closing

IInv == PhaseInv /\ ListInv /\ EntriesInv /\ FileInv /\ BatchInv

-----------------------------------------------------------------------------
LEMMA Constants ==
  /\ Start \in Nat /\ TableBytes \in Nat \ {0} /\ I32Max \in Nat /\ PointerBytes = 8
  /\ ChunkBytes \subseteq Nat \ {0} /\ BatchSize \in Nat \ {0}
  BY ChunkAssumption, BatchAssumption DEF PointerBytes

\* What the list of nodes is.
LEMMA NodesType ==
  ASSUME NEW list \in NodeLists
  PROVE  /\ Len(list) \in Nat /\ DOMAIN list = 1..Len(list)
         /\ \A i \in 1..Len(list) :
              /\ list[i].key \in Nat /\ list[i].start \in Nat /\ list[i].count \in Nat
              /\ list[i].count > 0
<1>1. list \in Seq([key : Nat, start : Nat, count : Nat])
  BY ChunkAssumption
<1>2. Len(list) \in Nat /\ DOMAIN list = 1..Len(list)
  BY <1>1
<1>3. \A i \in 1..Len(list) : list[i] \in [key : Nat, start : Nat, count : Nat]
  BY <1>1, ElementOfSeq
<1>4. QED
  BY <1>2, <1>3, ChunkAssumption

LEMMA EntriesType ==
  ASSUME ListInv
  PROVE  /\ Len(hierarchy) \in Nat /\ DOMAIN hierarchy = 1..Len(hierarchy)
         /\ \A i \in 1..Len(hierarchy) :
              hierarchy[i].offset \in Nat /\ hierarchy[i].byte_size \in Nat \ {0}
<1>1. hierarchy \in Seq(Entries)
  BY DEF ListInv
<1>2. Len(hierarchy) \in Nat /\ DOMAIN hierarchy = 1..Len(hierarchy)
  BY <1>1
<1>3. \A i \in 1..Len(hierarchy) : hierarchy[i] \in Entries
  BY <1>1
<1>4. QED
  BY <1>2, <1>3, Constants DEF Entries

LEMMA InitInv == Init => IInv
<1> SUFFICES ASSUME Init PROVE IInv
  OBVIOUS
<1>1. Len(hierarchy) = 0 /\ hierarchy = <<>> /\ rows = <<>> /\ phase = "start"
  BY DEF Init
<1>2. ListInv
  <2>1. rows = [i \in 1..0 |-> Row(nodes[i], hierarchy[i].byte_size)]
    BY <1>1
  <2>2. Len(nodes) \in Nat
    BY NodesType DEF Init
  <2>3. QED
    BY <1>1, <2>1, <2>2, Constants DEF Init, ListInv
<1>3. FileInv
  BY <1>1 DEF Init, FileInv, NoFile, Filling, Closing
<1>4. QED
  BY <1>1, <1>2, <1>3 DEF IInv, PhaseInv, EntriesInv, BatchInv

-----------------------------------------------------------------------------
\* Steps that only prepare the next chunks.
Preparing == UNCHANGED <<nodes, file, pos, hierarchy, rows, at>>

LEMMA PreparingKeeps ==
  ASSUME IInv, Preparing, phase \in Filling, phase' \in Filling
  PROVE  PhaseInv' /\ ListInv' /\ EntriesInv' /\ FileInv'
<1> USE DEF IInv, Preparing
<1>1. PhaseInv'
  BY DEF PhaseInv
<1>2. ListInv' /\ EntriesInv'
  BY DEF ListInv, EntriesInv
<1>3. FileInv'
  <2>1. \A o \in DOMAIN file \ {Start} : ChunkBefore(o)'
    BY DEF FileInv, ChunkBefore
  <2>2. phase' \notin Closing /\ phase' \notin {"start", "pointer", "end", "done"}
    BY DEF Filling, Closing
  <2>3. QED
    BY <2>1, <2>2 DEF FileInv
<1>4. QED
  BY <1>1, <1>2, <1>3

LEMMA StartBatchKeeps == ASSUME IInv, StartBatch PROVE IInv'
<1>1. Preparing /\ phase \in Filling /\ phase' \in Filling
  BY DEF StartBatch, Preparing, Filling
<1>2. PhaseInv' /\ ListInv' /\ EntriesInv' /\ FileInv'
  BY <1>1, PreparingKeeps
<1>3. BatchInv'
  <2>1. /\ Len(nodes) \in Nat /\ Len(hierarchy) \in Nat /\ Len(hierarchy) <= Len(nodes)
        /\ raws' = <<>> /\ results' = <<>> /\ nodes' = nodes /\ hierarchy' = hierarchy
    BY NodesType, EntriesType DEF IInv, ListInv, StartBatch
  <2>2. CASE Len(hierarchy) < Len(nodes)
    <3>1. phase' = "encode" /\ BatchLen' > 0
      BY <2>1, <2>2, Constants DEF StartBatch, BatchLen, Left
    <3>2. QED
      BY <2>1, <3>1 DEF BatchInv
  <2>3. CASE ~ (Len(hierarchy) < Len(nodes))
    BY <2>1, <2>3 DEF StartBatch, BatchInv
  <2>4. QED
    BY <2>2, <2>3
<1>4. QED
  BY <1>2, <1>3 DEF IInv

LEMMA EncodeKeeps == ASSUME IInv, Encode PROVE IInv'
<1>1. Preparing /\ phase \in Filling /\ phase' \in Filling /\ phase' \in {"encode", "compress"}
  BY DEF Encode, Preparing, Filling
<1>2. PhaseInv' /\ ListInv' /\ EntriesInv' /\ FileInv'
  BY <1>1, PreparingKeeps
<1> DEFINE S == UNION {[1..n -> Int] : n \in Nat}
           p == NodePoints(nodes[Len(hierarchy) + Len(raws) + 1])
<1>3. /\ raws \in Seq(S) /\ Len(raws) < BatchLen /\ results = <<>> /\ results' = <<>>
      /\ raws' = Append(raws, p) /\ nodes' = nodes /\ hierarchy' = hierarchy
      /\ phase' = IF Len(raws') = BatchLen THEN "compress" ELSE "encode"
      /\ \A j \in DOMAIN raws : raws[j] = NodePoints(nodes[Len(hierarchy) + j])
  BY DEF Encode, IInv, BatchInv
<1>4. /\ Len(nodes) \in Nat /\ Len(hierarchy) \in Nat /\ Len(raws) \in Nat
      /\ BatchLen \in Int /\ BatchLen' = BatchLen /\ BatchLen <= Len(nodes) - Len(hierarchy)
  BY <1>3, NodesType, EntriesType, Constants, LenProperties DEF IInv, ListInv, BatchLen, Left
<1>5. p \in S
  <2>1. Len(hierarchy) + Len(raws) + 1 \in 1..Len(nodes)
    BY <1>3, <1>4
  <2>2. /\ nodes[Len(hierarchy) + Len(raws) + 1].count \in Nat
        /\ nodes[Len(hierarchy) + Len(raws) + 1].start \in Nat
    BY <2>1, NodesType DEF IInv, ListInv
  <2>3. QED
    BY <2>2 DEF NodePoints, PointsAt
<1> HIDE DEF p, S
<1>6. /\ raws' \in Seq(S) /\ Len(raws') = Len(raws) + 1 /\ raws'[Len(raws) + 1] = p
      /\ \A j \in 1..Len(raws) : raws'[j] = raws[j]
  BY <1>3, <1>5, AppendProperties
<1>7. DOMAIN raws = 1..Len(raws) /\ DOMAIN raws' = 1..(Len(raws) + 1)
  BY <1>3, <1>6
<1>8. \A j \in DOMAIN raws' : raws'[j] = NodePoints(nodes[Len(hierarchy) + j])
  <2> TAKE j \in DOMAIN raws'
  <2>1. CASE j = Len(raws) + 1
    <3>1. Len(hierarchy) + j = Len(hierarchy) + Len(raws) + 1
      BY <1>4, <2>1
    <3>2. QED
      BY <1>6, <2>1, <3>1 DEF p
  <2>2. CASE j # Len(raws) + 1
    <3>1. j \in 1..Len(raws)
      BY <1>4, <1>7, <2>2
    <3>2. QED
      BY <1>3, <1>6, <1>7, <3>1
  <2>3. QED
    BY <2>1, <2>2
<1>9. DOMAIN results' = {} /\ \A j \in {} : FALSE
  BY <1>3
<1>10. BatchInv'
  <2>1. phase' = "encode" => Len(raws') < BatchLen'
    BY <1>3, <1>4, <1>6
  <2>2. phase' = "compress" => Len(raws') = BatchLen'
    BY <1>3, <1>4
  <2>3. results' = [j \in DOMAIN results' |-> results'[j]]
    BY <1>3
  <2>4. raws' \in Seq(UNION {[1..n -> Int] : n \in Nat})
    BY <1>6 DEF S
  <2>5. QED
    BY <1>1, <1>3, <1>8, <1>9, <2>1, <2>2, <2>3, <2>4 DEF BatchInv
<1>11. QED
  BY <1>2, <1>10 DEF IInv

LEMMA PlaceholderKeeps == ASSUME IInv, WritePlaceholder PROVE IInv'
<1>1. /\ file = NoFile /\ hierarchy = <<>> /\ at = Start + PointerBytes
      /\ file' = Placed(file, Start, Pointer(-1)) /\ pos' = Start + PointerBytes
      /\ phase' = "batch" /\ UNCHANGED <<nodes, hierarchy, rows, at, raws, results>>
  BY DEF WritePlaceholder, IInv, FileInv
<1>2. DOMAIN file' = {Start} /\ file'[Start] = Pointer(-1) /\ file' = [o \in {Start} |-> file'[o]]
  BY <1>1 DEF Placed, NoFile
<1>3. FileInv'
  BY <1>1, <1>2 DEF FileInv, Filling, Closing
<1>4. Len(hierarchy') = 0
  BY <1>1
<1>5. ListInv' /\ EntriesInv' /\ BatchInv' /\ PhaseInv'
  BY <1>1, <1>4 DEF IInv, ListInv, EntriesInv, BatchInv, PhaseInv, Filling
<1>6. QED
  BY <1>3, <1>5 DEF IInv

LEMMA WorkKeeps == ASSUME IInv, NEW i \in DOMAIN raws, Work(i) PROVE IInv'
<1>1. Preparing /\ phase \in Filling /\ phase' \in Filling /\ phase' \in {"compress", "write"}
  BY DEF Work, Preparing, Filling
<1>2. PhaseInv' /\ ListInv' /\ EntriesInv' /\ FileInv'
  BY <1>1, PreparingKeeps
<1>3. /\ phase = "compress" /\ raws' = raws /\ nodes' = nodes /\ hierarchy' = hierarchy
      /\ \A j \in DOMAIN raws : raws[j] = NodePoints(nodes[Len(hierarchy) + j])
      /\ Len(raws) = BatchLen /\ DOMAIN results \subseteq DOMAIN raws
      /\ phase' = IF DOMAIN results' = DOMAIN raws THEN "write" ELSE "compress"
  BY DEF Work, IInv, BatchInv
<1>4. PICK r : Good(r, raws[i]) /\ results' = Placed(results, i, r)
  BY DEF Work, Good
<1>5. /\ DOMAIN results' = DOMAIN results \cup {i}
      /\ results' = [j \in DOMAIN results' |-> results'[j]]
      /\ results'[i] = r /\ \A j \in DOMAIN results \ {i} : results'[j] = results[j]
  BY <1>4 DEF Placed
<1>6. \A j \in DOMAIN results' : Good(results'[j], NodePoints(nodes[Len(hierarchy) + j]))
  <2>1. Good(results'[i], NodePoints(nodes[Len(hierarchy) + i]))
    BY <1>3, <1>4, <1>5
  <2>2. \A j \in DOMAIN results : Good(results[j], NodePoints(nodes[Len(hierarchy) + j]))
    BY <1>3 DEF IInv, BatchInv
  <2>3. QED
    BY <1>5, <2>1, <2>2
<1>7. /\ Len(nodes) \in Nat /\ Len(hierarchy) \in Nat /\ Len(raws) \in Nat
      /\ BatchLen' = BatchLen /\ Len(hierarchy) + Len(raws) <= Len(nodes)
      /\ DOMAIN raws = 1..Len(raws)
  <2>1. raws \in Seq(UNION {[1..n -> Int] : n \in Nat})
    BY <1>3 DEF IInv, BatchInv
  <2>2. Len(raws) \in Nat /\ DOMAIN raws = 1..Len(raws)
    BY <2>1, LenProperties
  <2>3. QED
    BY <1>3, <2>2, NodesType, EntriesType, Constants DEF IInv, ListInv, BatchLen, Left
<1>8. CASE phase' = "write"
  <2>1. DOMAIN results' = 1..Len(raws)
    BY <1>3, <1>7, <1>8
  <2> DEFINE S == {results'[j] : j \in DOMAIN results'}
  <2>2. results' \in [1..Len(raws) -> S]
    BY <1>5, <2>1
  <2>3. results' \in Seq(S) /\ Len(results') = Len(raws)
    <3> HIDE DEF S
    <3>1. QED
      BY <2>2, <1>7
  <2>4. BatchInv'
    BY <1>3, <1>5, <1>6, <1>7, <1>8, <2>3 DEF BatchInv
  <2>5. QED
    BY <1>2, <2>4 DEF IInv
<1>9. CASE phase' = "compress"
  <2>1. DOMAIN results' \subseteq DOMAIN raws'
    BY <1>3, <1>5
  <2>2. raws' \in Seq(UNION {[1..n -> Int] : n \in Nat})
    BY <1>3 DEF IInv, BatchInv
  <2>3. BatchInv'
    BY <1>3, <1>5, <1>6, <1>7, <1>9, <2>1, <2>2 DEF BatchInv
  <2>4. QED
    BY <1>2, <2>3 DEF IInv
<1>10. QED
  BY <1>1, <1>8, <1>9

-----------------------------------------------------------------------------
\* The first result not yet written.
LEMMA NextResult ==
  ASSUME IInv, phase = "write", results # <<>>
  PROVE  /\ Head(results) = results[1] /\ Len(results) \in Nat \ {0}
         /\ DOMAIN results = 1..Len(results)
         /\ Len(hierarchy) + 1 \in 1..Len(nodes)
         /\ Good(Head(results), NodePoints(nodes[Len(hierarchy) + 1]))
         /\ Len(Tail(results)) = Len(results) - 1
         /\ \A j \in 1..(Len(results) - 1) : Tail(results)[j] = results[j + 1]
         /\ Tail(results) \in Seq({Tail(results)[j] : j \in DOMAIN Tail(results)})
<1> DEFINE S == {results[j] : j \in DOMAIN results}
<1>1. /\ results \in Seq(S) /\ Len(hierarchy) + Len(results) <= Len(nodes)
      /\ \A j \in DOMAIN results : Good(results[j], NodePoints(nodes[Len(hierarchy) + j]))
  BY DEF IInv, BatchInv
<1> HIDE DEF S
<1>2. Head(results) = results[1] /\ Len(results) \in Nat \ {0} /\ DOMAIN results = 1..Len(results)
  BY <1>1, EmptySeq, HeadTailProperties, LenProperties
<1>3. /\ Tail(results) \in Seq(S) /\ Len(Tail(results)) = Len(results) - 1
      /\ \A j \in 1..(Len(results) - 1) : Tail(results)[j] = results[j + 1]
  BY <1>1, HeadTailProperties
<1>4. Len(hierarchy) \in Nat /\ Len(nodes) \in Nat
  BY EntriesType, NodesType DEF IInv, ListInv
<1>5. Len(hierarchy) + 1 \in 1..Len(nodes)
  BY <1>1, <1>2, <1>4
<1>6. Good(Head(results), NodePoints(nodes[Len(hierarchy) + 1]))
  BY <1>1, <1>2
<1>7. Tail(results) \in Seq({Tail(results)[j] : j \in DOMAIN Tail(results)})
  <2> DEFINE t == Tail(results)
             T == {t[j] : j \in DOMAIN t}
  <2>1. Len(t) \in Nat /\ t \in [1..Len(t) -> S] /\ DOMAIN t = 1..Len(t)
    BY <1>3, LenProperties
  <2> HIDE DEF t
  <2>2. t \in [1..Len(t) -> T]
    BY <2>1
  <2>3. t \in Seq(T)
    <3> HIDE DEF T
    <3>1. QED
      BY <2>1, <2>2
  <2>4. QED
    BY <2>3 DEF t
<1>8. QED
  BY <1>2, <1>3, <1>5, <1>6, <1>7

\* The chunk lies behind all others: nothing that was written is lost.
LEMMA NewChunk ==
  ASSUME IInv, WriteChunk
  PROVE  \E bytes \in ChunkBytes :
           LET node == nodes[Len(hierarchy) + 1]
               chunk == Chunk(NodePoints(node), bytes) IN
           /\ phase = "write" /\ pos = at /\ Head(results) = chunk
           /\ file' = [o \in DOMAIN file \cup {at} |-> IF o = at THEN chunk ELSE file[o]]
           /\ pos' = at + bytes
           /\ nodes' = nodes /\ raws' = raws
           /\ \/ /\ phase' = "write"
                 /\ hierarchy' = Append(hierarchy, EntryOf(node, at, bytes))
                 /\ rows' = Append(rows, Row(node, bytes))
                 /\ at' = at + bytes /\ results' = Tail(results)
              \/ phase' = "failed" /\ UNCHANGED <<hierarchy, rows, at, results>>
<1> DEFINE node == nodes[Len(hierarchy) + 1]
<1>1. phase = "write" /\ results # <<>> /\ Head(results) # Failed
  BY DEF WriteChunk
<1>2. PICK bytes \in ChunkBytes : Head(results) = Chunk(NodePoints(node), bytes)
  BY <1>1, NextResult DEF Good
<1>3. Head(results).bytes = bytes
  BY <1>2 DEF Chunk
<1>4. pos = at
  BY <1>1 DEF IInv, FileInv, Filling
<1>5. file' = Placed(file, pos, Head(results)) /\ pos' = pos + Head(results).bytes
  BY DEF WriteChunk
<1>6. /\ nodes' = nodes /\ raws' = raws
      /\ \/ /\ phase' = phase
            /\ hierarchy' = Append(hierarchy, EntryOf(node, at, Head(results).bytes))
            /\ rows' = Append(rows, Row(node, Head(results).bytes))
            /\ at' = at + Head(results).bytes /\ results' = Tail(results)
         \/ phase' = "failed" /\ UNCHANGED <<hierarchy, rows, at, results>>
  BY DEF WriteChunk
<1>7. QED
  BY <1>1, <1>2, <1>3, <1>4, <1>5, <1>6 DEF Placed

LEMMA WriteChunkKeeps == ASSUME IInv, WriteChunk PROVE IInv'
<1> DEFINE n == Len(hierarchy)
           node == nodes[n + 1]
<1>1. PICK bytes \in ChunkBytes :
        /\ phase = "write" /\ pos = at
        /\ file' = [o \in DOMAIN file \cup {at} |->
                      IF o = at THEN Chunk(NodePoints(node), bytes) ELSE file[o]]
        /\ pos' = at + bytes
        /\ nodes' = nodes /\ raws' = raws
        /\ \/ /\ phase' = "write"
              /\ hierarchy' = Append(hierarchy, EntryOf(node, at, bytes))
              /\ rows' = Append(rows, Row(node, bytes))
              /\ at' = at + bytes /\ results' = Tail(results)
           \/ phase' = "failed" /\ UNCHANGED <<hierarchy, rows, at, results>>
  BY NewChunk
<1>2. /\ Len(nodes) \in Nat /\ n \in Nat /\ n + 1 \in 1..Len(nodes)
      /\ at \in Nat /\ at >= Start + PointerBytes /\ bytes \in Nat \ {0}
      /\ Start \in Nat /\ PointerBytes = 8
  BY <1>1, NextResult, NodesType, EntriesType, Constants DEF IInv, ListInv, WriteChunk
<1>3. /\ \A i \in 1..n : hierarchy[i].offset \in Nat /\ hierarchy[i].byte_size \in Nat \ {0}
      /\ \A i \in 1..n : hierarchy[i].offset # at /\ hierarchy[i].offset + hierarchy[i].byte_size <= at
  BY <1>2, EntriesType DEF IInv, EntriesInv
<1>4. \A i \in 1..n :
        /\ hierarchy[i].offset \in DOMAIN file'
        /\ file'[hierarchy[i].offset] = Chunk(NodePoints(nodes[i]), hierarchy[i].byte_size)
  BY <1>1, <1>3 DEF IInv, EntriesInv
<1>5. file' = [o \in DOMAIN file' |-> file'[o]]
  BY <1>1
<1>6. CASE phase' = "failed" /\ UNCHANGED <<hierarchy, rows, at, results>>
  <2>1. ListInv' /\ EntriesInv'
    BY <1>1, <1>4, <1>6 DEF IInv, ListInv, EntriesInv
  <2>2. FileInv' /\ BatchInv' /\ PhaseInv'
    BY <1>5, <1>6 DEF FileInv, BatchInv, PhaseInv, Filling, Closing
  <2>3. QED
    BY <2>1, <2>2 DEF IInv
<1>7. CASE /\ phase' = "write"
           /\ hierarchy' = Append(hierarchy, EntryOf(node, at, bytes))
           /\ rows' = Append(rows, Row(node, bytes))
           /\ at' = at + bytes /\ results' = Tail(results)
  <2> DEFINE e == EntryOf(node, at, bytes)
  <2>1. e \in Entries /\ e.key = node.key /\ e.point_count = node.count /\ e.offset = at /\ e.byte_size = bytes
    <3>1. node.key \in Nat /\ node.count \in Nat
      BY <1>2, NodesType DEF IInv, ListInv
    <3>2. QED
      BY <1>2, <3>1 DEF EntryOf, Entries
  <2> HIDE DEF e
  <2>2. /\ hierarchy' \in Seq(Entries) /\ Len(hierarchy') = n + 1 /\ hierarchy'[n + 1] = e
        /\ \A i \in 1..n : hierarchy'[i] = hierarchy[i]
    BY <1>7, <2>1, AppendProperties DEF IInv, ListInv, e
  <2>3. rows' = [i \in 1..(n + 1) |-> Row(nodes[i], hierarchy'[i].byte_size)]
    <3> DEFINE R == {Row(nodes[i], hierarchy'[i].byte_size) : i \in 1..(n + 1)}
    <3>1. rows = [i \in 1..n |-> Row(nodes[i], hierarchy'[i].byte_size)]
      BY <2>2 DEF IInv, ListInv
    <3>2. rows \in Seq(R) /\ Len(rows) = n
      <4>1. rows \in [1..n -> R]
        BY <1>2, <3>1
      <4> HIDE DEF R
      <4>2. QED
        BY <1>2, <4>1
    <3>3. Row(node, bytes) = Row(nodes[n + 1], hierarchy'[n + 1].byte_size)
      BY <2>1, <2>2
    <3>4. Row(node, bytes) \in R
      BY <1>2, <3>3
    <3> HIDE DEF R
    <3>5. /\ rows' \in Seq(R) /\ Len(rows') = n + 1 /\ rows'[n + 1] = Row(node, bytes)
          /\ \A i \in 1..n : rows'[i] = rows[i]
      BY <1>7, <3>2, <3>4, AppendProperties
    <3>6. \A i \in 1..(n + 1) : rows'[i] = Row(nodes[i], hierarchy'[i].byte_size)
      <4> TAKE i \in 1..(n + 1)
      <4>1. CASE i = n + 1
        BY <3>3, <3>5, <4>1
      <4>2. CASE i \in 1..n
        BY <3>1, <3>5, <4>2
      <4>3. QED
        BY <1>2, <4>1, <4>2
    <3>7. rows' = [i \in 1..(n + 1) |-> rows'[i]]
      BY <3>5, LenProperties
    <3>8. QED
      BY <3>6, <3>7
  <2>4. at' \in Nat /\ at' >= Start + PointerBytes /\ at' >= at
    BY <1>2, <1>7
  <2>5. ListInv'
    BY <1>1, <1>2, <2>2, <2>3, <2>4 DEF IInv, ListInv
  <2>6. at \in DOMAIN file' /\ file'[at] = Chunk(NodePoints(node), bytes)
    BY <1>1
  <2>7. EntriesInv'
    <3>1. ASSUME NEW i \in 1..n
          PROVE  /\ hierarchy'[i].key = nodes'[i].key /\ hierarchy'[i].point_count = nodes'[i].count
                 /\ hierarchy'[i].offset >= Start + PointerBytes
                 /\ hierarchy'[i].offset + hierarchy'[i].byte_size <= at'
                 /\ hierarchy'[i].offset \in DOMAIN file'
                 /\ file'[hierarchy'[i].offset]
                      = Chunk(NodePoints(nodes'[i]), hierarchy'[i].byte_size)
      <4>1. hierarchy'[i] = hierarchy[i] /\ nodes' = nodes
        BY <1>1, <2>2
      <4>2. /\ hierarchy[i].key = nodes[i].key /\ hierarchy[i].point_count = nodes[i].count
            /\ hierarchy[i].offset >= Start + PointerBytes
        BY DEF IInv, EntriesInv
      <4>3. hierarchy[i].offset + hierarchy[i].byte_size <= at'
        BY <1>2, <1>3, <2>4
      <4>4. QED
        BY <1>4, <4>1, <4>2, <4>3
    <3>2. ASSUME NEW i \in 1..n, NEW j \in 1..(n + 1), i < j
          PROVE  hierarchy'[i].offset + hierarchy'[i].byte_size <= hierarchy'[j].offset
      <4>1. CASE j = n + 1
        BY <1>3, <2>1, <2>2, <4>1
      <4>2. CASE j \in 1..n
        BY <2>2, <3>2, <4>2 DEF IInv, EntriesInv
      <4>3. QED
        BY <1>2, <4>1, <4>2
    <3>3. /\ hierarchy'[n + 1].key = nodes'[n + 1].key /\ hierarchy'[n + 1].point_count = nodes'[n + 1].count
          /\ hierarchy'[n + 1].offset >= Start + PointerBytes
          /\ hierarchy'[n + 1].offset + hierarchy'[n + 1].byte_size <= at'
          /\ hierarchy'[n + 1].offset \in DOMAIN file'
          /\ file'[hierarchy'[n + 1].offset]
               = Chunk(NodePoints(nodes'[n + 1]), hierarchy'[n + 1].byte_size)
      <4>1. nodes'[n + 1] = node /\ hierarchy'[n + 1] = e
        BY <1>1, <2>2
      <4>2. at + bytes <= at' /\ at >= Start + PointerBytes
        BY <1>2, <1>7
      <4>3. QED
        BY <2>1, <2>6, <4>1, <4>2
    <3>4. \A i \in 1..(n + 1) : i = n + 1 \/ i \in 1..n
      BY <1>2
    <3>5. \A j \in 1..(n + 1) : ~ (n + 1 < j)
      BY <1>2
    <3> HIDE DEF n, node
    <3>6. QED
      BY <2>2, <3>1, <3>2, <3>3, <3>4, <3>5 DEF EntriesInv
  <2>8. FileInv'
    <3>1. Start # at
      BY <1>2
    <3>2. ASSUME NEW o \in DOMAIN file' \ {Start} PROVE ChunkBefore(o)'
      <4>1. CASE o = at
        BY <1>2, <1>7, <2>4, <2>6, <4>1 DEF ChunkBefore, Chunk
      <4>2. CASE o # at
        <5>1. o \in DOMAIN file \ {Start} /\ file'[o] = file[o]
          BY <1>1, <4>2
        <5>2. ChunkBefore(o)
          BY <1>1, <5>1 DEF IInv, FileInv, Filling
        <5>3. QED
          BY <1>2, <2>4, <5>1, <5>2 DEF ChunkBefore
      <4>3. QED
        BY <4>1, <4>2
    <3>3. Start \in DOMAIN file' /\ file'[Start] = Pointer(-1)
      BY <1>1, <3>1 DEF IInv, FileInv, Filling
    <3>4. QED
      BY <1>1, <1>5, <1>7, <3>2, <3>3 DEF FileInv, Filling, Closing
  <2>9. BatchInv'
    <3>1. /\ Len(results') = Len(results) - 1 /\ Len(results) \in Nat \ {0}
          /\ DOMAIN results = 1..Len(results)
          /\ \A j \in 1..(Len(results) - 1) : results'[j] = results[j + 1]
          /\ results' \in Seq({results'[j] : j \in DOMAIN results'})
      BY <1>1, <1>7, NextResult DEF WriteChunk
    <3>2. DOMAIN results' = 1..(Len(results) - 1) /\ results' = [j \in DOMAIN results' |-> results'[j]]
      BY <3>1, LenProperties
    <3>3. \A j \in DOMAIN results : Good(results[j], NodePoints(nodes[n + j]))
      BY <1>1 DEF IInv, BatchInv
    <3>4. ASSUME NEW j \in DOMAIN results'
          PROVE  Good(results'[j], NodePoints(nodes'[Len(hierarchy') + j]))
      <4>0. j \in Int /\ j \in 1..(Len(results) - 1)
        BY <3>1, <3>2
      <4>1. j + 1 \in DOMAIN results /\ results'[j] = results[j + 1] /\ n + (j + 1) = (n + 1) + j
        <5>1. j + 1 \in 1..Len(results)
          BY <3>1, <4>0
        <5>2. n + (j + 1) = (n + 1) + j
          BY <1>2, <4>0
        <5>3. QED
          BY <3>1, <4>0, <5>1, <5>2
      <4>2. QED
        BY <1>1, <2>2, <3>3, <4>1
    <3>5. Len(hierarchy') + Len(results') <= Len(nodes')
      <4>1. n + Len(results) <= Len(nodes)
        BY <1>1 DEF IInv, BatchInv
      <4>2. QED
        BY <1>1, <1>2, <2>2, <3>1, <4>1
    <3>6. QED
      BY <1>7, <3>1, <3>2, <3>4, <3>5 DEF BatchInv
  <2>10. PhaseInv'
    BY <1>7 DEF PhaseInv, Filling
  <2>11. QED
    BY <2>5, <2>7, <2>8, <2>9, <2>10 DEF IInv
<1>8. QED
  BY <1>1, <1>6, <1>7

LEMMA MeetFailureKeeps == ASSUME IInv, MeetFailure \/ Fail PROVE IInv'
<1>1. /\ phase' = "failed"
      /\ UNCHANGED <<nodes, file, pos, hierarchy, rows, at, raws, results>>
  BY DEF MeetFailure, Fail
<1>2. ListInv' /\ EntriesInv'
  BY <1>1 DEF IInv, ListInv, EntriesInv
<1>3. FileInv' /\ BatchInv' /\ PhaseInv'
  BY <1>1 DEF IInv, FileInv, BatchInv, PhaseInv, Filling, Closing
<1>4. QED
  BY <1>2, <1>3 DEF IInv

LEMMA EndBatchKeeps == ASSUME IInv, EndBatch PROVE IInv'
<1>1. Preparing /\ phase \in Filling /\ phase' = "batch" /\ phase' \in Filling
  BY DEF EndBatch, Preparing, Filling
<1>2. PhaseInv' /\ ListInv' /\ EntriesInv' /\ FileInv'
  BY <1>1, PreparingKeeps
<1>3. BatchInv'
  BY <1>1 DEF BatchInv
<1>4. QED
  BY <1>2, <1>3 DEF IInv

-----------------------------------------------------------------------------
\* The entries are those of chunks that stay where they are.
LEMMA EntriesKept ==
  ASSUME IInv, nodes' = nodes, hierarchy' = hierarchy, at' = at,
         \A o \in DOMAIN file : o # Start /\ o < at => o \in DOMAIN file' /\ file'[o] = file[o]
  PROVE  EntriesInv'
<1>1. \A i \in 1..Len(hierarchy) :
        /\ hierarchy[i].offset \in DOMAIN file
        /\ hierarchy[i].offset # Start /\ hierarchy[i].offset < at
  <2> SUFFICES ASSUME NEW i \in 1..Len(hierarchy)
               PROVE  /\ hierarchy[i].offset \in DOMAIN file
                      /\ hierarchy[i].offset # Start /\ hierarchy[i].offset < at
    OBVIOUS
  <2> DEFINE o == hierarchy[i].offset
             b == hierarchy[i].byte_size
  <2>1. o \in Nat /\ b \in Nat \ {0} /\ at \in Nat
    BY EntriesType DEF IInv, ListInv
  <2>2. o \in DOMAIN file /\ o >= Start + PointerBytes /\ o + b <= at
    BY DEF IInv, EntriesInv
  <2>3. o # Start /\ o < at
    <3> HIDE DEF o, b
    <3> QED
      BY <2>1, <2>2, Constants
  <2>4. QED
    BY <2>2, <2>3
<1>2. QED
  BY <1>1 DEF IInv, EntriesInv

LEMMA WriteTableKeeps == ASSUME IInv, WriteTable PROVE IInv'
<1>1. /\ phase = "table" /\ phase' = "pointer" /\ pos = at /\ pos' = at + TableBytes
      /\ file' = [o \in DOMAIN file \cup {at} |-> IF o = at THEN Table(rows) ELSE file[o]]
      /\ UNCHANGED <<nodes, hierarchy, rows, at, raws, results>>
  BY DEF WriteTable, IInv, FileInv, Filling, Placed
<1>2. at # Start /\ at \in Nat
  BY Constants DEF IInv, ListInv
<1>3. ListInv'
  BY <1>1 DEF IInv, ListInv
<1>4. EntriesInv'
  <2>1. \A o \in DOMAIN file : o # Start /\ o < at => o \in DOMAIN file' /\ file'[o] = file[o]
    BY <1>1, <1>2
  <2>2. QED
    BY <1>1, <2>1, EntriesKept
<1>5. FileInv'
  <2>1. ASSUME NEW o \in DOMAIN file' \ {Start, at} PROVE ChunkBefore(o)'
    <3>1. o \in DOMAIN file \ {Start} /\ file'[o] = file[o]
      BY <1>1, <2>1
    <3>2. ChunkBefore(o)
      BY <1>1, <3>1 DEF IInv, FileInv, Filling
    <3>3. QED
      BY <1>1, <3>1, <3>2 DEF ChunkBefore
  <2>2. Start \in DOMAIN file' /\ file'[Start] = Pointer(-1)
    BY <1>1, <1>2 DEF IInv, FileInv, Filling
  <2>3. Len(hierarchy') = Len(nodes') /\ at' \in DOMAIN file' /\ file'[at'] = Table(rows')
    BY <1>1 DEF IInv, BatchInv
  <2>4. file' = [o \in DOMAIN file' |-> file'[o]]
    BY <1>1
  <2>5. QED
    BY <1>1, <2>1, <2>2, <2>3, <2>4 DEF FileInv, Filling, Closing
<1>6. BatchInv' /\ PhaseInv'
  BY <1>1 DEF BatchInv, PhaseInv, Closing
<1>7. QED
  BY <1>3, <1>4, <1>5, <1>6 DEF IInv

\* The one table is where the chunks end.
LEMMA TheTable ==
  ASSUME IInv, phase \in Closing
  PROVE  TableOffsets = {at} /\ TableAt = at
<1>1. /\ at \in DOMAIN file /\ file[at] = Table(rows)
      /\ Start \in DOMAIN file /\ \E to : file[Start] = Pointer(to)
      /\ \A o \in DOMAIN file \ {Start, at} : file[o].kind = "chunk"
  BY DEF IInv, FileInv, ChunkBefore, Closing
<1>2. /\ file[at].kind = "table" /\ file[Start].kind = "pointer"
  BY <1>1 DEF Table, Pointer
<1>3. \A o \in DOMAIN file : file[o].kind = "table" <=> o = at
  BY <1>1, <1>2
<1>4. QED
  BY <1>1, <1>3 DEF TableOffsets, TableAt

LEMMA NoTable ==
  ASSUME IInv, phase \in {"start"} \cup Filling
  PROVE  TableOffsets = {}
<1>1. CASE phase = "start"
  BY <1>1 DEF IInv, FileInv, NoFile, TableOffsets
<1>2. CASE phase \in Filling
  <2>1. file[Start] = Pointer(-1) /\ \A o \in DOMAIN file \ {Start} : file[o].kind = "chunk"
    BY <1>2 DEF IInv, FileInv, ChunkBefore
  <2>2. file[Start].kind = "pointer"
    BY <2>1 DEF Pointer
  <2>3. QED
    BY <2>1, <2>2 DEF TableOffsets
<1>3. QED
  BY <1>1, <1>2

LEMMA WritePointerKeeps == ASSUME IInv, WritePointer PROVE IInv'
<1>1. /\ phase = "pointer" /\ phase' = "end" /\ Start \in DOMAIN file
      /\ file' = [o \in DOMAIN file |-> IF o = Start THEN Pointer(at) ELSE file[o]]
      /\ UNCHANGED <<nodes, hierarchy, rows, at, raws, results>>
  <2>1. phase \in Closing /\ Start \in DOMAIN file /\ DOMAIN file \cup {Start} = DOMAIN file
    BY DEF WritePointer, IInv, FileInv, Closing
  <2>2. QED
    BY <2>1, TheTable DEF WritePointer, Placed
<1>2. at # Start /\ at \in Nat
  BY Constants DEF IInv, ListInv
<1>3. ListInv'
  BY <1>1 DEF IInv, ListInv
<1>4. EntriesInv'
  BY <1>1, EntriesKept
<1>5. FileInv'
  <2>1. /\ Len(hierarchy) = Len(nodes) /\ at \in DOMAIN file /\ file[at] = Table(rows)
        /\ \A o \in DOMAIN file \ {Start, at} : ChunkBefore(o)
    BY <1>1 DEF IInv, FileInv, Closing
  <2>2. \A o \in DOMAIN file' \ {Start, at} : ChunkBefore(o)'
    BY <1>1, <2>1 DEF ChunkBefore
  <2>3. at \in DOMAIN file' /\ file'[at] = Table(rows) /\ file'[Start] = Pointer(at)
    BY <1>1, <1>2, <2>1
  <2>4. file' = [o \in DOMAIN file' |-> file'[o]]
    BY <1>1
  <2>5. QED
    BY <1>1, <2>1, <2>2, <2>3, <2>4 DEF FileInv, Filling, Closing
<1>6. BatchInv' /\ PhaseInv'
  BY <1>1 DEF BatchInv, PhaseInv, Closing
<1>7. QED
  BY <1>3, <1>4, <1>5, <1>6 DEF IInv

LEMMA SeekEndKeeps == ASSUME IInv, SeekEnd PROVE IInv'
<1>1. /\ phase = "end" /\ phase' = "done" /\ pos' = at + TableBytes
      /\ UNCHANGED <<nodes, file, hierarchy, rows, at, raws, results>>
  BY TheTable DEF SeekEnd, Closing
<1>2. ListInv' /\ EntriesInv'
  BY <1>1 DEF IInv, ListInv, EntriesInv
<1>3. FileInv'
  BY <1>1 DEF IInv, FileInv, ChunkBefore, Filling, Closing
<1>4. BatchInv' /\ PhaseInv'
  BY <1>1 DEF BatchInv, PhaseInv, Closing
<1>5. QED
  BY <1>2, <1>3, <1>4 DEF IInv

LEMMA StepInv == ASSUME IInv, [Next]_vars PROVE IInv'
<1>1. CASE Next
  BY <1>1, PlaceholderKeeps, StartBatchKeeps, EncodeKeeps, WorkKeeps, WriteChunkKeeps,
     MeetFailureKeeps, EndBatchKeeps, WriteTableKeeps, WritePointerKeeps, SeekEndKeeps
     DEF Next, Step
<1>2. CASE UNCHANGED vars
  BY <1>2 DEF vars, IInv, PhaseInv, ListInv, EntriesInv, FileInv, ChunkBefore, BatchInv,
     BatchLen, Left
<1>3. QED
  BY <1>1, <1>2

THEOREM Invariance == Spec => []IInv
<1>1. Init => IInv
  BY InitInv
<1>2. IInv /\ [Next]_vars => IInv'
  BY StepInv
<1>3. QED
  BY <1>1, <1>2, PTL DEF Spec

-----------------------------------------------------------------------------
\* Every entry leads to the chunk of its own node, and no two chunks share a
\* byte, whatever order the workers of compress_nodes finish in.
THEOREM OffsetsAreRight == Spec => []EntriesLead
<1>1. IInv => EntriesLead
  <2> SUFFICES ASSUME IInv PROVE Lead(file, nodes, hierarchy)
    BY DEF EntriesLead
  <2>1. DOMAIN hierarchy = 1..Len(hierarchy) /\ Len(hierarchy) <= Len(nodes)
    BY EntriesType DEF IInv, ListInv
  <2>2. QED
    BY <2>1 DEF IInv, EntriesInv, Lead, Leads
<1>2. QED
  BY <1>1, Invariance, PTL

\* A finished section has its table behind the chunks, a pointer to it, and
\* the writer behind everything (the end of compress_nodes).
THEOREM SectionIsClosed == Spec => []SectionClosed
<1>1. IInv => SectionClosed
  <2> SUFFICES ASSUME IInv, phase = "done" PROVE Closed(file, nodes, hierarchy, pos)
    BY DEF SectionClosed
  <2>1. /\ Len(hierarchy) = Len(nodes) /\ Start \in DOMAIN file /\ file[Start] = Pointer(at)
        /\ at \in DOMAIN file /\ file[at] = Table(rows) /\ pos = at + TableBytes
        /\ \A o \in DOMAIN file \ {Start, at} : ChunkBefore(o)
    BY DEF IInv, FileInv, Closing
  <2>2. /\ at \in Nat /\ at >= Start + 8 /\ Start \in Nat /\ TableBytes \in Nat \ {0} /\ PointerBytes = 8
        /\ rows = [i \in DOMAIN hierarchy |-> Row(nodes[i], hierarchy[i].byte_size)]
    BY Constants, EntriesType DEF IInv, ListInv
  <2>3. /\ file[Start].kind = "pointer" /\ file[Start].to = at /\ file[Start].bytes = 8
        /\ file[at].bytes = TableBytes
    BY <2>1, <2>2 DEF Pointer, Table
  <2>4. ASSUME NEW o \in DOMAIN file PROVE o >= Start /\ o + file[o].bytes <= pos
    <3>1. CASE o = Start
      BY <2>1, <2>2, <2>3, <3>1
    <3>2. CASE o = at
      BY <2>1, <2>2, <2>3, <3>2
    <3>3. CASE o \notin {Start, at}
      <4>1. ChunkBefore(o)
        BY <2>1, <3>3
      <4>2. QED
        BY <2>1, <2>2, <4>1 DEF ChunkBefore
    <3>4. QED
      BY <3>1, <3>2, <3>3
  <2>5. QED
    BY <2>1, <2>2, <2>3, <2>4 DEF Closed
<1>2. QED
  BY <1>1, Invariance, PTL

-----------------------------------------------------------------------------
(***************************************************************************)
(* Refinement: with the table and the pointer kept back until the end, the *)
(* file grows as the sequential compressor's does.                         *)
(***************************************************************************)
LEMMA SameTerms ==
  /\ Stream!NoFile = NoFile /\ Stream!PointerBytes = PointerBytes
  /\ \A f, o, what : Stream!Placed(f, o, what) = Placed(f, o, what)
  /\ \A to : Stream!Pointer(to) = Pointer(to)
  /\ \A list : Stream!Table(list) = Table(list)
  /\ \A points, bytes : Stream!Chunk(points, bytes) = Chunk(points, bytes)
  /\ \A node : Stream!NodePoints(node) = NodePoints(node)
  /\ \A node, bytes :
       /\ Stream!FitsEntry(node, bytes) = FitsEntry(node, bytes)
       /\ Stream!Row(node, bytes) = Row(node, bytes)
  /\ \A node, offset, bytes : Stream!EntryOf(node, offset, bytes) = EntryOf(node, offset, bytes)
  BY DEF Stream!NoFile, NoFile, Stream!PointerBytes, PointerBytes, Stream!Placed, Placed,
     Stream!Pointer, Pointer, Stream!Table, Table, Stream!Chunk, Chunk,
     Stream!NodePoints, NodePoints, Stream!PointsAt, PointsAt, Stream!FitsEntry, FitsEntry,
     Stream!Row, Row, Stream!EntryOf, EntryOf

Prefix == [o \in DOMAIN file \ {at} |-> IF o = Start THEN Pointer(-1) ELSE file[o]]

\* What the sequential compressor has of the file, in each phase.
StreamView ==
  /\ phase \in {"start"} \cup Filling => StreamFile = file /\ StreamPos = pos
  /\ phase \in {"pointer", "end"} => StreamFile = Prefix /\ StreamPos = at

LEMMA View == IInv => StreamView
<1> SUFFICES ASSUME IInv PROVE StreamView
  OBVIOUS
<1>1. ASSUME phase \in {"start"} \cup Filling PROVE StreamFile = file /\ StreamPos = pos
  <2>1. TableOffsets = {} /\ phase # "done"
    BY <1>1, NoTable DEF Filling
  <2>2. file = [o \in DOMAIN file |-> file[o]] /\ (Start \in DOMAIN file => file[Start] = Pointer(-1))
    BY <1>1 DEF IInv, FileInv, NoFile
  <2>3. StreamFile = [o \in DOMAIN file |-> IF o = Start THEN Pointer(-1) ELSE file[o]]
    BY <2>1 DEF StreamFile
  <2>4. QED
    BY <2>1, <2>2, <2>3 DEF StreamPos
<1>2. ASSUME phase \in {"pointer", "end"} PROVE StreamFile = Prefix /\ StreamPos = at
  <2>1. TableOffsets = {at} /\ TableAt = at /\ phase # "done"
    BY <1>2, TheTable DEF Closing
  <2>2. QED
    BY <2>1 DEF StreamFile, StreamPos, Prefix
<1>3. QED
  BY <1>1, <1>2 DEF StreamView

LEMMA Unmoved ==
  ASSUME UNCHANGED <<file, pos>>, phase = "done" <=> phase' = "done"
  PROVE  UNCHANGED <<StreamFile, StreamPos>>
<1> DEFINE OfKind(f) == {o \in DOMAIN f : f[o].kind = "table"}
           FirstOf(f) == CHOOSE o \in DOMAIN f : f[o].kind = "table"
<1>1. TableOffsets = OfKind(file) /\ TableOffsets' = OfKind(file')
  BY DEF TableOffsets
<1>2. TableAt = FirstOf(file) /\ TableAt' = FirstOf(file')
  BY DEF TableAt
<1>3. file' = file /\ pos' = pos
  OBVIOUS
<1> HIDE DEF OfKind, FirstOf
<1>4. TableOffsets' = TableOffsets /\ TableAt' = TableAt
  BY <1>1, <1>2, <1>3
<1>5. StreamFile' = StreamFile
  BY <1>3, <1>4 DEF StreamFile
<1>6. StreamPos' = StreamPos
  BY <1>3, <1>4 DEF StreamPos
<1>7. QED
  BY <1>5, <1>6

LEMMA InitStream == Init => Stream!SInit
<1> SUFFICES ASSUME Init PROVE Stream!SInit
  OBVIOUS
<1>1. StreamFile = file /\ StreamPos = pos
  BY InitInv, View DEF Init, StreamView
<1>2. QED
  BY <1>1, SameTerms DEF Init, Stream!SInit, StreamPhase

\* Steps the sequential compressor does not see.
LEMMA QuietSteps ==
  ASSUME IInv, IInv', StreamView, StreamView',
         StartBatch \/ Encode \/ (\E i \in DOMAIN raws : Work(i)) \/ EndBatch
           \/ WriteTable \/ WritePointer
  PROVE  UNCHANGED Stream!svars
<1>1. CASE StartBatch \/ Encode \/ (\E i \in DOMAIN raws : Work(i)) \/ EndBatch
  <2>1. /\ phase \in Filling /\ phase' \in Filling
        /\ UNCHANGED <<nodes, file, pos, hierarchy>>
    BY <1>1 DEF StartBatch, Encode, Work, EndBatch, Filling
  <2>2. StreamPhase = "chunk" /\ StreamPhase' = "chunk"
    BY <2>1 DEF StreamPhase, Filling
  <2>3. QED
    BY <2>1, <2>2 DEF StreamView, Stream!svars
<1>2. CASE WriteTable
  <2>1. /\ phase = "table" /\ phase' = "pointer" /\ pos = at
        /\ file' = [o \in DOMAIN file \cup {at} |-> IF o = at THEN Table(rows) ELSE file[o]]
        /\ UNCHANGED <<nodes, hierarchy, at>>
    BY <1>2 DEF WriteTable, IInv, FileInv, Filling, Placed
  <2>2. at \notin DOMAIN file
    <3>1. at # Start /\ at \in Nat
      BY Constants DEF IInv, ListInv
    <3>2. \A o \in DOMAIN file \ {Start} : o \in Nat /\ o < at
      BY <2>1, <3>1 DEF IInv, FileInv, Filling, ChunkBefore
    <3>3. QED
      BY <3>1, <3>2
  <2>3. StreamFile = file /\ StreamPos = at /\ StreamFile' = Prefix' /\ StreamPos' = at
    BY <2>1 DEF StreamView, Filling
  <2>4. Prefix' = file
    <3>1. /\ file = [o \in DOMAIN file |-> file[o]]
          /\ Start \in DOMAIN file /\ file[Start] = Pointer(-1)
      BY <2>1 DEF IInv, FileInv, Filling
    <3>2. Prefix' = [o \in DOMAIN file |-> IF o = Start THEN Pointer(-1) ELSE file[o]]
      BY <2>1, <2>2 DEF Prefix
    <3>3. QED
      BY <3>1, <3>2
  <2>5. StreamPhase = "chunk" /\ StreamPhase' = "chunk"
    BY <2>1 DEF StreamPhase
  <2>6. QED
    BY <2>1, <2>3, <2>4, <2>5 DEF Stream!svars
<1>3. CASE WritePointer
  <2>1. /\ phase = "pointer" /\ phase' = "end" /\ Start \in DOMAIN file
        /\ file' = [o \in DOMAIN file |-> IF o = Start THEN Pointer(TableAt) ELSE file[o]]
        /\ UNCHANGED <<nodes, hierarchy, at>>
    <3>1. phase = "pointer" /\ Start \in DOMAIN file /\ DOMAIN file \cup {Start} = DOMAIN file
      BY <1>3 DEF WritePointer, IInv, FileInv, Closing
    <3>2. QED
      BY <1>3, <3>1 DEF WritePointer, Placed
  <2>2. Prefix' = Prefix
    BY <2>1 DEF Prefix
  <2>3. StreamPhase = "chunk" /\ StreamPhase' = "chunk"
    BY <2>1 DEF StreamPhase
  <2>4. QED
    BY <2>1, <2>2, <2>3 DEF StreamView, Stream!svars
<1>4. QED
  BY <1>1, <1>2, <1>3

LEMMA ChunkCompressed ==
  ASSUME IInv, StreamView, StreamView', WriteChunk
  PROVE  Stream!Compress
<1> DEFINE node == nodes[Len(hierarchy) + 1]
<1>1. PICK bytes \in ChunkBytes :
        /\ phase = "write" /\ pos = at /\ Head(results) = Chunk(NodePoints(node), bytes)
        /\ file' = [o \in DOMAIN file \cup {at} |->
                      IF o = at THEN Chunk(NodePoints(node), bytes) ELSE file[o]]
        /\ pos' = at + bytes
        /\ nodes' = nodes
        /\ \/ /\ phase' = "write"
              /\ hierarchy' = Append(hierarchy, EntryOf(node, at, bytes))
           \/ phase' = "failed" /\ hierarchy' = hierarchy
  BY NewChunk
<1>2. Len(hierarchy) < Len(nodes)
  BY <1>1, NextResult, EntriesType, NodesType DEF WriteChunk, IInv, ListInv
<1>3. StreamFile = file /\ StreamPos = at
  BY <1>1 DEF StreamView, Filling
<1>4. IF FitsEntry(node, bytes)
        THEN hierarchy' = Append(hierarchy, EntryOf(node, at, bytes)) /\ phase' = "write"
        ELSE phase' = "failed" /\ hierarchy' = hierarchy
  BY <1>1 DEF WriteChunk, Chunk
<1>5. StreamFile' = file' /\ StreamPos' = pos'
  <2>1. CASE phase' = "write"
    BY <2>1 DEF StreamView, Filling
  <2>2. CASE phase' = "failed"
    <3>1. /\ file[Start] = Pointer(-1) /\ at # Start
          /\ \A o \in DOMAIN file \ {Start} : file[o].kind = "chunk"
      BY <1>1, Constants DEF IInv, FileInv, ListInv, ChunkBefore, Filling
    <3>2. /\ file' = [o \in DOMAIN file' |-> file'[o]] /\ file'[Start] = Pointer(-1)
          /\ \A o \in DOMAIN file' \ {Start} : file'[o].kind = "chunk"
      <4>1. Start \in DOMAIN file
        BY <1>1 DEF IInv, FileInv, Filling
      <4>2. file'[Start] = Pointer(-1)
        BY <1>1, <3>1, <4>1
      <4>3. \A o \in DOMAIN file' \ {Start} : file'[o].kind = "chunk"
        BY <1>1, <3>1 DEF Chunk
      <4>4. QED
        BY <1>1, <4>2, <4>3
    <3>3. TableOffsets' = {}
      BY <3>2 DEF TableOffsets, Pointer
    <3>4. StreamFile' = [o \in DOMAIN file' |-> IF o = Start THEN Pointer(-1) ELSE file'[o]]
      BY <2>2, <3>3 DEF StreamFile
    <3>5. QED
      BY <3>2, <3>3, <3>4 DEF StreamPos
  <2>3. QED
    BY <1>1, <2>1, <2>2
<1>6. StreamPhase = "chunk" /\ (phase' = "write" => StreamPhase' = "chunk")
      /\ (phase' = "failed" => StreamPhase' = "failed")
  BY <1>1 DEF StreamPhase
<1>7. /\ StreamFile' = Stream!Placed(StreamFile, StreamPos, Stream!Chunk(Stream!NodePoints(node), bytes))
      /\ StreamPos' = StreamPos + bytes
  BY <1>1, <1>3, <1>5, SameTerms DEF Placed
<1>8. IF Stream!FitsEntry(node, bytes)
        THEN /\ hierarchy' = Append(hierarchy, Stream!EntryOf(node, StreamPos, bytes))
             /\ StreamPhase' = StreamPhase
        ELSE StreamPhase' = "failed" /\ hierarchy' = hierarchy
  BY <1>3, <1>4, <1>6, SameTerms
<1>9. QED
  BY <1>1, <1>2, <1>6, <1>7, <1>8 DEF Stream!Compress

LEMMA EndIsDone ==
  ASSUME IInv, IInv', StreamView, SeekEnd
  PROVE  Stream!Done
<1> DEFINE rowsOf == [i \in DOMAIN hierarchy |-> Row(nodes[i], hierarchy[i].byte_size)]
<1>1. /\ phase = "end" /\ phase' = "done" /\ pos' = at + TableBytes
      /\ UNCHANGED <<nodes, file, hierarchy>>
  BY TheTable DEF SeekEnd, Closing
<1>2. /\ Len(hierarchy) = Len(nodes) /\ Start \in DOMAIN file /\ file[Start] = Pointer(at)
      /\ at \in DOMAIN file /\ file[at] = Table(rows) /\ file = [o \in DOMAIN file |-> file[o]]
  BY <1>1 DEF IInv, FileInv, Closing
<1>3. rows = rowsOf
  BY EntriesType DEF IInv, ListInv
<1>4. StreamFile = Prefix /\ StreamPos = at
  BY <1>1 DEF StreamView
<1>5. StreamFile' = file /\ StreamPos' = at + TableBytes
  BY <1>1 DEF StreamFile, StreamPos
<1>6. file = Placed(Placed(Prefix, at, Table(rows)), Start, Pointer(at))
  <2> DEFINE p == Placed(Prefix, at, Table(rows))
             q == Placed(p, Start, Pointer(at))
  <2>1. at # Start
    BY Constants DEF IInv, ListInv
  <2>2. /\ DOMAIN p = DOMAIN file /\ p[at] = file[at]
        /\ \A o \in DOMAIN file \ {at, Start} : p[o] = file[o]
    BY <1>2 DEF Placed, Prefix
  <2> HIDE DEF p
  <2>3. q = [o \in DOMAIN file |-> IF o = Start THEN Pointer(at) ELSE p[o]]
    BY <1>2, <2>2 DEF Placed
  <2>4. \A o \in DOMAIN file : (IF o = Start THEN Pointer(at) ELSE p[o]) = file[o]
    BY <1>2, <2>1, <2>2
  <2>5. q = file
    BY <1>2, <2>3, <2>4
  <2>6. QED
    BY <2>5 DEF p
<1>7. StreamPhase = "chunk" /\ StreamPhase' = "done"
  BY <1>1 DEF StreamPhase
<1>8. StreamFile' = Stream!Placed(Stream!Placed(StreamFile, StreamPos, Stream!Table(rowsOf)),
                                  Start, Stream!Pointer(StreamPos))
  BY <1>3, <1>4, <1>5, <1>6, SameTerms
<1>9. rowsOf = [i \in DOMAIN hierarchy |-> Stream!Row(nodes[i], hierarchy[i].byte_size)]
  BY SameTerms
<1>10. QED
  BY <1>1, <1>2, <1>4, <1>5, <1>7, <1>8, <1>9 DEF Stream!Done

LEMMA StepStream ==
  ASSUME IInv, IInv', StreamView, StreamView', [Next]_vars
  PROVE  [Stream!SNext]_Stream!svars
<1>1. CASE WritePlaceholder
  <2>1. /\ phase = "start" /\ phase' = "batch" /\ phase' \in Filling
        /\ file' = Placed(file, Start, Pointer(-1)) /\ pos' = Start + PointerBytes
        /\ UNCHANGED <<nodes, hierarchy>>
    BY <1>1 DEF WritePlaceholder, Filling
  <2>2. StreamFile = file /\ StreamFile' = file' /\ StreamPos' = pos'
    BY <2>1 DEF StreamView
  <2>3. StreamPhase = "start" /\ StreamPhase' = "chunk"
    BY <2>1 DEF StreamPhase
  <2>4. Stream!Reserve
    BY <2>1, <2>2, <2>3, SameTerms DEF Stream!Reserve
  <2>5. QED
    BY <2>4 DEF Stream!SNext
<1>2. CASE StartBatch \/ Encode \/ (\E i \in DOMAIN raws : Work(i)) \/ EndBatch
             \/ WriteTable \/ WritePointer
  BY <1>2, QuietSteps
<1>3. CASE WriteChunk
  BY <1>3, ChunkCompressed DEF Stream!SNext
<1>4. CASE SeekEnd
  BY <1>4, EndIsDone DEF Stream!SNext
<1>5. CASE MeetFailure \/ Fail
  <2>1. /\ phase \notin {"done", "failed"} /\ phase' = "failed"
        /\ UNCHANGED <<nodes, file, pos, hierarchy>>
    BY <1>5 DEF MeetFailure, Fail, Running
  <2>2. UNCHANGED <<StreamFile, StreamPos>>
    BY <2>1, Unmoved
  <2>3. StreamPhase \in {"start", "chunk"} /\ StreamPhase' = "failed"
    BY <2>1 DEF StreamPhase
  <2>4. Stream!SFail
    BY <2>1, <2>2, <2>3 DEF Stream!SFail
  <2>5. QED
    BY <2>4 DEF Stream!SNext
<1>6. CASE UNCHANGED vars
  <2>1. UNCHANGED <<nodes, file, pos, hierarchy, phase>>
    BY <1>6 DEF vars
  <2>2. UNCHANGED <<StreamFile, StreamPos>>
    BY <2>1, Unmoved
  <2>3. QED
    BY <2>1, <2>2 DEF StreamPhase, Stream!svars
<1>7. QED
  BY <1>1, <1>2, <1>3, <1>4, <1>5, <1>6 DEF Next, Step

\* compress_nodes writes the same file with the `parallel` feature as without
\* it, for any number of nodes, any batch size and any order of the workers.
THEOREM SameAsSequential == Spec => ImplementsStream
<1>1. IInv => StreamView
  BY View
<1>2. QED
  BY <1>1, Invariance, InitStream, StepStream, PTL DEF Spec, ImplementsStream, Stream!SSpec
=============================================================================

------------------------- MODULE Conversion_proofs -------------------------
(***************************************************************************)
(* Proofs about Spill and Conversion, for any records, sources, widths and *)
(* buffer sizes: a spill that opens holds the accepted records and their   *)
(* summary, and a published file holds the whole source, rounded to the    *)
(* grid of the file, under a header that is true to half a step of it.     *)
(***************************************************************************)
EXTENDS Conversion, SequenceTheorems, FiniteSetTheorems, TLAPS

Byte == Nat \X (1..Width)

SpillType ==
  /\ phase \in {"push", "flush", "sync", "reopen", "open", "reader", "failed"}
  /\ disk \in Seq(Byte) /\ buffer \in Seq(Byte)
  /\ pending = None \/ pending \in Records
  /\ count \in Nat
  /\ accepted \in Seq(Records)

\* No push is in progress once finalize has begun, and nothing is left in
\* the buffer once it is flushed.
PhaseInv ==
  /\ phase # "push" => pending = None
  /\ phase \in {"sync", "reopen", "open", "reader"} => buffer = <<>>
  /\ phase = "reader" => Len(disk) = Width * count

\* The file and the buffer together hold the records bytes, one after the
\* other.
Holds(bytes, records) ==
  /\ Len(bytes) = Width * Len(records)
  /\ \A i \in 1..Len(records) : \A j \in 1..Width :
       bytes[Width * (i - 1) + j] = <<records[i].id, j>>

ContentInv == count = Len(accepted) /\ Holds(disk \o buffer, accepted)

Xs(records) == {r.x : r \in Range(records)}
Times(records) == {r.gps_time : r \in Range(records)}
Returning(records, n) == {i \in DOMAIN records : records[i].return_number = n}

Least(m, S) == m \in S /\ \A n \in S : m <= n
Greatest(m, S) == m \in S /\ \A n \in S : n <= m

BoundsOf(b, records) ==
  IF records = <<>> THEN b = NoBounds
  ELSE \E lo, hi \in Int :
         b = [min |-> lo, max |-> hi] /\ Least(lo, Xs(records)) /\ Greatest(hi, Xs(records))

StatsOf(s, records) ==
  /\ IF records = <<>> THEN s.gps = {}
     ELSE \E lo, hi \in Int :
            s.gps = {lo, hi} /\ Least(lo, Times(records)) /\ Greatest(hi, Times(records))
  /\ \A n \in 1..15 : s.returns[n] = Cardinality(Returning(records, n))

SummaryInv == BoundsOf(bounds, accepted) /\ StatsOf(stats, accepted)

SpillInv == SpillType /\ PhaseInv /\ ContentInv /\ SummaryInv

-----------------------------------------------------------------------------
LEMMA RecordFields ==
  ASSUME NEW r \in Records
  PROVE  /\ r.id \in Nat /\ r.x \in Int /\ r.gps_time \in Int /\ r.return_number \in Nat
         /\ r # None /\ r # ReadError
<1>1. r \in Record
  BY SpillAssumption
<1>2. r.id \in Nat /\ r.x \in Int /\ r.gps_time \in Int /\ r.return_number \in Nat
  BY <1>1 DEF Record
<1>3. "id" \in DOMAIN r
  BY <1>1 DEF Record
<1>4. "id" \notin DOMAIN [kind |-> "none"] /\ "id" \notin DOMAIN [kind |-> "error"]
  OBVIOUS
<1>5. QED
  BY <1>2, <1>3, <1>4 DEF None, ReadError

LEMMA RecordBytesType ==
  ASSUME NEW r \in Records
  PROVE  /\ Bytes(r) \in Seq(Byte) /\ Len(Bytes(r)) = Width
         /\ \A j \in 1..Width : Bytes(r)[j] = <<r.id, j>>
<1> DEFINE b == Bytes(r)
<1>1. Width \in Nat
  BY SpillAssumption
<1>2. b \in [1..Width -> Byte] /\ \A j \in 1..Width : b[j] = <<r.id, j>>
  BY RecordFields DEF Bytes, Byte
<1>3. b \in Seq(Byte)
  BY <1>1, <1>2, SeqDef
<1> HIDE DEF b
<1>4. DOMAIN b = 1..Len(b) /\ Len(b) \in Nat /\ DOMAIN b = 1..Width
  BY <1>2, <1>3, LenProperties
<1>5. Len(b) = Width
  <2> DEFINE n == Len(b)
             w == Width
  <2>1. n \in Nat /\ w \in Nat \ {0} /\ 1..n = 1..w
    BY <1>4, SpillAssumption
  <2> HIDE DEF n, w
  <2>2. w \in 1..w
    BY <2>1
  <2>3. w \in 1..n
    BY <2>1, <2>2
  <2>4. w <= n /\ n \in 1..n
    BY <2>1, <2>3
  <2>5. n \in 1..w
    BY <2>1, <2>4
  <2>6. n = w
    BY <2>1, <2>4, <2>5
  <2>7. QED
    BY <2>6 DEF n, w
<1>6. QED
  BY <1>2, <1>3, <1>5 DEF b

\* The element that takes the place of the least or the greatest.
LEMMA LeastIsMin ==
  ASSUME NEW S \in SUBSET Int, NEW m, Least(m, S) PROVE Min(S) = m
<1>1. \A n \in S : (\A k \in S : n =< k) => n = m
  BY DEF Least
<1>2. QED
  BY <1>1 DEF Least, Min

LEMMA GreatestIsMax ==
  ASSUME NEW S \in SUBSET Int, NEW m, Greatest(m, S) PROVE Max(S) = m
<1>1. \A n \in S : (\A k \in S : n >= k) => n = m
  BY DEF Greatest
<1>2. QED
  BY <1>1 DEF Greatest, Max

\* Bounds::extend and PointStats::record keep the least and the greatest.
LEMMA OfTwo ==
  ASSUME NEW x \in Int, NEW y \in Int
  PROVE  Min({x, y}) = (IF x <= y THEN x ELSE y) /\ Max({x, y}) = (IF x >= y THEN x ELSE y)
<1> DEFINE m == IF x <= y THEN x ELSE y
           n == IF x >= y THEN x ELSE y
<1>1. Least(m, {x, y}) /\ Greatest(n, {x, y})
  BY DEF Least, Greatest
<1> HIDE DEF m, n
<1>2. QED
  BY <1>1, LeastIsMin, GreatestIsMax DEF m, n

LEMMA OfThree ==
  ASSUME NEW x \in Int, NEW y \in Int, NEW z \in Int, x <= y
  PROVE  Min({x, y} \cup {z}) = Min({x, z}) /\ Max({x, y} \cup {z}) = Max({y, z})
<1> DEFINE m == IF x <= z THEN x ELSE z
           n == IF y >= z THEN y ELSE z
<1>1. Least(m, {x, y} \cup {z}) /\ Greatest(n, {x, y} \cup {z})
  BY DEF Least, Greatest
<1> HIDE DEF m, n
<1>2. Min({x, y} \cup {z}) = m /\ Max({x, y} \cup {z}) = n
  BY <1>1, LeastIsMin, GreatestIsMax
<1>3. QED
  BY <1>2, OfTwo DEF m, n

LEMMA WithOneMore ==
  ASSUME NEW S \in SUBSET Int, NEW lo \in Int, NEW hi \in Int, Least(lo, S), Greatest(hi, S),
         NEW t \in Int
  PROVE  /\ Min({lo, t}) \in Int /\ Least(Min({lo, t}), S \cup {t})
         /\ Max({hi, t}) \in Int /\ Greatest(Max({hi, t}), S \cup {t})
<1> DEFINE m == Min({lo, t})
           n == Max({hi, t})
<1>1. m = (IF lo <= t THEN lo ELSE t) /\ n = (IF hi >= t THEN hi ELSE t)
  BY OfTwo
<1> HIDE DEF m, n
<1>2. m \in Int /\ n \in Int
  BY <1>1
<1>3. Least(m, S \cup {t})
  BY <1>1 DEF Least
<1>4. Greatest(n, S \cup {t})
  BY <1>1 DEF Greatest
<1>5. QED
  BY <1>2, <1>3, <1>4 DEF m, n

\* A list of records with one more at its end.
LEMMA OneMore ==
  ASSUME NEW s \in Seq(Records), NEW r \in Records
  PROVE  /\ Append(s, r) \in Seq(Records) /\ Append(s, r) # <<>>
         /\ Range(Append(s, r)) = Range(s) \cup {r}
         /\ Range(s) \in SUBSET Records
         /\ s = <<>> => Range(s) = {}
         /\ Xs(Append(s, r)) = Xs(s) \cup {r.x} /\ Xs(s) \in SUBSET Int
         /\ Times(Append(s, r)) = Times(s) \cup {r.gps_time} /\ Times(s) \in SUBSET Int
<1> DEFINE t == Append(s, r)
           n == Len(s)
<1>1. t \in Seq(Records) /\ t # <<>> /\ Len(t) = n + 1 /\ (\A i \in 1..n : t[i] = s[i]) /\ t[n + 1] = r
  BY AppendProperties
<1>2. n \in Nat
  BY LenProperties
<1>3. Range(s) = {s[i] : i \in 1..n} /\ Range(t) = {t[i] : i \in 1..(n + 1)}
  BY <1>1, RangeEquality
<1>4. s = <<>> => n = 0
  OBVIOUS
<1> HIDE DEF t, n
<1>5. 1..(n + 1) = 1..n \cup {n + 1}
  BY <1>2
<1>6. Range(t) = Range(s) \cup {r}
  BY <1>1, <1>3, <1>5
<1>7. Range(s) \in SUBSET Records
  BY RangeOfSeq
<1>8. s = <<>> => Range(s) = {}
  BY <1>2, <1>3, <1>4
<1>9. Xs(t) = Xs(s) \cup {r.x} /\ Times(t) = Times(s) \cup {r.gps_time}
  BY <1>6 DEF Xs, Times
<1>10. Xs(s) \in SUBSET Int /\ Times(s) \in SUBSET Int
  BY <1>7, RecordFields DEF Xs, Times
<1>11. QED
  BY <1>1, <1>6, <1>7, <1>8, <1>9, <1>10 DEF t

LEMMA BoundsStep ==
  ASSUME NEW s \in Seq(Records), NEW r \in Records, NEW b, BoundsOf(b, s)
  PROVE  BoundsOf(Extended(b, r), Append(s, r))
<1> DEFINE t == Append(s, r)
<1>1. r.x \in Int
  BY RecordFields
<1>2. /\ t # <<>> /\ Xs(t) = Xs(s) \cup {r.x} /\ Xs(s) \in SUBSET Int
      /\ s = <<>> => Range(s) = {}
  BY OneMore
<1> HIDE DEF t
<1>3. CASE s = <<>>
  <2>1. Extended(b, r) = [min |-> r.x, max |-> r.x]
    BY <1>3 DEF BoundsOf, Extended
  <2>2. Xs(t) = {r.x}
    BY <1>2, <1>3 DEF Xs
  <2>3. Least(r.x, Xs(t)) /\ Greatest(r.x, Xs(t))
    BY <1>1, <2>2 DEF Least, Greatest
  <2>4. QED
    BY <1>1, <1>2, <2>1, <2>3 DEF BoundsOf, t
<1>4. CASE s # <<>>
  <2>1. PICK lo \in Int, hi \in Int :
          b = [min |-> lo, max |-> hi] /\ Least(lo, Xs(s)) /\ Greatest(hi, Xs(s))
    BY <1>4 DEF BoundsOf
  <2>2. b # NoBounds
    <3>1. lo <= hi
      BY <2>1 DEF Least, Greatest
    <3>2. b.min = lo /\ b.max = hi /\ NoBounds.min = 0 /\ NoBounds.max = -1
      BY <2>1 DEF NoBounds
    <3>3. QED
      BY <3>1, <3>2
  <2> DEFINE S == Xs(s)
             y == r.x
             mn == Min({lo, y})
             mx == Max({hi, y})
  <2>3. Extended(b, r) = [min |-> mn, max |-> mx]
    BY <2>1, <2>2 DEF Extended
  <2>4. mn \in Int /\ mx \in Int /\ Least(mn, Xs(t)) /\ Greatest(mx, Xs(t))
    <3>1. S \in SUBSET Int /\ y \in Int /\ Least(lo, S) /\ Greatest(hi, S) /\ Xs(t) = S \cup {y}
      BY <1>1, <1>2, <2>1
    <3> HIDE DEF S, y
    <3>2. /\ mn \in Int /\ Least(mn, S \cup {y})
          /\ mx \in Int /\ Greatest(mx, S \cup {y})
      BY <3>1, WithOneMore
    <3>3. QED
      BY <3>1, <3>2
  <2> HIDE DEF mn, mx
  <2>5. QED
    BY <1>2, <2>3, <2>4 DEF BoundsOf, t
<1>5. QED
  BY <1>3, <1>4

LEMMA StatsStep ==
  ASSUME NEW s \in Seq(Records), NEW r \in Records, NEW st, StatsOf(st, s)
  PROVE  StatsOf(Recorded(st, r), Append(s, r))
<1> DEFINE t == Append(s, r)
           n == Len(s)
           y == r.gps_time
<1>1. y \in Int /\ r.return_number \in Nat
  BY RecordFields
<1>2. /\ t # <<>> /\ Times(t) = Times(s) \cup {y} /\ Times(s) \in SUBSET Int
      /\ s = <<>> => Range(s) = {}
  BY OneMore
<1>3. n \in Nat /\ DOMAIN s = 1..n
  BY LenProperties
<1>4. /\ t \in Seq(Records) /\ Len(t) = n + 1 /\ (\A i \in 1..n : t[i] = s[i]) /\ t[n + 1] = r
  BY AppendProperties
<1>5. DOMAIN t = 1..n \cup {n + 1} /\ n + 1 \notin 1..n
  BY <1>3, <1>4, LenProperties
<1> HIDE DEF t, n, y
<1>6. Recorded(st, r).gps = {Min(st.gps \cup {y}), Max(st.gps \cup {y})}
  BY DEF Recorded, y
<1>7. \E lo, hi \in Int :
        Recorded(st, r).gps = {lo, hi} /\ Least(lo, Times(t)) /\ Greatest(hi, Times(t))
  <2>1. CASE s = <<>>
    <3>1. st.gps \cup {y} = {y} /\ Times(t) = {y}
      BY <1>2, <2>1 DEF StatsOf, Times
    <3>2. Least(y, {y}) /\ Greatest(y, {y})
      BY <1>1 DEF Least, Greatest
    <3>3. Min({y}) = y /\ Max({y}) = y
      BY <1>1, <3>2, LeastIsMin, GreatestIsMax
    <3>4. QED
      BY <1>1, <1>6, <3>1, <3>2, <3>3
  <2>2. CASE s # <<>>
    <3>1. PICK lo \in Int, hi \in Int :
            st.gps = {lo, hi} /\ Least(lo, Times(s)) /\ Greatest(hi, Times(s))
      BY <2>2 DEF StatsOf
    <3> DEFINE S == Times(s)
               mn == Min({lo, y})
               mx == Max({hi, y})
    <3>2. /\ mn \in Int /\ mx \in Int /\ Least(mn, Times(t)) /\ Greatest(mx, Times(t))
          /\ Min({lo, hi} \cup {y}) = mn /\ Max({lo, hi} \cup {y}) = mx
      <4>1. S \in SUBSET Int /\ Least(lo, S) /\ Greatest(hi, S) /\ Times(t) = S \cup {y}
        BY <1>2, <3>1
      <4> HIDE DEF S
      <4>2. /\ mn \in Int /\ Least(mn, S \cup {y})
            /\ mx \in Int /\ Greatest(mx, S \cup {y})
        BY <1>1, <4>1, WithOneMore
      <4>3. Min({lo, hi} \cup {y}) = mn /\ Max({lo, hi} \cup {y}) = mx
        <5>1. lo <= hi
          BY <4>1 DEF Least, Greatest
        <5>2. QED
          BY <1>1, <5>1, OfThree
      <4>4. QED
        BY <1>1, <4>1, <4>2, <4>3
    <3> HIDE DEF mn, mx
    <3>3. QED
      BY <1>6, <3>1, <3>2
  <2>3. QED
    BY <2>1, <2>2
<1>8. ASSUME NEW k \in 1..15
      PROVE  Recorded(st, r).returns[k] = Cardinality(Returning(t, k))
  <2>1. Recorded(st, r).returns[k] = st.returns[k] + (IF k = r.return_number THEN 1 ELSE 0)
    BY DEF Recorded
  <2>2. st.returns[k] = Cardinality(Returning(s, k))
    BY DEF StatsOf
  <2> DEFINE A == Returning(s, k)
             z == n + 1
  <2>3. IsFiniteSet(A) /\ z \notin A
    <3>1. A \in SUBSET (1..n)
      BY <1>3 DEF Returning
    <3>2. IsFiniteSet(1..n)
      BY <1>3, FS_Interval
    <3>3. IsFiniteSet(A)
      <4> HIDE DEF A
      <4>1. QED
        BY <3>1, <3>2, FS_Subset
    <3>4. QED
      BY <1>5, <3>1, <3>3
  <2>4. Returning(t, k) = IF k = r.return_number THEN A \cup {z} ELSE A
    BY <1>3, <1>4, <1>5 DEF Returning
  <2> HIDE DEF A, z
  <2>5. Cardinality(A \cup {z}) = Cardinality(A) + 1 /\ Cardinality(A) \in Nat
    BY <2>3, FS_AddElement, FS_CardinalityType
  <2>6. QED
    BY <2>1, <2>2, <2>4, <2>5 DEF A
<1>9. QED
  BY <1>2, <1>7, <1>8 DEF StatsOf, t

-----------------------------------------------------------------------------
\* Where record i lies among n records of width w.
LEMMA Slots ==
  ASSUME NEW w \in Nat, NEW n \in Nat, NEW i \in 1..n, NEW j \in 1..w
  PROVE  /\ w * (i - 1) \in Nat /\ w * n \in Nat
         /\ w * (i - 1) + j \in 1..(w * n)
         /\ w * i = w * (i - 1) + w
<1> DEFINE a == w * (i - 1)
           c == w * n
<1>1. a \in Nat /\ c \in Nat
  OBVIOUS
<1>2. w * i = a + w
  OBVIOUS
<1>3. a + w <= c
  <2>1. n - i \in Nat /\ n = i + (n - i)
    OBVIOUS
  <2> DEFINE d == n - i
  <2>2. d \in Nat /\ n = i + d
    BY <2>1
  <2> HIDE DEF d
  <2>3. c = w * i + w * d /\ w * d \in Nat
    BY <2>2
  <2> DEFINE e == w * d
             g == w * i
  <2>4. c = g + e /\ e \in Nat /\ g = a + w
    BY <1>2, <2>3
  <2> HIDE DEF a, c, e, g
  <2>5. QED
    BY <1>1, <2>4
<1> HIDE DEF a, c
<1>4. a + j \in 1..c
  BY <1>1, <1>3
<1>5. QED
  BY <1>1, <1>2, <1>4 DEF a, c

\* A record is added behind the others.
LEMMA HoldsMore ==
  ASSUME NEW s \in Seq(Records), NEW r \in Records, NEW b \in Seq(Byte), Holds(b, s)
  PROVE  b \o Bytes(r) \in Seq(Byte) /\ Holds(b \o Bytes(r), Append(s, r))
<1> DEFINE B == Bytes(r)
           t == Append(s, r)
           n == Len(s)
           w == Width
           c == b \o B
<1>1. w \in Nat /\ n \in Nat /\ Len(b) = w * n /\ Len(b) \in Nat
  BY SpillAssumption, LenProperties DEF Holds
<1>2. B \in Seq(Byte) /\ Len(B) = w /\ \A j \in 1..w : B[j] = <<r.id, j>>
  BY RecordBytesType
<1>3. Len(t) = n + 1 /\ (\A i \in 1..n : t[i] = s[i]) /\ t[n + 1] = r
  BY AppendProperties
<1>4. \A i \in 1..n : \A j \in 1..w : b[w * (i - 1) + j] = <<s[i].id, j>>
  BY DEF Holds
<1> HIDE DEF B, t, n, w
<1>5. /\ c \in Seq(Byte) /\ Len(c) = Len(b) + w
      /\ \A k \in 1..(Len(b) + w) : c[k] = IF k <= Len(b) THEN b[k] ELSE B[k - Len(b)]
  BY <1>2, ConcatProperties
<1> HIDE DEF c
<1>6. w * (n + 1) = w * n + w /\ w * n \in Nat
  BY <1>1
<1>7. ASSUME NEW i \in 1..(n + 1), NEW j \in 1..w
      PROVE  c[w * (i - 1) + j] = <<t[i].id, j>>
  <2>1. CASE i \in 1..n
    <3> DEFINE k == w * (i - 1) + j
    <3>1. k \in 1..(w * n)
      BY <1>1, <2>1, Slots
    <3>2. b[k] = <<s[i].id, j>> /\ t[i] = s[i]
      BY <1>3, <1>4, <2>1
    <3> HIDE DEF k
    <3>3. k \in 1..(Len(b) + w) /\ k <= Len(b)
      BY <1>1, <1>6, <3>1
    <3>4. c[k] = b[k]
      BY <1>5, <3>3
    <3>5. QED
      BY <3>2, <3>4 DEF k
  <2>2. CASE i = n + 1
    <3>1. i - 1 = n
      BY <1>1, <2>2
    <3> DEFINE k == w * n + j
    <3>2. k \in 1..(Len(b) + w) /\ ~ (k <= Len(b)) /\ k - Len(b) = j
      <4> DEFINE m == w * n
      <4>1. m \in Nat /\ Len(b) = m
        BY <1>1, <1>6
      <4> HIDE DEF m
      <4>2. m + j \in 1..(m + w) /\ ~ (m + j <= m) /\ (m + j) - m = j
        BY <1>1, <4>1
      <4>3. QED
        BY <4>1, <4>2 DEF m
    <3> HIDE DEF k
    <3>3. c[k] = B[j]
      BY <1>5, <3>2
    <3>4. QED
      BY <1>2, <1>3, <2>2, <3>1, <3>3 DEF k
  <2>3. QED
    BY <1>1, <2>1, <2>2
<1>8. Len(c) = w * (n + 1)
  BY <1>1, <1>5, <1>6
<1>9. QED
  BY <1>3, <1>5, <1>7, <1>8 DEF Holds, B, t, n, w, c

LEMMA Regroup ==
  ASSUME NEW a \in Seq(Byte), NEW b \in Seq(Byte), NEW c \in Seq(Byte)
  PROVE  (a \o b) \o c = a \o (b \o c)
BY ConcatAssociative

\* Bytes that move from the buffer to the file.
LEMMA Moved ==
  ASSUME NEW d \in Seq(Byte), NEW b \in Seq(Byte), NEW n \in 1..Len(b)
  PROVE  /\ d \o SubSeq(b, 1, n) \in Seq(Byte)
         /\ SubSeq(b, n + 1, Len(b)) \in Seq(Byte)
         /\ (d \o SubSeq(b, 1, n)) \o SubSeq(b, n + 1, Len(b)) = d \o b
<1> DEFINE l == Len(b)
           x == SubSeq(b, 1, n)
           y == SubSeq(b, n + 1, l)
<1>1. l \in Nat /\ n \in 1..l
  BY LenProperties
<1>2. \A i \in 1..l : b[i] \in Byte
  BY ElementOfSeq
<1>3. x \in Seq(Byte)
  <2>1. \A i \in 1..n : b[i] \in Byte
    BY <1>1, <1>2
  <2>2. 1 \in Int /\ n \in Int
    OBVIOUS
  <2>3. QED
    BY <2>1, <2>2, SubSeqProperties
<1>4. y \in Seq(Byte)
  <2> DEFINE m == n + 1
  <2>1. m \in Int /\ l \in Int /\ \A i \in m..l : b[i] \in Byte
    BY <1>1, <1>2
  <2> HIDE DEF m, l
  <2>2. SubSeq(b, m, l) \in Seq(Byte)
    BY <2>1, SubSeqProperties
  <2>3. QED
    BY <2>2 DEF m
<1>5. x \o y = b
  <2>1. 1 \in 1..l + 1 /\ n \in 1 - 1..l /\ l \in n..l
    BY <1>1
  <2>2. SubSeq(b, 1, n) \o SubSeq(b, n + 1, l) = SubSeq(b, 1, l)
    <3> HIDE DEF l
    <3>1. QED
      BY <1>1, <2>1, ConcatAdjacentSubSeq DEF l
  <2>3. SubSeq(b, 1, l) = b
    BY SubSeqFull
  <2>4. QED
    BY <2>2, <2>3
<1> HIDE DEF x, y, l
<1>6. d \o x \in Seq(Byte)
  BY <1>3, ConcatProperties
<1>7. (d \o x) \o y = d \o (x \o y)
  <2>1. d \in Seq(Byte) /\ x \in Seq(Byte) /\ y \in Seq(Byte)
    BY <1>3, <1>4
  <2>2. QED
    BY <2>1, Regroup
<1>8. QED
  BY <1>3, <1>4, <1>5, <1>6, <1>7 DEF x, y, l

-----------------------------------------------------------------------------
(***************************************************************************)
(* The spill.                                                              *)
(***************************************************************************)
LEMMA InitSpill == Init => SpillInv
<1> SUFFICES ASSUME Init PROVE SpillInv
  OBVIOUS
<1>1. <<>> \in Seq(Byte) /\ <<>> \in Seq(Records) /\ Len(<<>>) = 0 /\ Len(disk) = 0 /\ Len(accepted) = 0
  BY DEF Init
<1>2. SpillType
  BY <1>1 DEF Init, SpillType
<1>3. PhaseInv
  BY DEF Init, PhaseInv
<1>4. disk \o buffer = <<>>
  BY <1>1, ConcatEmptySeq DEF Init
<1>5. ContentInv
  <2>1. Width * 0 = 0 /\ 1..0 = {}
    BY SpillAssumption
  <2>2. QED
    BY <1>1, <1>4, <2>1 DEF Init, ContentInv, Holds
<1>6. BoundsOf(bounds, accepted)
  BY DEF Init, BoundsOf
<1>7. StatsOf(stats, accepted)
  <2>1. \A n \in 1..15 : Returning(<<>>, n) = {}
    BY DEF Returning
  <2>2. QED
    BY <2>1, FS_EmptySet DEF Init, StatsOf, NoStats
<1>8. QED
  BY <1>2, <1>3, <1>5, <1>6, <1>7 DEF SpillInv, SummaryInv

\* A record that push accepts.
LEMMA StepTake ==
  ASSUME SpillInv, NEW r \in Records, Take(r, buffer), disk' = disk, phase' = phase, phase = "push"
  PROVE  SpillInv'
<1>1. /\ buffer' = buffer \o Bytes(r) /\ count' = count + 1
      /\ bounds' = Extended(bounds, r) /\ stats' = Recorded(stats, r)
      /\ accepted' = Append(accepted, r) /\ pending' = None
  BY DEF Take
<1>2. /\ disk \in Seq(Byte) /\ buffer \in Seq(Byte) /\ accepted \in Seq(Records) /\ count \in Nat
      /\ count = Len(accepted) /\ Holds(disk \o buffer, accepted)
      /\ BoundsOf(bounds, accepted) /\ StatsOf(stats, accepted)
  BY DEF SpillInv, SpillType, ContentInv, SummaryInv
<1>3. Bytes(r) \in Seq(Byte)
  BY RecordBytesType
<1>4. buffer' \in Seq(Byte) /\ disk \o buffer \in Seq(Byte)
  BY <1>1, <1>2, <1>3, ConcatProperties
<1>5. disk' \o buffer' = (disk \o buffer) \o Bytes(r)
  <2> DEFINE B == Bytes(r)
  <2>1. disk \in Seq(Byte) /\ buffer \in Seq(Byte) /\ B \in Seq(Byte)
    BY <1>2, <1>3
  <2>2. disk' = disk /\ buffer' = buffer \o B
    BY <1>1
  <2> HIDE DEF B
  <2>3. (disk \o buffer) \o B = disk \o (buffer \o B)
    BY <2>1, ConcatAssociative
  <2>4. disk' \o buffer' = (disk \o buffer) \o B
    BY <2>2, <2>3
  <2>5. QED
    BY <2>4 DEF B
<1>6. Holds(disk' \o buffer', accepted')
  <2> DEFINE all == disk \o buffer
  <2>1. all \in Seq(Byte) /\ Holds(all, accepted)
    BY <1>2, <1>4
  <2> HIDE DEF all
  <2>2. Holds(all \o Bytes(r), Append(accepted, r))
    BY <1>2, <2>1, HoldsMore
  <2>3. QED
    BY <1>1, <1>5, <2>2 DEF all
<1>7. accepted' \in Seq(Records) /\ Len(accepted') = Len(accepted) + 1
  BY <1>1, <1>2, AppendProperties
<1>8. BoundsOf(bounds', accepted') /\ StatsOf(stats', accepted')
  BY <1>1, <1>2, BoundsStep, StatsStep
<1>9. SpillType'
  BY <1>1, <1>2, <1>4, <1>7 DEF SpillInv, SpillType
<1>10. PhaseInv' /\ ContentInv'
  BY <1>1, <1>2, <1>6, <1>7 DEF PhaseInv, ContentInv
<1>11. QED
  BY <1>8, <1>9, <1>10 DEF SpillInv, SummaryInv

LEMMA StepSpill == SpillInv /\ [Next]_vars => SpillInv'
<1> SUFFICES ASSUME SpillInv, [Next]_vars PROVE SpillInv'
  OBVIOUS
<1> USE DEF summary
<1>0. /\ disk \in Seq(Byte) /\ buffer \in Seq(Byte) /\ (pending # None => pending \in Records)
      /\ (pending # None => phase = "push")
  BY DEF SpillInv, SpillType, PhaseInv
\* Steps that only turn pending or phase.
<1>1. ASSUME UNCHANGED <<disk, buffer, summary, accepted>>, SpillType', PhaseInv' PROVE SpillInv'
  BY <1>1 DEF SpillInv, ContentInv, SummaryInv
<1>2. ASSUME NEW r \in Records, Refuse(r) PROVE SpillInv'
  BY <1>2 DEF Refuse, SpillInv, SpillType, PhaseInv, ContentInv, SummaryInv
<1>3. ASSUME NEW r \in Records, Push(r) PROVE SpillInv'
  <2>1. phase = "push" /\ UNCHANGED <<phase, disk>>
    BY <1>3 DEF Push
  <2>2. CASE Fits
    BY <1>3, <2>1, <2>2, StepTake DEF Push
  <2>3. CASE ~ Fits
    <3>1. pending' = r /\ UNCHANGED <<phase, disk, buffer, summary, accepted>>
      BY <1>3, <2>3 DEF Push
    <3>2. SpillType' /\ PhaseInv'
      BY <2>1, <3>1 DEF SpillInv, SpillType, PhaseInv
    <3>3. QED
      BY <1>1, <3>1, <3>2
  <2>4. QED
    BY <2>2, <2>3
<1>4. CASE WriteOut
  <2>1. PICK n \in 1..Len(buffer) :
          /\ disk' = disk \o SubSeq(buffer, 1, n)
          /\ buffer' = SubSeq(buffer, n + 1, Len(buffer))
    BY <1>4 DEF WriteOut
  <2>2. UNCHANGED <<phase, pending, summary, accepted>> /\ phase \in {"push", "flush"}
    BY <1>0, <1>4 DEF WriteOut, Flushing
  <2>3. disk' \in Seq(Byte) /\ buffer' \in Seq(Byte) /\ disk' \o buffer' = disk \o buffer
    BY <1>0, <2>1, Moved
  <2>4. QED
    BY <2>2, <2>3 DEF SpillInv, SpillType, PhaseInv, ContentInv, SummaryInv
<1>5. CASE MadeRoom
  <2>1. pending \in Records /\ phase = "push" /\ UNCHANGED <<phase, disk>> /\ Take(pending, buffer)
    BY <1>0, <1>5 DEF MadeRoom
  <2>2. QED
    BY <2>1, StepTake
<1>6. CASE PushFails \/ Finalize \/ FinalFails
  <2>1. UNCHANGED <<disk, buffer, summary, accepted>> /\ SpillType' /\ PhaseInv'
    BY <1>6 DEF PushFails, Finalize, FinalFails, SpillInv, SpillType, PhaseInv
  <2>2. QED
    BY <1>1, <2>1
<1>7. CASE FinalStep
  <2>1. UNCHANGED <<disk, buffer, pending, summary, accepted>>
    BY <1>7 DEF FinalStep
  <2>2. phase' = "reader" => phase = "open" /\ Len(disk) = Width * count
    BY <1>7 DEF FinalStep
  <2>3. phase' \in {"sync", "reopen", "open", "reader"} => buffer = <<>>
    BY <1>7 DEF FinalStep, SpillInv, PhaseInv
  <2>4. phase # "push" /\ phase' \in {"sync", "reopen", "open", "reader", "failed"}
    BY <1>7 DEF FinalStep
  <2>5. SpillType' /\ PhaseInv'
    BY <2>1, <2>2, <2>3, <2>4 DEF SpillInv, SpillType, PhaseInv
  <2>6. QED
    BY <1>1, <2>1, <2>5
<1>8. CASE UNCHANGED vars
  BY <1>8 DEF vars, SpillInv, SpillType, PhaseInv, ContentInv, SummaryInv
<1>9. QED
  BY <1>2, <1>3, <1>4, <1>5, <1>6, <1>7, <1>8 DEF Next

\* What an opened reader finds at an index.
LEMMA RecordsRead ==
  ASSUME SpillInv, phase = "reader", NEW i \in 1..count
  PROVE  accepted[i] \in Records /\ RecordBytes(i) = Bytes(accepted[i])
<1> DEFINE w == Width
           n == count
           m == w * (i - 1) + 1
           l == w * i
           b == SubSeq(disk, m, l)
           r == accepted[i]
<1>1. disk \in Seq(Byte) /\ buffer = <<>> /\ n \in Nat /\ accepted \in Seq(Records) /\ n = Len(accepted)
  BY DEF SpillInv, SpillType, PhaseInv, ContentInv
<1>2. r \in Records
  BY <1>1, ElementOfSeq
<1>3. disk \o buffer = disk
  BY <1>1, ConcatEmptySeq
<1>4. Len(disk) = w * n /\ \A j \in 1..w : disk[w * (i - 1) + j] = <<r.id, j>>
  BY <1>1, <1>3 DEF SpillInv, ContentInv, Holds
<1>5. w \in Nat \ {0}
  BY SpillAssumption
<1>6. RecordBytes(i) = b
  <2>1. (i - 1) * Width + 1 = m /\ i * Width = l
    BY <1>5
  <2>2. QED
    BY <2>1 DEF RecordBytes
<1>7. Bytes(r) \in Seq(Byte) /\ Len(Bytes(r)) = w /\ \A j \in 1..w : Bytes(r)[j] = <<r.id, j>>
  BY <1>2, RecordBytesType
<1>8. DOMAIN disk = 1..Len(disk) /\ Len(disk) \in Nat
  BY <1>1, LenProperties
<1> HIDE DEF w, n, r
<1> DEFINE a == w * (i - 1)
<1>9. a \in Nat /\ l = a + w /\ m = a + 1 /\ l \in 1..Len(disk)
  <2>1. i \in 1..n
    BY DEF n
  <2>2. w \in 1..w /\ w \in Nat
    BY <1>5
  <2>3. w * (i - 1) \in Nat /\ w * (i - 1) + w \in 1..(w * n) /\ w * i = w * (i - 1) + w
    BY <1>1, <2>1, <2>2, Slots
  <2>4. QED
    BY <1>4, <2>3
<1> HIDE DEF a, l, m
<1>10. \A k \in m..l : disk[k] \in Byte
  <2>1. \A k \in m..l : k \in 1..Len(disk)
    BY <1>5, <1>8, <1>9
  <2>2. QED
    BY <1>1, <2>1, ElementOfSeq
<1>11. m \in Int /\ l \in Int /\ m <= l /\ l - m + 1 = w
  BY <1>5, <1>9
<1>12. b \in Seq(Byte) /\ Len(b) = w /\ \A j \in 1..w : b[j] = disk[m + j - 1]
  BY <1>10, <1>11, SubSeqProperties
<1>13. \A j \in 1..w : b[j] = Bytes(r)[j]
  <2> TAKE j \in 1..w
  <2>1. m + j - 1 = a + j
    BY <1>5, <1>9
  <2>2. disk[a + j] = <<r.id, j>>
    BY <1>4 DEF a
  <2>3. QED
    BY <1>7, <1>12, <2>1, <2>2
<1> HIDE DEF b
<1>14. b = Bytes(r)
  <2> DEFINE c == Bytes(r)
  <2>1. c \in Seq(Byte) /\ Len(c) = w /\ \A j \in 1..w : b[j] = c[j]
    BY <1>7, <1>13
  <2> HIDE DEF c
  <2>2. b = c
    BY <1>12, <2>1, SeqEqual
  <2>3. QED
    BY <2>2 DEF c
<1>15. QED
  BY <1>2, <1>6, <1>14 DEF r

\* A spill that opens returns at every index the record of the push that
\* returned Ok at that place, however the buffer was cut into writes and
\* whichever pushes failed in between.
THEOREM SpillFaithful == Spec => []RecordsFaithful
<1>1. SpillInv => RecordsFaithful
  BY RecordsRead DEF SpillInv, PhaseInv, ContentInv, RecordsFaithful
<1>2. QED
  BY <1>1, InitSpill, StepSpill, PTL DEF Spec

\* The bounds and the statistics it reports are those of these records.
THEOREM SpillSummary == Spec => []SummaryFaithful
<1>1. SpillInv => SummaryFaithful
  <2> SUFFICES ASSUME SpillInv, phase = "reader", count > 0
               PROVE  LET recs == Range(accepted) IN
                      /\ bounds = [min |-> Min({r.x : r \in recs}), max |-> Max({r.x : r \in recs})]
                      /\ stats.gps = {Min({r.gps_time : r \in recs}), Max({r.gps_time : r \in recs})}
                      /\ \A n \in 1..15 :
                           stats.returns[n]
                             = Cardinality({i \in DOMAIN accepted : accepted[i].return_number = n})
    BY DEF SummaryFaithful
  <2>1. accepted \in Seq(Records) /\ accepted # <<>>
    BY DEF SpillInv, SpillType, ContentInv
  <2>2. Xs(accepted) \in SUBSET Int /\ Times(accepted) \in SUBSET Int
    BY <2>1, RangeOfSeq, RecordFields DEF Xs, Times
  <2>3. bounds = [min |-> Min(Xs(accepted)), max |-> Max(Xs(accepted))]
    BY <2>1, <2>2, LeastIsMin, GreatestIsMax DEF SpillInv, SummaryInv, BoundsOf
  <2>4. stats.gps = {Min(Times(accepted)), Max(Times(accepted))}
    BY <2>1, <2>2, LeastIsMin, GreatestIsMax DEF SpillInv, SummaryInv, StatsOf
  <2>5. \A n \in 1..15 : stats.returns[n] = Cardinality(Returning(accepted, n))
    BY DEF SpillInv, SummaryInv, StatsOf
  <2>6. QED
    BY <2>3, <2>4, <2>5 DEF Xs, Times, Returning
<1>2. QED
  BY <1>1, InitSpill, StepSpill, PTL DEF Spec
-----------------------------------------------------------------------------
(***************************************************************************)
(* The call.                                                               *)
(***************************************************************************)
\* s holds the first n points of the source.
Agrees(s, n) ==
  s \in Seq(Records) /\ Len(s) = n /\ \A i \in 1..n : s[i] = source[i]

CallType ==
  /\ entry \in {"stream", "source", "spill"}
  /\ has_gps \in BOOLEAN /\ (entry = "source" => has_gps)
  /\ source \in Seq(Records \cup {ReadError})
  /\ declared \in [min : Int, max : Int]
  /\ offset = <<>> \/ offset[1] \in Int
  /\ taken \in 0..Len(source)
  /\ stage \in {"intake", "validate", "encode", "publish", "done"}

\* The points that were taken are in the spill, the last of them perhaps
\* still on its way there; finalize waits for all of them.
IntakeInv ==
  stage = "intake" =>
    /\ entry = "source" => taken = 0
    /\ entry = "stream" =>
         /\ pending = None => Agrees(accepted, taken)
         /\ pending # None => taken > 0 /\ Agrees(accepted, taken - 1) /\ pending = source[taken]
         /\ \A i \in 1..taken : Valid(source[i])
         /\ phase # "push" => taken = Len(source)

\* The points that were looked at are good, and recorded.
ValidateInv ==
  stage = "validate" =>
    /\ entry = "source" /\ source # <<>>
    /\ \E s, st :
         /\ header = [bounds |-> declared, stats |-> st, count |-> Len(source)]
         /\ Agrees(s, taken) /\ StatsOf(st, s)
    /\ \A i \in 1..taken : Validated(source[i])

\* What is encoded and written is the whole source, under its own header.
WholeInv ==
  stage \in {"encode", "publish"} =>
    /\ entry # "spill" /\ source # <<>> /\ source \in Seq(Records)
    /\ entry = "stream" => phase = "reader" /\ accepted = source
    /\ header.count = Len(source) /\ StatsOf(header.stats, source)
    /\ header.bounds.min \in Int /\ header.bounds.max \in Int
    /\ \A i \in 1..Len(source) : Valid(source[i]) /\ InBounds(source[i].x, header.bounds)

PublishInv ==
  stage = "publish" => \A i \in DOMAIN Points : Quantizes(Points[i].x, header.bounds)

OutcomeInv == stage # "done" => written = None /\ outcome = "running"

CallInv ==
  /\ SpillInv /\ CallType /\ IntakeInv /\ ValidateInv
  /\ WholeInv /\ PublishInv /\ OutcomeInv /\ ConversionWhole

LEMMA InitCall == CallInit => CallInv
<1> SUFFICES ASSUME CallInit PROVE CallInv
  OBVIOUS
<1>1. SpillInv
  BY InitSpill DEF CallInit
<1>2. CallType
  <2>1. source \in Seq(Records \cup {ReadError}) /\ declared \in [min : Int, max : Int]
    BY ConversionAssumption DEF CallInit
  <2>2. Len(source) \in Nat
    BY <2>1, LenProperties
  <2>3. offset = <<>> \/ offset[1] \in Int
    BY ConversionAssumption DEF CallInit
  <2>4. QED
    BY <2>1, <2>2, <2>3 DEF CallInit, CallType
<1>3. IntakeInv
  <2>1. <<>> \in Seq(Records) /\ Len(<<>>) = 0 /\ 1..0 = {}
    OBVIOUS
  <2>2. Agrees(accepted, 0) /\ pending = None /\ phase = "push" /\ taken = 0
    BY <2>1 DEF CallInit, Init, Agrees
  <2>3. QED
    BY <2>1, <2>2 DEF IntakeInv
<1>4. QED
  BY <1>1, <1>2, <1>3 DEF CallInit, CallInv, ValidateInv, WholeInv, PublishInv, OutcomeInv, ConversionWhole

\* The point the loop comes to.
LEMMA NextInSource ==
  ASSUME CallType, taken < Len(source)
  PROVE  /\ taken + 1 \in 1..Len(source) /\ taken \in Nat
         /\ source[taken + 1] # ReadError => source[taken + 1] \in Records
<1>1. Len(source) \in Nat /\ taken \in 0..Len(source)
  BY LenProperties DEF CallType
<1>2. taken + 1 \in 1..Len(source)
  BY <1>1
<1> DEFINE k == taken + 1
<1>3. k \in 1..Len(source) /\ source \in Seq(Records \cup {ReadError})
  BY <1>2 DEF CallType
<1> HIDE DEF k
<1>4. source[k] \in Records \cup {ReadError}
  BY <1>3, ElementOfSeq
<1>5. QED
  BY <1>1, <1>2, <1>4 DEF k

\* Whatever a call does to the spill is a step of the spill.
LEMMA CallStepsSpill == CallType /\ [CallNext]_allVars => [Next]_vars
<1> SUFFICES ASSUME CallType, [CallNext]_allVars PROVE [Next]_vars
  OBVIOUS
<1>1. CASE PointRefused \/ PointTaken
  <2>1. taken < Len(source) /\ source[taken + 1] # ReadError
    BY <1>1 DEF PointRefused, PointTaken, InLoop
  <2>2. source[taken + 1] \in Records
    BY <2>1, NextInSource
  <2>3. Refuse(source[taken + 1]) \/ Push(source[taken + 1])
    BY <1>1 DEF PointRefused, PointTaken
  <2>4. QED
    BY <2>2, <2>3 DEF Next
<1>2. CASE SpillGoesOn \/ PushError \/ FinalizeError \/ SpillFinalized
  BY <1>2 DEF SpillGoesOn, PushError, FinalizeError, SpillFinalized, Next
<1>3. CASE \/ Cancelled \/ SourceFails \/ FromSpill \/ FromMemory
           \/ Validate \/ EndValidate \/ Encode \/ Publish
  BY <1>3 DEF Cancelled, SourceFails, FromSpill, FromMemory, Validate, EndValidate, Encode, Publish
<1>4. CASE UNCHANGED allVars
  BY <1>4 DEF allVars
<1>5. QED
  BY <1>1, <1>2, <1>3, <1>4 DEF CallNext

LEMMA StepCallType == CallType /\ [CallNext]_allVars => CallType'
<1> SUFFICES ASSUME CallType, [CallNext]_allVars PROVE CallType'
  OBVIOUS
<1> USE DEF CallType, given
<1>1. CASE UNCHANGED <<given, taken>> /\ stage' \in {stage, "validate", "encode", "publish", "done"}
  BY <1>1
<1>2. CASE UNCHANGED <<given, stage>> /\ taken < Len(source) /\ taken' = taken + 1
  <2>1. taken + 1 \in 0..Len(source)
    BY <1>2, NextInSource
  <2>2. QED
    BY <1>2, <2>1
<1>3. CASE SourceFails \/ PointRefused \/ PointTaken \/ Validate
  BY <1>1, <1>2, <1>3 DEF SourceFails, PointRefused, PointTaken, Validate, InLoop, NextPoint, Fail, End
<1>4. CASE Cancelled \/ SpillGoesOn \/ PushError \/ FinalizeError \/ SpillFinalized
  BY <1>1, <1>4
  DEF Cancelled, SpillGoesOn, PushError, FinalizeError, SpillFinalized, Fail, End, callVars
<1>5. CASE FromSpill \/ FromMemory \/ EndValidate \/ Encode \/ Publish
  BY <1>1, <1>5 DEF FromSpill, FromMemory, EndValidate, Encode, Publish, Fail, End
<1>6. CASE UNCHANGED allVars
  BY <1>1, <1>6 DEF allVars, callVars
<1>7. QED
  BY <1>3, <1>4, <1>5, <1>6 DEF CallNext

\* Every step of a call is a step of the spill it uses, or none of it.
THEOREM CallUsesSpill == CallSpec => Spec
<1>1. CallInit => CallType /\ Init
  BY InitCall DEF CallInv, CallInit
<1>2. QED
  BY <1>1, StepCallType, CallStepsSpill, PTL DEF CallSpec, Spec
-----------------------------------------------------------------------------
\* Records that agree with all of the source are the source.
LEMMA AgreesWhole ==
  ASSUME NEW s, CallType, Agrees(s, Len(source)) PROVE s = source /\ source \in Seq(Records)
<1> DEFINE V == Records \cup {ReadError}
<1>1. s \in Seq(Records) /\ source \in Seq(V) /\ Len(s) = Len(source)
      /\ \A i \in 1..Len(s) : s[i] = source[i]
  BY DEF Agrees, CallType
<1>2. s \in Seq(V)
  <2>1. \A i \in 1..Len(s) : s[i] \in V
    BY <1>1, ElementOfSeq
  <2>2. Len(s) \in Nat /\ DOMAIN s = 1..Len(s) /\ s = [i \in DOMAIN s |-> s[i]]
    BY <1>1
  <2> HIDE DEF V
  <2>3. s \in [1..Len(s) -> V]
    BY <2>1, <2>2
  <2>4. QED
    BY <2>2, <2>3, SeqDef
<1> HIDE DEF V
<1>3. s = source
  BY <1>1, <1>2, SeqEqual
<1>4. QED
  BY <1>1, <1>3

\* One more point of the source.
LEMMA AgreesMore ==
  ASSUME NEW s, CallType, taken < Len(source), source[taken + 1] \in Records, Agrees(s, taken)
  PROVE  Agrees(Append(s, source[taken + 1]), taken + 1)
<1> DEFINE n == taken
           r == source[taken + 1]
           t == Append(s, r)
<1>1. n \in Nat /\ s \in Seq(Records) /\ Len(s) = n /\ r \in Records
      /\ (\A i \in 1..n : s[i] = source[i]) /\ r = source[n + 1]
  BY NextInSource DEF Agrees
<1> HIDE DEF n, r
<1>2. t \in Seq(Records) /\ Len(t) = n + 1 /\ (\A i \in 1..n : t[i] = s[i]) /\ t[n + 1] = r
  BY <1>1, AppendProperties
<1> HIDE DEF t
<1>3. \A i \in 1..(n + 1) : i \in 1..n \/ i = n + 1
  BY <1>1
<1>4. \A i \in 1..(n + 1) : t[i] = source[i]
  BY <1>1, <1>2, <1>3
<1>5. Agrees(t, n + 1)
  BY <1>2, <1>4 DEF Agrees
<1>6. QED
  BY <1>5 DEF t, r, n

\* What the layout leaves out of a point.
LEMMA StoredFields ==
  ASSUME NEW r \in Records
  PROVE  /\ Stored(r).x = r.x /\ Stored(r).return_number = r.return_number
         /\ has_gps => Stored(r) = r
<1>1. r \in Record
  BY SpillAssumption
<1>2. [r EXCEPT !.gps_time = 0].x = r.x /\ [r EXCEPT !.gps_time = 0].return_number = r.return_number
  BY <1>1 DEF Record
<1>3. QED
  BY <1>2 DEF Stored

\* A record is known by its bytes.
LEMMA BytesTell == ASSUME NEW r \in Records, NEW s \in Records, Bytes(r) = Bytes(s) PROVE r = s
<1>1. 1 \in 1..Width
  BY SpillAssumption
<1>2. Bytes(r)[1] = <<r.id, 1>> /\ Bytes(s)[1] = <<s.id, 1>>
  BY <1>1, RecordBytesType
<1>3. r.id = s.id
  BY <1>2
<1>4. QED
  BY <1>3, SpillAssumption

\* What SpillSource, or the slice in memory, gives to the encoder.
LEMMA PointsAreSource ==
  ASSUME SpillInv, CallType, WholeInv, stage \in {"encode", "publish"}
  PROVE  /\ source \in Seq(Records)
         /\ Points = [i \in 1..Len(source) |-> Stored(source[i])]
<1>1. source \in Seq(Records) /\ entry \in {"stream", "source"}
  BY DEF WholeInv, CallType
<1>2. CASE entry = "stream"
  <2>1. phase = "reader" /\ accepted = source /\ count = Len(source)
    BY <1>2 DEF WholeInv, SpillInv, ContentInv
  <2>2. \A i \in 1..count : RecordAt(i) = source[i]
    <3> TAKE i \in 1..count
    <3>1. source[i] \in Records /\ RecordBytes(i) = Bytes(source[i])
      BY <2>1, RecordsRead
    <3>2. \A r \in Records : Bytes(r) = RecordBytes(i) => r = source[i]
      BY <3>1, BytesTell
    <3>3. QED
      BY <3>1, <3>2 DEF RecordAt
  <2>3. QED
    BY <1>1, <1>2, <2>1, <2>2 DEF Points
<1>3. CASE entry = "source"
  <2>1. has_gps /\ Points = source
    BY <1>3 DEF CallType, Points
  <2>2. source = [i \in 1..Len(source) |-> source[i]]
    BY <1>1
  <2>3. \A i \in 1..Len(source) : Stored(source[i]) = source[i]
    BY <2>1 DEF Stored
  <2>4. QED
    BY <1>1, <2>1, <2>2, <2>3
<1>4. QED
  BY <1>1, <1>2, <1>3

\* Rounding is by half a step of the grid at most, up or down.
LEMMA Nearest ==
  ASSUME NEW d \in Int
  PROVE  /\ Steps(d) \in Int
         /\ 2 * (Scale * Steps(d) - d) <= Scale /\ 2 * (d - Scale * Steps(d)) <= Scale
<1> DEFINE m == 2 * Scale
<1>1. Scale \in Nat \ {0} /\ m \in Nat \ {0}
  BY ConversionAssumption
<1>2. ASSUME NEW n \in Int PROVE n \div m \in Int /\ (n \div m) * m <= n /\ n < (n \div m + 1) * m
  <2> HIDE DEF m
  <2>1. QED
    BY <1>1, Z3
<1>3. CASE d >= 0
  <2> DEFINE n == 2 * d + Scale
             q == n \div m
  <2>1. n \in Int /\ Steps(d) = q
    BY <1>1, <1>3 DEF Steps
  <2>2. q \in Int /\ q * m <= n /\ n < (q + 1) * m
    BY <1>2, <2>1
  <2> HIDE DEF q
  <2> DEFINE k == Scale * q
  <2>3. k \in Int /\ q * m = 2 * k /\ (q + 1) * m = 2 * k + 2 * Scale
    BY <1>1, <2>2
  <2>4. 2 * k <= 2 * d + Scale /\ 2 * d + Scale < 2 * k + 2 * Scale
    BY <2>2, <2>3
  <2> HIDE DEF k
  <2>5. 2 * (k - d) <= Scale /\ 2 * (d - k) <= Scale
    BY <1>1, <2>3, <2>4
  <2>6. QED
    BY <2>1, <2>2, <2>5 DEF k
<1>4. CASE d < 0
  <2> DEFINE n == Scale - 2 * d
             q == n \div m
  <2>1. n \in Int /\ Steps(d) = -q
    BY <1>1, <1>4 DEF Steps
  <2>2. q \in Int /\ q * m <= n /\ n < (q + 1) * m
    BY <1>2, <2>1
  <2> HIDE DEF q
  <2> DEFINE k == Scale * q
  <2>3. k \in Int /\ q * m = 2 * k /\ (q + 1) * m = 2 * k + 2 * Scale /\ Scale * (-q) = -k
    BY <1>1, <2>2
  <2>4. 2 * k <= Scale - 2 * d /\ Scale - 2 * d < 2 * k + 2 * Scale
    BY <2>2, <2>3
  <2> HIDE DEF k
  <2>5. 2 * (-k - d) <= Scale /\ 2 * (d - (-k)) <= Scale
    BY <1>1, <2>3, <2>4
  <2>6. QED
    BY <2>1, <2>2, <2>3, <2>5
<1>5. QED
  BY <1>3, <1>4

\* A point with another coordinate, and with its own again.
LEMMA OtherX ==
  ASSUME NEW p \in Record, NEW v \in Int
  PROVE  /\ [p EXCEPT !.x = v].x = v
         /\ [p EXCEPT !.x = v].return_number = p.return_number
         /\ [p EXCEPT !.x = v].gps_time = p.gps_time
         /\ [[p EXCEPT !.x = v] EXCEPT !.x = p.x] = p
  BY DEF Record

\* An encoded point is the one of the source, but for the rounding.
LEMMA EncodedKept ==
  ASSUME CallType, NEW r \in Records, NEW b, b.min \in Int, Quantizes(r.x, b),
         NEW e, e = Encoded(Stored(r), b)
  PROVE  /\ Kept(r, e, b) /\ e.return_number = r.return_number
         /\ has_gps => e.gps_time = r.gps_time
<1> DEFINE p == Stored(r)
           q == Quantized(r.x, b)
           v == Origin(b) + Scale * q
<1>1. r \in Record /\ r.x \in Int /\ p.x = r.x
      /\ p.return_number = r.return_number /\ (has_gps => p.gps_time = r.gps_time)
  BY SpillAssumption, StoredFields, RecordFields
<1>2. p \in Record
  BY <1>1 DEF Stored, Record
<1>3. Origin(b) \in Int
  BY DEF CallType, Origin
<1>4. /\ q \in -MaxQuantized - 1..MaxQuantized /\ q \in Int
      /\ 2 * (Scale * q - (r.x - Origin(b))) <= Scale
      /\ 2 * ((r.x - Origin(b)) - Scale * q) <= Scale
  <2> DEFINE d == r.x - Origin(b)
  <2>1. d \in Int /\ q = Steps(d)
    BY <1>1, <1>3 DEF Quantized
  <2>2. q \in -MaxQuantized - 1..MaxQuantized
    BY DEF Quantizes
  <2> HIDE DEF d, q
  <2>3. q \in Int /\ 2 * (Scale * q - d) <= Scale /\ 2 * (d - Scale * q) <= Scale
    BY <2>1, Nearest
  <2>4. QED
    BY <2>2, <2>3 DEF d
<1>5. e = [p EXCEPT !.x = v]
  <2>1. e = [p EXCEPT !.x = Origin(b) + Scale * Quantized(p.x, b)]
    BY DEF Encoded
  <2>2. QED
    BY <1>1, <2>1
<1> HIDE DEF p, q
<1>6. v \in Int /\ v = Origin(b) + q * Scale /\ 2 * (v - r.x) <= Scale /\ 2 * (r.x - v) <= Scale
  <2> DEFINE k == Scale * q
  <2>1. Scale \in Int
    BY ConversionAssumption
  <2>2. k \in Int /\ k = q * Scale
    BY <1>4, <2>1
  <2>3. 2 * (k - (r.x - Origin(b))) <= Scale /\ 2 * ((r.x - Origin(b)) - k) <= Scale
    BY <1>4
  <2>4. v = Origin(b) + k
    OBVIOUS
  <2> HIDE DEF k, v
  <2>5. QED
    BY <1>1, <1>3, <2>1, <2>2, <2>3, <2>4
<1> HIDE DEF v
<1>7. /\ e.x = v /\ e.return_number = p.return_number /\ e.gps_time = p.gps_time
      /\ [e EXCEPT !.x = r.x] = p
  <2>1. /\ e.x = v /\ e.return_number = p.return_number /\ e.gps_time = p.gps_time
        /\ [e EXCEPT !.x = p.x] = p
    <3>1. PICK w \in Int : w = v
      BY <1>6
    <3>2. PICK s \in Record : s = p
      BY <1>2
    <3>3. e = [s EXCEPT !.x = w]
      BY <1>5, <3>1, <3>2
    <3>4. /\ e.x = w /\ e.return_number = s.return_number /\ e.gps_time = s.gps_time
          /\ [e EXCEPT !.x = s.x] = s
      <4>1. /\ [s EXCEPT !.x = w].x = w
            /\ [s EXCEPT !.x = w].return_number = s.return_number
            /\ [s EXCEPT !.x = w].gps_time = s.gps_time
            /\ [[s EXCEPT !.x = w] EXCEPT !.x = s.x] = s
        BY OtherX
      <4>2. QED
        BY <3>3, <4>1, Zenon
    <3>5. QED
      BY <3>1, <3>2, <3>4
  <2>2. p.x = r.x
    BY <1>1
  <2>3. QED
    BY <2>1, <2>2
<1>8. Kept(r, e, b)
  <2>1. [e EXCEPT !.x = r.x] = Stored(r)
    BY <1>7 DEF p
  <2>2. \E n \in -MaxQuantized - 1..MaxQuantized : e.x = Origin(b) + n * Scale
    BY <1>4, <1>6, <1>7
  <2>3. HalfStepAbove(r.x, e.x) /\ HalfStepAbove(e.x, r.x)
    BY <1>6, <1>7 DEF HalfStepAbove
  <2>4. QED
    BY <2>1, <2>2, <2>3 DEF Kept
<1>9. QED
  BY <1>1, <1>7, <1>8

\* The file that is published.
LEMMA PublishedWhole ==
  ASSUME SpillInv, CallType, WholeInv, PublishInv, Publish
  PROVE  ConversionWhole'
<1> DEFINE n == Len(source)
           b == header.bounds
           F == [i \in DOMAIN Points |-> Encoded(Points[i], b)]
<1>1. /\ stage = "publish" /\ UNCHANGED given
      /\ written' = [points |-> F, header |-> header]
  BY DEF Publish
<1>2. /\ source \in Seq(Records) /\ source # <<>>
      /\ Points = [i \in 1..Len(source) |-> Stored(source[i])]
  BY <1>1, PointsAreSource DEF WholeInv
<1>3. n \in Nat /\ DOMAIN source = 1..n /\ \A i \in 1..n : source[i] \in Records
  BY <1>2, LenProperties, ElementOfSeq
<1>4. \A i \in 1..n : Points[i] = Stored(source[i])
  BY <1>2
<1>5. /\ DOMAIN Points = 1..n /\ DOMAIN F = 1..n /\ Len(F) = n
      /\ \A i \in 1..n : F[i] = Encoded(Points[i], b)
  <2>1. DOMAIN Points = 1..n
    BY <1>2
  <2>2. F = [i \in 1..n |-> Encoded(Points[i], b)]
    BY <2>1
  <2> HIDE DEF F, n
  <2>3. QED
    BY <1>3, <2>1, <2>2
<1>6. b.min \in Int /\ b.max \in Int
  BY <1>1 DEF WholeInv
<1>7. header.count = n /\ StatsOf(header.stats, source)
  BY <1>1 DEF WholeInv
<1>8. \A i \in 1..n : /\ source[i] # ReadError /\ Valid(source[i]) /\ InBounds(source[i].x, b)
                      /\ source[i].x \in Int
  BY <1>1, <1>3, RecordFields DEF WholeInv
<1>9. \A i \in 1..n : Quantizes(source[i].x, b)
  <2>1. \A i \in 1..n : Quantizes(Points[i].x, b)
    BY <1>1, <1>5 DEF PublishInv
  <2>2. \A i \in 1..n : Points[i].x = source[i].x
    BY <1>3, <1>4, StoredFields
  <2>3. QED
    BY <2>1, <2>2
<1> HIDE DEF F, n, b
<1>10. \A i \in 1..n : /\ Kept(source[i], F[i], b) /\ F[i].return_number = source[i].return_number
                       /\ has_gps => F[i].gps_time = source[i].gps_time
  <2> TAKE i \in 1..n
  <2> DEFINE r == source[i]
             e == F[i]
  <2>1. r \in Records /\ Quantizes(r.x, b) /\ e = Encoded(Stored(r), b)
    BY <1>3, <1>4, <1>5, <1>9
  <2> HIDE DEF r, e
  <2>2. Kept(r, e, b) /\ e.return_number = r.return_number /\ (has_gps => e.gps_time = r.gps_time)
    BY <1>6, <2>1, EncodedKept
  <2>3. QED
    BY <2>2 DEF r, e
<1>11. written'.points = F /\ written'.header = header /\ written' # None
  <2>1. "points" \in DOMAIN [points |-> F, header |-> header] /\ "points" \notin DOMAIN None
    BY DEF None
  <2>2. QED
    BY <1>1, <2>1
<1>12. \A r \in Range(F) : HalfStepAbove(b.min, r.x) /\ HalfStepAbove(r.x, b.max)
  <2> SUFFICES ASSUME NEW i \in 1..n
               PROVE  HalfStepAbove(b.min, F[i].x) /\ HalfStepAbove(F[i].x, b.max)
    BY <1>5 DEF Range
  <2> DEFINE x == source[i].x
             y == F[i].x
  <2>1. /\ x \in Int /\ b.min <= x /\ x <= b.max
        /\ 2 * (x - y) <= Scale /\ 2 * (y - x) <= Scale
    BY <1>8, <1>10 DEF InBounds, Kept, HalfStepAbove
  <2>2. y \in Int
    <3>1. PICK k \in -MaxQuantized - 1..MaxQuantized : y = Origin(b) + k * Scale
      BY <1>10 DEF Kept
    <3>2. Origin(b) \in Int
      BY <1>6 DEF CallType, Origin
    <3>3. QED
      BY <3>1, <3>2, ConversionAssumption
  <2> HIDE DEF x, y
  <2>3. 2 * (b.min - y) <= Scale /\ 2 * (y - b.max) <= Scale
    BY <1>6, <2>1, <2>2, ConversionAssumption
  <2>4. QED
    BY <2>3 DEF HalfStepAbove, y
<1>13. ASSUME has_gps
       PROVE  header.stats.gps = {Min({r.gps_time : r \in Range(F)}), Max({r.gps_time : r \in Range(F)})}
  <2> DEFINE T == Times(source)
  <2>1. T = {r.gps_time : r \in Range(F)}
    <3>1. T = {source[i].gps_time : i \in 1..n}
      BY <1>3 DEF Times, Range
    <3>2. {r.gps_time : r \in Range(F)} = {F[i].gps_time : i \in 1..n}
      BY <1>5 DEF Range
    <3>3. QED
      BY <1>10, <1>13, <3>1, <3>2
  <2>2. T \in SUBSET Int
    BY <1>2, RangeOfSeq, RecordFields DEF Times
  <2>3. PICK lo \in Int, hi \in Int : header.stats.gps = {lo, hi} /\ Least(lo, T) /\ Greatest(hi, T)
    BY <1>2, <1>7 DEF StatsOf
  <2> HIDE DEF T
  <2>4. Min(T) = lo /\ Max(T) = hi
    BY <2>2, <2>3, LeastIsMin, GreatestIsMax
  <2>5. QED
    BY <2>1, <2>3, <2>4
<1>14. ASSUME NEW k \in 1..15
       PROVE  header.stats.returns[k] = Cardinality({i \in DOMAIN F : F[i].return_number = k})
  <2>1. {i \in DOMAIN F : F[i].return_number = k} = Returning(source, k)
    BY <1>3, <1>5, <1>10 DEF Returning
  <2>2. QED
    BY <1>7, <2>1 DEF StatsOf
<1>15. HeaderTrue'
  <2> DEFINE points == written'.points
             h == written'.header
  <2>1. has_gps' = has_gps /\ points = F /\ h = header
    BY <1>1, <1>11 DEF given
  <2>2. h.count = Len(points)
    BY <1>5, <1>7, <2>1
  <2>3. \A r \in Range(points) :
          HalfStepAbove(h.bounds.min, r.x) /\ HalfStepAbove(r.x, h.bounds.max)
    BY <1>12, <2>1 DEF b
  <2>4. has_gps' => h.stats.gps = {Min({r.gps_time : r \in Range(points)}),
                                  Max({r.gps_time : r \in Range(points)})}
    BY <1>13, <2>1
  <2>5. \A k \in 1..15 :
          h.stats.returns[k] = Cardinality({i \in DOMAIN points : points[i].return_number = k})
    BY <1>14, <2>1
  <2>6. QED
    BY <2>2, <2>3, <2>4, <2>5 DEF HeaderTrue
<1>16. \A i \in 1..n : Kept(source[i], written.points[i], written.header.bounds)'
  <2>1. /\ written'.points = F /\ written'.header.bounds = b
        /\ source' = source /\ offset' = offset /\ has_gps' = has_gps
    BY <1>1, <1>11 DEF given, b
  <2>2. QED
    BY <1>10, <2>1 DEF Kept, Origin, Stored
<1>17. /\ source' # <<>> /\ Len(written'.points) = Len(source')
       /\ DOMAIN source' = 1..n
       /\ \A i \in 1..n : source'[i] # ReadError /\ Valid(source'[i])
  BY <1>1, <1>2, <1>3, <1>5, <1>8, <1>11 DEF given, n
<1>18. QED
  BY <1>11, <1>15, <1>16, <1>17 DEF ConversionWhole

\* The steps of a call, one after the other.
LEMMA StepCall == CallInv /\ [CallNext]_allVars => CallInv'
<1> SUFFICES ASSUME CallInv, [CallNext]_allVars PROVE CallInv'
  OBVIOUS
<1> USE DEF given
<1>0. SpillInv /\ CallType /\ SpillInv' /\ CallType'
  BY StepSpill, StepCallType, CallStepsSpill DEF CallInv
\* A call that ends without a file.
<1>1. ASSUME Fail, written = None PROVE CallInv'
  <2>1. stage' = "done" /\ outcome' = "err" /\ written' = None
    BY <1>1 DEF Fail, End
  <2>2. QED
    BY <1>0, <2>1
    DEF CallInv, IntakeInv, ValidateInv, WholeInv, PublishInv, OutcomeInv, ConversionWhole
\* A step that leaves the call where it is.
<1>2. ASSUME UNCHANGED <<written, outcome>>, stage \in {"intake", "validate"},
             stage' = stage, IntakeInv', ValidateInv'
      PROVE  CallInv'
  <2>1. written' = None /\ outcome' = "running"
    BY <1>2 DEF CallInv, OutcomeInv
  <2>2. QED
    BY <1>0, <1>2, <2>1 DEF CallInv, WholeInv, PublishInv, OutcomeInv, ConversionWhole
<1>3. ASSUME stage = "intake", UNCHANGED callVars, IntakeInv' PROVE CallInv'
  BY <1>2, <1>3 DEF callVars, ValidateInv
<1>4. ASSUME InLoop, NextPoint, entry = "stream" => IntakeInv' PROVE CallInv'
  <2>1. stage = "intake" /\ entry # "source" /\ UNCHANGED <<stage, entry, written, outcome>>
    BY <1>4 DEF InLoop, InIntake, NextPoint
  <2>2. IntakeInv' /\ ValidateInv'
    BY <1>4, <2>1 DEF IntakeInv, ValidateInv
  <2>3. QED
    BY <1>2, <2>1, <2>2
<1>5. stage # "done" => written = None
  BY DEF CallInv, OutcomeInv
<1>6. CASE Cancelled
  BY <1>1, <1>5, <1>6 DEF Cancelled, AtPoll
<1>7. CASE SourceFails
  <2>1. InLoop /\ stage = "intake"
    BY <1>7 DEF SourceFails, InLoop, InIntake
  <2>2. CASE entry = "spill"
    BY <1>4, <1>7, <2>1, <2>2 DEF SourceFails
  <2>3. CASE entry # "spill"
    BY <1>1, <1>5, <1>7, <2>1, <2>3 DEF SourceFails
  <2>4. QED
    BY <2>2, <2>3
<1>8. CASE PointRefused
  <2>1. InLoop /\ stage = "intake"
    BY <1>8 DEF PointRefused, InLoop, InIntake
  <2>2. CASE entry = "spill"
    BY <1>4, <1>8, <2>1, <2>2 DEF PointRefused
  <2>3. CASE entry # "spill"
    BY <1>1, <1>5, <1>8, <2>1, <2>3 DEF PointRefused
  <2>4. QED
    BY <2>2, <2>3
<1>9. CASE PointTaken
  <2> DEFINE r == source[taken + 1]
  <2>1. InLoop /\ NextPoint /\ Push(r) /\ r # ReadError
    BY <1>9 DEF PointTaken
  <2>2. stage = "intake" /\ pending = None /\ taken < Len(source)
    BY <2>1 DEF InLoop, InIntake
  <2>3. r \in Records /\ taken \in Nat /\ taken + 1 \in 1..Len(source)
    BY <1>0, <2>1, <2>2, NextInSource
  <2>4. taken' = taken + 1 /\ UNCHANGED <<stage, entry, source, phase>> /\ phase = "push" /\ Valid(r)
    BY <2>1 DEF NextPoint, Push
  <2>5. ASSUME entry = "stream" PROVE IntakeInv'
    <3>1. Agrees(accepted, taken) /\ \A i \in 1..taken : Valid(source[i])
      BY <2>2, <2>5 DEF CallInv, IntakeInv
    <3>2. \A i \in 1..(taken + 1) : Valid(source[i])
      <4>1. \A i \in 1..(taken + 1) : i \in 1..taken \/ i = taken + 1
        BY <2>3
      <4>2. QED
        BY <2>4, <3>1, <4>1
    <3>3. Agrees(Append(accepted, r), taken + 1)
      BY <1>0, <2>2, <2>3, <3>1, AgreesMore
    <3>4. CASE Fits
      <4>1. accepted' = Append(accepted, r) /\ pending' = None
        BY <2>1, <3>4 DEF Push, Take
      <4>2. Agrees(accepted', taken + 1)
        BY <3>3, <4>1
      <4>3. Agrees(accepted, taken)'
        BY <2>4, <4>2 DEF Agrees
      <4> HIDE DEF r
      <4>4. QED
        BY <2>4, <2>5, <3>2, <4>1, <4>3 DEF IntakeInv
    <3>5. CASE ~ Fits
      <4>1. accepted' = accepted /\ pending' = r
        BY <2>1, <3>5 DEF Push
      <4>2. taken' > 0 /\ taken' - 1 = taken
        BY <2>3, <2>4
      <4>3. r # None /\ pending' = source'[taken']
        BY <2>3, <2>4, <4>1, RecordFields
      <4>4. Agrees(accepted, taken - 1)'
        BY <2>4, <3>1, <4>1, <4>2 DEF Agrees
      <4> HIDE DEF r
      <4>5. QED
        BY <2>4, <2>5, <3>2, <4>1, <4>2, <4>3, <4>4 DEF IntakeInv
    <3>6. QED
      BY <3>4, <3>5
  <2>6. QED
    BY <1>4, <2>1, <2>5
<1>10. CASE SpillGoesOn
  <2>1. stage = "intake" /\ UNCHANGED callVars
    BY <1>10 DEF SpillGoesOn
  <2>2. CASE MadeRoom
    <3>1. /\ pending \in Records /\ accepted' = Append(accepted, pending)
          /\ pending # None /\ pending' = None /\ phase' = phase /\ phase = "push"
      BY <1>0, <2>2 DEF MadeRoom, Take, SpillInv, SpillType, PhaseInv
    <3>2. ASSUME entry = "stream" PROVE Agrees(accepted', taken)
      <4> DEFINE n == taken - 1
                 s == Append(accepted, source[n + 1])
      <4>1. taken > 0 /\ Agrees(accepted, n) /\ pending = source[taken] /\ taken \in 0..Len(source)
        BY <1>0, <2>1, <3>1, <3>2 DEF CallInv, IntakeInv, CallType
      <4>2. Len(source) \in Nat
        BY <1>0, LenProperties DEF CallType
      <4>3. n \in Nat /\ n + 1 = taken /\ source[n + 1] \in Records
        BY <3>1, <4>1, <4>2
      <4>4. accepted \in Seq(Records) /\ Len(accepted) = n /\ \A i \in 1..n : accepted[i] = source[i]
        BY <4>1 DEF Agrees
      <4> HIDE DEF n
      <4>5. /\ s \in Seq(Records) /\ Len(s) = n + 1
            /\ (\A i \in 1..n : s[i] = accepted[i]) /\ s[n + 1] = source[n + 1]
        BY <4>3, <4>4, AppendProperties
      <4> HIDE DEF s
      <4>6. \A i \in 1..(n + 1) : i \in 1..n \/ i = n + 1
        BY <4>3
      <4>7. Agrees(s, n + 1)
        BY <4>4, <4>5, <4>6 DEF Agrees
      <4>8. s = accepted'
        BY <3>1, <4>1, <4>3 DEF s
      <4>9. QED
        BY <4>3, <4>7, <4>8
    <3>3. IntakeInv'
      BY <2>1, <3>1, <3>2 DEF CallInv, IntakeInv, callVars, Agrees
    <3>4. QED
      BY <1>3, <2>1, <3>3
  <2>3. CASE WriteOut \/ FinalStep
    <3>1. UNCHANGED <<pending, accepted>> /\ (phase' # "push" => phase # "push")
      BY <2>3 DEF WriteOut, FinalStep
    <3>2. IntakeInv'
      BY <2>1, <3>1 DEF CallInv, IntakeInv, callVars, Agrees
    <3>3. QED
      BY <1>3, <2>1, <3>2
  <2>4. QED
    BY <1>10, <2>2, <2>3 DEF SpillGoesOn
<1>11. CASE PushError
  <2>1. stage = "intake"
    BY <1>11 DEF PushError
  <2>2. CASE entry = "spill"
    <3>1. UNCHANGED callVars
      BY <1>11, <2>2 DEF PushError
    <3>2. IntakeInv'
      BY <2>2, <3>1 DEF IntakeInv, callVars
    <3>3. QED
      BY <1>3, <2>1, <3>1, <3>2
  <2>3. CASE entry # "spill"
    BY <1>1, <1>5, <1>11, <2>1, <2>3 DEF PushError
  <2>4. QED
    BY <2>2, <2>3
<1>12. CASE FinalizeError
  BY <1>1, <1>5, <1>12 DEF FinalizeError
<1>13. CASE SpillFinalized
  <2>1. stage = "intake" /\ UNCHANGED callVars /\ taken = Len(source) /\ entry # "source"
    BY <1>13 DEF SpillFinalized, InIntake
  <2>2. UNCHANGED <<pending, accepted>>
    BY <1>13 DEF SpillFinalized, Finalize
  <2>3. IntakeInv'
    BY <2>1, <2>2 DEF CallInv, IntakeInv, callVars, Agrees
  <2>4. QED
    BY <1>3, <2>1, <2>3
\* From here on the spill does not change.
<1>14. ASSUME UNCHANGED <<vars, given, written, outcome>>, stage \notin {"publish", "done"},
              stage' = "encode", WholeInv'
       PROVE  CallInv'
  <2>1. written' = None /\ outcome' = "running"
    BY <1>14 DEF CallInv, OutcomeInv
  <2>2. QED
    BY <1>0, <1>14, <2>1
    DEF CallInv, IntakeInv, ValidateInv, PublishInv, OutcomeInv, ConversionWhole
<1>15. CASE FromSpill
  <2>1. stage = "intake" /\ entry = "stream" /\ phase = "reader"
    BY <1>15 DEF FromSpill
  <2>2. CASE count = 0
    BY <1>1, <1>5, <1>15, <2>1, <2>2 DEF FromSpill
  <2>3. CASE count # 0
    <3>1. /\ header' = [bounds |-> bounds, stats |-> stats, count |-> count]
          /\ stage' = "encode" /\ UNCHANGED <<vars, given, written, outcome>>
      BY <1>15, <2>3 DEF FromSpill
    <3>2. pending = None /\ taken = Len(source) /\ Agrees(accepted, Len(source))
          /\ \A i \in 1..Len(source) : Valid(source[i])
      BY <1>0, <2>1 DEF CallInv, IntakeInv, SpillInv, PhaseInv
    <3>3. accepted = source /\ source \in Seq(Records)
      BY <1>0, <3>2, AgreesWhole
    <3>4. count = Len(source) /\ BoundsOf(bounds, source) /\ StatsOf(stats, source) /\ source # <<>>
      BY <1>0, <2>3, <3>3 DEF SpillInv, ContentInv, SummaryInv
    <3>5. \A i \in 1..Len(source) : InBounds(source[i].x, bounds)
      <4>1. PICK lo \in Int, hi \in Int :
              bounds = [min |-> lo, max |-> hi] /\ Least(lo, Xs(source)) /\ Greatest(hi, Xs(source))
        BY <3>4 DEF BoundsOf
      <4>2. \A i \in 1..Len(source) : source[i].x \in Xs(source)
        BY <3>3, LenProperties DEF Xs, Range
      <4>3. QED
        BY <4>1, <4>2 DEF Least, Greatest, InBounds
    <3>6. header'.bounds = bounds /\ header'.stats = stats /\ header'.count = count
      BY <3>1
    <3>7. phase' = "reader" /\ accepted' = source /\ source' = source /\ entry' = "stream"
      BY <2>1, <3>1, <3>3 DEF vars
    <3>8. bounds.min \in Int /\ bounds.max \in Int
      BY <3>4 DEF BoundsOf
    <3>9. WholeInv'
      BY <3>2, <3>3, <3>4, <3>5, <3>6, <3>7, <3>8 DEF WholeInv, InBounds
    <3>10. QED
      BY <1>14, <2>1, <3>1, <3>9
  <2>4. QED
    BY <2>2, <2>3
<1>16. CASE FromMemory
  <2>1. stage = "intake" /\ entry = "source" /\ taken = 0
    BY <1>16 DEF FromMemory, CallInv, IntakeInv
  <2>2. CASE source = <<>>
    BY <1>1, <1>5, <1>16, <2>1, <2>2 DEF FromMemory
  <2>3. CASE source # <<>>
    <3>1. /\ header' = [bounds |-> declared, stats |-> NoStats, count |-> Len(source)]
          /\ stage' = "validate" /\ UNCHANGED <<vars, given, taken, written, outcome>>
      BY <1>16, <2>3 DEF FromMemory
    <3>2. <<>> \in Seq(Records) /\ Len(<<>>) = 0 /\ 1..0 = {}
      OBVIOUS
    <3>3. Agrees(<<>>, 0)
      BY <3>2 DEF Agrees
    <3>4. StatsOf(NoStats, <<>>)
      <4>1. \A n \in 1..15 : Returning(<<>>, n) = {}
        BY DEF Returning
      <4>2. QED
        BY <4>1, FS_EmptySet DEF StatsOf, NoStats
    <3>5. ValidateInv'
      BY <2>1, <2>3, <3>1, <3>2, <3>3, <3>4 DEF ValidateInv, Agrees
    <3>6. written' = None /\ outcome' = "running"
      BY <2>1, <3>1 DEF CallInv, OutcomeInv
    <3>7. QED
      BY <1>0, <3>1, <3>5, <3>6
      DEF CallInv, IntakeInv, WholeInv, PublishInv, OutcomeInv, ConversionWhole
  <2>4. QED
    BY <2>2, <2>3
<1>17. CASE Validate
  <2> DEFINE r == source[taken + 1]
  <2>1. stage = "validate" /\ taken < Len(source)
    BY <1>17 DEF Validate
  <2>2. CASE ~ Validated(r)
    BY <1>1, <1>5, <1>17, <2>1, <2>2 DEF Validate
  <2>3. CASE Validated(r)
    <3>1. /\ header' = [header EXCEPT !.stats = Recorded(@, r)] /\ taken' = taken + 1
          /\ UNCHANGED <<given, stage, written, outcome>>
      BY <1>17, <2>3 DEF Validate
    <3>2. r \in Records /\ taken \in Nat
      BY <1>0, <2>1, <2>3, NextInSource DEF Validated
    <3>3. PICK s, st :
            /\ header = [bounds |-> declared, stats |-> st, count |-> Len(source)]
            /\ Agrees(s, taken) /\ StatsOf(st, s)
      BY <2>1 DEF CallInv, ValidateInv
    <3> DEFINE t == Append(s, r)
               u == Recorded(st, r)
    <3>4. Agrees(t, taken + 1)
      BY <1>0, <2>1, <3>2, <3>3, AgreesMore
    <3>5. StatsOf(u, t)
      <4>1. s \in Seq(Records)
        BY <3>3 DEF Agrees
      <4> DEFINE q == r
      <4>2. q \in Records
        BY <3>2
      <4> HIDE DEF q
      <4>3. StatsOf(Recorded(st, q), Append(s, q))
        BY <3>3, <4>1, <4>2, StatsStep
      <4>4. QED
        BY <4>3 DEF q
    <3>6. header' = [bounds |-> declared, stats |-> u, count |-> Len(source)]
      BY <3>1, <3>3
    <3>7. \A i \in 1..(taken + 1) : Validated(source[i])
      <4>1. \A i \in 1..(taken + 1) : i \in 1..taken \/ i = taken + 1
        BY <3>2
      <4>2. \A i \in 1..taken : Validated(source[i])
        BY <2>1 DEF CallInv, ValidateInv
      <4>3. QED
        BY <2>3, <4>1, <4>2
    <3>8. entry = "source" /\ source # <<>>
      BY <2>1 DEF CallInv, ValidateInv
    <3>9. t \in Seq(Records) /\ Len(t) = taken' /\ \A i \in 1..taken' : t[i] = source'[i]
      BY <3>1, <3>4 DEF Agrees
    <3> HIDE DEF t, u, r
    <3>10. \A i \in 1..taken' : Validated(source[i])'
      BY <3>1, <3>7 DEF Validated, Quantizes, Quantized, Origin
    <3>11. ValidateInv'
      BY <3>1, <3>5, <3>6, <3>8, <3>9, <3>10 DEF ValidateInv, Agrees
    <3>12. IntakeInv'
      BY <2>1, <3>1 DEF IntakeInv
    <3>13. QED
      BY <1>2, <2>1, <3>1, <3>11, <3>12
  <2>4. QED
    BY <2>2, <2>3
<1>18. CASE EndValidate
  <2>1. /\ stage = "validate" /\ taken = Len(source) /\ stage' = "encode"
        /\ UNCHANGED <<vars, given, header, written, outcome>>
    BY <1>18 DEF EndValidate
  <2>2. /\ entry = "source" /\ source # <<>>
        /\ \A i \in 1..Len(source) : Validated(source[i])
    BY <2>1 DEF CallInv, ValidateInv
  <2>3. PICK s, st :
          /\ header = [bounds |-> declared, stats |-> st, count |-> Len(source)]
          /\ Agrees(s, Len(source)) /\ StatsOf(st, s)
    BY <2>1 DEF CallInv, ValidateInv
  <2>4. s = source /\ source \in Seq(Records)
    BY <1>0, <2>3, AgreesWhole
  <2>5. header.bounds = declared /\ header.stats = st /\ header.count = Len(source)
    BY <2>3
  <2>6. /\ StatsOf(header.stats, source)
        /\ \A i \in 1..Len(source) : Valid(source[i]) /\ InBounds(source[i].x, header.bounds)
    BY <2>2, <2>3, <2>4, <2>5 DEF Validated
  <2>7. header.bounds.min \in Int /\ header.bounds.max \in Int
    BY <1>0, <2>5 DEF CallType
  <2>8. WholeInv'
    BY <2>1, <2>2, <2>4, <2>5, <2>6, <2>7 DEF WholeInv, InBounds
  <2>9. QED
    BY <1>14, <2>1, <2>8
<1>19. CASE Encode
  <2>1. stage = "encode" /\ UNCHANGED vars
    BY <1>19 DEF Encode
  <2> DEFINE E == \A i \in DOMAIN Points : Quantizes(Points[i].x, header.bounds)
  <2>2. CASE E
    <3>1. stage' = "publish" /\ UNCHANGED <<vars, given, taken, header, written, outcome>>
      BY <1>19, <2>1, <2>2 DEF Encode
    <3>2. WholeInv'
      BY <2>1, <3>1 DEF CallInv, WholeInv, InBounds, vars
    <3>3. Points' = Points
      BY <3>1 DEF vars, summary, Points, Stored, RecordAt, RecordBytes
    <3>4. PublishInv'
      BY <2>2, <3>1, <3>3 DEF PublishInv, Quantizes, Quantized, Origin
    <3>5. written' = None /\ outcome' = "running"
      BY <2>1, <3>1 DEF CallInv, OutcomeInv
    <3>6. QED
      BY <1>0, <3>1, <3>2, <3>4, <3>5
      DEF CallInv, IntakeInv, ValidateInv, OutcomeInv, ConversionWhole
  <2>3. CASE ~ E
    BY <1>1, <1>5, <1>19, <2>1, <2>3 DEF Encode
  <2>4. QED
    BY <2>2, <2>3
<1>20. CASE Publish
  <2>1. ConversionWhole' /\ stage' = "done"
    BY <1>0, <1>20, PublishedWhole DEF CallInv, Publish, End
  <2>2. QED
    BY <1>0, <2>1 DEF CallInv, IntakeInv, ValidateInv, WholeInv, PublishInv, OutcomeInv
<1>21. CASE UNCHANGED allVars
  <2> USE DEF allVars, callVars, vars, summary
  <2>1. IntakeInv' /\ ValidateInv'
    BY <1>21 DEF CallInv, IntakeInv, ValidateInv, Agrees, Validated, Quantizes, Quantized, Origin
  <2>2. Points' = Points
    BY <1>21 DEF Points, Stored, RecordAt, RecordBytes
  <2>3. WholeInv' /\ PublishInv' /\ OutcomeInv'
    BY <1>21, <2>2 DEF CallInv, WholeInv, PublishInv, OutcomeInv, InBounds, Quantizes, Quantized, Origin
  <2>4. HeaderTrue' <=> HeaderTrue
    BY <1>21 DEF HeaderTrue
  <2>5. ConversionWhole'
    BY <1>21, <2>4 DEF CallInv, ConversionWhole, Kept, Origin, Stored
  <2>6. QED
    BY <1>0, <2>1, <2>3, <2>5 DEF CallInv
<1>22. QED
  BY <1>6, <1>7, <1>8, <1>9, <1>10, <1>11, <1>12, <1>13, <1>15, <1>16, <1>17, <1>18, <1>19, <1>20, <1>21
  DEF CallNext

\* By either way in, a file at the destination holds every point of the
\* source, each of them valid and at the nearest place of the grid, under a
\* header that is true, of its bounds to half a step of the grid
\* (quantize_axis rounds, LasHeader::write does not); and Ok is never returned
\* without one.
THEOREM ConversionIsWhole == CallSpec => []ConversionWhole
<1>1. CallInv => ConversionWhole
  BY DEF CallInv
<1>2. QED
  BY <1>1, InitCall, StepCall, PTL DEF CallSpec
=============================================================================

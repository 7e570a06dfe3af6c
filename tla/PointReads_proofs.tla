------------------------- MODULE PointReads_proofs -------------------------
(***************************************************************************)
(* Proofs about PointReads, for any files, bounds, selections of chunks,   *)
(* batch sizes and limits: the iterator reads inside its chunks and keeps  *)
(* its size hint, the range requests are frugal, and every way of reading  *)
(* returns the points that were promised (PointAnswer).  At the end, about *)
(* HttpRange, for any versions of the file, any ranges asked for and any   *)
(* number of requests: the ranges that come over HTTP are the right bytes. *)
(***************************************************************************)
EXTENDS PointReads, HttpRange, SequenceTheorems, WellFoundedInduction, FiniteSetTheorems, TLAPS

-----------------------------------------------------------------------------
(***************************************************************************)
(* Counting up, prefixes of sequences, and functions defined by recursion  *)
(* on how far a sequence has been taken.                                   *)
(***************************************************************************)
LEMMA LeastElement ==
  ASSUME NEW S, S \subseteq Nat, S # {}
  PROVE  \E m \in S : \A n \in S : m <= n
<1>1. PICK x \in S : \A y \in S : ~ <<y, x>> \in OpToRel(<, Nat)
  <2>1. IsWellFoundedOn(OpToRel(<, Nat), Nat)
    BY NatLessThanWellFounded
  <2> HIDE DEF OpToRel
  <2>2. QED
    BY <2>1, WFMin
<1>2. \A y \in S : ~(y < x)
  BY <1>1 DEF OpToRel
<1>3. QED
  BY <1>2

\* What holds of a, and of a number when it holds of the one before, holds
\* from a on.
LEMMA CountUp ==
  ASSUME NEW a \in Int, NEW b \in Int, NEW F, a \in F,
         \A i \in (a + 1)..b : i - 1 \in F => i \in F
  PROVE  a..b \subseteq F
<1> SUFFICES ASSUME NEW x \in a..b, x \notin F PROVE FALSE
  OBVIOUS
<1> DEFINE D == {n \in Nat : a + n <= b /\ a + n \notin F}
<1>1. D \subseteq Nat /\ D # {}
  <2>1. x - a \in Nat /\ a + (x - a) = x
    OBVIOUS
  <2>2. x - a \in D
    BY <2>1
  <2>3. QED
    BY <2>2
<1>2. PICK m \in D : \A n \in D : m <= n
  <2> HIDE DEF D
  <2>1. QED
    BY <1>1, LeastElement
<1>3. m \in Nat /\ a + m <= b /\ a + m \notin F
  OBVIOUS
<1>4. m # 0
  BY <1>3
<1>5. m - 1 \in Nat /\ m - 1 \notin D
  BY <1>2, <1>3, <1>4
<1>6. a + (m - 1) \in F /\ a + m \in (a + 1)..b /\ a + (m - 1) = (a + m) - 1
  BY <1>3, <1>5
<1>7. QED
  BY <1>3, <1>6

\* s is how t begins.
Prefix(s, t) == Len(s) <= Len(t) /\ \A i \in 1..Len(s) : s[i] = t[i]

LEMMA PrefixIsSubSeq ==
  ASSUME NEW S, NEW s \in Seq(S), NEW t \in Seq(S), Prefix(s, t)
  PROVE  s = SubSeq(t, 1, Len(s))
<1> DEFINE u == SubSeq(t, 1, Len(s))
<1>1. Len(s) \in Nat /\ Len(t) \in Nat /\ Len(s) <= Len(t)
  BY LenProperties DEF Prefix
<1>2. \A i \in 1..Len(s) : t[i] \in S
  BY <1>1, ElementOfSeq
<1>3. u \in Seq(S) /\ Len(u) = Len(s) /\ \A i \in 1..Len(s) : u[i] = t[i]
  <2>1. 1 \in Int /\ Len(s) \in Int
    BY <1>1
  <2>2. /\ u \in Seq(S)
        /\ Len(u) = IF 1 <= Len(s) THEN Len(s) - 1 + 1 ELSE 0
        /\ \A i \in 1..(Len(s) - 1 + 1) : u[i] = t[1 + i - 1]
    BY <2>1, <1>2, SubSeqProperties
  <2> HIDE DEF u
  <2>3. QED
    BY <2>2, <1>1
<1> HIDE DEF u
<1>4. s = u
  BY <1>1, <1>3, SeqEqual DEF Prefix
<1>5. QED
  BY <1>4 DEF u

LEMMA PrefixOfAll ==
  ASSUME NEW S, NEW s \in Seq(S), NEW t \in Seq(S), Prefix(s, t), Len(s) = Len(t)
  PROVE  s = t
BY SeqEqual, LenProperties DEF Prefix

LEMMA PrefixTransitive ==
  ASSUME NEW S, NEW s \in Seq(S), NEW t \in Seq(S), NEW u \in Seq(S), Prefix(s, t), Prefix(t, u)
  PROVE  Prefix(s, u)
BY LenProperties DEF Prefix

LEMMA PrefixOfConcat ==
  ASSUME NEW S, NEW s \in Seq(S), NEW t \in Seq(S)
  PROVE  Prefix(s, s \o t)
BY ConcatProperties, LenProperties DEF Prefix

LEMMA PrefixOfAppend ==
  ASSUME NEW S, NEW s \in Seq(S), NEW e \in S
  PROVE  Prefix(s, Append(s, e))
BY AppendProperties, LenProperties DEF Prefix

LEMMA PrefixBehind ==
  ASSUME NEW S, NEW s \in Seq(S), NEW t \in Seq(S), NEW u \in Seq(S), Prefix(t, u)
  PROVE  Prefix(s \o t, s \o u)
<1>1. /\ Len(s \o t) = Len(s) + Len(t)
      /\ \A i \in 1..(Len(s) + Len(t)) :
           (s \o t)[i] = IF i <= Len(s) THEN s[i] ELSE t[i - Len(s)]
  BY ConcatProperties
<1>2. /\ Len(s \o u) = Len(s) + Len(u)
      /\ \A i \in 1..(Len(s) + Len(u)) :
           (s \o u)[i] = IF i <= Len(s) THEN s[i] ELSE u[i - Len(s)]
  BY ConcatProperties
<1>3. Len(s) \in Nat /\ Len(t) \in Nat /\ Len(u) \in Nat /\ Len(t) <= Len(u)
  BY LenProperties DEF Prefix
<1>4. ASSUME NEW i \in 1..(Len(s) + Len(t)) PROVE (s \o t)[i] = (s \o u)[i]
  <2>1. i \in 1..(Len(s) + Len(u))
    BY <1>3
  <2>2. CASE i <= Len(s)
    BY <1>1, <1>2, <2>1, <2>2
  <2>3. CASE ~ (i <= Len(s))
    <3>1. i - Len(s) \in 1..Len(t)
      BY <1>3, <2>3
    <3>2. QED
      BY <1>1, <1>2, <2>1, <2>3, <3>1 DEF Prefix
  <2>4. QED
    BY <2>2, <2>3
<1>5. QED
  BY <1>1, <1>2, <1>3, <1>4 DEF Prefix

\* What only ever grows at its end, begins with what it was before.
LEMMA Growing ==
  ASSUME NEW S, NEW n \in Nat, NEW f \in [0..n -> Seq(S)],
         \A i \in 1..n : Prefix(f[i - 1], f[i]),
         NEW k \in 0..n, NEW m \in k..n
  PROVE  Prefix(f[k], f[m])
<1> DEFINE F == {i \in k..n : Prefix(f[k], f[i])}
<1>1. k \in F
  BY LenProperties DEF Prefix
<1>2. ASSUME NEW i \in (k + 1)..n, i - 1 \in F PROVE i \in F
  <2>1. i \in 1..n /\ i \in k..n /\ i - 1 \in 0..n
    OBVIOUS
  <2>2. Prefix(f[i - 1], f[i]) /\ Prefix(f[k], f[i - 1])
    BY <1>2, <2>1
  <2>3. f[k] \in Seq(S) /\ f[i - 1] \in Seq(S) /\ f[i] \in Seq(S)
    BY <2>1
  <2>4. Prefix(f[k], f[i])
    BY <2>2, <2>3, PrefixTransitive
  <2>5. QED
    BY <2>1, <2>4
<1>3. k \in Int /\ n \in Int
  OBVIOUS
<1> HIDE DEF F
<1>4. k..n \subseteq F
  BY <1>1, <1>2, <1>3, CountUp
<1>5. QED
  BY <1>4 DEF F

\* What rises no faster in any step, rises no more in many.
LEMMA Rising ==
  ASSUME NEW n \in Nat, NEW f \in [0..n -> Int], NEW g \in [0..n -> Int],
         \A i \in 1..n : f[i] - f[i - 1] <= g[i] - g[i - 1],
         NEW k \in 0..n, NEW m \in k..n
  PROVE  f[m] - f[k] <= g[m] - g[k]
<1> DEFINE F == {i \in k..n : f[i] - f[k] <= g[i] - g[k]}
<1>1. k \in F
  OBVIOUS
<1>2. ASSUME NEW i \in (k + 1)..n, i - 1 \in F PROVE i \in F
  <2>1. i \in 1..n /\ i \in k..n /\ i - 1 \in 0..n /\ i \in 0..n
    OBVIOUS
  <2>2. f[i] \in Int /\ f[i - 1] \in Int /\ f[k] \in Int
        /\ g[i] \in Int /\ g[i - 1] \in Int /\ g[k] \in Int
    BY <2>1
  <2>3. f[i] - f[i - 1] <= g[i] - g[i - 1]
    BY <2>1
  <2>4. f[i - 1] - f[k] <= g[i - 1] - g[k]
    BY <1>2
  <2>5. f[i] - f[k] <= g[i] - g[k]
    <3> DEFINE a == f[i]  b == f[i - 1]  c == f[k]  p == g[i]  q == g[i - 1]  r == g[k]
    <3>1. a \in Int /\ b \in Int /\ c \in Int /\ p \in Int /\ q \in Int /\ r \in Int
      BY <2>2
    <3>2. a - b <= p - q /\ b - c <= q - r
      BY <2>3, <2>4
    <3> HIDE DEF a, b, c, p, q, r
    <3>3. a - c <= p - r
      BY <3>1, <3>2
    <3>4. QED
      BY <3>3 DEF a, c, p, r
  <2>6. QED
    BY <2>1, <2>5
<1>3. k \in Int /\ n \in Int
  OBVIOUS
<1> HIDE DEF F
<1>4. k..n \subseteq F
  BY <1>1, <1>2, <1>3, CountUp
<1>5. QED
  BY <1>4 DEF F

\* Recursion has a result, whatever is done in each round.
RunOf(f, V, n, base, round) ==
  f \in [0..n -> V] /\ f[0] = base /\ \A i \in 1..n : f[i] = round[i][f[i - 1]]

LEMMA Recursion ==
  ASSUME NEW V, NEW n \in Nat, NEW base \in V, NEW round \in [1..n -> [V -> V]]
  PROVE  \E f : RunOf(f, V, n, base, round)
<1> USE DEF RunOf
<1> DEFINE F == {m \in 0..n : \E f \in [0..m -> V] :
                   f[0] = base /\ \A i \in 1..m : f[i] = round[i][f[i - 1]]}
<1>1. 0 \in F
  <2> DEFINE f == [i \in 0..0 |-> base]
  <2>1. f \in [0..0 -> V] /\ f[0] = base /\ \A i \in 1..0 : f[i] = round[i][f[i - 1]]
    OBVIOUS
  <2> HIDE DEF f
  <2>2. QED
    BY <2>1
<1>2. ASSUME NEW m \in (0 + 1)..n, m - 1 \in F PROVE m \in F
  <2>1. PICK f \in [0..(m - 1) -> V] :
          f[0] = base /\ \A i \in 1..(m - 1) : f[i] = round[i][f[i - 1]]
    BY <1>2
  <2> DEFINE g == [i \in 0..m |-> IF i = m THEN round[m][f[m - 1]] ELSE f[i]]
  <2>2. f[m - 1] \in V /\ round[m] \in [V -> V]
    OBVIOUS
  <2>3. round[m][f[m - 1]] \in V
    BY <2>2
  <2>4. \A i \in 0..m : i # m => i \in 0..(m - 1)
    OBVIOUS
  <2>5. g \in [0..m -> V]
    BY <2>3, <2>4
  <2>6. g[0] = base
    BY <2>1
  <2>7. ASSUME NEW i \in 1..m PROVE g[i] = round[i][g[i - 1]]
    <3>1. g[i - 1] = f[i - 1] /\ i - 1 \in 0..(m - 1)
      OBVIOUS
    <3>2. CASE i = m
      BY <3>1, <3>2
    <3>3. CASE i # m
      <4>1. i \in 1..(m - 1) /\ g[i] = f[i]
        BY <3>3
      <4>2. QED
        BY <2>1, <3>1, <4>1
    <3>4. QED
      BY <3>2, <3>3
  <2> HIDE DEF g
  <2>8. m \in 0..n
    OBVIOUS
  <2>9. QED
    BY <2>5, <2>6, <2>7, <2>8
<1>3. 0..n \subseteq F
  <2>1. 0 \in Int /\ n \in Int
    OBVIOUS
  <2> HIDE DEF F
  <2>2. QED
    BY <1>1, <1>2, <2>1, CountUp
<1>4. n \in 0..n
  OBVIOUS
<1>5. QED
  BY <1>3, <1>4

-----------------------------------------------------------------------------
(***************************************************************************)
(* The points of one chunk.                                                *)
(***************************************************************************)
KeptRound(within, points, kept, n) ==
  IF n = 0 THEN <<>>
  ELSE IF Accepted(within, points[n]) THEN Append(kept[n - 1], points[n])
  ELSE kept[n - 1]

\* The points kept of the first n.
Kept(within, points) ==
  CHOOSE kept : kept = [n \in 0..Len(points) |-> KeptRound(within, points, kept, n)]

LEMMA FilteredIsKept ==
  ASSUME NEW within, NEW points
  PROVE  Filtered(within, points) = Kept(within, points)[Len(points)]
BY DEF Filtered, Kept, KeptRound

LEMMA KeptSteps ==
  ASSUME NEW S, NEW points \in Seq(S), NEW within
  PROVE  /\ Kept(within, points) \in [0..Len(points) -> Seq(S)]
         /\ \A n \in 0..Len(points) :
              Kept(within, points)[n] = KeptRound(within, points, Kept(within, points), n)
<1> DEFINE N == Len(points)
           V == Seq(S)
           round == [i \in 1..N |-> [s \in V |->
                       IF Accepted(within, points[i]) THEN Append(s, points[i]) ELSE s]]
           eqn(f) == f = [n \in 0..N |-> KeptRound(within, points, f, n)]
           it == Kept(within, points)
<1>1. N \in Nat /\ <<>> \in V /\ \A i \in 1..N : points[i] \in S
  BY LenProperties, ElementOfSeq, EmptySeq
<1>2. round \in [1..N -> [V -> V]]
  BY <1>1, AppendProperties
<1>3. PICK f \in [0..N -> V] : f[0] = <<>> /\ \A i \in 1..N : f[i] = round[i][f[i - 1]]
  <2> DEFINE base == <<>>
  <2>1. base \in V
    BY <1>1
  <2> HIDE DEF N, V, round, base
  <2>2. \E f : RunOf(f, V, N, base, round)
    BY <1>1, <1>2, <2>1, Recursion
  <2>3. QED
    BY <2>2 DEF base, RunOf
<1>4. \E g : eqn(g)
  <2>1. ASSUME NEW n \in 0..N PROVE f[n] = KeptRound(within, points, f, n)
    <3>1. CASE n = 0
      BY <1>3, <3>1 DEF KeptRound
    <3>2. CASE n # 0
      <4>1. n \in 1..N /\ f[n - 1] \in V
        BY <1>1, <3>2
      <4>2. f[n] = round[n][f[n - 1]]
        BY <1>3, <4>1
      <4>3. QED
        BY <3>2, <4>1, <4>2 DEF KeptRound
    <3>3. QED
      BY <3>1, <3>2
  <2>2. eqn(f)
    BY <2>1
  <2>3. QED
    BY <2>2
<1>5. eqn(it)
  <2>1. it = CHOOSE g : eqn(g)
    BY DEF Kept
  <2> HIDE DEF it, eqn
  <2>2. QED
    BY <1>4, <2>1
<1>6. \A n \in 0..N : it[n] = KeptRound(within, points, it, n)
  <2> HIDE DEF it
  <2>1. QED
    BY <1>5
<1>7. \A n \in 0..N : it[n] \in V
  <2> DEFINE F == {n \in 0..N : it[n] \in V}
  <2> HIDE DEF it
  <2>1. 0 \in F
    <3>1. 0 \in 0..N
      BY <1>1
    <3>2. it[0] = <<>>
      BY <1>6, <3>1, Zenon DEF KeptRound
    <3>3. QED
      BY <1>1, <3>1, <3>2, Zenon
  <2>2. ASSUME NEW n \in (0 + 1)..N, n - 1 \in F PROVE n \in F
    <3>1. it[n - 1] \in V /\ n \in 0..N /\ points[n] \in S /\ n # 0
      BY <1>1, <2>2
    <3>2. Append(it[n - 1], points[n]) \in V
      BY <3>1, AppendProperties
    <3>3. QED
      BY <1>6, <3>1, <3>2 DEF KeptRound
  <2>3. 0 \in Int /\ N \in Int
    BY <1>1
  <2> HIDE DEF F
  <2>4. 0..N \subseteq F
    BY <2>1, <2>2, <2>3, CountUp
  <2>5. QED
    BY <2>4 DEF F
<1>8. it = [n \in 0..N |-> it[n]]
  <2> HIDE DEF it
  <2>1. QED
    BY <1>5
<1>9. QED
  <2> HIDE DEF it, N, V
  <2>1. it \in [0..N -> V]
    BY <1>7, <1>8
  <2>2. QED
    BY <2>1, <1>6 DEF it, N, V

\* Keeping goes on at the end of what has been kept, and keeps no more than
\* there is: everything, where no bounds are asked for.
LEMMA KeptGrows ==
  ASSUME NEW S, NEW points \in Seq(S), NEW within, NEW n \in 1..Len(points)
  PROVE  LET kept == Kept(within, points) IN
         /\ kept[n - 1] \in Seq(S) /\ kept[n] \in Seq(S) /\ kept[0] = <<>>
         /\ kept[n] = IF Accepted(within, points[n]) THEN Append(kept[n - 1], points[n])
                      ELSE kept[n - 1]
         /\ Prefix(kept[n - 1], kept[n])
         /\ Len(kept[n - 1]) <= Len(kept[n]) /\ Len(kept[n]) <= Len(kept[n - 1]) + 1
         /\ within = Everywhere => Len(kept[n]) = Len(kept[n - 1]) + 1
<1> DEFINE kept == Kept(within, points)
<1>1. n \in 0..Len(points) /\ n - 1 \in 0..Len(points) /\ n # 0 /\ 0 \in 0..Len(points)
  OBVIOUS
<1>2. kept[n - 1] \in Seq(S) /\ kept[n] \in Seq(S) /\ points[n] \in S
  <2>1. kept \in [0..Len(points) -> Seq(S)]
    BY KeptSteps
  <2>2. points[n] \in S
    BY ElementOfSeq
  <2>3. QED
    BY <1>1, <2>1, <2>2
<1>3. kept[n] = KeptRound(within, points, kept, n) /\ kept[0] = KeptRound(within, points, kept, 0)
  BY <1>1, KeptSteps
<1> HIDE DEF kept
<1>4. kept[n] = IF Accepted(within, points[n]) THEN Append(kept[n - 1], points[n])
                ELSE kept[n - 1]
  BY <1>1, <1>3, Zenon DEF KeptRound
<1>5. kept[0] = <<>>
  BY <1>3, Zenon DEF KeptRound
<1>6. /\ Len(Append(kept[n - 1], points[n])) = Len(kept[n - 1]) + 1
      /\ Prefix(kept[n - 1], Append(kept[n - 1], points[n]))
      /\ Prefix(kept[n - 1], kept[n - 1]) /\ Len(kept[n - 1]) \in Nat
  BY <1>2, AppendProperties, PrefixOfAppend, LenProperties DEF Prefix
<1>7. CASE Accepted(within, points[n])
  BY <1>2, <1>4, <1>5, <1>6, <1>7 DEF kept
<1>8. CASE ~ Accepted(within, points[n])
  <2>1. within # Everywhere
    BY <1>8 DEF Accepted
  <2>2. kept[n] = kept[n - 1]
    BY <1>4, <1>8
  <2>3. QED
    BY <1>2, <1>4, <1>5, <1>6, <2>1, <2>2 DEF kept
<1>9. QED
  BY <1>7, <1>8

\* The points kept of the first k are the first of those kept of all, and at
\* most as many more are kept as there are points behind.
LEMMA KeptOfAll ==
  ASSUME NEW S, NEW points \in Seq(S), NEW within, NEW k \in 0..Len(points)
  PROVE  LET kept == Kept(within, points)
             all == Filtered(within, points) IN
         /\ kept[k] \in Seq(S) /\ all \in Seq(S) /\ all = kept[Len(points)]
         /\ Prefix(kept[k], all)
         /\ Len(all) <= Len(kept[k]) + (Len(points) - k)
         /\ within = Everywhere => Len(all) = Len(kept[k]) + (Len(points) - k)
<1> DEFINE N == Len(points)
           kept == Kept(within, points)
           all == Filtered(within, points)
<1>1. N \in Nat /\ all = kept[N] /\ kept \in [0..N -> Seq(S)]
  BY LenProperties, FilteredIsKept, KeptSteps
<1>2. \A i \in 1..N :
        /\ Prefix(kept[i - 1], kept[i])
        /\ Len(kept[i]) <= Len(kept[i - 1]) + 1
        /\ within = Everywhere => Len(kept[i]) = Len(kept[i - 1]) + 1
  BY KeptGrows
<1>3. k \in 0..N /\ N \in k..N
  BY <1>1
<1> HIDE DEF kept, N
<1>4. Prefix(kept[k], kept[N])
  BY <1>1, <1>2, <1>3, Growing
<1> DEFINE size == [i \in 0..N |-> Len(kept[i])]
           id == [i \in 0..N |-> i]
<1>5. \A i \in 0..N : kept[i] \in Seq(S) /\ Len(kept[i]) \in Nat
  BY <1>1, LenProperties
<1>6. size \in [0..N -> Int] /\ id \in [0..N -> Int]
  BY <1>5
<1>7. \A i \in 1..N : i \in 0..N /\ i - 1 \in 0..N
  BY <1>1
<1>8. \A i \in 1..N : size[i] - size[i - 1] <= id[i] - id[i - 1]
  BY <1>2, <1>5, <1>7
<1>9. within = Everywhere => \A i \in 1..N : id[i] - id[i - 1] <= size[i] - size[i - 1]
  BY <1>2, <1>5, <1>7
<1>10. size[k] = Len(kept[k]) /\ size[N] = Len(kept[N]) /\ id[k] = k /\ id[N] = N
  BY <1>1, <1>3
<1> HIDE DEF size, id
<1>11. size[N] - size[k] <= id[N] - id[k]
  BY <1>1, <1>3, <1>6, <1>8, Rising
<1>12. within = Everywhere => id[N] - id[k] <= size[N] - size[k]
  BY <1>1, <1>3, <1>6, <1>9, Rising
<1>13. /\ kept[k] \in Seq(S) /\ kept[N] \in Seq(S)
       /\ Len(kept[k]) \in Nat /\ Len(kept[N]) \in Nat /\ k \in Nat
  BY <1>1, <1>3, <1>5
<1>14. /\ Len(kept[N]) <= Len(kept[k]) + (N - k)
       /\ within = Everywhere => Len(kept[N]) = Len(kept[k]) + (N - k)
  <2>1. ASSUME NEW a \in Nat, NEW b \in Nat, b - a <= N - k PROVE b <= a + (N - k)
    BY <1>1, <1>13, <2>1
  <2>2. ASSUME NEW a \in Nat, NEW b \in Nat, b - a <= N - k, N - k <= b - a
        PROVE b = a + (N - k)
    BY <1>1, <1>13, <2>2
  <2>3. /\ Len(kept[N]) - Len(kept[k]) <= N - k
        /\ within = Everywhere => N - k <= Len(kept[N]) - Len(kept[k])
    BY <1>10, <1>11, <1>12
  <2>4. QED
    BY <1>13, <2>1, <2>2, <2>3
<1>15. QED
  BY <1>1, <1>4, <1>13, <1>14 DEF kept, N

-----------------------------------------------------------------------------
(***************************************************************************)
(* The points of the chunks of a list, one chunk after the other.          *)
(***************************************************************************)
\* Whatever a decompressor may find in the chunks.
Stored(f, list) == {PointAt(BytesOf(f, list[n]), i) : n \in 1..Len(list), i \in Nat}

GatherRound(f, list, within, points, n) ==
  IF n = 0 THEN <<>> ELSE points[n - 1] \o PointsOf(f, list[n], within)

\* The points of the first n chunks.
Gathered(f, list, within) ==
  CHOOSE points : points = [n \in 0..Len(list) |-> GatherRound(f, list, within, points, n)]

LEMMA ExpectedIsGathered ==
  ASSUME NEW f, NEW list, NEW within
  PROVE  Expected(f, list, within) = Gathered(f, list, within)[WholeOnes(f, list)]
BY DEF Expected, Gathered, GatherRound

\* What the decompressor gives of the bytes of a chunk.
LEMMA DecodedSeq ==
  ASSUME NEW bytes_of, NEW m \in Nat, NEW S, \A i \in 1..m : PointAt(bytes_of, i) \in S
  PROVE  /\ Decoded(bytes_of, m) \in Seq(S) /\ Len(Decoded(bytes_of, m)) = m
         /\ \A i \in 1..m : Decoded(bytes_of, m)[i] = PointAt(bytes_of, i)
<1> DEFINE points == [i \in 1..m |-> PointAt(bytes_of, i)]
<1>1. points \in [1..m -> S] /\ \A i \in 1..m : points[i] = PointAt(bytes_of, i)
  OBVIOUS
<1> HIDE DEF points
<1>2. points \in Seq(S) /\ Len(points) = m
  BY <1>1
<1>3. Decoded(bytes_of, m) = points
  BY DEF Decoded, points
<1>4. QED
  BY <1>1, <1>2, <1>3

LEMMA DecodedPoints ==
  ASSUME NEW f, NEW list, NEW n \in 1..Len(list), list[n].point_count \in Nat
  PROVE  LET points == Decoded(BytesOf(f, list[n]), list[n].point_count) IN
         /\ points \in Seq(Stored(f, list)) /\ Len(points) = list[n].point_count
         /\ \A i \in 1..list[n].point_count : points[i] = PointAt(BytesOf(f, list[n]), i)
<1>1. \A i \in 1..list[n].point_count : PointAt(BytesOf(f, list[n]), i) \in Stored(f, list)
  BY DEF Stored
<1>2. QED
  BY <1>1, DecodedSeq

LEMMA PointsOfChunk ==
  ASSUME NEW f, NEW list, NEW within, NEW n \in 1..Len(list), list[n].point_count \in Nat
  PROVE  /\ PointsOf(f, list[n], within) \in Seq(Stored(f, list))
         /\ Len(PointsOf(f, list[n], within)) <= list[n].point_count
         /\ within = Everywhere => list[n].point_count <= Len(PointsOf(f, list[n], within))
<1> DEFINE points == Decoded(BytesOf(f, list[n]), list[n].point_count)
           kept == Kept(within, points)
<1>1. points \in Seq(Stored(f, list)) /\ Len(points) = list[n].point_count
  BY DecodedPoints
<1> HIDE DEF points
<1>2. 0 \in 0..Len(points) /\ Len(points) \in Nat
  BY <1>1
<1>3. kept[0] = <<>> /\ Len(kept[0]) = 0
  <2>1. kept[0] = KeptRound(within, points, kept, 0)
    BY <1>1, <1>2, KeptSteps
  <2>2. kept[0] = <<>>
    BY <2>1, Zenon DEF KeptRound
  <2>3. QED
    BY <2>2
<1>4. /\ Filtered(within, points) \in Seq(Stored(f, list))
      /\ Len(Filtered(within, points)) <= Len(kept[0]) + (Len(points) - 0)
      /\ within = Everywhere
           => Len(Filtered(within, points)) = Len(kept[0]) + (Len(points) - 0)
  BY <1>1, <1>2, KeptOfAll
<1>5. QED
  BY <1>1, <1>2, <1>3, <1>4 DEF PointsOf, points

LEMMA GatheredSteps ==
  ASSUME NEW f, NEW list, Len(list) \in Nat, NEW within,
         \A n \in 1..Len(list) : list[n].point_count \in Nat
  PROVE  /\ Gathered(f, list, within) \in [0..Len(list) -> Seq(Stored(f, list))]
         /\ \A n \in 0..Len(list) :
              Gathered(f, list, within)[n]
                = GatherRound(f, list, within, Gathered(f, list, within), n)
<1> DEFINE N == Len(list)
           V == Seq(Stored(f, list))
           of(n) == PointsOf(f, list[n], within)
           round == [i \in 1..N |-> [s \in V |-> s \o of(i)]]
           eqn(g) == g = [n \in 0..N |-> GatherRound(f, list, within, g, n)]
           it == Gathered(f, list, within)
<1>1. N \in Nat /\ <<>> \in V /\ \A i \in 1..N : of(i) \in V
  BY PointsOfChunk, EmptySeq
<1>2. \A s, t \in V : s \o t \in V
  BY ConcatProperties
<1> HIDE DEF of
<1>3. round \in [1..N -> [V -> V]]
  BY <1>1, <1>2
<1>4. PICK g \in [0..N -> V] : g[0] = <<>> /\ \A i \in 1..N : g[i] = round[i][g[i - 1]]
  <2> DEFINE base == <<>>
  <2>1. base \in V
    BY <1>1
  <2> HIDE DEF N, V, round, base
  <2>2. \E g : RunOf(g, V, N, base, round)
    BY <1>1, <1>3, <2>1, Recursion
  <2>3. QED
    BY <2>2 DEF base, RunOf
<1>5. \E g_1 : eqn(g_1)
  <2>1. ASSUME NEW n \in 0..N PROVE g[n] = GatherRound(f, list, within, g, n)
    <3>1. CASE n = 0
      BY <1>4, <3>1 DEF GatherRound
    <3>2. CASE n # 0
      <4>1. n \in 1..N /\ n - 1 \in 0..N
        BY <1>1, <3>2
      <4>2. g[n] = round[n][g[n - 1]] /\ g[n - 1] \in V
        <5> HIDE DEF V, round, N
        <5>1. QED
          BY <1>4, <4>1
      <4>3. g[n] = g[n - 1] \o of(n)
        <5> HIDE DEF V
        <5>1. QED
          BY <4>1, <4>2
      <4>4. QED
        BY <3>2, <4>3 DEF GatherRound, of
    <3>3. QED
      BY <3>1, <3>2
  <2>2. eqn(g)
    BY <2>1
  <2>3. QED
    BY <2>2
<1>6. eqn(it)
  <2>1. it = CHOOSE g_1 : eqn(g_1)
    BY DEF Gathered
  <2> HIDE DEF it, eqn
  <2>2. QED
    BY <1>5, <2>1
<1>7. \A n \in 0..N : it[n] = GatherRound(f, list, within, it, n)
  <2> HIDE DEF it
  <2>1. QED
    BY <1>6
<1>8. it = [n \in 0..N |-> it[n]]
  <2> HIDE DEF it
  <2>1. QED
    BY <1>6
<1>9. \A n \in 0..N : it[n] \in V
  <2> DEFINE F == {n \in 0..N : it[n] \in V}
  <2> HIDE DEF it, V
  <2>1. 0 \in F
    <3>1. 0 \in 0..N
      BY <1>1
    <3>2. it[0] = <<>>
      BY <1>7, <3>1, Zenon DEF GatherRound
    <3>3. QED
      BY <1>1, <3>1, <3>2, Zenon
  <2>2. ASSUME NEW n \in (0 + 1)..N, n - 1 \in F PROVE n \in F
    <3>1. it[n - 1] \in V /\ n \in 0..N /\ of(n) \in V /\ n # 0
      BY <1>1, <2>2
    <3>2. it[n] = it[n - 1] \o of(n)
      BY <1>7, <3>1, Zenon DEF GatherRound, of
    <3>3. QED
      BY <1>2, <3>1, <3>2
  <2>3. 0 \in Int /\ N \in Int
    BY <1>1
  <2> HIDE DEF F
  <2>4. 0..N \subseteq F
    BY <2>1, <2>2, <2>3, CountUp
  <2>5. QED
    BY <2>4 DEF F
<1>10. QED
  <2> HIDE DEF it, N, V
  <2>1. it \in [0..N -> V]
    BY <1>8, <1>9
  <2>2. QED
    BY <2>1, <1>7 DEF it, N, V

LEMMA GatheredGrows ==
  ASSUME NEW f, NEW list, Len(list) \in Nat, NEW within,
         \A n \in 1..Len(list) : list[n].point_count \in Nat
  PROVE  LET points == Gathered(f, list, within) IN
         /\ points[0] = <<>>
         /\ \A n \in 1..Len(list) :
              /\ points[n - 1] \in Seq(Stored(f, list)) /\ points[n] \in Seq(Stored(f, list))
              /\ PointsOf(f, list[n], within) \in Seq(Stored(f, list))
              /\ points[n] = points[n - 1] \o PointsOf(f, list[n], within)
              /\ Prefix(points[n - 1], points[n])
              /\ Len(points[n]) = Len(points[n - 1]) + Len(PointsOf(f, list[n], within))
<1> DEFINE points == Gathered(f, list, within)
           N == Len(list)
           V == Seq(Stored(f, list))
<1>1. points \in [0..N -> V] /\ \A n \in 0..N : points[n] = GatherRound(f, list, within, points, n)
  BY GatheredSteps
<1>2. 0 \in 0..N
  OBVIOUS
<1> HIDE DEF points
<1>3. points[0] = <<>>
  BY <1>1, <1>2, Zenon DEF GatherRound
<1>4. ASSUME NEW n \in 1..N
      PROVE  /\ points[n - 1] \in V /\ points[n] \in V
             /\ PointsOf(f, list[n], within) \in V
             /\ points[n] = points[n - 1] \o PointsOf(f, list[n], within)
             /\ Prefix(points[n - 1], points[n])
             /\ Len(points[n]) = Len(points[n - 1]) + Len(PointsOf(f, list[n], within))
  <2>1. n \in 0..N /\ n - 1 \in 0..N /\ n # 0
    OBVIOUS
  <2>2. PointsOf(f, list[n], within) \in V
    BY PointsOfChunk
  <2>3. points[n - 1] \in V /\ points[n] \in V
    BY <1>1, <2>1
  <2>4. points[n] = points[n - 1] \o PointsOf(f, list[n], within)
    BY <1>1, <2>1, Zenon DEF GatherRound
  <2>5. QED
    BY <2>2, <2>3, <2>4, ConcatProperties, PrefixOfConcat
<1>5. QED
  BY <1>3, <1>4 DEF points

LEMMA GatheredPrefix ==
  ASSUME NEW f, NEW list, Len(list) \in Nat, NEW within,
         \A n \in 1..Len(list) : list[n].point_count \in Nat,
         NEW k \in 0..Len(list), NEW m \in k..Len(list)
  PROVE  Prefix(Gathered(f, list, within)[k], Gathered(f, list, within)[m])
<1>1. Gathered(f, list, within) \in [0..Len(list) -> Seq(Stored(f, list))]
  BY GatheredSteps
<1>2. \A n \in 1..Len(list) :
        Prefix(Gathered(f, list, within)[n - 1], Gathered(f, list, within)[n])
  BY GatheredGrows
<1>3. QED
  BY <1>1, <1>2, Growing

-----------------------------------------------------------------------------
(***************************************************************************)
(* The announced points of a list of chunks.                               *)
(***************************************************************************)
TotalRound(list, total, n) == IF n = 0 THEN 0 ELSE total[n - 1] + list[n].point_count

\* The points announced by the first n chunks.
Totalled(list) == CHOOSE total : total = [n \in 0..Len(list) |-> TotalRound(list, total, n)]

LEMMA TotalIsTotalled == ASSUME NEW list PROVE PointTotal(list) = Totalled(list)[Len(list)]
BY DEF PointTotal, Totalled, TotalRound

LEMMA TotalledSteps ==
  ASSUME NEW list, Len(list) \in Nat, \A n \in 1..Len(list) : list[n].point_count \in Nat
  PROVE  /\ Totalled(list) \in [0..Len(list) -> Nat]
         /\ Totalled(list)[0] = 0
         /\ \A n \in 1..Len(list) :
              Totalled(list)[n] = Totalled(list)[n - 1] + list[n].point_count
<1> DEFINE N == Len(list)
           round == [i \in 1..N |-> [s \in Nat |-> s + list[i].point_count]]
           eqn(g) == g = [n \in 0..N |-> TotalRound(list, g, n)]
           it == Totalled(list)
<1>1. round \in [1..N -> [Nat -> Nat]]
  OBVIOUS
<1>2. PICK g \in [0..N -> Nat] : g[0] = 0 /\ \A i \in 1..N : g[i] = round[i][g[i - 1]]
  <2>1. 0 \in Nat
    OBVIOUS
  <2> HIDE DEF N, round
  <2>2. \E g : RunOf(g, Nat, N, 0, round)
    BY <1>1, <2>1, Recursion DEF N
  <2>3. QED
    BY <2>2 DEF RunOf
<1>3. \E g_1 : eqn(g_1)
  <2>1. ASSUME NEW n \in 0..N PROVE g[n] = TotalRound(list, g, n)
    <3>1. CASE n = 0
      BY <1>2, <3>1 DEF TotalRound
    <3>2. CASE n # 0
      <4>1. n \in 1..N /\ n - 1 \in 0..N
        BY <3>2
      <4>2. g[n - 1] \in Nat
        BY <1>2, <4>1
      <4>3. g[n] = round[n][g[n - 1]]
        BY <1>2, <4>1
      <4>4. round[n][g[n - 1]] = g[n - 1] + list[n].point_count
        BY <4>1, <4>2
      <4>5. QED
        BY <3>2, <4>3, <4>4 DEF TotalRound
    <3>3. QED
      BY <3>1, <3>2
  <2>2. eqn(g)
    BY <2>1
  <2>3. QED
    BY <2>2
<1>4. eqn(it)
  <2>1. it = CHOOSE g_1 : eqn(g_1)
    BY DEF Totalled
  <2> HIDE DEF it, eqn
  <2>2. QED
    BY <1>3, <2>1
<1> HIDE DEF it
<1>5. it = [n \in 0..N |-> it[n]] /\ \A n \in 0..N : it[n] = TotalRound(list, it, n)
  BY <1>4
<1>6. it[0] = 0 /\ \A n \in 1..N : it[n] = it[n - 1] + list[n].point_count
  <2>1. 0 \in 0..N /\ \A n \in 1..N : n \in 0..N /\ n # 0
    OBVIOUS
  <2>2. \A n \in 0..N : it[n] = IF n = 0 THEN 0 ELSE it[n - 1] + list[n].point_count
    BY <1>5 DEF TotalRound
  <2> HIDE DEF N
  <2>3. QED
    BY <2>1, <2>2
<1>7. \A n \in 0..N : it[n] \in Nat
  <2> DEFINE F == {n \in 0..N : it[n] \in Nat}
  <2>1. 0 \in F
    BY <1>6
  <2>2. ASSUME NEW n \in (0 + 1)..N, n - 1 \in F PROVE n \in F
    <3>1. n \in 1..N /\ n \in 0..N /\ it[n - 1] \in Nat
      BY <2>2
    <3>2. it[n] = it[n - 1] + list[n].point_count /\ list[n].point_count \in Nat
      BY <1>6, <3>1
    <3>3. QED
      BY <3>1, <3>2
  <2>3. 0 \in Int /\ N \in Int
    OBVIOUS
  <2> HIDE DEF F
  <2>4. 0..N \subseteq F
    BY <2>1, <2>2, <2>3, CountUp
  <2>5. QED
    BY <2>4 DEF F
<1>8. it \in [0..N -> Nat]
  BY <1>5, <1>7
<1>9. QED
  BY <1>6, <1>8 DEF it

-----------------------------------------------------------------------------
(***************************************************************************)
(* The inductive invariant.  The chunks selected are in file order and     *)
(* apart; each way of reading has delivered the points of a number of      *)
(* chunks, all of them whole, and perhaps of a part of the next one.       *)
(***************************************************************************)
SelectionInv ==
  /\ file \in PointFiles
  /\ chunks \in Seq(file.entries)
  /\ \A i, j \in 1..Len(chunks) : i < j => EndOf(chunks[i]) <= chunks[j].offset

All == Gathered(file, chunks, bounds)
Ahead == WholeOnes(file, chunks)

\* What the iterator has of chunk n, and has made of it.
Points(n) == Decoded(BytesOf(file, chunks[n]), chunks[n].point_count)

ChunkInv(n) ==
  LET e == chunks[n] IN
  /\ current_chunk_points_left <= e.point_count
  /\ cursor \in e.offset..EndOf(e)
  /\ window = [end |-> EndOf(e), position |-> cursor]
  /\ layers = SubSeq(file.data, e.offset + 1, cursor)
  /\ current_chunk_points_left < e.point_count => LayersIn(layers)

YieldedInv ==
  IF next_chunk = 0 THEN out = <<>>
  ELSE out = All[next_chunk - 1]
               \o Kept(bounds, Points(next_chunk))
                    [chunks[next_chunk].point_count - current_chunk_points_left]

StreamInv ==
  /\ pc \in {"new", "idle", "next", "refused"} /\ result \in {"running", "ok", "err"}
  /\ next_chunk \in 0..Len(chunks) /\ current_chunk_points_left \in Nat
  /\ next_chunk = 0 => current_chunk_points_left = 0
  /\ next_chunk > 0 => next_chunk - 1 <= Ahead /\ ChunkInv(next_chunk)
  /\ result # "err" => YieldedInv
  /\ pc = "new" => next_chunk = 0
  /\ pc \in {"idle", "next"} =>
       remaining_candidate_points
         = Totalled(chunks)[Len(chunks)] - Totalled(chunks)[next_chunk]
             + current_chunk_points_left
  /\ pc \in {"new", "next"} => result = "running"
  /\ pc = "refused" => result = "err"
  /\ touched \subseteq UNION {Bytes(chunks[i]) : i \in 1..next_chunk}

\* The columns have the points of the first m chunks.
Merged(m) ==
  /\ m \in 0..Len(chunks) /\ m <= Ahead
  /\ accepted_points = Len(All[m])
  /\ columns = [c \in Columns |-> [i \in 1..Len(All[m]) |-> <<c, All[m][i]>>]]

BatchInv ==
  /\ batch_bytes \in Seq(Seq(Nat))
  /\ taken + Len(batch_bytes) <= Len(chunks)
  /\ \A i \in 1..Len(batch_bytes) : batch_bytes[i] = BytesOf(file, chunks[taken + i])

DecodedInv ==
  /\ DOMAIN decoded \subseteq 1..Len(batch_bytes)
  /\ decoded = [i \in DOMAIN decoded |-> decoded[i]]
  /\ \A i \in DOMAIN decoded :
       \/ decoded[i] = Failed
       \/ /\ Whole(file, chunks[taken + i])
          /\ decoded[i] = ChunkColumns(PointsOf(file, chunks[taken + i], bounds))

ColumnsInv ==
  /\ pc \in {"new", "batch", "read", "decode", "merge", "returned"}
  /\ result \in {"running", "ok", "err"}
  /\ batch_size \in Nat \ {0} /\ taken \in 0..Len(chunks)
  /\ pc \in {"new", "batch", "read", "decode"} => Merged(taken)
  /\ pc \in {"read", "decode", "merge"} => BatchInv
  /\ pc = "read" =>
       /\ Len(batch_bytes) < batch_size /\ taken + Len(batch_bytes) < Len(chunks)
       /\ decoded = Nothing
  /\ pc \in {"decode", "merge"} => DecodedInv
  /\ pc = "merge" =>
       \E k \in 0..Len(batch_bytes) : /\ DOMAIN decoded = (k + 1)..Len(batch_bytes)
                                      /\ Merged(taken + k)
  /\ pc = "returned" => \E m \in 0..Len(chunks) : Merged(m)
  /\ pc # "returned" => result = "running"

\* Chunks a to b make a request: it is for one chunk, or within the limit,
\* and there is no large gap in it.
Together(a, b) ==
  /\ a \in 1..Len(chunks) /\ b \in a..Len(chunks)
  /\ a = b \/ EndOf(chunks[b]) - chunks[a].offset <= MaxRange
  /\ \A i \in a..(b - 1) : chunks[i + 1].offset <= EndOf(chunks[i]) + Gap

GroupOf(g, a, b) ==
  /\ Together(a, b)
  /\ g = [start |-> chunks[a].offset, end |-> EndOf(chunks[b]), entries |-> SubSeq(chunks, a, b)]

Groups == [start : Nat, end : Nat, entries : Seq(file.entries)]

\* The groups have chunks k + 1 to m, in order.
Tile(gs, k, m) ==
  /\ gs \in Seq(Groups)
  /\ \E cut \in [0..Len(gs) -> 0..Len(chunks)] :
       /\ cut[0] = k /\ cut[Len(gs)] = m
       /\ \A i \in 1..Len(gs) : GroupOf(gs[i], cut[i - 1] + 1, cut[i])

\* Requests have been made for chunks up to m.
RequestsInv(m) ==
  /\ requests \in Seq(SUBSET Int)
  /\ \A i \in 1..Len(requests) :
       \E a, b \in 1..m :
         Together(a, b) /\ requests[i] = chunks[a].offset..(EndOf(chunks[b]) - 1)
  /\ \A i, j \in 1..Len(requests) : i < j => \A x \in requests[i], y \in requests[j] : x < y

\* d chunks have been decoded, and those up to m have been fetched.
FetchedInv(d, m) ==
  /\ d \in 0..Len(chunks) /\ m \in d..Len(chunks)
  /\ d <= Ahead /\ out = All[d]
  /\ Tile(groups, m, Len(chunks))
  /\ RequestsInv(m)

SlicesInv(d, m) ==
  \E a \in 1..(d + 1) :
    /\ a <= m /\ start = chunks[a].offset
    /\ bytes = SubSeq(file.data, start + 1, EndOf(chunks[m]))
    /\ slices = SubSeq(chunks, d + 1, m)

RangesInv ==
  /\ pc \in {"new", "group", "decode", "returned"} /\ result \in {"running", "ok", "err"}
  /\ pc = "new" => out = <<>> /\ requests = <<>>
  /\ pc = "group" => \E d \in 0..Len(chunks) : FetchedInv(d, d)
  /\ pc = "decode" => \E d, m \in 0..Len(chunks) : FetchedInv(d, m) /\ SlicesInv(d, m)
  /\ pc = "returned" => RequestsInv(Len(chunks))
  /\ pc # "returned" => result = "running"

\* The points returned, of any way of reading.
Delivered == IF how = "columns" THEN Rows ELSE out

IInv ==
  /\ SelectionInv
  /\ \/ how = "iterator" /\ StreamInv /\ requests = <<>>
     \/ how = "columns" /\ ColumnsInv /\ touched = {} /\ requests = <<>>
     \/ how = "ranges" /\ RangesInv /\ touched = {}
  /\ Prefix(Delivered, All[Ahead])

-----------------------------------------------------------------------------
(***************************************************************************)
(* Facts about the selected chunks.                                        *)
(***************************************************************************)
LEMMA GreatestElement ==
  ASSUME NEW n \in Nat, NEW S, S \subseteq 0..n, S # {}
  PROVE  Max(S) \in S /\ \A x \in S : x <= Max(S)
<1> DEFINE D == {d \in Nat : n - d \in S}
<1>1. D \subseteq Nat /\ D # {}
  <2>1. PICK x \in S : TRUE
    OBVIOUS
  <2>2. n - x \in Nat /\ n - (n - x) = x
    BY <2>1
  <2>3. n - x \in D
    BY <2>2
  <2>4. QED
    BY <2>3
<1>2. PICK m \in D : \A d \in D : m <= d
  <2> HIDE DEF D
  <2>1. QED
    BY <1>1, LeastElement
<1>3. \A x \in S : n - x \in D /\ x <= n - m
  <2> TAKE x \in S
  <2>1. n - x \in Nat /\ n - (n - x) = x
    OBVIOUS
  <2>2. n - x \in D
    BY <2>1
  <2>3. QED
    BY <1>2, <2>2
<1>4. \E x \in S : \A y \in S : x >= y
  BY <1>2, <1>3
<1>5. QED
  BY <1>4 DEF Max

\* The chunks counted are whole, and the next one is not.
LEMMA WholeOnesAhead ==
  ASSUME NEW f, NEW list, Len(list) \in Nat
  PROVE  /\ WholeOnes(f, list) \in 0..Len(list)
         /\ \A i \in 1..WholeOnes(f, list) : Whole(f, list[i])
         /\ \A n \in 0..Len(list) : (\A i \in 1..n : Whole(f, list[i])) => n <= WholeOnes(f, list)
<1> DEFINE S == {n \in 0..Len(list) : \A i \in 1..n : Whole(f, list[i])}
<1>1. 0 \in S /\ S \subseteq 0..Len(list)
  OBVIOUS
<1>2. WholeOnes(f, list) = Max(S)
  BY DEF WholeOnes
<1>3. Max(S) \in S /\ \A x \in S : x <= Max(S)
  <2> HIDE DEF S
  <2>1. QED
    BY <1>1, GreatestElement
<1>4. QED
  BY <1>2, <1>3

LEMMA OneMoreWhole ==
  ASSUME NEW f, NEW list, Len(list) \in Nat, NEW n \in 1..Len(list),
         n - 1 <= WholeOnes(f, list), Whole(f, list[n])
  PROVE  n <= WholeOnes(f, list)
<1>1. WholeOnes(f, list) \in 0..Len(list) /\ \A i \in 1..WholeOnes(f, list) : Whole(f, list[i])
  BY WholeOnesAhead
<1>2. \A i \in 1..n : Whole(f, list[i])
  <2> TAKE i \in 1..n
  <2>1. CASE i = n
    BY <2>1
  <2>2. CASE i # n
    BY <1>1, <2>2
  <2>3. QED
    BY <2>1, <2>2
<1>3. n \in 0..Len(list)
  OBVIOUS
<1>4. QED
  BY <1>2, <1>3, WholeOnesAhead

LEMMA SelectedChunks ==
  ASSUME SelectionInv
  PROVE  /\ Len(chunks) \in Nat /\ DOMAIN chunks = 1..Len(chunks)
         /\ file.data \in Seq(Nat)
         /\ \A i \in 1..Len(chunks) :
              /\ chunks[i].offset \in Nat
              /\ chunks[i].byte_size \in Nat \ {0}
              /\ chunks[i].point_count \in Nat \ {0}
              /\ EndOf(chunks[i]) = chunks[i].offset + chunks[i].byte_size
              /\ EndOf(chunks[i]) \in Nat
              /\ EndOf(chunks[i]) <= Len(file.data)
              /\ Bytes(chunks[i]) = chunks[i].offset..(EndOf(chunks[i]) - 1)
<1>1. /\ file.data \in Seq(Nat)
      /\ \A e \in file.entries : e \in ChunkEntry /\ e.offset + e.byte_size <= Len(file.data)
  BY PointFilesAssumption DEF SelectionInv
<1>2. Len(chunks) \in Nat /\ DOMAIN chunks = 1..Len(chunks)
      /\ \A i \in 1..Len(chunks) : chunks[i] \in file.entries
  BY LenProperties, ElementOfSeq DEF SelectionInv
<1>3. ASSUME NEW i \in 1..Len(chunks)
      PROVE  /\ chunks[i].offset \in Nat
             /\ chunks[i].byte_size \in Nat \ {0}
             /\ chunks[i].point_count \in Nat \ {0}
             /\ chunks[i].offset + chunks[i].byte_size <= Len(file.data)
    BY <1>1, <1>2 DEF ChunkEntry
<1>4. QED
  BY <1>1, <1>2, <1>3 DEF EndOf, Bytes

\* The bytes of a chunk, and of what has been read of it.
LEMMA PartOfData ==
  ASSUME NEW data \in Seq(Nat), NEW a \in Nat, NEW b \in a..Len(data)
  PROVE  /\ SubSeq(data, a + 1, b) \in Seq(Nat)
         /\ Len(SubSeq(data, a + 1, b)) = b - a
         /\ \A i \in 1..(b - a) : SubSeq(data, a + 1, b)[i] = data[a + i]
<1>1. Len(data) \in Nat /\ \A i \in (a + 1)..b : data[i] \in Nat
  BY LenProperties, ElementOfSeq
<1>2. a + 1 \in Int /\ b \in Int
  OBVIOUS
<1>3. /\ SubSeq(data, a + 1, b) \in Seq(Nat)
      /\ Len(SubSeq(data, a + 1, b)) = IF a + 1 <= b THEN b - (a + 1) + 1 ELSE 0
      /\ \A i \in 1..(b - (a + 1) + 1) : SubSeq(data, a + 1, b)[i] = data[(a + 1) + i - 1]
  BY <1>1, <1>2, SubSeqProperties
<1>4. Len(SubSeq(data, a + 1, b)) = b - a
  BY <1>1, <1>3
<1>5. ASSUME NEW i \in 1..(b - a) PROVE SubSeq(data, a + 1, b)[i] = data[a + i]
  <2>1. i \in 1..(b - (a + 1) + 1) /\ (a + 1) + i - 1 = a + i
    BY <1>1
  <2>2. QED
    BY <1>3, <2>1
<1>6. QED
  BY <1>3, <1>4, <1>5

LEMMA BytesOfChunk ==
  ASSUME SelectionInv, NEW n \in 1..Len(chunks)
  PROVE  /\ BytesOf(file, chunks[n]) \in Seq(Nat)
         /\ Len(BytesOf(file, chunks[n])) = chunks[n].byte_size
         /\ \A i \in 1..chunks[n].byte_size :
              BytesOf(file, chunks[n])[i] = file.data[chunks[n].offset + i]
<1> DEFINE o == chunks[n].offset
           z == chunks[n].byte_size
<1>1. /\ file.data \in Seq(Nat) /\ Len(file.data) \in Nat
      /\ o \in Nat /\ z \in Nat /\ o + z <= Len(file.data)
  BY SelectedChunks, LenProperties
<1>2. o + z \in o..Len(file.data) /\ (o + z) - o = z
  BY <1>1
<1> HIDE DEF o, z
<1>3. /\ SubSeq(file.data, o + 1, o + z) \in Seq(Nat)
      /\ Len(SubSeq(file.data, o + 1, o + z)) = (o + z) - o
      /\ \A i \in 1..((o + z) - o) : SubSeq(file.data, o + 1, o + z)[i] = file.data[o + i]
  BY <1>1, <1>2, PartOfData
<1>4. BytesOf(file, chunks[n]) = SubSeq(file.data, o + 1, o + z)
  BY DEF BytesOf, o, z
<1>5. QED
  BY <1>2, <1>3, <1>4 DEF o, z


LEMMA SelectionOf ==
  ASSUME file \in PointFiles, NEW entries \in SUBSET file.entries, chunks \in InOrder(entries)
  PROVE  SelectionInv
<1> DEFINE n == Cardinality(entries)
<1>1. /\ IsFiniteSet(file.entries)
      /\ \A e \in file.entries : e \in ChunkEntry
      /\ \A d, e \in file.entries : d # e => Bytes(d) \cap Bytes(e) = {}
  BY PointFilesAssumption
<1>2. n \in Nat
  BY <1>1, FS_Subset, FS_CardinalityType
<1>3. /\ chunks \in [1..n -> entries]
      /\ \A i, j \in 1..n : i < j => chunks[i].offset < chunks[j].offset
  BY DEF InOrder
<1> HIDE DEF n
<1>4. chunks \in Seq(file.entries) /\ Len(chunks) = n
  <2>1. chunks \in [1..n -> file.entries]
    BY <1>3
  <2>2. QED
    BY <1>2, <2>1
<1>5. ASSUME NEW i \in 1..n, NEW j \in 1..n, i < j
      PROVE  EndOf(chunks[i]) <= chunks[j].offset
  <2>1. chunks[i] \in file.entries /\ chunks[j] \in file.entries
        /\ chunks[i].offset < chunks[j].offset
    BY <1>3, <1>5
  <2>2. chunks[i] # chunks[j] => Bytes(chunks[i]) \cap Bytes(chunks[j]) = {}
    BY <1>1, <2>1
  <2>3. /\ chunks[i].offset \in Nat /\ chunks[i].byte_size \in Nat
        /\ chunks[j].offset \in Nat /\ chunks[j].byte_size \in Nat \ {0}
    BY <1>1, <2>1 DEF ChunkEntry
  <2>4. chunks[i] # chunks[j]
    BY <2>1, <2>3
  <2>5. chunks[j].offset \in Bytes(chunks[j]) /\ chunks[j].offset \notin Bytes(chunks[i])
    BY <2>2, <2>3, <2>4 DEF Bytes
  <2>6. QED
    BY <2>1, <2>3, <2>5 DEF Bytes, EndOf
<1>6. QED
  BY <1>4, <1>5 DEF SelectionInv

\* What there is to be returned depends on the request alone.
LEMMA SameRequest ==
  ASSUME UNCHANGED request
  PROVE  /\ All' = All /\ Ahead' = Ahead
         /\ SelectionInv => SelectionInv'
BY DEF request, All, Ahead, SelectionInv, EndOf

LEMMA AllChunks ==
  ASSUME SelectionInv
  PROVE  /\ Ahead \in 0..Len(chunks)
         /\ All \in [0..Len(chunks) -> Seq(Stored(file, chunks))] /\ All[0] = <<>>
         /\ \A n \in 1..Len(chunks) :
              /\ PointsOf(file, chunks[n], bounds) \in Seq(Stored(file, chunks))
              /\ All[n] = All[n - 1] \o PointsOf(file, chunks[n], bounds)
         /\ \A k, m \in 0..Len(chunks) : k <= m => Prefix(All[k], All[m])
<1>1. Len(chunks) \in Nat /\ \A n \in 1..Len(chunks) : chunks[n].point_count \in Nat
  BY SelectedChunks
<1>2. Ahead \in 0..Len(chunks)
  BY <1>1, WholeOnesAhead DEF Ahead
<1>3. All \in [0..Len(chunks) -> Seq(Stored(file, chunks))]
  BY <1>1, GatheredSteps DEF All
<1>4. /\ All[0] = <<>>
      /\ \A n \in 1..Len(chunks) :
           /\ PointsOf(file, chunks[n], bounds) \in Seq(Stored(file, chunks))
           /\ All[n] = All[n - 1] \o PointsOf(file, chunks[n], bounds)
  <2> DEFINE g == Gathered(file, chunks, bounds)
  <2>1. g[0] = <<>>
    <3>1. 0 \in 0..Len(chunks)
      BY <1>1
    <3>2. g[0] = GatherRound(file, chunks, bounds, g, 0)
      BY <1>1, <3>1, GatheredSteps
    <3> HIDE DEF g
    <3>3. QED
      BY <3>2, Zenon DEF GatherRound
  <2>3. ASSUME NEW n \in 1..Len(chunks)
        PROVE  /\ PointsOf(file, chunks[n], bounds) \in Seq(Stored(file, chunks))
               /\ g[n] = g[n - 1] \o PointsOf(file, chunks[n], bounds)
    <3>1. n \in 0..Len(chunks) /\ n # 0
      BY <1>1
    <3>2. PointsOf(file, chunks[n], bounds) \in Seq(Stored(file, chunks))
      BY <1>1, PointsOfChunk
    <3>3. g[n] = GatherRound(file, chunks, bounds, g, n)
      BY <1>1, <3>1, GatheredSteps
    <3> HIDE DEF g
    <3>4. QED
      BY <3>1, <3>2, <3>3, Zenon DEF GatherRound
  <2>2. All = g
    BY DEF All
  <2> HIDE DEF g
  <2>4. QED
    BY <2>1, <2>2, <2>3
<1>5. ASSUME NEW k \in 0..Len(chunks), NEW m \in 0..Len(chunks), k <= m
      PROVE  Prefix(All[k], All[m])
  <2>1. m \in k..Len(chunks)
    BY <1>5
  <2>2. QED
    BY <1>1, <2>1, GatheredPrefix DEF All
<1>6. QED
  BY <1>2, <1>3, <1>4, <1>5

\* Layers that have been read are those of the chunk.
LEMMA LayersOfChunk ==
  ASSUME SelectionInv, NEW n \in 1..Len(chunks), ChunkInv(n), LayersIn(layers)
  PROVE  /\ Whole(file, chunks[n])
         /\ \A i \in 1..chunks[n].point_count :
              PointAt(layers, i) = PointAt(BytesOf(file, chunks[n]), i)
<1> DEFINE o == chunks[n].offset
           z == chunks[n].byte_size
           all == BytesOf(file, chunks[n])
<1>1. /\ file.data \in Seq(Nat) /\ Len(file.data) \in Nat
      /\ o \in Nat /\ z \in Nat /\ o + z <= Len(file.data)
  BY SelectedChunks, LenProperties
<1>2. cursor \in o..(o + z) /\ layers = SubSeq(file.data, o + 1, cursor)
  BY DEF ChunkInv, EndOf
<1> HIDE DEF o, z
<1>3. cursor \in o..Len(file.data)
  BY <1>1, <1>2
<1>4. /\ layers \in Seq(Nat) /\ Len(layers) = cursor - o
      /\ \A i \in 1..(cursor - o) : layers[i] = file.data[o + i]
  BY <1>1, <1>2, <1>3, PartOfData
<1>5. /\ all \in Seq(Nat) /\ Len(all) = z /\ \A i \in 1..z : all[i] = file.data[o + i]
  BY BytesOfChunk DEF o, z
<1> HIDE DEF all
<1>6. layers # <<>> /\ 1 + Head(layers) <= Len(layers)
  BY DEF LayersIn
<1>7. Head(layers) = layers[1] /\ Len(layers) > 0 /\ layers[1] \in Nat
  BY <1>4, <1>6
<1>13. cursor - o <= z /\ cursor - o \in Nat /\ cursor - o > 0 /\ z > 0
  <2>1. cursor - o > 0
    BY <1>4, <1>7
  <2>2. QED
    BY <1>1, <1>2, <2>1
<1>14. 1 \in 1..(cursor - o) /\ 1 \in 1..z
  BY <1>1, <1>13
<1>8. all # <<>> /\ Head(all) = all[1]
  BY <1>5, <1>13
<1>15. layers[1] = all[1]
  BY <1>4, <1>5, <1>14
<1>9. Head(all) = Head(layers)
  BY <1>7, <1>8, <1>15
<1>10. LayersIn(all)
  <2>1. cursor - o <= z /\ cursor - o \in Nat
    BY <1>13
  <2>2. 1 + layers[1] <= cursor - o
    BY <1>4, <1>6, <1>7
  <2>3. 1 + layers[1] <= z
    BY <1>1, <1>7, <2>1, <2>2
  <2>4. QED
    BY <1>5, <1>7, <1>8, <1>9, <2>3 DEF LayersIn
<1>11. ASSUME NEW i \in 1..chunks[n].point_count PROVE PointAt(layers, i) = PointAt(all, i)
  <2>1. i \in Nat \ {0}
    BY SelectedChunks
  <2>2. CASE i <= Head(layers)
    <3>1. 1 + i \in 1..(cursor - o) /\ 1 + i \in 1..z
      <4>1. i <= layers[1] /\ 1 + layers[1] <= cursor - o
        BY <1>4, <1>6, <1>7, <2>2
      <4>2. QED
        BY <1>1, <1>7, <1>13, <2>1, <4>1
    <3>2. layers[1 + i] = all[1 + i]
      BY <1>4, <1>5, <3>1
    <3>3. QED
      BY <1>9, <2>2, <3>2 DEF PointAt
  <2>3. CASE ~ (i <= Head(layers))
    BY <1>9, <2>3 DEF PointAt
  <2>4. QED
    BY <2>2, <2>3
<1>12. QED
  BY <1>10, <1>11 DEF Whole, all

LEMMA PointsOfNext ==
  ASSUME SelectionInv, NEW n \in 1..Len(chunks)
  PROVE  /\ Points(n) \in Seq(Stored(file, chunks)) /\ Len(Points(n)) = chunks[n].point_count
         /\ \A i \in 1..chunks[n].point_count :
              Points(n)[i] = PointAt(BytesOf(file, chunks[n]), i)
         /\ PointsOf(file, chunks[n], bounds) = Filtered(bounds, Points(n))
<1>1. chunks[n].point_count \in Nat
  BY SelectedChunks
<1> DEFINE points == Decoded(BytesOf(file, chunks[n]), chunks[n].point_count)
<1>2. /\ points \in Seq(Stored(file, chunks)) /\ Len(points) = chunks[n].point_count
      /\ \A i \in 1..chunks[n].point_count : points[i] = PointAt(BytesOf(file, chunks[n]), i)
  <2>1. \A i \in 1..chunks[n].point_count :
          PointAt(BytesOf(file, chunks[n]), i) \in Stored(file, chunks)
    BY DEF Stored
  <2>2. QED
    BY <1>1, <2>1, DecodedSeq
<1>3. Points(n) = points /\ PointsOf(file, chunks[n], bounds) = Filtered(bounds, points)
  BY DEF Points, PointsOf
<1> HIDE DEF points
<1>4. QED
  BY <1>2, <1>3

\* What has been returned of chunks that are whole begins what is promised.
LEMMA YieldedPrefix ==
  ASSUME SelectionInv, NEW n \in 1..Len(chunks), NEW k \in 0..chunks[n].point_count,
         n - 1 <= Ahead, k > 0 => n <= Ahead
  PROVE  /\ All[n - 1] \o Kept(bounds, Points(n))[k] \in Seq(Stored(file, chunks))
         /\ Prefix(All[n - 1] \o Kept(bounds, Points(n))[k], All[Ahead])
<1> DEFINE S == Stored(file, chunks)
           kept == Kept(bounds, Points(n))
           s == All[n - 1]
           of == PointsOf(file, chunks[n], bounds)
<1>1. /\ Len(chunks) \in Nat /\ n - 1 \in 0..Len(chunks) /\ n \in 0..Len(chunks)
      /\ chunks[n].point_count \in Nat
  BY SelectedChunks
<1>2. Ahead \in 0..Len(chunks) /\ All[n - 1] \in Seq(S) /\ All[n] \in Seq(S) /\ All[Ahead] \in Seq(S)
  BY <1>1, AllChunks
<1>3. /\ All[n] = s \o of /\ of \in Seq(S) /\ s \in Seq(S)
      /\ n <= Ahead => Prefix(All[n], All[Ahead])
      /\ Prefix(s, All[Ahead])
  BY <1>1, <1>2, AllChunks
<1>4. Points(n) \in Seq(S) /\ Len(Points(n)) = chunks[n].point_count
      /\ of = Filtered(bounds, Points(n))
  BY PointsOfNext
<1>5. kept[k] \in Seq(S) /\ Prefix(kept[k], of)
  BY <1>4, KeptOfAll
<1>6. s \o kept[k] \in Seq(S) /\ Prefix(s \o kept[k], s \o of)
  <2> HIDE DEF s, kept, of
  <2>1. QED
    BY <1>3, <1>5, PrefixBehind, ConcatProperties
<1>7. CASE k > 0
  <2>1. Prefix(All[n], All[Ahead]) /\ Prefix(s \o kept[k], All[n])
    BY <1>3, <1>6, <1>7
  <2> HIDE DEF s, kept
  <2>2. Prefix(s \o kept[k], All[Ahead])
    BY <1>2, <1>6, <2>1, PrefixTransitive
  <2>3. QED
    BY <1>6, <2>2 DEF s, kept
<1>8. CASE k = 0
  <2>1. kept[k] = <<>>
    <3>1. 0 \in 0..Len(Points(n))
      BY <1>1, <1>4
    <3>2. kept[0] = KeptRound(bounds, Points(n), kept, 0)
      BY <1>4, <3>1, KeptSteps
    <3> HIDE DEF kept
    <3>3. QED
      BY <1>8, <3>2, Zenon DEF KeptRound
  <2>2. s \o kept[k] = s
    <3> HIDE DEF s, kept
    <3>1. QED
      BY <1>3, <2>1, ConcatEmptySeq
  <2>3. QED
    BY <1>3, <1>6, <2>2
<1>9. QED
  BY <1>1, <1>7, <1>8


-----------------------------------------------------------------------------
(***************************************************************************)
(* The iterator.                                                           *)
(***************************************************************************)
\* A chunk that has been taken up to its last point is whole, and all its
\* points have been returned.
LEMMA ChunkDone ==
  ASSUME SelectionInv, StreamInv, result # "err", current_chunk_points_left = 0
  PROVE  next_chunk <= Ahead /\ out = All[next_chunk]
<1>1. /\ Ahead \in 0..Len(chunks) /\ All[0] = <<>> /\ Len(chunks) \in Nat
      /\ next_chunk \in 0..Len(chunks)
  BY AllChunks, SelectedChunks DEF StreamInv
<1>2. CASE next_chunk = 0
  BY <1>1, <1>2 DEF StreamInv, YieldedInv
<1>3. CASE next_chunk # 0
  <2> DEFINE n == next_chunk
             count == chunks[n].point_count
  <2>1. n \in 1..Len(chunks) /\ n > 0
    BY <1>1, <1>3
  <2>2. ChunkInv(n) /\ n - 1 <= Ahead
    BY <2>1 DEF StreamInv
  <2>3. count \in Nat \ {0}
    BY <2>1, SelectedChunks
  <2>4. out = All[n - 1] \o Kept(bounds, Points(n))[count - 0]
    BY <1>3 DEF StreamInv, YieldedInv
  <2>5. LayersIn(layers)
    BY <2>2, <2>3 DEF ChunkInv
  <2>6. n <= Ahead
    BY <1>1, <2>1, <2>2, <2>5, LayersOfChunk, OneMoreWhole DEF Ahead
  <2>7. Kept(bounds, Points(n))[count - 0] = PointsOf(file, chunks[n], bounds)
    <3>1. count - 0 = count
      BY <2>3
    <3>2. /\ Points(n) \in Seq(Stored(file, chunks)) /\ Len(Points(n)) = chunks[n].point_count
          /\ PointsOf(file, chunks[n], bounds) = Filtered(bounds, Points(n))
      BY <2>1, PointsOfNext, Zenon
    <3>3. QED
      BY <3>1, <3>2, FilteredIsKept
  <2>8. All[n] = All[n - 1] \o PointsOf(file, chunks[n], bounds)
    BY <2>1, AllChunks
  <2>9. QED
    BY <2>4, <2>6, <2>7, <2>8
<1>4. QED
  BY <1>2, <1>3

\* Nothing has been kept of a chunk that has just been taken.
LEMMA NothingKept ==
  ASSUME SelectionInv, NEW n \in 1..Len(chunks)
  PROVE  All[n - 1] \o Kept(bounds, Points(n))[0] = All[n - 1]
<1>1. Len(chunks) \in Nat
  BY SelectedChunks
<1>2. All[n - 1] \in Seq(Stored(file, chunks))
  <2>1. n - 1 \in 0..Len(chunks)
    BY <1>1
  <2>2. QED
    BY <2>1, AllChunks
<1>3. Points(n) \in Seq(Stored(file, chunks)) /\ 0 \in 0..Len(Points(n))
  <2>1. chunks[n].point_count \in Nat
    BY SelectedChunks, Zenon
  <2>2. Points(n) \in Seq(Stored(file, chunks)) /\ Len(Points(n)) = chunks[n].point_count
    BY PointsOfNext, Zenon
  <2>3. QED
    BY <2>1, <2>2
<1>4. Kept(bounds, Points(n))[0] = KeptRound(bounds, Points(n), Kept(bounds, Points(n)), 0)
  BY <1>3, KeptSteps
<1>5. Kept(bounds, Points(n))[0] = <<>>
  BY <1>4, Zenon DEF KeptRound
<1>6. QED
  BY <1>2, <1>5, ConcatEmptySeq

LEMMA SetupStreamInv ==
  ASSUME SelectionInv, StreamInv, SetupStream
  PROVE  StreamInv'
<1>1. Len(chunks) \in Nat /\ \A n \in 1..Len(chunks) : chunks[n].point_count \in Nat
  BY SelectedChunks
<1>2. Totalled(chunks)[Len(chunks)] \in Nat /\ Totalled(chunks)[0] = 0
  BY <1>1, TotalledSteps
<1>3. UNCHANGED <<request, next_chunk, current_chunk_points_left, decoder, out, result, touched>>
      /\ pc = "new" /\ pc' = "idle" /\ next_chunk = 0 /\ current_chunk_points_left = 0
      /\ remaining_candidate_points' = Totalled(chunks)[Len(chunks)]
  BY TotalIsTotalled DEF SetupStream, StreamInv
<1>4. remaining_candidate_points'
        = Totalled(chunks)[Len(chunks)] - Totalled(chunks)[0] + 0
  BY <1>2, <1>3
<1>5. QED
  BY <1>3, <1>4, SameRequest DEF request, decoder, StreamInv, ChunkInv, YieldedInv, Points

LEMMA StreamRefused ==
  ASSUME SelectionInv, StreamInv, RefuseSetup
  PROVE  StreamInv'
<1>1. UNCHANGED request /\ UNCHANGED counters /\ UNCHANGED decoder /\ UNCHANGED <<out, touched>>
  BY DEF RefuseSetup
<1>2. QED
  BY <1>1, SameRequest DEF RefuseSetup, StreamInv, ChunkInv, YieldedInv, Points, request, counters, decoder

LEMMA StreamCalled ==
  ASSUME SelectionInv, StreamInv, CallNext
  PROVE  StreamInv'
BY SameRequest DEF CallNext, StreamInv, ChunkInv, YieldedInv, Points, request, counters, decoder

LEMMA StreamFailed ==
  ASSUME SelectionInv, StreamInv, pc = "next", Failing, UNCHANGED counters
  PROVE  StreamInv'
BY SameRequest DEF Failing, StreamInv, ChunkInv, YieldedInv, Points, request, counters, decoder

LEMMA StreamEnded ==
  ASSUME SelectionInv, StreamInv, End
  PROVE  StreamInv'
BY SameRequest DEF End, AtChunkEnd, StreamInv, ChunkInv, YieldedInv, Points, request, counters, decoder

LEMMA LoadChunkInv ==
  ASSUME SelectionInv, StreamInv, LoadChunk
  PROVE  StreamInv'
<1> DEFINE n == next_chunk + 1
           e == chunks[n]
           total == Totalled(chunks)
<1>1. /\ pc = "next" /\ current_chunk_points_left = 0 /\ result = "running"
      /\ next_chunk \in 0..Len(chunks) /\ next_chunk < Len(chunks) /\ Len(chunks) \in Nat
      /\ \A i \in 1..Len(chunks) : chunks[i].point_count \in Nat
  BY SelectedChunks DEF LoadChunk, AtChunkEnd, StreamInv
<1>2. n \in 1..Len(chunks) /\ n - 1 = next_chunk
  BY <1>1
<1>3. /\ e.offset \in Nat /\ e.byte_size \in Nat \ {0} /\ e.point_count \in Nat \ {0}
      /\ EndOf(e) = e.offset + e.byte_size
  BY <1>2, SelectedChunks
<1>4. next_chunk <= Ahead /\ out = All[next_chunk]
  BY <1>1, ChunkDone
<1>5. /\ UNCHANGED <<request, pc, remaining_candidate_points, out, result, touched>>
      /\ next_chunk' = n /\ current_chunk_points_left' = e.point_count /\ layers' = <<>>
      /\ cursor' = e.offset /\ window' = [end |-> EndOf(e), position |-> e.offset]
  BY <1>3 DEF LoadChunk
<1>6. /\ UNCHANGED request /\ chunks' = chunks /\ file' = file /\ bounds' = bounds
      /\ All' = All /\ Ahead' = Ahead
  BY <1>5, SameRequest DEF request
<1>7. ChunkInv(next_chunk)'
  <2>1. layers' = SubSeq(file.data, e.offset + 1, e.offset)
    <3>1. e.offset + 1 > e.offset /\ file.data \in Seq(Nat)
      BY <1>3, SelectedChunks
    <3>2. SubSeq(file.data, e.offset + 1, e.offset) = <<>>
      BY <1>3, <3>1, SubSeqEmpty
    <3>3. QED
      BY <1>5, <3>2
  <2>2. e.offset \in e.offset..EndOf(e)
    BY <1>3
  <2> HIDE DEF n
  <2>3. QED
    BY <1>3, <1>5, <1>6, <2>1, <2>2 DEF ChunkInv, EndOf
<1>8. YieldedInv'
  <2>1. All[n - 1] \o Kept(bounds, Points(n))[0] = All[n - 1]
    BY <1>2, NothingKept
  <2>2. e.point_count - e.point_count = 0 /\ n # 0
    BY <1>1, <1>3
  <2>3. out' = All[n - 1] \o Kept(bounds, Points(n))[e.point_count - e.point_count]
    BY <1>2, <1>4, <1>5, <2>1, <2>2
  <2> HIDE DEF n
  <2>4. QED
    BY <1>5, <1>6, <2>2, <2>3 DEF YieldedInv, Points
<1>9. remaining_candidate_points'
        = Totalled(chunks')[Len(chunks')] - Totalled(chunks')[next_chunk'] + current_chunk_points_left'
  <2>1. remaining_candidate_points = total[Len(chunks)] - total[next_chunk] + 0
    BY <1>1 DEF StreamInv
  <2>2. total[n] = total[n - 1] + e.point_count /\ total \in [0..Len(chunks) -> Nat]
    BY <1>1, <1>2, TotalledSteps
  <2>3. /\ total[Len(chunks)] \in Nat /\ total[next_chunk] \in Nat
        /\ total[n] = total[next_chunk] + e.point_count
    BY <1>1, <1>2, <2>2
  <2> HIDE DEF n, total
  <2>4. remaining_candidate_points = total[Len(chunks)] - total[n] + e.point_count
    BY <1>3, <2>1, <2>3
  <2>5. QED
    BY <1>5, <1>6, <2>4 DEF total
<1>10. touched' \subseteq UNION {Bytes(chunks'[i]) : i \in 1..next_chunk'}
  <2>1. touched \subseteq UNION {Bytes(chunks[i]) : i \in 1..next_chunk}
    BY DEF StreamInv
  <2>2. \A i \in 1..next_chunk : i \in 1..n
    BY <1>1
  <2> HIDE DEF n
  <2>3. QED
    BY <1>5, <1>6, <2>1, <2>2
<1>11. QED
  <2>1. next_chunk' \in 0..Len(chunks') /\ next_chunk' > 0 /\ next_chunk' - 1 <= Ahead'
        /\ current_chunk_points_left' \in Nat
    BY <1>1, <1>2, <1>3, <1>4, <1>5, <1>6
  <2>2. pc' = "next" /\ result' = "running"
    BY <1>1, <1>5
  <2>3. next_chunk' # 0
    BY <1>5, <1>2
  <2> HIDE DEF n, e, total
  <2>4. QED
    BY <1>7, <1>8, <1>9, <1>10, <2>1, <2>2, <2>3 DEF StreamInv


LEMMA LeastOfTwo ==
  ASSUME NEW a \in Int, NEW b \in Int, NEW S, S = {a, b}
  PROVE  Min(S) \in Int /\ Min(S) \in {a, b} /\ Min(S) <= a /\ Min(S) <= b
<1>1. \E x \in S : \A y \in S : x <= y
  OBVIOUS
<1>2. QED
  BY <1>1 DEF Min

\* Where the iterator is in its chunk, while that is not finished.
LEMMA InChunk ==
  ASSUME SelectionInv, StreamInv, pc = "next", current_chunk_points_left > 0
  PROVE  LET n == next_chunk IN
         /\ n \in 1..Len(chunks) /\ n > 0 /\ n - 1 <= Ahead /\ ChunkInv(n)
         /\ result = "running"
         /\ current_chunk_points_left \in 1..chunks[n].point_count
         /\ chunks[n].point_count \in Nat
         /\ out = All[n - 1]
                    \o Kept(bounds, Points(n))[chunks[n].point_count - current_chunk_points_left]
         /\ n \in 0..Len(chunks) /\ Len(chunks) \in Nat
<1>1. /\ next_chunk \in 0..Len(chunks) /\ current_chunk_points_left \in Nat
      /\ next_chunk # 0 /\ result = "running"
  BY DEF StreamInv
<1>2. Len(chunks) \in Nat
  BY SelectedChunks
<1>3. next_chunk \in 1..Len(chunks) /\ next_chunk > 0
  BY <1>1, <1>2
<1>4. next_chunk - 1 <= Ahead /\ ChunkInv(next_chunk)
  BY <1>3 DEF StreamInv
<1>5. chunks[next_chunk].point_count \in Nat
  BY <1>3, SelectedChunks
<1>6. current_chunk_points_left \in 1..chunks[next_chunk].point_count
  BY <1>1, <1>4, <1>5 DEF ChunkInv
<1>7. out = All[next_chunk - 1]
              \o Kept(bounds, Points(next_chunk))
                   [chunks[next_chunk].point_count - current_chunk_points_left]
  BY <1>1 DEF StreamInv, YieldedInv
<1>8. QED
  BY <1>1, <1>2, <1>3, <1>4, <1>5, <1>6, <1>7

LEMMA ReadLayersInv ==
  ASSUME SelectionInv, StreamInv, ReadLayers
  PROVE  StreamInv'
<1> DEFINE n == next_chunk
           e == chunks[n]
<1>1. pc = "next" /\ current_chunk_points_left > 0 /\ ~ LayersIn(layers)
  BY DEF ReadLayers, Reading
<1>2. /\ n \in 1..Len(chunks) /\ n > 0 /\ ChunkInv(n)
      /\ current_chunk_points_left \in 1..e.point_count /\ e.point_count \in Nat
  BY <1>1, InChunk
<1>3. /\ file.data \in Seq(Nat) /\ Len(file.data) \in Nat
      /\ e.offset \in Nat /\ EndOf(e) \in Nat /\ EndOf(e) <= Len(file.data)
      /\ Bytes(e) = e.offset..(EndOf(e) - 1)
  BY <1>2, SelectedChunks, LenProperties
<1>4. /\ cursor \in e.offset..EndOf(e) /\ window = [end |-> EndOf(e), position |-> cursor]
      /\ layers = SubSeq(file.data, e.offset + 1, cursor)
  BY <1>2 DEF ChunkInv
<1>5. current_chunk_points_left = e.point_count
  BY <1>1, <1>2 DEF ChunkInv
<1>6. PICK k \in 1..Allowed :
        /\ layers' = layers \o SubSeq(file.data, cursor + 1, cursor + k)
        /\ touched' = touched \cup cursor .. cursor + k - 1
        /\ cursor' = cursor + k
        /\ window' = [window EXCEPT !.position = @ + k]
  BY DEF ReadLayers
<1>7. UNCHANGED <<request, pc, counters, out, result>>
  BY DEF ReadLayers
<1> HIDE DEF e
<1>8. cursor \in Nat /\ cursor \in e.offset..Len(file.data)
  BY <1>3, <1>4
<1>9. layers \in Seq(Nat) /\ Wanted \in Int
  <2>1. layers \in Seq(Nat)
    BY <1>3, <1>4, <1>8, PartOfData
  <2>2. Wanted \in Int
    BY <2>1, HeadTailProperties, LenProperties DEF Wanted
  <2>3. QED
    BY <2>1, <2>2
<1>10. k \in Nat \ {0} /\ cursor + k <= EndOf(e)
  <2> DEFINE rest == EndOf(e) - cursor
             S == {Wanted, rest}
  <2>1. Allowed = Min(S) /\ rest \in Int
    BY <1>3, <1>4, <1>8 DEF Allowed
  <2>2. Allowed \in Int /\ Allowed <= rest
    <3> HIDE DEF rest
    <3>1. S = {Wanted, rest}
      OBVIOUS
    <3> HIDE DEF S
    <3>2. QED
      BY <1>9, <2>1, <3>1, LeastOfTwo
  <2>3. QED
    BY <1>3, <1>8, <2>2
<1>11. cursor' = cursor + k /\ cursor' \in e.offset..EndOf(e) /\ cursor' \in cursor..Len(file.data)
       /\ window' = [end |-> EndOf(e), position |-> cursor']
  <2>1. cursor' = cursor + k /\ window' = [window EXCEPT !.position = @ + k]
    BY <1>6
  <2>2. window' = [end |-> EndOf(e), position |-> cursor']
    BY <1>4, <2>1
  <2>3. cursor + k \in e.offset..EndOf(e) /\ cursor + k \in cursor..Len(file.data)
    BY <1>3, <1>8, <1>10
  <2>4. QED
    BY <2>1, <2>2, <2>3, Zenon
<1>12. layers' = SubSeq(file.data, e.offset + 1, cursor')
  <2>1. /\ e.offset + 1 \in 1..(Len(file.data) + 1)
        /\ cursor \in ((e.offset + 1) - 1)..Len(file.data)
        /\ cursor' \in cursor..Len(file.data)
    BY <1>3, <1>8, <1>11
  <2>2. SubSeq(file.data, e.offset + 1, cursor) \o SubSeq(file.data, cursor + 1, cursor')
          = SubSeq(file.data, e.offset + 1, cursor')
    BY <1>3, <2>1, ConcatAdjacentSubSeq
  <2>3. QED
    BY <1>4, <1>6, <2>2
<1>13. /\ UNCHANGED <<next_chunk, current_chunk_points_left, remaining_candidate_points, pc, out, result>>
       /\ chunks' = chunks /\ file' = file /\ bounds' = bounds /\ All' = All /\ Ahead' = Ahead
  BY <1>7, SameRequest DEF request, counters
<1>14. ChunkInv(next_chunk)'
  <2>1. current_chunk_points_left <= e.point_count
        /\ ~ (current_chunk_points_left < e.point_count)
    BY <1>2, <1>5
  <2>2. QED
    BY <1>11, <1>12, <1>13, <2>1 DEF ChunkInv, EndOf, e
<1>15. touched' \subseteq UNION {Bytes(chunks[i]) : i \in 1..n}
  <2>1. touched \subseteq UNION {Bytes(chunks[i]) : i \in 1..n}
    BY DEF StreamInv
  <2>2. cursor..(cursor + k - 1) \subseteq Bytes(e)
    BY <1>3, <1>4, <1>8, <1>10
  <2>3. n \in 1..n
    BY <1>2
  <2>4. touched' = touched \cup cursor..(cursor + k - 1)
    BY <1>6
  <2> HIDE DEF n
  <2>5. QED
    BY <2>1, <2>2, <2>3, <2>4 DEF e
<1>16. QED
  BY <1>13, <1>14, <1>15 DEF StreamInv, YieldedInv, Points

\* The next point is the next one of the chunk, which is whole.
LEMMA NextDecoded ==
  ASSUME SelectionInv, StreamInv, Decoding
  PROVE  LET n == next_chunk
             k == chunks[n].point_count - current_chunk_points_left IN
         /\ n <= Ahead
         /\ k \in 0..chunks[n].point_count /\ k + 1 \in 1..chunks[n].point_count
         /\ k + 1 = chunks[n].point_count - (current_chunk_points_left - 1)
         /\ NextPoint = Points(n)[k + 1]
<1> DEFINE n == next_chunk
           k == chunks[n].point_count - current_chunk_points_left
<1>1. pc = "next" /\ current_chunk_points_left > 0 /\ LayersIn(layers)
  BY DEF Decoding
<1>2. /\ n \in 1..Len(chunks) /\ n - 1 <= Ahead /\ ChunkInv(n)
      /\ current_chunk_points_left \in 1..chunks[n].point_count
      /\ chunks[n].point_count \in Nat /\ Len(chunks) \in Nat
  BY <1>1, InChunk
<1>3. /\ Whole(file, chunks[n])
      /\ \A i \in 1..chunks[n].point_count :
           PointAt(layers, i) = PointAt(BytesOf(file, chunks[n]), i)
  BY <1>1, <1>2, LayersOfChunk
<1>4. n <= Ahead
  BY <1>2, <1>3, OneMoreWhole DEF Ahead
<1>5. /\ k \in 0..chunks[n].point_count /\ k + 1 \in 1..chunks[n].point_count
      /\ k + 1 = chunks[n].point_count - (current_chunk_points_left - 1)
  BY <1>2
<1>6. Points(n)[k + 1] = PointAt(BytesOf(file, chunks[n]), k + 1)
  BY <1>2, <1>5, PointsOfNext
<1>7. NextPoint = PointAt(layers, k + 1)
  BY DEF NextPoint
<1> HIDE DEF k
<1>8. NextPoint = Points(n)[k + 1]
  BY <1>3, <1>5, <1>6, <1>7
<1>9. QED
  BY <1>4, <1>5, <1>8 DEF k

\* A point that has been decoded is counted, whether it is returned or not.
LEMMA PointCounted ==
  ASSUME SelectionInv, StreamInv, Decoding,
         current_chunk_points_left' = current_chunk_points_left - 1,
         remaining_candidate_points' = remaining_candidate_points - 1,
         UNCHANGED <<request, next_chunk, decoder, touched>>,
         pc' \in {"idle", "next"}, result' \in {"running", "err"},
         pc' = "next" => result' = "running", result' # "err" => YieldedInv'
  PROVE  StreamInv'
<1> DEFINE n == next_chunk
<1>1. pc = "next" /\ current_chunk_points_left > 0 /\ LayersIn(layers)
  BY DEF Decoding
<1>2. /\ n \in 1..Len(chunks) /\ n \in 0..Len(chunks) /\ n # 0 /\ n - 1 <= Ahead /\ ChunkInv(n)
      /\ current_chunk_points_left \in 1..chunks[n].point_count
      /\ chunks[n].point_count \in Nat /\ Len(chunks) \in Nat
  BY <1>1, InChunk
<1>3. /\ UNCHANGED <<next_chunk, window, cursor, layers, touched>>
      /\ chunks' = chunks /\ file' = file /\ bounds' = bounds /\ All' = All /\ Ahead' = Ahead
  BY SameRequest DEF request, decoder
<1>4. current_chunk_points_left' \in Nat
      /\ current_chunk_points_left' <= chunks[n].point_count
  BY <1>2
<1>5. ChunkInv(next_chunk)'
  BY <1>1, <1>2, <1>3, <1>4 DEF ChunkInv, EndOf
<1>6. remaining_candidate_points'
        = Totalled(chunks)[Len(chunks)] - Totalled(chunks)[n] + current_chunk_points_left'
  <2>1. remaining_candidate_points
          = Totalled(chunks)[Len(chunks)] - Totalled(chunks)[n] + current_chunk_points_left
    BY <1>1 DEF StreamInv
  <2>2. Totalled(chunks)[Len(chunks)] \in Nat /\ Totalled(chunks)[n] \in Nat
    <3>1. \A i \in 1..Len(chunks) : chunks[i].point_count \in Nat
      BY SelectedChunks
    <3>2. Totalled(chunks) \in [0..Len(chunks) -> Nat]
      BY <1>2, <3>1, TotalledSteps
    <3>3. QED
      BY <1>2, <3>2
  <2>3. QED
    BY <1>2, <2>1, <2>2
<1>7. touched' \subseteq UNION {Bytes(chunks'[i]) : i \in 1..next_chunk'}
  BY <1>3 DEF StreamInv
<1> HIDE DEF n
<1>8. QED
  BY <1>2, <1>3, <1>4, <1>5, <1>6, <1>7 DEF StreamInv, n

LEMMA DecodePointInv ==
  ASSUME SelectionInv, StreamInv, DecodePoint
  PROVE  StreamInv'
<1> DEFINE n == next_chunk
           k == chunks[n].point_count - current_chunk_points_left
           kept == Kept(bounds, Points(n))
           S == Stored(file, chunks)
<1>1. Decoding /\ pc = "next" /\ current_chunk_points_left > 0
  BY DEF DecodePoint, Decoding
<1>2. /\ n \in 1..Len(chunks) /\ n # 0 /\ result = "running"
      /\ chunks[n].point_count \in Nat /\ Len(chunks) \in Nat
      /\ out = All[n - 1] \o kept[k]
  <2>1. /\ n \in 1..Len(chunks) /\ result = "running"
        /\ chunks[n].point_count \in Nat /\ Len(chunks) \in Nat
        /\ out = All[n - 1] \o kept[k]
    BY <1>1, InChunk, Zenon
  <2>2. n # 0
    BY <2>1
  <2>3. QED
    BY <2>1, <2>2, Zenon
<1>3. /\ k \in 0..chunks[n].point_count /\ k + 1 \in 1..chunks[n].point_count
      /\ k + 1 = chunks[n].point_count - (current_chunk_points_left - 1)
      /\ NextPoint = Points(n)[k + 1]
  BY <1>1, NextDecoded
<1>4. /\ current_chunk_points_left' = current_chunk_points_left - 1
      /\ remaining_candidate_points' = remaining_candidate_points - 1
      /\ UNCHANGED <<request, next_chunk, decoder, result, touched>>
      /\ out' = IF Accepted(bounds, NextPoint) THEN Append(out, NextPoint) ELSE out
      /\ pc' \in {"idle", "next"}
  BY <1>1 DEF DecodePoint
<1>5. All[n - 1] \in Seq(S)
  BY <1>2, AllChunks
<1>6. /\ kept[k] \in Seq(S) /\ Points(n)[k + 1] \in S
      /\ kept[k + 1] = IF Accepted(bounds, Points(n)[k + 1])
                         THEN Append(kept[k], Points(n)[k + 1]) ELSE kept[k]
  <2>1. Points(n) \in Seq(S) /\ Len(Points(n)) = chunks[n].point_count
    BY <1>2, PointsOfNext
  <2>2. k + 1 \in 1..Len(Points(n)) /\ (k + 1) - 1 = k
    BY <1>2, <1>3, <2>1
  <2> HIDE DEF k, n, kept
  <2>3. /\ kept[(k + 1) - 1] \in Seq(S)
        /\ kept[k + 1] = IF Accepted(bounds, Points(n)[k + 1])
                           THEN Append(kept[(k + 1) - 1], Points(n)[k + 1])
                           ELSE kept[(k + 1) - 1]
    BY <2>1, <2>2, KeptGrows DEF kept
  <2>4. Points(n)[k + 1] \in S
    BY <2>1, <2>2, ElementOfSeq
  <2>5. QED
    BY <2>2, <2>3, <2>4
<1> HIDE DEF k, kept, n, S
<1>7. out' = All[n - 1] \o kept[k + 1]
  <2>1. CASE Accepted(bounds, NextPoint)
    <3> DEFINE p == NextPoint
               u == <<p>>
               s == All[n - 1]
               t == kept[k]
    <3>1. p \in S /\ u \in Seq(S) /\ s \in Seq(S) /\ t \in Seq(S) /\ s \o t \in Seq(S)
      BY <1>3, <1>5, <1>6, ConcatProperties
    <3>2. out' = Append(s \o t, p) /\ kept[k + 1] = Append(t, p)
      BY <1>2, <1>3, <1>4, <1>6, <2>1
    <3> HIDE DEF p, s, t
    <3>3. Append(s \o t, p) = (s \o t) \o u /\ Append(t, p) = t \o u
      BY <3>1, AppendIsConcat
    <3> HIDE DEF u
    <3>4. (s \o t) \o u = s \o (t \o u)
      BY <3>1, ConcatAssociative
    <3>5. out' = s \o kept[k + 1]
      BY <3>2, <3>3, <3>4, Zenon
    <3>6. QED
      BY <3>5 DEF s
  <2>2. CASE ~ Accepted(bounds, NextPoint)
    BY <1>2, <1>3, <1>4, <1>6, <2>2
  <2>3. QED
    BY <2>1, <2>2
<1>8. YieldedInv'
  <2>1. /\ n' = n /\ n # 0 /\ chunks' = chunks /\ Points(n)' = Points(n) /\ bounds' = bounds
        /\ All' = All
    BY <1>2, <1>4, SameRequest DEF request, Points, n
  <2>2. chunks[n].point_count - current_chunk_points_left' = k + 1
    BY <1>3, <1>4
  <2>3. QED
    BY <1>7, <2>1, <2>2 DEF YieldedInv, kept, n, Points
<1>9. QED
  BY <1>1, <1>2, <1>4, <1>8, PointCounted

LEMMA ParseFailsInv ==
  ASSUME SelectionInv, StreamInv, ParseFails
  PROVE  StreamInv'
BY PointCounted DEF ParseFails, Failing, Decoding

LEMMA StreamStep ==
  ASSUME SelectionInv, StreamInv, StreamNext
  PROVE  SelectionInv' /\ StreamInv'
<1>1. SelectionInv'
  <2>1. UNCHANGED request
    BY DEF StreamNext, SetupStream, RefuseSetup, CallNext, LoadChunk, End, ReadLayers, RanOut,
           DecodePoint, ParseFails, FailNext, Failing
  <2>2. QED
    BY <2>1, SameRequest
<1>2. StreamInv'
  <2>1. CASE SetupStream
    BY <2>1, SetupStreamInv
  <2>2. CASE RefuseSetup
    BY <2>2, StreamRefused
  <2>3. CASE CallNext
    BY <2>3, StreamCalled
  <2>4. CASE LoadChunk
    BY <2>4, LoadChunkInv
  <2>5. CASE End
    BY <2>5, StreamEnded
  <2>6. CASE ReadLayers
    BY <2>6, ReadLayersInv
  <2>7. CASE RanOut
    BY <2>7, StreamFailed DEF RanOut, Reading
  <2>8. CASE DecodePoint
    BY <2>8, DecodePointInv
  <2>9. CASE ParseFails
    BY <2>9, ParseFailsInv
  <2>10. CASE FailNext
    BY <2>10, StreamFailed DEF FailNext
  <2>11. QED
    BY <2>1, <2>2, <2>3, <2>4, <2>5, <2>6, <2>7, <2>8, <2>9, <2>10 DEF StreamNext
<1>3. QED
  BY <1>1, <1>2

\* What the iterator has returned begins what is promised.
LEMMA StreamDelivers ==
  ASSUME SelectionInv, StreamInv, result # "err"
  PROVE  out \in Seq(Stored(file, chunks)) /\ Prefix(out, All[Ahead])
<1>1. /\ Ahead \in 0..Len(chunks) /\ All[0] = <<>> /\ Len(chunks) \in Nat
      /\ next_chunk \in 0..Len(chunks) /\ current_chunk_points_left \in Nat
  BY AllChunks, SelectedChunks DEF StreamInv
<1>2. CASE next_chunk = 0
  <2>1. out = <<>> /\ All[0] \in Seq(Stored(file, chunks)) /\ Prefix(All[0], All[Ahead])
    BY <1>1, <1>2, AllChunks DEF StreamInv, YieldedInv
  <2>2. QED
    BY <1>1, <2>1
<1>3. CASE next_chunk # 0
  <2> DEFINE n == next_chunk
             k == chunks[n].point_count - current_chunk_points_left
  <2>1. n \in 1..Len(chunks) /\ n > 0
    BY <1>1, <1>3
  <2>2. ChunkInv(n) /\ n - 1 <= Ahead /\ chunks[n].point_count \in Nat
    BY <2>1, SelectedChunks DEF StreamInv
  <2>3. k \in 0..chunks[n].point_count
    BY <1>1, <2>2 DEF ChunkInv
  <2>4. k > 0 => n <= Ahead
    <3>1. SUFFICES ASSUME k > 0 PROVE n <= Ahead
      OBVIOUS
    <3>2. LayersIn(layers)
      BY <1>1, <2>2, <3>1 DEF ChunkInv
    <3>3. QED
      BY <1>1, <2>1, <2>2, <3>2, LayersOfChunk, OneMoreWhole DEF Ahead
  <2>5. out = All[n - 1] \o Kept(bounds, Points(n))[k]
    BY <1>3 DEF StreamInv, YieldedInv
  <2> HIDE DEF n, k
  <2>6. QED
    BY <2>1, <2>2, <2>3, <2>4, <2>5, YieldedPrefix
<1>4. QED
  BY <1>2, <1>3


-----------------------------------------------------------------------------
(***************************************************************************)
(* Columns in batches.                                                     *)
(***************************************************************************)
\* l has the values of dimension c, for the points s.
ValuesOf(l, c, s) == Len(l) = Len(s) /\ \A i \in 1..Len(s) : l[i] = <<c, s[i]>>

LEMMA ValuesConcat ==
  ASSUME NEW S, NEW s \in Seq(S), NEW t \in Seq(S), NEW c,
         NEW V, NEW l \in Seq(V), NEW r \in Seq(V), NEW b \in Seq(V),
         ValuesOf(l, c, s), ValuesOf(r, c, t), ValuesOf(b, c, s \o t)
  PROVE  l \o r = b
<1>1. /\ Len(s) \in Nat /\ Len(t) \in Nat /\ Len(s \o t) = Len(s) + Len(t)
      /\ \A i \in 1..(Len(s) + Len(t)) :
           (s \o t)[i] = IF i <= Len(s) THEN s[i] ELSE t[i - Len(s)]
  BY LenProperties, ConcatProperties
<1>2. /\ l \o r \in Seq(V) /\ Len(l \o r) = Len(l) + Len(r)
      /\ \A i \in 1..(Len(l) + Len(r)) : (l \o r)[i] = IF i <= Len(l) THEN l[i] ELSE r[i - Len(l)]
  BY ConcatProperties
<1>3. /\ Len(l) = Len(s) /\ \A i \in 1..Len(s) : l[i] = <<c, s[i]>>
      /\ Len(r) = Len(t) /\ \A i \in 1..Len(t) : r[i] = <<c, t[i]>>
      /\ Len(b) = Len(s) + Len(t)
      /\ \A i \in 1..(Len(s) + Len(t)) : b[i] = <<c, (s \o t)[i]>>
  BY <1>1 DEF ValuesOf
<1>4. ASSUME NEW i \in 1..(Len(s) + Len(t)) PROVE (l \o r)[i] = b[i]
  <2>1. (l \o r)[i] = IF i <= Len(s) THEN l[i] ELSE r[i - Len(s)]
    BY <1>2, <1>3
  <2>2. b[i] = <<c, (s \o t)[i]>>
    BY <1>3
  <2>3. CASE i <= Len(s)
    <3>1. i \in 1..Len(s)
      BY <1>1, <2>3
    <3>2. (s \o t)[i] = s[i] /\ l[i] = <<c, s[i]>>
      BY <1>1, <1>3, <2>3, <3>1
    <3>3. QED
      BY <2>1, <2>2, <2>3, <3>2
  <2>4. CASE ~ (i <= Len(s))
    <3>1. i - Len(s) \in 1..Len(t)
      BY <1>1, <2>4
    <3>2. (s \o t)[i] = t[i - Len(s)] /\ r[i - Len(s)] = <<c, t[i - Len(s)]>>
      BY <1>1, <1>3, <2>4, <3>1
    <3>3. QED
      BY <2>1, <2>2, <2>4, <3>2
  <2>5. QED
    BY <2>3, <2>4
<1>5. Len(l \o r) = Len(b) /\ Len(l \o r) = Len(s) + Len(t)
  BY <1>2, <1>3
<1>6. QED
  BY <1>2, <1>4, <1>5, SeqEqual

LEMMA ValuesMade ==
  ASSUME NEW S, NEW s \in Seq(S), NEW C, NEW c \in C
  PROVE  LET l == [i \in 1..Len(s) |-> <<c, s[i]>>] IN
         l \in Seq(C \X S) /\ ValuesOf(l, c, s)
<1> DEFINE V == C \X S
           n == Len(s)
           l == [i \in 1..n |-> <<c, s[i]>>]
<1>1. n \in Nat /\ \A i \in 1..n : s[i] \in S
  BY LenProperties, ElementOfSeq
<1>2. l \in [1..n -> V] /\ \A i \in 1..n : l[i] = <<c, s[i]>>
  <2> HIDE DEF n
  <2>1. QED
    BY <1>1
<1> HIDE DEF V, n, l
<1>3. l \in Seq(V) /\ Len(l) = n
  BY <1>1, <1>2
<1>4. QED
  BY <1>2, <1>3 DEF V, n, l, ValuesOf

\* The rows are the points of the chunks that have been merged.
LEMMA RowsMerged ==
  ASSUME SelectionInv, NEW m, Merged(m)
  PROVE  Rows = All[m] /\ Rows \in Seq(Stored(file, chunks)) /\ Prefix(Rows, All[Ahead])
<1> DEFINE s == All[m]
           S == Stored(file, chunks)
<1>1. /\ m \in 0..Len(chunks) /\ m <= Ahead /\ Ahead \in 0..Len(chunks)
      /\ s \in Seq(S) /\ Prefix(s, All[Ahead])
  BY AllChunks DEF Merged
<1>2. /\ accepted_points = Len(s)
      /\ columns = [c \in Columns |-> [i \in 1..Len(s) |-> <<c, s[i]>>]]
  BY DEF Merged
<1> HIDE DEF s
<1>3. ASSUME NEW i \in 1..Len(s) PROVE Row(i) = s[i]
  <2> DEFINE c == CHOOSE c \in Columns : TRUE
  <2>1. c \in Columns
    BY ColumnsAssumption
  <2> HIDE DEF c
  <2>2. \A d \in Columns : i \in DOMAIN columns[d] /\ columns[d][i] = <<d, s[i]>>
    BY <1>2
  <2>3. columns[c][i][2] = s[i]
    BY <2>1, <2>2
  <2>4. \A d \in Columns : i \in DOMAIN columns[d] /\ columns[d][i] = <<d, columns[c][i][2]>>
    BY <2>2, <2>3
  <2>5. Row(i) = columns[c][i][2]
    BY <2>4 DEF Row, c
  <2>6. QED
    BY <2>3, <2>5
<1>4. Rows = [i \in 1..Len(s) |-> s[i]]
  BY <1>2, <1>3 DEF Rows
<1>5. s = [i \in 1..Len(s) |-> s[i]]
  BY <1>1
<1>6. Rows = s
  BY <1>4, <1>5
<1>7. QED
  BY <1>1, <1>6 DEF s

\* The bytes that have been read for a place are those of its chunk.
LEMMA PlaceOfBatch ==
  ASSUME SelectionInv, BatchInv, taken \in 0..Len(chunks), NEW i \in 1..Len(batch_bytes)
  PROVE  /\ taken + i \in 1..Len(chunks) /\ (taken + i) - 1 = taken + (i - 1)
         /\ LayersIn(batch_bytes[i]) => Whole(file, chunks[taken + i])
         /\ PointsOfPlace(i) = PointsOf(file, chunks[taken + i], bounds)
<1>1. Len(chunks) \in Nat /\ Len(batch_bytes) \in Nat /\ taken + Len(batch_bytes) <= Len(chunks)
  BY SelectedChunks, LenProperties DEF BatchInv
<1>2. taken + i \in 1..Len(chunks) /\ (taken + i) - 1 = taken + (i - 1)
  BY <1>1
<1>3. batch_bytes[i] = BytesOf(file, chunks[taken + i])
  BY DEF BatchInv
<1>4. QED
  BY <1>2, <1>3 DEF Whole, PointsOfPlace, PointsOf

\* Where the merge of a batch is.
LEMMA FirstPlace ==
  ASSUME NEW k \in Nat, NEW l \in Nat, k <= l,
         decoded = [i \in DOMAIN decoded |-> decoded[i]], DOMAIN decoded = (k + 1)..l,
         decoded # Nothing
  PROVE  /\ k + 1 \in DOMAIN decoded /\ Place = k + 1
         /\ DOMAIN decoded \ {Place} = ((k + 1) + 1)..l
         /\ k + 1 \in 1..l
<1>1. DOMAIN decoded # {}
  <2>1. SUFFICES ASSUME DOMAIN decoded = {} PROVE FALSE
    OBVIOUS
  <2>2. decoded = Nothing
    BY <2>1 DEF Nothing
  <2>3. QED
    BY <2>2
<1>2. k + 1 <= l
  BY <1>1
<1>3. k + 1 \in (k + 1)..l
  BY <1>2
<1>4. Place = k + 1
  <2>1. /\ k + 1 \in DOMAIN decoded /\ \A y \in DOMAIN decoded : k + 1 <= y
        /\ DOMAIN decoded \subseteq Int
    BY <1>3
  <2>2. \A x \in DOMAIN decoded : (\A y \in DOMAIN decoded : x <= y) => x = k + 1
    BY <2>1
  <2>3. QED
    BY <2>1, <2>2 DEF Place, Min
<1>5. (k + 1)..l \ {k + 1} = ((k + 1) + 1)..l
  OBVIOUS
<1>6. QED
  BY <1>2, <1>3, <1>4, <1>5


\* Another chunk is merged.
LEMMA MergedNext ==
  ASSUME SelectionInv, NEW m \in Nat, Merged(m), m + 1 <= Len(chunks),
         Whole(file, chunks[m + 1]), NEW p, p = PointsOf(file, chunks[m + 1], bounds),
         UNCHANGED request,
         columns' = [c \in Columns |-> columns[c] \o ChunkColumns(p).columns[c]],
         accepted_points' = accepted_points + ChunkColumns(p).len
  PROVE  Merged(m + 1)'
<1> DEFINE s == All[m]
           t == All[m + 1]
           S == Stored(file, chunks)
<1>1. /\ Len(chunks) \in Nat /\ m \in 0..Len(chunks) /\ m <= Ahead
      /\ m + 1 \in 1..Len(chunks) /\ (m + 1) - 1 = m /\ m + 1 \in 0..Len(chunks)
  BY SelectedChunks DEF Merged
<1>2. m + 1 <= Ahead
  BY <1>1, OneMoreWhole DEF Ahead
<1>3. /\ s \in Seq(S) /\ p \in Seq(S) /\ t = s \o p
  <2> DEFINE n == m + 1
  <2>1. n \in 1..Len(chunks) /\ n - 1 = m /\ p = PointsOf(file, chunks[n], bounds)
    BY <1>1
  <2> HIDE DEF n
  <2>2. /\ All[m] \in Seq(S) /\ p \in Seq(S) /\ All[n] = All[n - 1] \o p
    BY <1>1, <2>1, AllChunks
  <2>3. QED
    BY <2>1, <2>2 DEF n
<1>4. /\ All' = All /\ Ahead' = Ahead /\ chunks' = chunks
  BY SameRequest DEF request
<1>5. /\ accepted_points = Len(s)
      /\ columns = [c \in Columns |-> [i \in 1..Len(s) |-> <<c, s[i]>>]]
  BY DEF Merged
<1> HIDE DEF s, t, S
<1>6. accepted_points' = Len(t)
  BY <1>3, <1>5, ConcatProperties DEF ChunkColumns
<1>7. ASSUME NEW c \in Columns
      PROVE  columns[c] \o ChunkColumns(p).columns[c] = [i \in 1..Len(t) |-> <<c, t[i]>>]
  <2> DEFINE l == columns[c]
             r == ChunkColumns(p).columns[c]
             b == [i \in 1..Len(t) |-> <<c, t[i]>>]
             V == Columns \X S
  <2>1. /\ t \in Seq(S) /\ Len(t) = Len(s) + Len(p) /\ DOMAIN p = 1..Len(p)
    BY <1>3, ConcatProperties, LenProperties
  <2>2. l \in Seq(V) /\ ValuesOf(l, c, s)
    <3>1. l = [i \in 1..Len(s) |-> <<c, s[i]>>]
      BY <1>5
    <3>2. QED
      BY <1>3, <3>1, ValuesMade
  <2>3. r \in Seq(V) /\ ValuesOf(r, c, p)
    <3> DEFINE f == [i \in 1..Len(p) |-> <<c, p[i]>>]
    <3>1. f \in Seq(V) /\ ValuesOf(f, c, p)
      BY <1>3, ValuesMade
    <3>2. r = f
      BY <2>1 DEF ChunkColumns
    <3> HIDE DEF f, V, r
    <3>3. QED
      BY <3>1, <3>2
  <2>4. b \in Seq(V) /\ ValuesOf(b, c, s \o p)
    BY <1>3, <2>1, ValuesMade
  <2> HIDE DEF l, r, b, V
  <2>5. l \o r = b
    BY <1>3, <2>2, <2>3, <2>4, ValuesConcat
  <2>6. QED
    BY <2>5 DEF l, r, b
<1>8. columns' = [c \in Columns |-> [i \in 1..Len(t) |-> <<c, t[i]>>]]
  BY <1>7
<1>9. QED
  BY <1>1, <1>2, <1>4, <1>6, <1>8 DEF Merged, t

LEMMA ColumnsTaken ==
  ASSUME SelectionInv, ColumnsInv
  PROVE  /\ taken \in 0..Len(chunks) /\ Len(chunks) \in Nat
         /\ pc \in {"read", "decode", "merge"} =>
              Len(batch_bytes) \in Nat /\ DOMAIN batch_bytes = 1..Len(batch_bytes)
BY SelectedChunks, LenProperties DEF ColumnsInv, BatchInv

LEMMA ColumnsSetupInv ==
  ASSUME SelectionInv, ColumnsInv, SetupColumns
  PROVE  ColumnsInv'
<1>1. /\ UNCHANGED request /\ UNCHANGED <<batch_size, taken, batch_bytes, decoded, columns, accepted_points>>
      /\ pc = "new" /\ pc' \in {"batch", "returned"} /\ result' \in {"running", "err"}
      /\ pc' # "returned" => result' = "running"
  BY DEF SetupColumns, Return, ColumnsInv
<1>2. /\ chunks' = chunks /\ All' = All /\ Ahead' = Ahead
  BY <1>1, SameRequest DEF request
<1>3. Merged(taken) /\ Merged(taken)' /\ taken \in 0..Len(chunks)
  BY <1>1, <1>2 DEF ColumnsInv, Merged
<1>4. \E m \in 0..Len(chunks) : Merged(m)'
  BY <1>1, <1>3 DEF Merged
<1>5. QED
  BY <1>1, <1>2, <1>3, <1>4 DEF ColumnsInv

LEMMA StartBatchInv ==
  ASSUME SelectionInv, ColumnsInv, StartBatch
  PROVE  ColumnsInv'
<1>1. /\ UNCHANGED request /\ UNCHANGED <<batch_size, taken, columns, accepted_points, result>>
      /\ pc = "batch" /\ pc' = "read" /\ batch_bytes' = <<>> /\ decoded' = Nothing
      /\ taken < Len(chunks) /\ taken \in 0..Len(chunks) /\ Len(chunks) \in Nat
  BY ColumnsTaken DEF StartBatch
<1>2. /\ chunks' = chunks /\ All' = All /\ Ahead' = Ahead
  BY <1>1, SameRequest DEF request
<1>3. Merged(taken)' /\ result = "running" /\ batch_size \in Nat \ {0}
  BY <1>1, <1>2 DEF ColumnsInv, Merged
<1>4. Len(batch_bytes') = 0 /\ batch_bytes' \in Seq(Seq(Nat))
  BY <1>1
<1>5. BatchInv'
  BY <1>1, <1>2, <1>4 DEF BatchInv
<1>6. QED
  BY <1>1, <1>2, <1>3, <1>4, <1>5 DEF ColumnsInv

LEMMA ReadChunkBytesInv ==
  ASSUME SelectionInv, ColumnsInv, ReadChunkBytes
  PROVE  ColumnsInv'
<1> DEFINE n == Len(batch_bytes)
           b == BytesOf(file, chunks[taken + n + 1])
<1>1. /\ UNCHANGED request
      /\ UNCHANGED <<batch_size, taken, decoded, columns, accepted_points, result>>
      /\ pc = "read" /\ batch_bytes' = Append(batch_bytes, b)
      /\ pc' = IF Len(batch_bytes') = BatchLen THEN "decode" ELSE "read"
  BY DEF ReadChunkBytes
<1>2. /\ chunks' = chunks /\ file' = file /\ All' = All /\ Ahead' = Ahead
  BY <1>1, SameRequest DEF request
<1>3. /\ Merged(taken)' /\ result = "running" /\ batch_size \in Nat \ {0}
      /\ BatchInv /\ n < batch_size /\ taken + n < Len(chunks) /\ decoded = Nothing
      /\ taken \in 0..Len(chunks) /\ Len(chunks) \in Nat /\ n \in Nat
  BY <1>1, <1>2, ColumnsTaken DEF ColumnsInv, Merged
<1>4. batch_bytes \in Seq(Seq(Nat)) /\ \A i \in 1..n : batch_bytes[i] = BytesOf(file, chunks[taken + i])
  BY <1>3 DEF BatchInv
<1>5. taken + n + 1 \in 1..Len(chunks) /\ b \in Seq(Nat)
  <2>1. taken + n + 1 \in 1..Len(chunks)
    BY <1>3
  <2>2. QED
    BY <2>1, BytesOfChunk
<1> HIDE DEF b, n
<1>6. /\ batch_bytes' \in Seq(Seq(Nat)) /\ Len(batch_bytes') = n + 1
      /\ \A i \in 1..n : batch_bytes'[i] = batch_bytes[i]
      /\ batch_bytes'[n + 1] = b
  BY <1>1, <1>4, <1>5, AppendProperties DEF n
<1>7. ASSUME NEW i \in 1..(n + 1) PROVE batch_bytes'[i] = BytesOf(file, chunks[taken + i])
  <2>1. CASE i = n + 1
    BY <1>3, <1>6, <2>1 DEF b
  <2>2. CASE i # n + 1
    BY <1>3, <1>4, <1>6, <2>2
  <2>3. QED
    BY <2>1, <2>2
<1>8. BatchInv'
  <2>1. taken + Len(batch_bytes') <= Len(chunks)
    BY <1>3, <1>6
  <2>2. \A i \in 1..Len(batch_bytes') : batch_bytes'[i] = BytesOf(file, chunks[taken + i])
    BY <1>6, <1>7
  <2>3. batch_bytes' \in Seq(Seq(Nat)) /\ taken' = taken
    BY <1>1, <1>6
  <2>4. QED
    BY <1>2, <2>1, <2>2, <2>3 DEF BatchInv
<1>9. CASE Len(batch_bytes') = BatchLen
  <2>1. pc' = "decode" /\ DOMAIN decoded' = {} /\ decoded' = [i \in DOMAIN decoded' |-> decoded'[i]]
    BY <1>1, <1>3, <1>9 DEF Nothing
  <2>2. DecodedInv'
    BY <2>1 DEF DecodedInv
  <2>3. QED
    BY <1>1, <1>2, <1>3, <1>8, <2>1, <2>2 DEF ColumnsInv
<1>10. CASE Len(batch_bytes') # BatchLen
  <2> DEFINE rest == Len(chunks) - taken
             S == {batch_size, rest}
  <2>1. rest \in Int /\ S = {batch_size, rest} /\ BatchLen = Min(S)
    BY <1>3 DEF BatchLen
  <2>2. /\ BatchLen \in {batch_size, rest}
        /\ BatchLen <= batch_size /\ BatchLen <= rest
    <3> HIDE DEF rest, S
    <3>1. QED
      BY <1>3, <2>1, LeastOfTwo
  <2>3. n + 1 <= batch_size /\ n + 1 <= Len(chunks) - taken /\ n + 1 # BatchLen
    BY <1>3, <1>6, <1>10
  <2>4. n + 1 < batch_size /\ taken + (n + 1) < Len(chunks)
    BY <1>3, <2>1, <2>2, <2>3
  <2>5. pc' = "read"
    BY <1>1, <1>10
  <2>6. QED
    BY <1>1, <1>2, <1>3, <1>6, <1>8, <2>4, <2>5 DEF ColumnsInv
<1>11. QED
  BY <1>9, <1>10

LEMMA DecodeIntoInv ==
  ASSUME SelectionInv, ColumnsInv, NEW i \in DOMAIN batch_bytes, DecodeInto(i)
  PROVE  ColumnsInv'
<1>1. /\ UNCHANGED request
      /\ UNCHANGED <<batch_size, taken, batch_bytes, columns, accepted_points, result>>
      /\ pc = "decode"
      /\ pc' = IF DOMAIN decoded' = DOMAIN batch_bytes THEN "merge" ELSE "decode"
  BY DEF DecodeInto
<1>2. /\ chunks' = chunks /\ file' = file /\ bounds' = bounds /\ All' = All /\ Ahead' = Ahead
  BY <1>1, SameRequest DEF request
<1>3. /\ Merged(taken) /\ result = "running" /\ batch_size \in Nat \ {0}
      /\ BatchInv /\ DecodedInv /\ taken \in 0..Len(chunks) /\ Len(chunks) \in Nat
      /\ Len(batch_bytes) \in Nat /\ DOMAIN batch_bytes = 1..Len(batch_bytes)
  BY <1>1, ColumnsTaken DEF ColumnsInv
<1>4. PICK r \in {Failed} \cup (IF LayersIn(batch_bytes[i])
                                  THEN {ChunkColumns(PointsOfPlace(i))} ELSE {}) :
        decoded' = [j \in DOMAIN decoded \cup {i} |-> IF j = i THEN r ELSE decoded[j]]
  BY DEF DecodeInto
<1>5. r = Failed \/ /\ Whole(file, chunks[taken + i])
                    /\ r = ChunkColumns(PointsOf(file, chunks[taken + i], bounds))
  <2>1. /\ LayersIn(batch_bytes[i]) => Whole(file, chunks[taken + i])
        /\ PointsOfPlace(i) = PointsOf(file, chunks[taken + i], bounds)
    BY <1>3, PlaceOfBatch
  <2>2. r = Failed \/ (LayersIn(batch_bytes[i]) /\ r = ChunkColumns(PointsOfPlace(i)))
    OBVIOUS
  <2>3. QED
    BY <2>1, <2>2
<1>6. DecodedInv'
  <2>1. /\ DOMAIN decoded \subseteq 1..Len(batch_bytes)
        /\ \A j \in DOMAIN decoded :
             \/ decoded[j] = Failed
             \/ /\ Whole(file, chunks[taken + j])
                /\ decoded[j] = ChunkColumns(PointsOf(file, chunks[taken + j], bounds))
    BY <1>3 DEF DecodedInv
  <2>2. DOMAIN decoded' \subseteq 1..Len(batch_bytes)
    BY <1>3, <1>4, <2>1
  <2>3. decoded' = [j \in DOMAIN decoded' |-> decoded'[j]]
    BY <1>4
  <2>4. ASSUME NEW j \in DOMAIN decoded'
        PROVE  \/ decoded'[j] = Failed
               \/ /\ Whole(file, chunks[taken + j])
                  /\ decoded'[j] = ChunkColumns(PointsOf(file, chunks[taken + j], bounds))
    <3>1. decoded'[j] = IF j = i THEN r ELSE decoded[j]
      BY <1>4
    <3>2. j = i \/ j \in DOMAIN decoded
      BY <1>4
    <3>3. QED
      BY <1>5, <2>1, <3>1, <3>2
  <2>5. Failed' = Failed /\ \A p : ChunkColumns(p)' = ChunkColumns(p)
    BY DEF Failed, ChunkColumns
  <2>6. QED
    BY <1>1, <1>2, <2>2, <2>3, <2>4 DEF DecodedInv, ChunkColumns
<1>7. Merged(taken)' /\ BatchInv'
  BY <1>1, <1>2, <1>3 DEF Merged, BatchInv
<1>8. DOMAIN decoded' = DOMAIN batch_bytes =>
        \E k \in 0..Len(batch_bytes') : DOMAIN decoded' = (k + 1)..Len(batch_bytes') /\ Merged(taken + k)'
  <2>1. SUFFICES ASSUME DOMAIN decoded' = DOMAIN batch_bytes
                 PROVE  \E k \in 0..Len(batch_bytes') :
                          DOMAIN decoded' = (k + 1)..Len(batch_bytes') /\ Merged(taken + k)'
    OBVIOUS
  <2>2. 0 \in 0..Len(batch_bytes') /\ DOMAIN decoded' = (0 + 1)..Len(batch_bytes') /\ taken + 0 = taken
    BY <1>1, <1>3, <2>1
  <2>3. Merged(taken + 0)'
    BY <1>7, <2>2, <1>1
  <2>4. QED
    BY <2>2, <2>3
<1>9. QED
  BY <1>1, <1>2, <1>3, <1>6, <1>7, <1>8 DEF ColumnsInv


\* A merge that goes on: the first k places of the batch have been merged.
LEMMA InMerge ==
  ASSUME SelectionInv, ColumnsInv, pc = "merge"
  PROVE  /\ result = "running" /\ batch_size \in Nat \ {0}
         /\ BatchInv /\ DecodedInv /\ taken \in 0..Len(chunks) /\ Len(chunks) \in Nat
         /\ Len(batch_bytes) \in Nat /\ taken + Len(batch_bytes) <= Len(chunks)
         /\ \E k \in 0..Len(batch_bytes) :
              DOMAIN decoded = (k + 1)..Len(batch_bytes) /\ Merged(taken + k)
BY ColumnsTaken DEF ColumnsInv, BatchInv

LEMMA MergeColumnsInv ==
  ASSUME SelectionInv, ColumnsInv, MergeColumns
  PROVE  ColumnsInv' /\ accepted_points \in Nat /\ accepted_points' \in Nat
         /\ accepted_points <= accepted_points'
<1> DEFINE l == Len(batch_bytes)
<1>1. /\ pc = "merge" /\ decoded # Nothing /\ decoded[Place] # Failed
      /\ UNCHANGED <<file, chunks, bounds>> /\ UNCHANGED <<batch_size, pc, taken, batch_bytes, result>>
      /\ columns' = [c \in Columns |-> columns[c] \o decoded[Place].columns[c]]
      /\ accepted_points' = accepted_points + decoded[Place].len
      /\ decoded' = [i \in DOMAIN decoded \ {Place} |-> decoded[i]]
  BY DEF MergeColumns, request
<1>2. UNCHANGED request /\ All' = All /\ Ahead' = Ahead
  <2>1. UNCHANGED request
    BY <1>1 DEF request
  <2>2. QED
    BY <2>1, SameRequest
<1>3. /\ result = "running" /\ batch_size \in Nat \ {0} /\ BatchInv /\ DecodedInv
      /\ taken \in 0..Len(chunks) /\ Len(chunks) \in Nat /\ l \in Nat /\ taken + l <= Len(chunks)
      /\ decoded = [i \in DOMAIN decoded |-> decoded[i]]
  BY <1>1, InMerge DEF DecodedInv
<1>4. PICK k \in 0..l : DOMAIN decoded = (k + 1)..l /\ Merged(taken + k)
  BY <1>1, InMerge
<1>5. /\ k + 1 \in DOMAIN decoded /\ Place = k + 1
      /\ DOMAIN decoded \ {Place} = ((k + 1) + 1)..l /\ k + 1 \in 1..l
  <2>1. k \in Nat /\ k <= l
    BY <1>3
  <2> HIDE DEF l
  <2>2. QED
    BY <1>1, <1>3, <1>4, <2>1, FirstPlace
<1>16. PICK m \in Nat : m = taken + k
  BY <1>3
<1>17. PICK p : p = PointsOf(file, chunks[m + 1], bounds)
  OBVIOUS
<1>6. m + 1 <= Len(chunks) /\ taken + (k + 1) = m + 1 /\ k + 1 \in 0..l
  BY <1>3, <1>5, <1>16
<1>7. Whole(file, chunks[m + 1]) /\ decoded[Place] = ChunkColumns(p)
  <2>1. /\ Whole(file, chunks[taken + (k + 1)])
        /\ decoded[k + 1] = ChunkColumns(PointsOf(file, chunks[taken + (k + 1)], bounds))
    BY <1>1, <1>3, <1>5 DEF DecodedInv
  <2>2. QED
    BY <1>5, <1>6, <1>17, <2>1
<1>8. /\ columns' = [c \in Columns |-> columns[c] \o ChunkColumns(p).columns[c]]
      /\ accepted_points' = accepted_points + ChunkColumns(p).len
  BY <1>1, <1>7
<1>9. Merged(m + 1)'
  <2>1. Merged(m)
    BY <1>4, <1>16
  <2>2. QED
    BY <1>2, <1>6, <1>7, <1>8, <1>17, <2>1, MergedNext
<1>10. BatchInv' /\ DecodedInv'
  <2>1. BatchInv'
    BY <1>1, <1>3 DEF BatchInv
  <2>2. DecodedInv'
    BY <1>1, <1>3 DEF DecodedInv, Failed, ChunkColumns
  <2>3. QED
    BY <2>1, <2>2
<1>11. DOMAIN decoded' = ((k + 1) + 1)..l
  BY <1>1, <1>5
<1>12. \E j \in 0..Len(batch_bytes') : DOMAIN decoded' = (j + 1)..Len(batch_bytes') /\ Merged(taken + j)'
  <2> DEFINE j == k + 1
  <2>1. j \in 0..Len(batch_bytes') /\ DOMAIN decoded' = (j + 1)..Len(batch_bytes')
    BY <1>1, <1>6, <1>11
  <2>2. Merged(taken + j)'
    <3>1. taken + j = m + 1 /\ taken' = taken
      BY <1>1, <1>6
    <3> HIDE DEF j
    <3>2. QED
      BY <1>9, <3>1
  <2> HIDE DEF j
  <2>3. QED
    BY <2>1, <2>2
<1>13. ColumnsInv'
  BY <1>1, <1>3, <1>10, <1>12 DEF ColumnsInv
<1>14. accepted_points \in Nat /\ accepted_points' \in Nat /\ accepted_points <= accepted_points'
  <2>1. p \in Seq(Stored(file, chunks)) /\ ChunkColumns(p).len = Len(p)
    <3>1. m + 1 \in 1..Len(chunks)
      BY <1>6
    <3>2. QED
      BY <1>17, <3>1, AllChunks DEF ChunkColumns
  <2>2. accepted_points = Len(All[m]) /\ All[m] \in Seq(Stored(file, chunks))
    <3>1. m \in 0..Len(chunks)
      BY <1>6
    <3>2. QED
      BY <1>4, <1>16, <3>1, AllChunks DEF Merged
  <2>3. accepted_points \in Nat /\ Len(p) \in Nat
    BY <2>1, <2>2, LenProperties
  <2>4. QED
    BY <1>8, <2>1, <2>3
<1>15. QED
  BY <1>13, <1>14

\* A read that returns has merged the points of a number of chunks.
LEMMA ReturnInv ==
  ASSUME SelectionInv, ColumnsInv, UNCHANGED <<request, batch_size, taken, columns, accepted_points>>,
         pc # "returned", pc' = "returned", result' \in {"ok", "err"}
  PROVE  ColumnsInv'
<1>1. chunks' = chunks /\ All' = All /\ Ahead' = Ahead
  BY SameRequest DEF request
<1>2. PICK m \in 0..Len(chunks) : Merged(m)
  <2>1. CASE pc = "merge"
    <3>1. PICK k \in 0..Len(batch_bytes) : Merged(taken + k)
      BY <2>1, InMerge
    <3>2. taken + k \in 0..Len(chunks)
      BY <3>1 DEF Merged
    <3>3. QED
      BY <3>1, <3>2
  <2>2. CASE pc # "merge"
    BY <2>2, ColumnsTaken DEF ColumnsInv
  <2>3. QED
    BY <2>1, <2>2
<1>3. Merged(m)'
  BY <1>1, <1>2 DEF Merged
<1>4. batch_size \in Nat \ {0} /\ taken \in 0..Len(chunks)
  BY DEF ColumnsInv
<1>5. QED
  BY <1>1, <1>2, <1>3, <1>4 DEF ColumnsInv

LEMMA EndBatchInv ==
  ASSUME SelectionInv, ColumnsInv, EndBatch
  PROVE  ColumnsInv'
<1> DEFINE l == Len(batch_bytes)
<1>1. /\ pc = "merge" /\ decoded = Nothing /\ taken' = taken + l /\ pc' = "batch"
      /\ UNCHANGED request
      /\ UNCHANGED <<batch_size, batch_bytes, decoded, columns, accepted_points, result>>
  BY DEF EndBatch
<1>2. chunks' = chunks /\ All' = All /\ Ahead' = Ahead
  BY <1>1, SameRequest DEF request
<1>3. /\ result = "running" /\ batch_size \in Nat \ {0} /\ taken \in Nat /\ Len(chunks) \in Nat
      /\ l \in Nat /\ taken + l <= Len(chunks)
  BY <1>1, InMerge
<1>4. PICK k \in 0..l : DOMAIN decoded = (k + 1)..l /\ Merged(taken + k)
  BY <1>1, InMerge
<1>5. k = l
  <2>1. DOMAIN decoded = {}
    BY <1>1 DEF Nothing
  <2>2. ~ (k + 1 <= l)
    BY <1>3, <1>4, <2>1
  <2>3. QED
    BY <1>3, <2>2
<1>6. Merged(taken)'
  BY <1>1, <1>2, <1>4, <1>5 DEF Merged
<1>7. taken' \in 0..Len(chunks)
  BY <1>1, <1>3
<1>8. QED
  BY <1>1, <1>2, <1>3, <1>6, <1>7 DEF ColumnsInv

LEMMA ColumnsStep ==
  ASSUME SelectionInv, ColumnsInv, ColumnsNext
  PROVE  /\ SelectionInv' /\ ColumnsInv'
         /\ \/ UNCHANGED <<columns, accepted_points>>
            \/ /\ accepted_points \in Nat /\ accepted_points' \in Nat
               /\ accepted_points <= accepted_points' /\ UNCHANGED result
<1>1. SelectionInv'
  <2>1. UNCHANGED request
    BY DEF ColumnsNext, SetupColumns, StartBatch, ReadChunkBytes, DecodeInto, MergeColumns,
           MeetFailure, EndBatch, FinishColumns, FailColumns
  <2>2. QED
    BY <2>1, SameRequest
<1>2. CASE SetupColumns
  BY <1>1, <1>2, ColumnsSetupInv DEF SetupColumns
<1>3. CASE StartBatch
  BY <1>1, <1>3, StartBatchInv DEF StartBatch
<1>4. CASE ReadChunkBytes
  BY <1>1, <1>4, ReadChunkBytesInv DEF ReadChunkBytes
<1>5. ASSUME NEW i \in DOMAIN batch_bytes, DecodeInto(i)
      PROVE  ColumnsInv' /\ UNCHANGED <<columns, accepted_points>>
  BY <1>5, DecodeIntoInv DEF DecodeInto
<1>6. CASE MergeColumns
  <2>1. UNCHANGED result
    BY <1>6 DEF MergeColumns
  <2>2. QED
    BY <1>1, <1>6, <2>1, MergeColumnsInv
<1>7. CASE MeetFailure
  <2>1. /\ UNCHANGED <<request, batch_size, taken, columns, accepted_points>>
        /\ pc # "returned" /\ pc' = "returned" /\ result' \in {"ok", "err"}
    BY <1>7 DEF MeetFailure, Return
  <2>2. QED
    BY <1>1, <2>1, ReturnInv
<1>8. CASE EndBatch
  BY <1>1, <1>8, EndBatchInv DEF EndBatch
<1>9. CASE FinishColumns
  <2>1. /\ UNCHANGED <<request, batch_size, taken, columns, accepted_points>>
        /\ pc # "returned" /\ pc' = "returned" /\ result' \in {"ok", "err"}
    BY <1>9 DEF FinishColumns, Return
  <2>2. QED
    BY <1>1, <2>1, ReturnInv
<1>10. CASE FailColumns
  <2>1. /\ UNCHANGED <<request, batch_size, taken, columns, accepted_points>>
        /\ pc # "returned" /\ pc' = "returned" /\ result' \in {"ok", "err"}
    BY <1>10 DEF FailColumns, Return
  <2>2. QED
    BY <1>1, <2>1, ReturnInv
<1>11. QED
  BY <1>1, <1>2, <1>3, <1>4, <1>5, <1>6, <1>7, <1>8, <1>9, <1>10 DEF ColumnsNext

LEMMA ColumnsDeliver ==
  ASSUME SelectionInv, ColumnsInv
  PROVE  Rows \in Seq(Stored(file, chunks)) /\ Prefix(Rows, All[Ahead])
<1>1. PICK m : Merged(m)
  <2>1. CASE pc = "merge"
    BY <2>1, InMerge
  <2>2. CASE pc # "merge"
    BY <2>2 DEF ColumnsInv
  <2>3. QED
    BY <2>1, <2>2
<1>2. QED
  BY <1>1, RowsMerged


-----------------------------------------------------------------------------
(***************************************************************************)
(* Range requests.                                                         *)
(***************************************************************************)
LEMMA LastAndFront ==
  ASSUME NEW S, NEW s \in Seq(S), s # <<>>
  PROVE  /\ Len(s) \in Nat /\ Len(s) > 0 /\ Last(s) = s[Len(s)] /\ Last(s) \in S
         /\ Front(s) \in Seq(S) /\ Len(Front(s)) = Len(s) - 1
         /\ \A i \in 1..(Len(s) - 1) : Front(s)[i] = s[i]
<1>1. Len(s) \in Nat /\ Len(s) > 0 /\ \A i \in 1..Len(s) : s[i] \in S
  BY LenProperties, ElementOfSeq
<1>2. Last(s) = s[Len(s)] /\ s[Len(s)] \in S
  BY <1>1 DEF Last
<1> DEFINE n == Len(s) - 1
           f == SubSeq(s, 1, n)
<1>3. n \in Int /\ 1 \in Int /\ \A i \in 1..n : s[i] \in S
  BY <1>1
<1>4. Front(s) = f
  BY DEF Front
<1>5. n \in Nat
  BY <1>1
<1> HIDE DEF n
<1>6. /\ f \in Seq(S) /\ Len(f) = IF 1 <= n THEN n - 1 + 1 ELSE 0
      /\ \A i \in 1..(n - 1 + 1) : f[i] = s[1 + i - 1]
  BY <1>3, SubSeqProperties
<1> HIDE DEF f
<1>7. Len(f) = n /\ \A i \in 1..n : f[i] = s[i]
  BY <1>5, <1>6
<1>8. QED
  BY <1>1, <1>2, <1>4, <1>6, <1>7 DEF n

LEMMA GreaterOfTwo ==
  ASSUME NEW a \in Int, NEW b \in Int, NEW S, S = {a, b}
  PROVE  Max(S) \in {a, b} /\ (a <= b => Max(S) = b)
<1>1. \E x \in S : \A y \in S : x >= y
  OBVIOUS
<1>2. Max(S) \in S /\ \A y \in S : Max(S) >= y
  BY <1>1 DEF Max
<1>3. QED
  BY <1>2

LEMMA AddChunkType ==
  ASSUME SelectionInv, NEW gs \in Seq(Groups), NEW e \in file.entries
  PROVE  AddChunk(gs, e) \in Seq(Groups)
<1>1. e.offset \in Nat /\ EndOf(e) \in Nat
  BY PointFilesAssumption DEF SelectionInv, ChunkEntry, EndOf
<1>2. CASE gs # <<>> /\ Joins(Last(gs), e)
  <2> DEFINE last == Last(gs)
             S == {last.end, EndOf(e)}
             g == [start |-> last.start, end |-> Max(S), entries |-> Append(last.entries, e)]
  <2>1. last \in Groups /\ Front(gs) \in Seq(Groups)
    BY <1>2, LastAndFront
  <2>2. last.start \in Nat /\ last.end \in Nat /\ last.entries \in Seq(file.entries)
    BY <2>1 DEF Groups
  <2>3. Max(S) \in Nat
    <3>1. S = {last.end, EndOf(e)}
      OBVIOUS
    <3> HIDE DEF S
    <3>2. QED
      BY <1>1, <2>2, <3>1, GreaterOfTwo
  <2>4. Append(last.entries, e) \in Seq(file.entries)
    BY <2>2, AppendProperties
  <2>5. g \in Groups
    BY <2>2, <2>3, <2>4 DEF Groups
  <2>6. AddChunk(gs, e) = Append(Front(gs), g)
    BY <1>2 DEF AddChunk
  <2> DEFINE f == Front(gs)
  <2> HIDE DEF g, f
  <2>7. f \in Seq(Groups) /\ AddChunk(gs, e) = Append(f, g)
    BY <2>1, <2>6 DEF f
  <2>8. QED
    BY <2>5, <2>7, AppendProperties
<1>3. CASE ~ (gs # <<>> /\ Joins(Last(gs), e))
  <2> DEFINE s == <<e>>
             g == [start |-> e.offset, end |-> EndOf(e), entries |-> s]
  <2>1. g \in Groups
    <3>1. s \in Seq(file.entries)
      <4> DEFINE E == file.entries
      <4>1. e \in E
        OBVIOUS
      <4> HIDE DEF E
      <4>2. s \in Seq(E)
        BY <4>1
      <4>3. QED
        BY <4>2 DEF E
    <3> HIDE DEF s
    <3>2. QED
      BY <1>1, <3>1 DEF Groups
  <2>2. AddChunk(gs, e) = Append(gs, g)
    BY <1>3 DEF AddChunk
  <2> HIDE DEF g
  <2>3. QED
    BY <2>1, <2>2, AppendProperties
<1>4. QED
  BY <1>2, <1>3

GroupRound(list, grouped, n) == IF n = 0 THEN <<>> ELSE AddChunk(grouped[n - 1], list[n])

\* The groups made of the first n chunks.
Grouped(list) ==
  CHOOSE grouped : grouped = [n \in 0..Len(list) |-> GroupRound(list, grouped, n)]

LEMMA CoalesceIsGrouped ==
  ASSUME NEW list
  PROVE  CoalesceChunks(list) = Grouped(list)[Len(list)]
BY DEF CoalesceChunks, Grouped, GroupRound

LEMMA GroupedSteps ==
  ASSUME SelectionInv
  PROVE  /\ Grouped(chunks)[0] = <<>>
         /\ \A n \in 1..Len(chunks) : Grouped(chunks)[n] = AddChunk(Grouped(chunks)[n - 1], chunks[n])
<1> DEFINE N == Len(chunks)
           V == Seq(Groups)
           round == [i \in 1..N |-> [s \in V |-> AddChunk(s, chunks[i])]]
           eqn(g) == g = [n \in 0..N |-> GroupRound(chunks, g, n)]
           it == Grouped(chunks)
<1>1. N \in Nat /\ <<>> \in V /\ \A i \in 1..N : chunks[i] \in file.entries
  BY LenProperties, ElementOfSeq, EmptySeq DEF SelectionInv
<1>2. \A s \in V, i \in 1..N : AddChunk(s, chunks[i]) \in V
  BY <1>1, AddChunkType
<1> HIDE DEF V
<1>3. round \in [1..N -> [V -> V]]
  BY <1>2
<1>4. PICK g \in [0..N -> V] : g[0] = <<>> /\ \A i \in 1..N : g[i] = round[i][g[i - 1]]
  <2> DEFINE base == <<>>
  <2>1. base \in V
    BY <1>1
  <2> HIDE DEF N, round, base
  <2>2. \E g : RunOf(g, V, N, base, round)
    BY <1>1, <1>3, <2>1, Recursion
  <2>3. QED
    BY <2>2 DEF base, RunOf
<1>5. \E g_1 : eqn(g_1)
  <2>1. ASSUME NEW n \in 0..N PROVE g[n] = GroupRound(chunks, g, n)
    <3>1. CASE n = 0
      BY <1>4, <3>1 DEF GroupRound
    <3>2. CASE n # 0
      <4>1. n \in 1..N /\ n - 1 \in 0..N
        BY <1>1, <3>2
      <4>2. g[n] = round[n][g[n - 1]] /\ g[n - 1] \in V
        <5> HIDE DEF round, N
        <5>1. QED
          BY <1>4, <4>1
      <4>3. g[n] = AddChunk(g[n - 1], chunks[n])
        BY <4>1, <4>2
      <4>4. QED
        BY <3>2, <4>3 DEF GroupRound
    <3>3. QED
      BY <3>1, <3>2
  <2>2. eqn(g)
    BY <2>1
  <2>3. QED
    BY <2>2
<1>6. eqn(it)
  <2>1. it = CHOOSE g_1 : eqn(g_1)
    BY DEF Grouped
  <2> HIDE DEF it, eqn
  <2>2. QED
    BY <1>5, <2>1
<1>7. \A n \in 0..N : it[n] = GroupRound(chunks, it, n)
  <2> HIDE DEF it
  <2>1. QED
    BY <1>6
<1> HIDE DEF it
<1>8. it[0] = <<>>
  <2>1. 0 \in 0..N
    BY <1>1
  <2>2. QED
    BY <1>7, <2>1, Zenon DEF GroupRound
<1>9. ASSUME NEW n \in 1..N PROVE it[n] = AddChunk(it[n - 1], chunks[n])
  <2>1. n \in 0..N /\ n # 0
    BY <1>1
  <2>2. QED
    BY <1>7, <2>1, Zenon DEF GroupRound
<1>10. QED
  BY <1>8, <1>9 DEF it, N

\* The chunks are in file order, their ends too.
LEMMA ChunksRise ==
  ASSUME SelectionInv, NEW i \in 1..Len(chunks), NEW j \in i..Len(chunks)
  PROVE  /\ chunks[i].offset <= chunks[j].offset /\ EndOf(chunks[i]) <= EndOf(chunks[j])
         /\ i < j => EndOf(chunks[i]) <= chunks[j].offset
<1>1. Len(chunks) \in Nat /\ j \in 1..Len(chunks)
  BY SelectedChunks
<1>2. /\ chunks[i].offset \in Nat /\ chunks[i].byte_size \in Nat /\ EndOf(chunks[i]) \in Nat
      /\ EndOf(chunks[i]) = chunks[i].offset + chunks[i].byte_size
      /\ chunks[j].offset \in Nat /\ chunks[j].byte_size \in Nat /\ EndOf(chunks[j]) \in Nat
      /\ EndOf(chunks[j]) = chunks[j].offset + chunks[j].byte_size
  BY <1>1, SelectedChunks
<1>3. i < j => EndOf(chunks[i]) <= chunks[j].offset
  BY <1>1 DEF SelectionInv
<1>4. CASE i < j
  <2>1. EndOf(chunks[i]) <= chunks[j].offset
    BY <1>3, <1>4
  <2>2. chunks[i].offset <= EndOf(chunks[i]) /\ chunks[j].offset <= EndOf(chunks[j])
    BY <1>2
  <2>3. QED
    BY <1>2, <2>1, <2>2
<1>5. CASE ~ (i < j)
  <2>1. i = j
    BY <1>1, <1>5
  <2>2. QED
    BY <1>2, <2>1
<1>6. QED
  BY <1>4, <1>5


LEMMA PartOf ==
  ASSUME NEW S, NEW s \in Seq(S), NEW a \in 1..(Len(s) + 1), NEW b \in (a - 1)..Len(s)
  PROVE  LET q == SubSeq(s, a, b) IN
         q \in Seq(S) /\ Len(q) = b - a + 1 /\ \A i \in 1..(b - a + 1) : q[i] = s[a + i - 1]
<1>1. Len(s) \in Nat /\ a \in Int /\ b \in Int /\ \A i \in a..b : s[i] \in S
  BY LenProperties, ElementOfSeq
<1>2. /\ SubSeq(s, a, b) \in Seq(S)
      /\ Len(SubSeq(s, a, b)) = IF a <= b THEN b - a + 1 ELSE 0
      /\ \A i \in 1..(b - a + 1) : SubSeq(s, a, b)[i] = s[a + i - 1]
  BY <1>1, SubSeqProperties
<1>3. Len(SubSeq(s, a, b)) = b - a + 1
  BY <1>1, <1>2
<1>4. QED
  BY <1>2, <1>3

LEMMA PartGrows ==
  ASSUME NEW S, NEW s \in Seq(S), NEW a \in 1..Len(s), NEW n \in a..Len(s)
  PROVE  Append(SubSeq(s, a, n - 1), s[n]) = SubSeq(s, a, n)
<1> DEFINE q == SubSeq(s, a, n - 1)
           t == SubSeq(s, a, n)
           k == n - a
<1>1. /\ Len(s) \in Nat /\ a \in 1..(Len(s) + 1) /\ n - 1 \in (a - 1)..Len(s)
      /\ n \in (a - 1)..Len(s) /\ k \in Nat /\ (n - 1) - a + 1 = k /\ n - a + 1 = k + 1
      /\ a + (k + 1) - 1 = n
  BY LenProperties
<1>2. s[n] \in S
  BY <1>1, ElementOfSeq
<1>3. q \in Seq(S) /\ Len(q) = (n - 1) - a + 1 /\ \A i \in 1..((n - 1) - a + 1) : q[i] = s[a + i - 1]
  BY <1>1, PartOf
<1>4. t \in Seq(S) /\ Len(t) = n - a + 1 /\ \A i \in 1..(n - a + 1) : t[i] = s[a + i - 1]
  BY <1>1, PartOf
<1> HIDE DEF q, t, k
<1>5. /\ Append(q, s[n]) \in Seq(S) /\ Len(Append(q, s[n])) = k + 1
      /\ \A i \in 1..k : Append(q, s[n])[i] = q[i]
      /\ Append(q, s[n])[k + 1] = s[n]
  <2> DEFINE e == s[n]
  <2>1. e \in S /\ Len(q) = k
    BY <1>1, <1>2, <1>3
  <2> HIDE DEF e
  <2>2. /\ Append(q, e) \in Seq(S) /\ Len(Append(q, e)) = Len(q) + 1
        /\ \A i \in 1..Len(q) : Append(q, e)[i] = q[i]
        /\ Append(q, e)[Len(q) + 1] = e
    BY <1>3, <2>1, AppendProperties
  <2>3. QED
    BY <2>1, <2>2 DEF e
<1>6. ASSUME NEW i \in 1..(k + 1) PROVE Append(q, s[n])[i] = t[i]
  <2>1. t[i] = s[a + i - 1]
    BY <1>1, <1>4
  <2>2. CASE i = k + 1
    BY <1>1, <1>5, <2>1, <2>2
  <2>3. CASE i # k + 1
    <3>1. i \in 1..k
      BY <1>1, <2>3
    <3>2. QED
      BY <1>1, <1>3, <1>5, <2>1, <3>1
  <2>4. QED
    BY <2>2, <2>3
<1> DEFINE r == Append(q, s[n])
<1>7. r \in Seq(S) /\ Len(r) = Len(t) /\ \A i \in 1..Len(r) : r[i] = t[i]
  BY <1>1, <1>4, <1>5, <1>6
<1> HIDE DEF r
<1>8. r = t
  BY <1>4, <1>7, SeqEqual
<1>9. QED
  BY <1>8 DEF r, q, t

\* A chunk that joins the last group.
LEMMA JoinedTile ==
  ASSUME SelectionInv, NEW n \in 1..Len(chunks), NEW gs, Tile(gs, 0, n - 1),
         gs # <<>>, Joins(Last(gs), chunks[n])
  PROVE  Tile(AddChunk(gs, chunks[n]), 0, n)
<1> DEFINE e == chunks[n]
           l == Len(gs)
           last == Last(gs)
           f == Front(gs)
           rs == AddChunk(gs, e)
<1>1. gs \in Seq(Groups)
  BY DEF Tile
<1>2. PICK cut \in [0..l -> 0..Len(chunks)] :
        cut[0] = 0 /\ cut[l] = n - 1 /\ \A i \in 1..l : GroupOf(gs[i], cut[i - 1] + 1, cut[i])
  BY DEF Tile
<1>3. /\ l \in Nat /\ l > 0 /\ last = gs[l] /\ f \in Seq(Groups) /\ Len(f) = l - 1
      /\ \A i \in 1..(l - 1) : f[i] = gs[i]
  BY <1>1, LastAndFront
<1>4. Len(chunks) \in Nat /\ n \in Nat /\ n \in 0..Len(chunks)
  BY SelectedChunks
<1> DEFINE a == cut[l - 1] + 1
<1>5. GroupOf(last, a, n - 1)
  <2>1. l \in 1..l
    BY <1>3
  <2>2. QED
    BY <1>2, <1>3, <2>1
<1>6. /\ a \in 1..(n - 1) /\ n - 1 \in 1..Len(chunks)
      /\ last.start = chunks[a].offset /\ last.end = EndOf(chunks[n - 1])
      /\ last.entries = SubSeq(chunks, a, n - 1)
      /\ \A i \in a..(n - 2) : chunks[i + 1].offset <= EndOf(chunks[i]) + Gap
  <2>1. Together(a, n - 1) /\ last = [start |-> chunks[a].offset, end |-> EndOf(chunks[n - 1]),
                                      entries |-> SubSeq(chunks, a, n - 1)]
    BY <1>5 DEF GroupOf
  <2>2. /\ a \in 1..Len(chunks) /\ n - 1 \in a..Len(chunks)
        /\ \A i \in a..((n - 1) - 1) : chunks[i + 1].offset <= EndOf(chunks[i]) + Gap
    BY <2>1 DEF Together
  <2> HIDE DEF a, last
  <2>3. a \in 1..(n - 1) /\ n - 1 \in 1..Len(chunks) /\ (n - 1) - 1 = n - 2
    BY <1>4, <2>2
  <2>4. QED
    BY <2>1, <2>2, <2>3
<1> HIDE DEF a
<1>7. /\ e.offset <= EndOf(chunks[n - 1]) + Gap /\ EndOf(e) - chunks[a].offset <= MaxRange
      /\ EndOf(chunks[n - 1]) <= EndOf(e)
      /\ EndOf(e) \in Nat /\ EndOf(chunks[n - 1]) \in Nat
  <2>1. e.offset <= last.end + Gap /\ EndOf(e) - last.start <= MaxRange
    BY DEF Joins
  <2>2. n \in (n - 1)..Len(chunks)
    BY <1>4
  <2>3. EndOf(chunks[n - 1]) <= EndOf(e)
    BY <1>6, <2>2, ChunksRise
  <2>4. EndOf(e) \in Nat /\ EndOf(chunks[n - 1]) \in Nat
    BY <1>6, SelectedChunks
  <2>5. QED
    BY <1>6, <2>1, <2>3, <2>4
<1> DEFINE g == [start |-> chunks[a].offset, end |-> EndOf(e), entries |-> SubSeq(chunks, a, n)]
<1>8. rs = Append(f, g)
  <2> DEFINE S == {last.end, EndOf(e)}
  <2>1. Max(S) = EndOf(e)
    <3>1. S = {EndOf(chunks[n - 1]), EndOf(e)}
      BY <1>6
    <3> HIDE DEF S
    <3>2. QED
      BY <1>7, <3>1, GreaterOfTwo
  <2>2. Append(last.entries, e) = SubSeq(chunks, a, n)
    <3>1. chunks \in Seq(file.entries) /\ a \in 1..Len(chunks) /\ n \in a..Len(chunks)
      BY <1>4, <1>6 DEF SelectionInv
    <3>2. Append(SubSeq(chunks, a, n - 1), chunks[n]) = SubSeq(chunks, a, n)
      BY <3>1, PartGrows
    <3>3. QED
      BY <1>6, <3>2
  <2>3. rs = Append(f, [start |-> last.start, end |-> Max(S), entries |-> Append(last.entries, e)])
    BY DEF AddChunk
  <2> HIDE DEF S, last, f, rs, e
  <2>4. QED
    BY <1>6, <2>1, <2>2, <2>3
<1>9. rs \in Seq(Groups) /\ e \in file.entries
  <2>1. e \in file.entries
    BY ElementOfSeq DEF SelectionInv
  <2>2. QED
    BY <1>1, <2>1, AddChunkType
<1>10. g \in Groups
  <2>1. chunks[a].offset \in Nat
    <3>1. a \in 1..Len(chunks)
      BY <1>4, <1>6
    <3>2. QED
      BY <3>1, SelectedChunks
  <2>2. SubSeq(chunks, a, n) \in Seq(file.entries)
    <3>1. chunks \in Seq(file.entries) /\ a \in 1..(Len(chunks) + 1) /\ n \in (a - 1)..Len(chunks)
      BY <1>4, <1>6 DEF SelectionInv
    <3>2. QED
      BY <3>1, PartOf
  <2> DEFINE es == SubSeq(chunks, a, n)
  <2> HIDE DEF es
  <2>3. es \in Seq(file.entries)
    BY <2>2 DEF es
  <2>4. [start |-> chunks[a].offset, end |-> EndOf(e), entries |-> es] \in Groups
    <3> HIDE DEF e
    <3>1. QED
      BY <1>7, <2>1, <2>3 DEF Groups
  <2>5. QED
    BY <2>4 DEF es
<1>11. /\ Len(rs) = l /\ rs[l] = g /\ \A i \in 1..(l - 1) : rs[i] = gs[i]
  <2> HIDE DEF f, g, rs, l
  <2>1. /\ Len(Append(f, g)) = Len(f) + 1 /\ \A i \in 1..Len(f) : Append(f, g)[i] = f[i]
        /\ Append(f, g)[Len(f) + 1] = g
    BY <1>3, <1>10, AppendProperties
  <2>2. Len(f) + 1 = l
    BY <1>3
  <2>3. QED
    BY <1>3, <1>8, <2>1, <2>2
<1>12. GroupOf(g, a, n)
  <2>1. a \in 1..Len(chunks) /\ n \in a..Len(chunks)
    BY <1>4, <1>6
  <2>2. ASSUME NEW i \in a..(n - 1) PROVE chunks[i + 1].offset <= EndOf(chunks[i]) + Gap
    <3>1. CASE i = n - 1
      BY <1>4, <1>7, <3>1
    <3>2. CASE i # n - 1
      <4>1. i \in a..(n - 2)
        BY <1>4, <1>6, <3>2
      <4>2. QED
        BY <1>6, <4>1
    <3>3. QED
      BY <3>1, <3>2
  <2>3. Together(a, n)
    BY <1>7, <2>1, <2>2 DEF Together
  <2>4. QED
    BY <2>3 DEF GroupOf
<1> DEFINE c == [cut EXCEPT ![l] = n]
<1>13. c \in [0..l -> 0..Len(chunks)] /\ c[0] = 0 /\ c[l] = n
       /\ \A i \in 0..(l - 1) : c[i] = cut[i]
  BY <1>2, <1>3, <1>4
<1>14. ASSUME NEW i \in 1..l PROVE GroupOf(rs[i], c[i - 1] + 1, c[i])
  <2> HIDE DEF c, rs, g, l, a
  <2>1. CASE i = l
    <3>1. c[i - 1] = cut[l - 1] /\ c[i] = n /\ rs[i] = g
      BY <1>3, <1>11, <1>13, <2>1
    <3>2. QED
      BY <1>12, <3>1 DEF a
  <2>2. CASE i # l
    <3>1. i \in 1..(l - 1) /\ i \in 0..(l - 1) /\ i - 1 \in 0..(l - 1)
      BY <1>3, <2>2
    <3>2. c[i - 1] = cut[i - 1] /\ c[i] = cut[i] /\ rs[i] = gs[i]
      BY <1>11, <1>13, <3>1
    <3>3. QED
      BY <1>2, <3>2
  <2>3. QED
    BY <2>1, <2>2
<1> HIDE DEF c, rs, l
<1>15. QED
  BY <1>9, <1>11, <1>13, <1>14 DEF Tile, rs



LEMMA OneElement ==
  ASSUME NEW S, NEW s \in Seq(S), Len(s) = 1, NEW e \in S, s[1] = e
  PROVE  s = <<e>>
<1> DEFINE u == <<e>>
<1>1. u \in Seq(S) /\ Len(u) = 1 /\ u[1] = e
  OBVIOUS
<1> HIDE DEF u
<1>2. Len(s) = Len(u) /\ \A i \in 1..Len(s) : s[i] = u[i]
  BY <1>1
<1>3. s = u
  BY <1>1, <1>2, SeqEqual
<1>4. QED
  BY <1>3 DEF u

\* A chunk that starts a group of its own.
LEMMA StartedTile ==
  ASSUME SelectionInv, NEW n \in 1..Len(chunks), NEW gs, Tile(gs, 0, n - 1),
         ~ (gs # <<>> /\ Joins(Last(gs), chunks[n]))
  PROVE  Tile(AddChunk(gs, chunks[n]), 0, n)
<1> DEFINE e == chunks[n]
           l == Len(gs)
           rs == AddChunk(gs, e)
           g == [start |-> e.offset, end |-> EndOf(e), entries |-> <<e>>]
<1>1. gs \in Seq(Groups) /\ l \in Nat
  BY LenProperties DEF Tile
<1>2. PICK cut \in [0..l -> 0..Len(chunks)] :
        cut[0] = 0 /\ cut[l] = n - 1 /\ \A i \in 1..l : GroupOf(gs[i], cut[i - 1] + 1, cut[i])
  BY DEF Tile
<1>3. Len(chunks) \in Nat /\ n \in Nat /\ n \in 0..Len(chunks) /\ e \in file.entries
  BY SelectedChunks, ElementOfSeq DEF SelectionInv
<1>4. rs = Append(gs, g) /\ rs \in Seq(Groups)
  BY <1>1, <1>3, AddChunkType DEF AddChunk
<1>5. GroupOf(g, n, n)
  <2>1. Together(n, n)
    BY <1>3 DEF Together
  <2>2. SubSeq(chunks, n, n) = <<e>>
    <3> DEFINE s == SubSeq(chunks, n, n)
    <3>1. /\ chunks \in Seq(file.entries) /\ n \in 1..(Len(chunks) + 1) /\ n \in (n - 1)..Len(chunks)
          /\ n - n + 1 = 1 /\ n + 1 - 1 = n
      BY <1>3 DEF SelectionInv
    <3>2. s \in Seq(file.entries) /\ Len(s) = n - n + 1 /\ \A i \in 1..(n - n + 1) : s[i] = chunks[n + i - 1]
      BY <3>1, PartOf
    <3> HIDE DEF s
    <3>3. s[1] = e
      BY <3>1, <3>2
    <3>4. s \in Seq(file.entries) /\ Len(s) = 1
      BY <3>1, <3>2
    <3>5. s = <<e>>
      BY <1>3, <3>3, <3>4, OneElement
    <3>6. QED
      BY <3>5 DEF s
  <2>3. QED
    BY <2>1, <2>2 DEF GroupOf
<1>6. /\ Len(rs) = l + 1 /\ rs[l + 1] = g /\ \A i \in 1..l : rs[i] = gs[i]
  <2>1. g \in Groups
    <3> DEFINE s == <<e>>
    <3>1. s \in Seq(file.entries)
      <4> DEFINE E == file.entries
      <4>1. e \in E
        BY <1>3
      <4> HIDE DEF E, e
      <4>2. s \in Seq(E)
        BY <4>1
      <4>3. QED
        BY <4>2 DEF E
    <3> HIDE DEF s
    <3>2. e.offset \in Nat /\ EndOf(e) \in Nat
      BY SelectedChunks
    <3> HIDE DEF e
    <3>3. [start |-> e.offset, end |-> EndOf(e), entries |-> s] \in Groups
      BY <3>1, <3>2 DEF Groups
    <3>4. QED
      BY <3>3 DEF s
  <2> HIDE DEF g, rs
  <2>2. QED
    BY <1>1, <1>4, <2>1, AppendProperties
<1> DEFINE c == [i \in 0..(l + 1) |-> IF i = l + 1 THEN n ELSE cut[i]]
<1>7. c \in [0..(l + 1) -> 0..Len(chunks)] /\ c[0] = 0 /\ c[l + 1] = n
      /\ \A i \in 0..l : c[i] = cut[i]
  <2>1. \A i \in 0..(l + 1) : i # l + 1 => i \in 0..l
    BY <1>1
  <2>2. \A i \in 0..l : i \in 0..(l + 1) /\ i # l + 1
    BY <1>1
  <2>3. l + 1 \in 0..(l + 1) /\ 0 \in 0..l
    BY <1>1
  <2> HIDE DEF l
  <2>4. \A i \in 0..l : c[i] = cut[i]
    BY <2>2
  <2>5. c[l + 1] = n
    BY <2>3
  <2>6. c \in [0..(l + 1) -> 0..Len(chunks)]
    BY <1>2, <1>3, <2>1
  <2>7. QED
    BY <1>2, <2>3, <2>4, <2>5, <2>6
<1>8. ASSUME NEW i \in 1..(l + 1) PROVE GroupOf(rs[i], c[i - 1] + 1, c[i])
  <2> HIDE DEF c, rs, g
  <2>1. CASE i = l + 1
    <3>1. l \in 0..l /\ i - 1 = l
      BY <1>1, <2>1
    <3>2. c[i - 1] = n - 1 /\ c[i] = n /\ rs[i] = g
      BY <1>2, <1>6, <1>7, <2>1, <3>1
    <3>3. (n - 1) + 1 = n
      BY <1>3
    <3>4. QED
      BY <1>5, <3>2, <3>3
  <2>2. CASE i # l + 1
    <3>1. i \in 1..l /\ i \in 0..l /\ i - 1 \in 0..l
      BY <1>1, <2>2
    <3>2. c[i - 1] = cut[i - 1] /\ c[i] = cut[i] /\ rs[i] = gs[i]
      BY <1>6, <1>7, <3>1
    <3>3. QED
      BY <1>2, <3>1, <3>2
  <2>3. QED
    BY <2>1, <2>2
<1> HIDE DEF c, rs
<1>9. QED
  BY <1>4, <1>6, <1>7, <1>8 DEF Tile, rs

\* The groups made of the chunks have all of them.
LEMMA CoalescedTile ==
  ASSUME SelectionInv
  PROVE  Tile(CoalesceChunks(chunks), 0, Len(chunks))
<1> DEFINE N == Len(chunks)
           it == Grouped(chunks)
           F == {n \in 0..N : Tile(it[n], 0, n)}
<1>1. N \in Nat /\ it[0] = <<>> /\ \A n \in 1..N : it[n] = AddChunk(it[n - 1], chunks[n])
  BY SelectedChunks, GroupedSteps
<1> HIDE DEF it
<1>2. 0 \in F
  <2> DEFINE c == [i \in 0..0 |-> 0]
  <2>1. it[0] \in Seq(Groups) /\ Len(it[0]) = 0
    BY <1>1, EmptySeq
  <2>2. c \in [0..Len(it[0]) -> 0..Len(chunks)] /\ c[0] = 0 /\ c[Len(it[0])] = 0
    BY <1>1, <2>1
  <2>3. \A i \in 1..Len(it[0]) : GroupOf(it[0][i], c[i - 1] + 1, c[i])
    BY <2>1
  <2> HIDE DEF c
  <2>4. Tile(it[0], 0, 0)
    BY <2>1, <2>2, <2>3 DEF Tile
  <2>5. QED
    BY <1>1, <2>4
<1>3. ASSUME NEW n \in (0 + 1)..N, n - 1 \in F PROVE n \in F
  <2>1. n \in 1..Len(chunks) /\ n \in 0..N /\ Tile(it[n - 1], 0, n - 1)
    BY <1>1, <1>3
  <2>2. it[n] = AddChunk(it[n - 1], chunks[n])
    BY <1>1, <2>1
  <2>3. Tile(AddChunk(it[n - 1], chunks[n]), 0, n)
    BY <2>1, JoinedTile, StartedTile
  <2>4. QED
    BY <2>1, <2>2, <2>3
<1>4. 0..N \subseteq F
  <2>1. 0 \in Int /\ N \in Int
    BY <1>1
  <2> HIDE DEF F, N
  <2>2. QED
    BY <1>2, <1>3, <2>1, CountUp
<1>5. Tile(it[N], 0, N)
  <2>1. N \in 0..N
    BY <1>1
  <2>2. QED
    BY <1>4, <2>1
<1>6. QED
  BY <1>5, CoalesceIsGrouped DEF it


LEMMA TileHead ==
  ASSUME SelectionInv, NEW gs, NEW k \in 0..Len(chunks), Tile(gs, k, Len(chunks)), gs # <<>>
  PROVE  \E m \in (k + 1)..Len(chunks) :
           GroupOf(Head(gs), k + 1, m) /\ Tile(Tail(gs), m, Len(chunks))
<1> DEFINE l == Len(gs)
           ts == Tail(gs)
<1>1. Len(chunks) \in Nat
  BY SelectedChunks
<1>2. gs \in Seq(Groups)
  BY DEF Tile
<1>3. PICK cut \in [0..l -> 0..Len(chunks)] :
        cut[0] = k /\ cut[l] = Len(chunks)
        /\ \A i \in 1..l : GroupOf(gs[i], cut[i - 1] + 1, cut[i])
  BY DEF Tile
<1>4. l \in Nat /\ l > 0 /\ Head(gs) = gs[1]
  BY <1>2
<1>5. ts \in Seq(Groups) /\ Len(ts) = l - 1 /\ \A i \in 1..(l - 1) : ts[i] = gs[i + 1]
  BY <1>2, HeadTailProperties
<1> HIDE DEF l, ts
<1> DEFINE m == cut[1]
<1>6. 1 \in 1..l /\ 1 \in 0..l /\ 1 - 1 = 0
  BY <1>4
<1>7. GroupOf(Head(gs), k + 1, m)
  BY <1>3, <1>4, <1>6
<1>8. m \in (k + 1)..Len(chunks)
  BY <1>7 DEF GroupOf, Together
<1> DEFINE c == [i \in 0..(l - 1) |-> cut[i + 1]]
<1>9. ASSUME NEW i \in 0..(l - 1) PROVE c[i] = cut[i + 1] /\ c[i] \in 0..Len(chunks)
  <2>1. i + 1 \in 0..l
    BY <1>4
  <2>2. QED
    BY <1>3, <2>1
<1>10. c \in [0..(l - 1) -> 0..Len(chunks)]
  BY <1>9
<1>11. c[0] = m /\ c[l - 1] = Len(chunks)
  <2>1. 0 \in 0..(l - 1) /\ l - 1 \in 0..(l - 1) /\ (l - 1) + 1 = l /\ 0 + 1 = 1
    BY <1>4
  <2> HIDE DEF c
  <2>2. c[0] = cut[0 + 1] /\ c[l - 1] = cut[(l - 1) + 1]
    BY <1>9, <2>1
  <2>3. QED
    BY <1>3, <2>1, <2>2
<1>12. ASSUME NEW i \in 1..(l - 1) PROVE GroupOf(ts[i], c[i - 1] + 1, c[i])
  <2>1. i \in 0..(l - 1) /\ i - 1 \in 0..(l - 1) /\ i + 1 \in 1..l /\ (i - 1) + 1 = i /\ (i + 1) - 1 = i
    BY <1>4
  <2>2. c[i - 1] = cut[(i - 1) + 1] /\ c[i] = cut[i + 1] /\ ts[i] = gs[i + 1]
    BY <1>5, <1>9, <2>1
  <2> HIDE DEF c
  <2>3. GroupOf(gs[i + 1], cut[(i + 1) - 1] + 1, cut[i + 1])
    BY <1>3, <2>1
  <2>4. QED
    BY <2>1, <2>2, <2>3
<1> HIDE DEF c, m
<1>13. Tile(ts, m, Len(chunks))
  BY <1>5, <1>10, <1>11, <1>12 DEF Tile
<1>14. QED
  BY <1>7, <1>8, <1>13 DEF ts

LEMMA TileEnd ==
  ASSUME NEW k, NEW m, Tile(<<>>, k, m)
  PROVE  k = m
BY DEF Tile

\* A request for the chunks after those asked for so far.
LEMMA RequestsGrow ==
  ASSUME SelectionInv, UNCHANGED request, NEW d \in 0..Len(chunks), RequestsInv(d),
         NEW m \in (d + 1)..Len(chunks), Together(d + 1, m),
         requests' = Append(requests, chunks[d + 1].offset..(EndOf(chunks[m]) - 1))
  PROVE  RequestsInv(m)'
<1> DEFINE r == chunks[d + 1].offset..(EndOf(chunks[m]) - 1)
           n == Len(requests)
           rs == Append(requests, r)
           for(q, a, b) == Together(a, b) /\ q = chunks[a].offset..(EndOf(chunks[b]) - 1)
<1>1. Len(chunks) \in Nat /\ d + 1 \in 1..Len(chunks) /\ m \in 1..Len(chunks)
      /\ d + 1 \in 1..m /\ m \in 1..m
  BY SelectedChunks
<1>2. chunks[d + 1].offset \in Nat /\ EndOf(chunks[m]) \in Nat
  BY <1>1, SelectedChunks
<1>3. r \in SUBSET Int
  BY <1>2
<1>4. requests \in Seq(SUBSET Int) /\ n \in Nat
  BY LenProperties DEF RequestsInv
<1>5. /\ rs \in Seq(SUBSET Int) /\ Len(rs) = n + 1 /\ rs[n + 1] = r
      /\ \A i \in 1..n : rs[i] = requests[i]
  <2> HIDE DEF r
  <2>1. QED
    BY <1>3, <1>4, AppendProperties
<1>6. ASSUME NEW i \in 1..(n + 1) PROVE \E a, b \in 1..m : for(rs[i], a, b)
  <2>1. CASE i = n + 1
    <3>1. for(rs[i], d + 1, m)
      BY <1>5, <2>1
    <3> HIDE DEF for
    <3>2. QED
      BY <1>1, <3>1
  <2>2. CASE i # n + 1
    <3>1. i \in 1..n
      BY <1>4, <2>2
    <3>2. PICK a \in 1..d, b \in 1..d : for(requests[i], a, b)
      BY <3>1 DEF RequestsInv
    <3>3. a \in 1..m /\ b \in 1..m /\ for(rs[i], a, b)
      BY <1>1, <1>5, <3>1, <3>2
    <3> HIDE DEF for
    <3>4. QED
      BY <3>3
  <2>3. QED
    BY <2>1, <2>2
<1>7. ASSUME NEW i \in 1..(n + 1), NEW j \in 1..(n + 1), i < j, NEW x \in rs[i], NEW y \in rs[j]
      PROVE  x < y
  <2>1. i \in 1..n
    BY <1>4, <1>7
  <2>2. CASE j = n + 1
    <3>1. PICK a \in 1..d, b \in 1..d : for(requests[i], a, b)
      BY <2>1 DEF RequestsInv
    <3>2. b \in 1..Len(chunks) /\ d + 1 \in b..Len(chunks) /\ b < d + 1
      BY <1>1
    <3>3. EndOf(chunks[b]) <= chunks[d + 1].offset /\ EndOf(chunks[b]) \in Nat
      BY <3>2, ChunksRise, SelectedChunks
    <3>4. chunks[a].offset \in Nat
      <4>1. a \in 1..Len(chunks)
        BY <1>1
      <4>2. QED
        BY <4>1, SelectedChunks
    <3>5. x \in chunks[a].offset..(EndOf(chunks[b]) - 1) /\ y \in r
      <4>1. x \in requests[i]
        BY <1>5, <1>7, <2>1
      <4>2. y \in rs[n + 1]
        BY <1>7, <2>2
      <4> HIDE DEF r, rs
      <4>3. QED
        BY <1>5, <3>1, <4>1, <4>2
    <3>6. QED
      BY <1>2, <3>3, <3>4, <3>5
  <2>3. CASE j # n + 1
    <3>1. j \in 1..n
      BY <1>4, <2>3
    <3>2. x \in requests[i] /\ y \in requests[j]
      BY <1>5, <1>7, <2>1, <3>1
    <3>3. QED
      BY <1>7, <2>1, <3>1, <3>2 DEF RequestsInv
  <2>4. QED
    BY <2>2, <2>3
<1>8. /\ requests' = rs /\ chunks' = chunks
  BY DEF request
<1>9. \A a, b : Together(a, b)' <=> Together(a, b)
  BY <1>8 DEF Together, EndOf
<1>10. \A b : EndOf(chunks[b])' = EndOf(chunks[b])
  BY <1>8 DEF EndOf
<1> HIDE DEF rs, n, r
<1>11. ASSUME NEW i \in 1..Len(requests')
       PROVE  \E a, b \in 1..m :
                Together(a, b)' /\ requests'[i] = chunks'[a].offset..(EndOf(chunks[b])' - 1)
  <2>1. i \in 1..(n + 1)
    BY <1>5, <1>8
  <2>2. PICK a \in 1..m, b \in 1..m : for(rs[i], a, b)
    BY <1>6, <2>1
  <2>3. Together(a, b)' /\ requests'[i] = chunks'[a].offset..(EndOf(chunks[b])' - 1)
    BY <1>8, <1>9, <1>10, <2>2, Zenon
  <2>4. QED
    BY <2>3
<1>12. \A i, j \in 1..Len(requests') :
         i < j => \A x \in requests'[i], y \in requests'[j] : x < y
  BY <1>5, <1>7, <1>8
<1>13. requests' \in Seq(SUBSET Int)
  BY <1>5, <1>8
<1>14. QED
  BY <1>11, <1>12, <1>13 DEF RequestsInv

\* What has been asked for, has been asked for of all chunks.
LEMMA RequestsOfAll ==
  ASSUME SelectionInv, NEW d \in 0..Len(chunks), RequestsInv(d)
  PROVE  RequestsInv(Len(chunks))
<1>1. Len(chunks) \in Nat /\ \A a \in 1..d : a \in 1..Len(chunks)
  BY SelectedChunks
<1>2. QED
  BY <1>1 DEF RequestsInv

LEMMA PartOfPart ==
  ASSUME NEW data \in Seq(Nat), NEW s \in Nat, NEW e \in s..Len(data), NEW o \in s..e,
         NEW z \in Nat \ {0}, o + z <= e
  PROVE  SubSeq(SubSeq(data, s + 1, e), o - s + 1, o - s + z) = SubSeq(data, o + 1, o + z)
<1> DEFINE i == s + 1
           x == o - s + 1
           y == o - s + z
<1>1. Len(data) \in Nat
  BY LenProperties
<1>2. i \in 1..Len(data) /\ e \in 1..Len(data)
  BY <1>1
<1>3. x \in 1..(e - i + 1) /\ y \in 1..(e - i + 1)
  OBVIOUS
<1>4. i + x - 1 = o + 1 /\ i + y - 1 = o + z
  OBVIOUS
<1> HIDE DEF i, x, y
<1>5. SubSeq(SubSeq(data, i, e), x, y) = SubSeq(data, i + x - 1, i + y - 1)
  BY <1>2, <1>3, SubSeqOfSubSeq
<1>6. SubSeq(SubSeq(data, i, e), x, y) = SubSeq(data, o + 1, o + z)
  BY <1>4, <1>5
<1>7. QED
  BY <1>6 DEF i, x, y

\* The slice of a chunk is the chunk.
LEMMA SliceOfChunk ==
  ASSUME SelectionInv, NEW n \in 1..Len(chunks), NEW a \in 1..n, NEW m \in n..Len(chunks),
         start = chunks[a].offset, bytes = SubSeq(file.data, start + 1, EndOf(chunks[m]))
  PROVE  ChunkSlice(chunks[n]) = BytesOf(file, chunks[n])
<1> DEFINE o == chunks[n].offset
           z == chunks[n].byte_size
           e == EndOf(chunks[m])
<1>1. Len(chunks) \in Nat /\ a \in 1..Len(chunks) /\ m \in 1..Len(chunks) /\ n \in a..Len(chunks)
  BY SelectedChunks
<1>2. /\ file.data \in Seq(Nat) /\ Len(file.data) \in Nat /\ start \in Nat
      /\ o \in Nat /\ z \in Nat \ {0} /\ e \in Nat /\ e <= Len(file.data)
      /\ EndOf(chunks[n]) = o + z
  BY <1>1, SelectedChunks, LenProperties
<1>3. start <= o /\ o + z <= e
  BY <1>1, <1>2, ChunksRise
<1>4. /\ bytes = SubSeq(file.data, start + 1, e)
      /\ ChunkSlice(chunks[n]) = SubSeq(bytes, o - start + 1, o - start + z)
      /\ BytesOf(file, chunks[n]) = SubSeq(file.data, o + 1, o + z)
  BY DEF ChunkSlice, BytesOf
<1> HIDE DEF o, z, e
<1>5. e \in start..Len(file.data) /\ o \in start..e
  BY <1>2, <1>3
<1>6. SubSeq(SubSeq(file.data, start + 1, e), o - start + 1, o - start + z)
        = SubSeq(file.data, o + 1, o + z)
  BY <1>2, <1>3, <1>5, PartOfPart
<1>7. QED
  BY <1>4, <1>6


LEMMA SameTogether ==
  ASSUME UNCHANGED request
  PROVE  /\ \A a, b : Together(a, b)' <=> Together(a, b)
         /\ \A b : EndOf(chunks[b])' = EndOf(chunks[b])
BY DEF request, Together, EndOf

LEMMA RequestsKept ==
  ASSUME UNCHANGED request, UNCHANGED requests, NEW m, RequestsInv(m)
  PROVE  RequestsInv(m)'
BY DEF request, RequestsInv, Together, EndOf

LEMMA FetchedNext ==
  ASSUME UNCHANGED request, NEW d \in 0..Len(chunks), NEW m \in d..Len(chunks), d <= Ahead,
         out' = All[d], NEW gs, groups' = gs, Tile(gs, m, Len(chunks)), RequestsInv(m)'
  PROVE  FetchedInv(d, m)'
<1>1. Tile(groups, m, Len(chunks))'
  BY DEF request, Tile, GroupOf, Together, EndOf, Groups
<1>2. d \in 0..Len(chunks') /\ m \in d..Len(chunks')
  BY DEF request
<1>3. d <= Ahead' /\ out' = (All[d])'
  BY SameRequest
<1>4. QED
  BY <1>1, <1>2, <1>3 DEF FetchedInv

LEMMA SetupRangesInv ==
  ASSUME SelectionInv, RangesInv, SetupRanges
  PROVE  RangesInv' /\ UNCHANGED out
<1>1. /\ UNCHANGED request /\ UNCHANGED out /\ UNCHANGED requests
      /\ out = <<>> /\ requests = <<>> /\ result = "running"
  BY DEF SetupRanges, RangesInv
<1>2. Len(chunks) \in Nat /\ 0 \in 0..Len(chunks) /\ 0 <= Ahead /\ All[0] = <<>>
  BY SelectedChunks, AllChunks
<1>3. ASSUME NEW m PROVE RequestsInv(m)'
  <2>1. requests' = <<>> /\ requests' \in Seq(SUBSET Int) /\ Len(requests') = 0
    BY <1>1
  <2>2. QED
    BY <2>1 DEF RequestsInv
<1>4. CASE pc' = "group"
  <2>1. groups' = CoalesceChunks(chunks) /\ result' = "running"
    BY <1>1, <1>4 DEF SetupRanges, Return
  <2>2. PICK gs : gs = CoalesceChunks(chunks)
    OBVIOUS
  <2>3. Tile(gs, 0, Len(chunks))
    BY <2>2, CoalescedTile
  <2>4. FetchedInv(0, 0)'
    <3>1. out' = All[0] /\ groups' = gs
      BY <1>1, <1>2, <2>1, <2>2
    <3>2. QED
      BY <1>1, <1>2, <1>3, <2>3, <3>1, FetchedNext
  <2>5. 0 \in 0..Len(chunks')
    BY <1>1, <1>2 DEF request
  <2>6. QED
    BY <1>1, <1>4, <2>1, <2>4, <2>5 DEF RangesInv
<1>5. CASE pc' # "group"
  <2>1. pc' = "returned" /\ result' = "err"
    BY <1>5 DEF SetupRanges, Return
  <2>2. QED
    BY <1>1, <1>3, <2>1 DEF RangesInv
<1>6. QED
  BY <1>4, <1>5

\* The next group, and what is asked for to have it.
LEMMA NextGroup ==
  ASSUME SelectionInv, RangesInv, pc = "group", groups # <<>>, UNCHANGED request,
         requests' = Append(requests, Head(groups).start .. Head(groups).end - 1)
  PROVE  \E d \in 0..Len(chunks) : \E m \in (d + 1)..Len(chunks) :
           /\ FetchedInv(d, d) /\ GroupOf(Head(groups), d + 1, m)
           /\ Tile(Tail(groups), m, Len(chunks)) /\ RequestsInv(m)'
<1>1. PICK d \in 0..Len(chunks) : FetchedInv(d, d)
  BY DEF RangesInv
<1>2. Tile(groups, d, Len(chunks)) /\ RequestsInv(d)
  BY <1>1 DEF FetchedInv
<1>3. PICK m \in (d + 1)..Len(chunks) :
        GroupOf(Head(groups), d + 1, m) /\ Tile(Tail(groups), m, Len(chunks))
  BY <1>2, TileHead
<1>4. /\ Together(d + 1, m)
      /\ Head(groups).start = chunks[d + 1].offset /\ Head(groups).end = EndOf(chunks[m])
  BY <1>3 DEF GroupOf
<1>5. requests' = Append(requests, chunks[d + 1].offset..(EndOf(chunks[m]) - 1))
  BY <1>4
<1>6. RequestsInv(m)'
  BY <1>2, <1>4, <1>5, RequestsGrow
<1>7. QED
  BY <1>1, <1>3, <1>6

LEMMA FetchRangeInv ==
  ASSUME SelectionInv, RangesInv, FetchRange
  PROVE  RangesInv' /\ UNCHANGED out
<1> DEFINE g == Head(groups)
<1>1. /\ UNCHANGED request /\ UNCHANGED <<out, result>> /\ pc = "group" /\ groups # <<>>
      /\ requests' = Append(requests, g.start..g.end - 1)
      /\ bytes' = SubSeq(file.data, g.start + 1, g.end)
      /\ slices' = g.entries /\ start' = g.start /\ groups' = Tail(groups) /\ pc' = "decode"
      /\ result = "running"
  BY DEF FetchRange, RangesInv
<1>2. PICK d \in 0..Len(chunks) : \E m \in (d + 1)..Len(chunks) :
        /\ FetchedInv(d, d) /\ GroupOf(g, d + 1, m)
        /\ Tile(Tail(groups), m, Len(chunks)) /\ RequestsInv(m)'
  BY <1>1, NextGroup
<1>3. PICK m \in (d + 1)..Len(chunks) :
        /\ FetchedInv(d, d) /\ GroupOf(g, d + 1, m)
        /\ Tile(Tail(groups), m, Len(chunks)) /\ RequestsInv(m)'
  BY <1>2
<1> HIDE DEF g
<1>4. m \in 0..Len(chunks) /\ m \in d..Len(chunks) /\ d + 1 \in 1..(d + 1) /\ d + 1 <= m
      /\ Len(chunks) \in Nat
  BY SelectedChunks
<1>5. d <= Ahead /\ out' = All[d]
  BY <1>1, <1>3 DEF FetchedInv
<1>6. PICK gs : gs = Tail(groups)
  OBVIOUS
<1>7. FetchedInv(d, m)'
  BY <1>1, <1>3, <1>4, <1>5, <1>6, FetchedNext
<1>8. g.start = chunks[d + 1].offset /\ g.end = EndOf(chunks[m]) /\ g.entries = SubSeq(chunks, d + 1, m)
  BY <1>3 DEF GroupOf
<1>9. /\ start' = chunks'[d + 1].offset /\ slices' = SubSeq(chunks', d + 1, m)
      /\ bytes' = SubSeq(file'.data, start' + 1, EndOf(chunks[m])')
  BY <1>1, <1>8, SameTogether DEF request
<1>10. SlicesInv(d, m)'
  BY <1>4, <1>9 DEF SlicesInv
<1>11. d \in 0..Len(chunks') /\ m \in 0..Len(chunks')
  BY <1>1, <1>4 DEF request
<1>12. QED
  BY <1>1, <1>7, <1>10, <1>11 DEF RangesInv

LEMMA FetchFailsInv ==
  ASSUME SelectionInv, RangesInv, FetchFails
  PROVE  RangesInv' /\ UNCHANGED out
<1>1. /\ UNCHANGED request /\ UNCHANGED out /\ pc = "group" /\ groups # <<>>
      /\ requests' = Append(requests, Head(groups).start .. Head(groups).end - 1)
      /\ pc' = "returned" /\ result' = "err"
  BY DEF FetchFails, Return
<1>2. PICK d \in 0..Len(chunks) : \E m \in (d + 1)..Len(chunks) : RequestsInv(m)'
  BY <1>1, NextGroup
<1>3. PICK m \in (d + 1)..Len(chunks) : RequestsInv(m)'
  BY <1>2
<1>4. m \in 0..Len(chunks) /\ chunks' = chunks
  BY <1>1, SelectedChunks DEF request
<1>5. SelectionInv'
  BY <1>1, SameRequest
<1>6. RequestsInv(Len(chunks))'
  <2>1. \A a \in 1..m : a \in 1..Len(chunks)
    BY <1>4, SelectedChunks
  <2>2. QED
    BY <1>3, <1>4, <2>1 DEF RequestsInv
<1>7. QED
  BY <1>1, <1>6 DEF RangesInv


LEMMA DecodeChunkInv ==
  ASSUME SelectionInv, RangesInv, DecodeChunk
  PROVE  /\ RangesInv' /\ result = "running"
         /\ out \in Seq(Stored(file, chunks)) /\ out' \in Seq(Stored(file, chunks))
         /\ Prefix(out, out') /\ Prefix(out', All[Ahead])
<1>1. /\ UNCHANGED request /\ UNCHANGED <<pc, groups, bytes, start, result, requests>>
      /\ pc = "decode" /\ slices # <<>> /\ result = "running"
      /\ slices' = Tail(slices) /\ LayersIn(ChunkSlice(Head(slices)))
      /\ out' = out \o Filtered(bounds, Decoded(ChunkSlice(Head(slices)), Head(slices).point_count))
  BY DEF DecodeChunk, RangesInv
<1>2. PICK d \in 0..Len(chunks), m \in 0..Len(chunks) : FetchedInv(d, m) /\ SlicesInv(d, m)
  BY <1>1 DEF RangesInv
<1>3. PICK a \in 1..(d + 1) :
        /\ a <= m /\ start = chunks[a].offset
        /\ bytes = SubSeq(file.data, start + 1, EndOf(chunks[m]))
        /\ slices = SubSeq(chunks, d + 1, m)
  BY <1>2 DEF SlicesInv
<1>4. /\ m \in d..Len(chunks) /\ d <= Ahead /\ out = All[d]
      /\ Tile(groups, m, Len(chunks)) /\ RequestsInv(m)
  BY <1>2 DEF FetchedInv
<1>5. Len(chunks) \in Nat /\ chunks \in Seq(file.entries)
  BY SelectedChunks DEF SelectionInv
<1>6. d + 1 <= m
  <2>1. m < d + 1 => SubSeq(chunks, d + 1, m) = <<>>
    BY SubSeqEmpty
  <2>2. QED
    BY <1>1, <1>3, <2>1
<1> DEFINE n == d + 1
<1>7. /\ n \in 1..Len(chunks) /\ n - 1 = d /\ a \in 1..n /\ m \in n..Len(chunks)
      /\ n \in 0..Len(chunks) /\ n <= m /\ a \in 1..(n + 1)
  BY <1>4, <1>5, <1>6
<1> HIDE DEF n
<1>8. slices = SubSeq(chunks, n, m)
  BY <1>3 DEF n
<1>9. Head(slices) = chunks[n] /\ Tail(slices) = SubSeq(chunks, n + 1, m)
  BY <1>5, <1>7, <1>8, HeadTailOfSubSeq
<1>10. ChunkSlice(chunks[n]) = BytesOf(file, chunks[n])
  BY <1>3, <1>7, SliceOfChunk
<1>11. Whole(file, chunks[n])
  BY <1>1, <1>9, <1>10 DEF Whole
<1>12. n <= Ahead
  BY <1>4, <1>5, <1>7, <1>11, OneMoreWhole DEF Ahead
<1>13. out' = All[n]
  <2>1. out' = out \o PointsOf(file, chunks[n], bounds)
    BY <1>1, <1>9, <1>10 DEF PointsOf
  <2>2. All[n] = All[n - 1] \o PointsOf(file, chunks[n], bounds)
    BY <1>7, AllChunks
  <2>3. QED
    BY <1>4, <1>7, <2>1, <2>2
<1>14. FetchedInv(n, m)'
  <2>1. PICK gs : gs = groups
    OBVIOUS
  <2>2. groups' = gs /\ Tile(gs, m, Len(chunks)) /\ RequestsInv(m)'
    BY <1>1, <1>4, <2>1, RequestsKept
  <2>3. QED
    BY <1>1, <1>7, <1>12, <1>13, <2>2, FetchedNext
<1>15. /\ start' = chunks'[a].offset /\ slices' = SubSeq(chunks', n + 1, m)
       /\ bytes' = SubSeq(file'.data, start' + 1, EndOf(chunks[m])')
  BY <1>1, <1>3, <1>9, SameTogether DEF request
<1>16. SlicesInv(n, m)'
  BY <1>3, <1>7, <1>15 DEF SlicesInv
<1>17. n \in 0..Len(chunks') /\ m \in 0..Len(chunks')
  BY <1>1, <1>2, <1>7 DEF request
<1>18. RangesInv'
  BY <1>1, <1>14, <1>16, <1>17 DEF RangesInv
<1>19. All[d] \in Seq(Stored(file, chunks)) /\ All[n] \in Seq(Stored(file, chunks))
       /\ Prefix(All[d], All[n]) /\ Prefix(All[n], All[Ahead])
  BY <1>5, <1>7, <1>12, AllChunks
<1>20. QED
  BY <1>1, <1>4, <1>13, <1>18, <1>19

\* Nothing more is asked for of a read that ends.
LEMMA RangesReturnInv ==
  ASSUME SelectionInv, RangesInv, UNCHANGED <<request, requests>>, pc \in {"group", "decode"},
         pc' = "returned", result' \in {"ok", "err"}
  PROVE  RangesInv'
<1>1. PICK m \in 0..Len(chunks) : RequestsInv(m)
  BY DEF RangesInv, FetchedInv
<1>2. RequestsInv(Len(chunks))
  BY <1>1, RequestsOfAll
<1>3. PICK n : n = Len(chunks)
  OBVIOUS
<1>4. RequestsInv(n)'
  BY <1>2, <1>3, RequestsKept
<1>5. Len(chunks') = n
  BY <1>3 DEF request
<1>6. RequestsInv(Len(chunks))'
  BY <1>4, <1>5 DEF RequestsInv
<1>7. QED
  BY <1>6 DEF RangesInv

LEMMA EndGroupInv ==
  ASSUME SelectionInv, RangesInv, EndGroup
  PROVE  RangesInv'
<1>1. /\ UNCHANGED request /\ UNCHANGED <<groups, out, result, requests>>
      /\ pc = "decode" /\ slices = <<>> /\ result = "running" /\ pc' = "group"
  BY DEF EndGroup, RangesInv
<1>2. PICK d \in 0..Len(chunks), m \in 0..Len(chunks) : FetchedInv(d, m) /\ SlicesInv(d, m)
  BY <1>1 DEF RangesInv
<1>3. /\ m \in d..Len(chunks) /\ d <= Ahead /\ out = All[d]
      /\ Tile(groups, m, Len(chunks)) /\ RequestsInv(m)
  BY <1>2 DEF FetchedInv
<1>4. slices = SubSeq(chunks, d + 1, m)
  BY <1>2 DEF SlicesInv
<1>5. Len(chunks) \in Nat /\ chunks \in Seq(file.entries)
  BY SelectedChunks DEF SelectionInv
<1>6. m = d
  <2>1. d + 1 \in 1..(Len(chunks) + 1) /\ m \in ((d + 1) - 1)..Len(chunks)
    BY <1>3, <1>5
  <2> DEFINE p == d + 1
  <2> HIDE DEF p
  <2>2. Len(SubSeq(chunks, p, m)) = m - p + 1
    BY <1>5, <2>1, PartOf DEF p
  <2>3. Len(SubSeq(chunks, p, m)) = 0
    BY <1>1, <1>4 DEF p
  <2>4. QED
    BY <1>3, <2>2, <2>3 DEF p
<1>7. FetchedInv(d, d)'
  <2>1. PICK gs : gs = groups
    OBVIOUS
  <2>2. groups' = gs /\ Tile(gs, d, Len(chunks)) /\ RequestsInv(d)'
    BY <1>1, <1>3, <1>6, <2>1, RequestsKept
  <2>3. d \in d..Len(chunks)
    BY <1>3, <1>6
  <2>4. QED
    BY <1>1, <1>3, <2>2, <2>3, FetchedNext
<1>8. d \in 0..Len(chunks')
  BY <1>1 DEF request
<1>9. QED
  BY <1>1, <1>7, <1>8 DEF RangesInv

LEMMA RangesStep ==
  ASSUME SelectionInv, RangesInv, RangesNext
  PROVE  SelectionInv' /\ RangesInv' /\ (DecodeChunk \/ UNCHANGED out)
<1>1. SelectionInv'
  <2>1. UNCHANGED request
    BY DEF RangesNext, SetupRanges, FetchRange, FetchFails, DecodeChunk, DecodeFails, EndGroup,
           FinishRanges
  <2>2. QED
    BY <2>1, SameRequest
<1>2. CASE SetupRanges
  BY <1>1, <1>2, SetupRangesInv
<1>3. CASE FetchRange
  BY <1>1, <1>3, FetchRangeInv
<1>4. CASE FetchFails
  BY <1>1, <1>4, FetchFailsInv
<1>5. CASE DecodeChunk
  BY <1>1, <1>5, DecodeChunkInv
<1>6. CASE DecodeFails
  BY <1>1, <1>6, RangesReturnInv DEF DecodeFails, Return
<1>7. CASE EndGroup
  BY <1>1, <1>7, EndGroupInv DEF EndGroup
<1>8. CASE FinishRanges
  BY <1>1, <1>8, RangesReturnInv DEF FinishRanges, Return
<1>9. QED
  BY <1>1, <1>2, <1>3, <1>4, <1>5, <1>6, <1>7, <1>8 DEF RangesNext

LEMMA RangesDeliver ==
  ASSUME SelectionInv, RangesInv, pc # "returned"
  PROVE  out \in Seq(Stored(file, chunks)) /\ Prefix(out, All[Ahead])
<1>1. PICK d \in 0..Len(chunks) : d <= Ahead /\ out = All[d]
  <2>1. CASE pc = "new"
    BY <2>1, SelectedChunks, AllChunks DEF RangesInv
  <2>2. CASE pc # "new"
    BY <2>2 DEF RangesInv, FetchedInv
  <2>3. QED
    BY <2>1, <2>2
<1>2. QED
  BY <1>1, AllChunks


-----------------------------------------------------------------------------
(***************************************************************************)
(* What a step of any way of reading is for whoever waits for the points.  *)
(***************************************************************************)
GoesOn ==
  /\ result = "running" /\ UNCHANGED result
  /\ Delivered \in Seq(Stored(file, chunks)) /\ Delivered' \in Seq(Stored(file, chunks))
  /\ Len(Delivered) <= Len(Delivered') /\ Prefix(Delivered', All[Ahead])

EndsWell ==
  /\ result = "running" /\ result' = "ok" /\ UNCHANGED Delivered
  /\ Ahead = Len(chunks) /\ Delivered = All[Len(chunks)]

Fails == result = "running" /\ result' = "err" /\ UNCHANGED Delivered

Waits == UNCHANGED <<Delivered, result>>

AnswerStep == GoesOn \/ EndsWell \/ Fails \/ Waits

LEMMA OutInv ==
  SelectionInv /\ StreamInv /\ result # "err"
    => out \in Seq(Stored(file, chunks)) /\ Prefix(out, All[Ahead])
BY StreamDelivers

LEMMA StreamAnswers ==
  ASSUME SelectionInv, StreamInv, how = "iterator", UNCHANGED how, StreamNext
  PROVE  AnswerStep
<1>1. Delivered = out /\ Delivered' = out'
  BY DEF Delivered
<1>2. result = "running"
  BY DEF StreamNext, SetupStream, RefuseSetup, CallNext, LoadChunk, End, AtChunkEnd, ReadLayers,
         Reading, RanOut, DecodePoint, Decoding, ParseFails, FailNext, StreamInv
<1>3. CASE DecodePoint
  <2>1. /\ SelectionInv' /\ StreamInv'
        /\ UNCHANGED request /\ UNCHANGED result
        /\ out' = out \/ out' = Append(out, NextPoint)
    BY <1>3, StreamStep DEF DecodePoint, StreamNext
  <2>2. out \in Seq(Stored(file, chunks))
    BY <1>2, StreamDelivers
  <2>3. out' \in Seq(Stored(file, chunks)) /\ Prefix(out', All[Ahead])
    <3>1. (SelectionInv /\ StreamInv /\ result # "err"
             => out \in Seq(Stored(file, chunks)) /\ Prefix(out, All[Ahead]))'
      BY OutInv, PTL
    <3>2. QED
      BY <1>2, <2>1, <3>1, SameRequest DEF request
  <2>4. Len(out) <= Len(out')
    <3>1. CASE out' = out
      BY <2>2, <3>1
    <3>2. CASE out' = Append(out, NextPoint)
      BY <2>2, <3>2
    <3>3. QED
      BY <2>1, <3>1, <3>2
  <2>5. QED
    BY <1>1, <1>2, <2>1, <2>2, <2>3, <2>4 DEF AnswerStep, GoesOn
<1>4. CASE End
  <2>1. /\ next_chunk = Len(chunks) /\ current_chunk_points_left = 0 /\ result' = "ok" /\ out' = out
    BY <1>4 DEF End, AtChunkEnd
  <2>2. Len(chunks) <= Ahead /\ out = All[Len(chunks)]
    BY <1>2, <2>1, ChunkDone
  <2>3. Ahead = Len(chunks)
    BY <2>2, AllChunks, SelectedChunks
  <2>4. QED
    BY <1>1, <1>2, <2>1, <2>2, <2>3 DEF AnswerStep, EndsWell
<1>5. CASE RefuseSetup \/ RanOut \/ ParseFails \/ FailNext
  <2>1. out' = out /\ result' = "err"
    BY <1>5 DEF RefuseSetup, RanOut, ParseFails, FailNext, Failing
  <2>2. QED
    BY <1>1, <1>2, <2>1 DEF AnswerStep, Fails
<1>6. CASE SetupStream \/ CallNext \/ LoadChunk \/ ReadLayers
  <2>1. out' = out /\ result' = result
    BY <1>6 DEF SetupStream, CallNext, LoadChunk, ReadLayers
  <2>2. QED
    BY <1>1, <2>1 DEF AnswerStep, Waits
<1>7. QED
  BY <1>3, <1>4, <1>5, <1>6 DEF StreamNext

LEMMA RowsInv ==
  SelectionInv /\ ColumnsInv
    => Rows \in Seq(Stored(file, chunks)) /\ Prefix(Rows, All[Ahead])
BY ColumnsDeliver

LEMMA ColumnsAnswer ==
  ASSUME SelectionInv, ColumnsInv, how = "columns", UNCHANGED how, ColumnsNext
  PROVE  AnswerStep
<1>1. Delivered = Rows /\ Delivered' = Rows'
  BY DEF Delivered
<1>2. SelectionInv' /\ ColumnsInv' /\ UNCHANGED request /\ pc # "returned" /\ result = "running"
  <2>1. UNCHANGED request /\ pc # "returned"
    BY DEF ColumnsNext, SetupColumns, StartBatch, ReadChunkBytes, DecodeInto, MergeColumns,
           MeetFailure, EndBatch, FinishColumns, FailColumns
  <2>2. QED
    BY <2>1, ColumnsStep DEF ColumnsInv
<1>3. /\ Rows \in Seq(Stored(file, chunks)) /\ Rows' \in Seq(Stored(file, chunks))
      /\ Prefix(Rows', All[Ahead])
  <2>1. (SelectionInv /\ ColumnsInv
           => Rows \in Seq(Stored(file, chunks)) /\ Prefix(Rows, All[Ahead]))'
    BY RowsInv, PTL
  <2>2. QED
    BY <1>2, <2>1, RowsInv, SameRequest DEF request
<1>4. CASE accepted_points \in Nat /\ accepted_points' \in Nat
           /\ accepted_points <= accepted_points' /\ UNCHANGED result
  <2>1. Len(Rows) = accepted_points /\ Len(Rows') = accepted_points'
    BY <1>4 DEF Rows
  <2>2. QED
    BY <1>1, <1>2, <1>3, <1>4, <2>1 DEF AnswerStep, GoesOn
<1>5. CASE UNCHANGED <<columns, accepted_points>>
  <2>1. Rows' = Rows
    BY <1>5 DEF Rows, Row
  <2>2. CASE result' = "running"
    BY <1>1, <1>2, <2>1, <2>2 DEF AnswerStep, Waits
  <2>3. CASE result' = "err"
    BY <1>1, <1>2, <2>1, <2>3 DEF AnswerStep, Fails
  <2>4. CASE result' = "ok"
    <3>1. FinishColumns
      BY <1>2, <2>4 DEF ColumnsNext, SetupColumns, StartBatch, ReadChunkBytes, DecodeInto,
         MergeColumns, MeetFailure, EndBatch, FailColumns, Return
    <3>2. pc = "batch" /\ taken = Len(chunks)
      BY <3>1 DEF FinishColumns
    <3>3. Merged(Len(chunks))
      BY <3>2 DEF ColumnsInv
    <3>4. Rows = All[Len(chunks)]
      BY <3>3, RowsMerged
    <3>5. Ahead = Len(chunks)
      BY <3>3, AllChunks, SelectedChunks DEF Merged
    <3>6. QED
      BY <1>1, <1>2, <2>1, <2>4, <3>4, <3>5 DEF AnswerStep, EndsWell
  <2>5. QED
    BY <1>2, <2>2, <2>3, <2>4 DEF ColumnsInv
<1>6. QED
  BY <1>4, <1>5, ColumnsStep

LEMMA RangesAnswer ==
  ASSUME SelectionInv, RangesInv, how = "ranges", UNCHANGED how, RangesNext
  PROVE  AnswerStep
<1>1. Delivered = out /\ Delivered' = out'
  BY DEF Delivered
<1>2. pc # "returned" /\ result = "running"
  BY DEF RangesNext, SetupRanges, FetchRange, FetchFails, DecodeChunk, DecodeFails, EndGroup,
         FinishRanges, RangesInv
<1>3. CASE DecodeChunk
  <2>1. /\ out \in Seq(Stored(file, chunks)) /\ out' \in Seq(Stored(file, chunks))
        /\ Prefix(out, out') /\ Prefix(out', All[Ahead])
    BY <1>3, DecodeChunkInv
  <2>2. Len(out) <= Len(out') /\ UNCHANGED result
    BY <1>3, <2>1 DEF Prefix, DecodeChunk
  <2>3. QED
    BY <1>1, <1>2, <2>1, <2>2 DEF AnswerStep, GoesOn
<1>4. CASE FinishRanges
  <2>1. groups = <<>> /\ pc = "group" /\ out' = out /\ result' = "ok"
    BY <1>4 DEF FinishRanges, Return
  <2>2. PICK d \in 0..Len(chunks) : FetchedInv(d, d)
    BY <2>1 DEF RangesInv
  <2>3. d <= Ahead /\ out = All[d] /\ Tile(<<>>, d, Len(chunks))
    BY <2>1, <2>2 DEF FetchedInv
  <2>4. d = Len(chunks)
    BY <2>3, TileEnd
  <2>5. Ahead = Len(chunks)
    BY <2>3, <2>4, AllChunks, SelectedChunks
  <2>6. QED
    BY <1>1, <1>2, <2>1, <2>3, <2>4, <2>5 DEF AnswerStep, EndsWell
<1>5. CASE (SetupRanges /\ result' = "running") \/ FetchRange \/ EndGroup
  <2>1. UNCHANGED <<out, result>>
    BY <1>2, <1>5 DEF SetupRanges, FetchRange, EndGroup
  <2>2. QED
    BY <1>1, <2>1 DEF AnswerStep, Waits
<1>6. CASE (SetupRanges /\ result' # "running") \/ FetchFails \/ DecodeFails
  <2>1. out' = out /\ result' = "err"
    BY <1>2, <1>6 DEF SetupRanges, FetchFails, DecodeFails, Return
  <2>2. QED
    BY <1>1, <1>2, <2>1 DEF AnswerStep, Fails
<1>7. QED
  BY <1>3, <1>4, <1>5, <1>6 DEF RangesNext


-----------------------------------------------------------------------------
(***************************************************************************)
(* The inductive invariant holds at the start and through every step.      *)
(***************************************************************************)
LEMMA InitInv ==
  ASSUME Init
  PROVE  IInv
<1>1. /\ how \in {"iterator", "columns", "ranges"}
      /\ file \in PointFiles /\ pc = "new" /\ out = <<>> /\ result = "running"
      /\ next_chunk = 0 /\ current_chunk_points_left = 0 /\ touched = {}
      /\ batch_size \in BatchSizes /\ taken = 0
      /\ columns = [c \in Columns |-> <<>>] /\ accepted_points = 0
      /\ requests = <<>>
  BY DEF Init, ReadInit, StreamInit, ColumnsInit, RangesInit
<1>2. PICK entries \in SUBSET file.entries : chunks \in InOrder(entries)
  BY DEF Init, ReadInit
<1>3. SelectionInv
  BY <1>1, <1>2, SelectionOf
<1>4. /\ Len(chunks) \in Nat /\ Ahead \in 0..Len(chunks) /\ All[0] = <<>>
      /\ 0 \in 0..Len(chunks) /\ 0 <= Ahead /\ Prefix(All[0], All[Ahead])
  <2>1. Len(chunks) \in Nat /\ Ahead \in 0..Len(chunks)
    BY <1>3, SelectedChunks, AllChunks
  <2>2. 0 \in 0..Len(chunks) /\ 0 <= Ahead
    BY <2>1
  <2>3. QED
    BY <1>3, <2>1, <2>2, AllChunks
<1>5. CASE how = "iterator"
  <2>1. StreamInv
    BY <1>1, <1>4 DEF StreamInv, YieldedInv
  <2>2. Delivered = All[0]
    BY <1>1, <1>4, <1>5 DEF Delivered
  <2>3. QED
    BY <1>1, <1>3, <1>4, <1>5, <2>1, <2>2 DEF IInv
<1>6. CASE how = "columns"
  <2>1. Merged(0)
    BY <1>1, <1>4 DEF Merged
  <2>2. ColumnsInv
    BY <1>1, <1>4, <2>1, ColumnsAssumption DEF ColumnsInv
  <2>3. Prefix(Delivered, All[Ahead])
    BY <1>3, <1>6, <2>2, ColumnsDeliver DEF Delivered
  <2>4. QED
    BY <1>1, <1>3, <1>6, <2>2, <2>3 DEF IInv
<1>7. CASE how = "ranges"
  <2>1. RangesInv
    BY <1>1 DEF RangesInv
  <2>2. Delivered = All[0]
    BY <1>1, <1>4, <1>7 DEF Delivered
  <2>3. QED
    BY <1>1, <1>3, <1>4, <1>7, <2>1, <2>2 DEF IInv
<1>8. QED
  BY <1>1, <1>5, <1>6, <1>7

LEMMA NextInv ==
  ASSUME IInv, Next
  PROVE  IInv' /\ UNCHANGED <<how, request>> /\ AnswerStep
<1>1. SelectionInv
  BY DEF IInv
<1>2. UNCHANGED <<how, request>>
  <2>1. CASE StreamNext /\ UNCHANGED how
    BY <2>1 DEF StreamNext, SetupStream, RefuseSetup, CallNext, LoadChunk, End, ReadLayers, RanOut,
           DecodePoint, ParseFails, FailNext, Failing
  <2>2. CASE ColumnsNext /\ UNCHANGED how
    BY <2>2 DEF ColumnsNext, SetupColumns, StartBatch, ReadChunkBytes, DecodeInto, MergeColumns,
           MeetFailure, EndBatch, FinishColumns, FailColumns
  <2>3. CASE RangesNext /\ UNCHANGED how
    BY <2>3 DEF RangesNext, SetupRanges, FetchRange, FetchFails, DecodeChunk, DecodeFails, EndGroup,
           FinishRanges
  <2>4. QED
    BY <2>1, <2>2, <2>3 DEF Next
<1>3. /\ SelectionInv' /\ AnswerStep
      /\ \/ how' = "iterator" /\ StreamInv' /\ requests' = <<>>
         \/ how' = "columns" /\ ColumnsInv' /\ touched' = {} /\ requests' = <<>>
         \/ how' = "ranges" /\ RangesInv' /\ touched' = {}
  <2>1. CASE how = "iterator"
    <3>1. StreamInv /\ requests = <<>> /\ StreamNext /\ UNCHANGED how /\ requests' = requests
      BY <2>1 DEF IInv, Next, rangeVars
    <3>2. QED
      BY <1>1, <2>1, <3>1, StreamStep, StreamAnswers
  <2>2. CASE how = "columns"
    <3>1. /\ ColumnsInv /\ touched = {} /\ requests = <<>> /\ ColumnsNext
          /\ UNCHANGED <<how, touched, requests>>
      BY <2>2 DEF IInv, Next, rangeVars, streamVars
    <3>2. QED
      BY <1>1, <2>2, <3>1, ColumnsStep, ColumnsAnswer
  <2>3. CASE how = "ranges"
    <3>1. RangesInv /\ touched = {} /\ RangesNext /\ UNCHANGED <<how, touched>>
      BY <2>3 DEF IInv, Next, streamVars
    <3>2. QED
      BY <1>1, <2>3, <3>1, RangesStep, RangesAnswer
  <2>4. QED
    BY <2>1, <2>2, <2>3 DEF IInv
<1>4. Prefix(Delivered, All[Ahead])'
  <2>1. All' = All /\ Ahead' = Ahead /\ Prefix(Delivered, All[Ahead])
    BY <1>2, SameRequest DEF IInv
  <2>2. CASE GoesOn
    BY <2>1, <2>2 DEF GoesOn, Prefix
  <2>3. CASE UNCHANGED Delivered
    BY <2>1, <2>3 DEF Prefix
  <2>4. QED
    BY <1>3, <2>2, <2>3 DEF AnswerStep, EndsWell, Fails, Waits
<1>5. QED
  BY <1>2, <1>3, <1>4 DEF IInv

LEMMA Stutter ==
  ASSUME UNCHANGED vars
  PROVE  UNCHANGED <<how, request>> /\ Waits /\ (IInv => IInv')
<1>1. /\ UNCHANGED <<how, request, out, result, pc>>
      /\ UNCHANGED <<next_chunk, current_chunk_points_left, remaining_candidate_points,
                     window, cursor, layers, touched>>
      /\ UNCHANGED <<batch_size, taken, batch_bytes, decoded, columns, accepted_points>>
      /\ UNCHANGED <<groups, bytes, slices, start, requests>>
  BY DEF vars, streamVars, counters, decoder, columnVars, rangeVars
<1>2. UNCHANGED Delivered
  BY <1>1 DEF Delivered, Rows, Row
<1>3. UNCHANGED <<file, chunks, bounds>>
  BY <1>1 DEF request
<1>4. StreamInv => StreamInv'
  BY <1>1, <1>3, SameRequest DEF StreamInv, ChunkInv, YieldedInv, Points
<1>5. ColumnsInv => ColumnsInv'
  BY <1>1, <1>3, SameRequest DEF ColumnsInv, Merged, BatchInv, DecodedInv
<1>6. RangesInv => RangesInv'
  <2>1. ASSUME NEW d \in 0..Len(chunks), NEW m \in 0..Len(chunks), FetchedInv(d, m)
        PROVE  FetchedInv(d, m)'
    <3>1. PICK gs : gs = groups
      OBVIOUS
    <3>2. /\ m \in d..Len(chunks) /\ d <= Ahead /\ out' = All[d]
          /\ groups' = gs /\ Tile(gs, m, Len(chunks)) /\ RequestsInv(m)'
      BY <1>1, <2>1, <3>1, RequestsKept DEF FetchedInv
    <3>3. QED
      BY <1>1, <3>2, FetchedNext
  <2>2. ASSUME NEW d, NEW m, SlicesInv(d, m) PROVE SlicesInv(d, m)'
    BY <1>1, <1>3, <2>2 DEF SlicesInv, EndOf
  <2>3. RequestsInv(Len(chunks)) => RequestsInv(Len(chunks))'
    BY <1>1, <1>3 DEF RequestsInv, Together, EndOf
  <2>4. QED
    BY <1>1, <1>3, <2>1, <2>2, <2>3 DEF RangesInv
<1>7. SelectionInv => SelectionInv'
  BY <1>1, SameRequest
<1>8. Prefix(Delivered, All[Ahead]) => Prefix(Delivered, All[Ahead])'
  BY <1>1, <1>2, SameRequest DEF Prefix
<1>9. QED
  BY <1>1, <1>2, <1>4, <1>5, <1>6, <1>7, <1>8 DEF IInv, Waits

THEOREM Invariance == Spec => []IInv
<1>1. Init => IInv
  BY InitInv
<1>2. IInv /\ [Next]_vars => IInv'
  BY NextInv, Stutter
<1>3. QED
  BY <1>1, <1>2, PTL DEF Spec


-----------------------------------------------------------------------------
(***************************************************************************)
(* What follows from the invariant.                                        *)
(***************************************************************************)
\* In every reachable state the source has been read in chunks of the query
\* that the iterator had come to, and nowhere else (ChunkReadWindow).
THEOREM ReadsInside == Spec => []ReadsInsideChunks
<1>1. IInv => ReadsInsideChunks
  BY DEF IInv, StreamInv, ReadsInsideChunks
<1>2. QED
  BY <1>1, Invariance, PTL

\* What the chunks behind chunk n hold is at most what they announce, and
\* just that where no bounds are asked for.
LEMMA PointsBehind ==
  ASSUME SelectionInv, NEW n \in 0..Len(chunks)
  PROVE  LET N == Len(chunks)
             total == Totalled(chunks) IN
         /\ Len(All[n]) \in Nat /\ Len(All[N]) \in Nat /\ total[n] \in Nat /\ total[N] \in Nat
         /\ Len(All[n]) <= Len(All[N])
         /\ Len(All[N]) - Len(All[n]) <= total[N] - total[n]
         /\ bounds = Everywhere => total[N] - total[n] <= Len(All[N]) - Len(All[n])
<1> DEFINE N == Len(chunks)
           S == Stored(file, chunks)
           of(i) == PointsOf(file, chunks[i], bounds)
           total == Totalled(chunks)
           size == [i \in 0..N |-> Len(All[i])]
<1>1. N \in Nat /\ \A i \in 1..N : chunks[i].point_count \in Nat
  BY SelectedChunks
<1>2. /\ total \in [0..N -> Nat]
      /\ \A i \in 1..N : total[i] = total[i - 1] + chunks[i].point_count
  BY <1>1, TotalledSteps
<1>3. All \in [0..N -> Seq(S)] /\ \A i \in 1..N : of(i) \in Seq(S) /\ All[i] = All[i - 1] \o of(i)
  BY AllChunks
<1>4. n \in 0..N /\ N \in n..N
  BY <1>1
<1>5. Len(All[n]) <= Len(All[N])
  BY <1>4, AllChunks DEF Prefix
<1> HIDE DEF total, N, S
<1>6. ASSUME NEW i \in 0..N PROVE size[i] = Len(All[i]) /\ Len(All[i]) \in Nat /\ total[i] \in Nat
  BY <1>2, <1>3, LenProperties
<1>7. size \in [0..N -> Int] /\ total \in [0..N -> Int]
  BY <1>2, <1>6
<1>8. ASSUME NEW i \in 1..N
      PROVE  /\ size[i] - size[i - 1] <= total[i] - total[i - 1]
             /\ bounds = Everywhere => total[i] - total[i - 1] <= size[i] - size[i - 1]
  <2>1. i \in 0..N /\ i - 1 \in 0..N
    BY <1>1
  <2>2. /\ Len(of(i)) <= chunks[i].point_count
        /\ bounds = Everywhere => chunks[i].point_count <= Len(of(i))
    <3>1. i \in 1..Len(chunks) /\ chunks[i].point_count \in Nat
      BY <1>1 DEF N
    <3>2. Len(of(i)) <= chunks[i].point_count
      BY <3>1, PointsOfChunk
    <3>3. bounds = Everywhere => chunks[i].point_count <= Len(of(i))
      BY <3>1, PointsOfChunk
    <3>4. QED
      BY <3>2, <3>3
  <2>3. Len(of(i)) \in Nat /\ chunks[i].point_count \in Nat
    BY <1>1, <1>3, LenProperties
  <2>4. Len(All[i]) = Len(All[i - 1]) + Len(of(i))
    <3>1. All[i - 1] \in Seq(S) /\ of(i) \in Seq(S) /\ All[i] = All[i - 1] \o of(i)
      BY <1>3, <2>1
    <3> HIDE DEF of
    <3>2. QED
      BY <3>1, ConcatProperties
  <2>5. /\ size[i] = Len(All[i]) /\ size[i - 1] = Len(All[i - 1])
        /\ Len(All[i - 1]) \in Nat /\ total[i - 1] \in Nat
        /\ total[i] = total[i - 1] + chunks[i].point_count
    BY <1>2, <1>6, <2>1
  <2> HIDE DEF of, size
  <2>6. QED
    BY <2>2, <2>3, <2>4, <2>5
<1> HIDE DEF size
<1>9. size[N] - size[n] <= total[N] - total[n]
  BY <1>1, <1>4, <1>7, <1>8, Rising
<1>10. bounds = Everywhere => total[N] - total[n] <= size[N] - size[n]
  BY <1>1, <1>4, <1>7, <1>8, Rising
<1>11. N \in 0..N
  BY <1>1
<1>12. QED
  BY <1>4, <1>5, <1>6, <1>9, <1>10, <1>11 DEF total, N

\* In every reachable state in which the iterator can be asked, the points
\* still to come are within its size hint, and where no bounds are asked for
\* their number is known (size_hint).
THEOREM HintIsRight == Spec => []HintBrackets
<1>1. ASSUME IInv, pc = "idle", result # "err", WholeOnes(file, chunks) = Len(chunks)
      PROVE  LET to_come == Len(Expected(file, chunks, bounds)) - Len(out) IN
             SizeHint.lower <= to_come /\ to_come <= SizeHint.upper
  <2> DEFINE N == Len(chunks)
             n == next_chunk
             left == current_chunk_points_left
             total == Totalled(chunks)
             S == Stored(file, chunks)
  <2>1. SelectionInv /\ StreamInv
    BY <1>1 DEF IInv, ColumnsInv, RangesInv
  <2>2. Expected(file, chunks, bounds) = All[N]
    BY <1>1, ExpectedIsGathered DEF All
  <2>3. /\ n \in 0..N /\ left \in Nat /\ N \in Nat
        /\ remaining_candidate_points = total[N] - total[n] + left
        /\ n = 0 => left = 0 /\ out = <<>>
        /\ n # 0 => out = All[n - 1] \o Kept(bounds, Points(n))[chunks[n].point_count - left]
        /\ n > 0 => left <= chunks[n].point_count
    BY <1>1, <2>1, SelectedChunks DEF StreamInv, YieldedInv, ChunkInv
  <2>4. /\ Len(All[n]) \in Nat /\ Len(All[N]) \in Nat /\ total[n] \in Nat /\ total[N] \in Nat
        /\ Len(All[n]) <= Len(All[N])
        /\ Len(All[N]) - Len(All[n]) <= total[N] - total[n]
        /\ bounds = Everywhere => total[N] - total[n] <= Len(All[N]) - Len(All[n])
    BY <2>1, <2>3, PointsBehind
  \* What is still to come of the chunk it is in.
  <2>5. /\ Len(out) \in Nat /\ Len(out) <= Len(All[n]) /\ Len(All[n]) <= Len(out) + left
        /\ bounds = Everywhere => Len(All[n]) = Len(out) + left
    <3>1. CASE n = 0
      <4>1. All[0] = <<>> /\ out = <<>> /\ left = 0
        BY <2>1, <2>3, <3>1, AllChunks
      <4>2. QED
        BY <3>1, <4>1
    <3>2. CASE n # 0
      <4> DEFINE count == chunks[n].point_count
                 k == count - left
                 points == Points(n)
                 kept == Kept(bounds, points)
                 of == PointsOf(file, chunks[n], bounds)
      <4>1. n \in 1..N /\ n - 1 \in 0..N /\ count \in Nat /\ left <= count
        BY <2>1, <2>3, <3>2, SelectedChunks
      <4>2. points \in Seq(S) /\ Len(points) = count /\ of = Filtered(bounds, points)
        BY <2>1, <4>1, PointsOfNext
      <4>3. k \in 0..count /\ count - k = left
        BY <2>3, <4>1
      <4> HIDE DEF k, count, points
      <4>4. /\ kept[k] \in Seq(S) /\ of \in Seq(S) /\ Prefix(kept[k], of)
            /\ Len(of) <= Len(kept[k]) + (count - k)
            /\ bounds = Everywhere => Len(of) = Len(kept[k]) + (count - k)
        BY <4>2, <4>3, KeptOfAll
      <4>5. All[n - 1] \in Seq(S) /\ All[n] = All[n - 1] \o of /\ out = All[n - 1] \o kept[k]
        BY <2>1, <2>3, <3>2, <4>1, AllChunks DEF points, k, count
      <4> HIDE DEF kept, of
      <4>6. Len(All[n]) = Len(All[n - 1]) + Len(of) /\ Len(out) = Len(All[n - 1]) + Len(kept[k])
        <5> DEFINE s == All[n - 1]
        <5> HIDE DEF s
        <5>1. Len(s \o of) = Len(s) + Len(of) /\ Len(s \o kept[k]) = Len(s) + Len(kept[k])
          BY <4>4, <4>5, ConcatProperties DEF s
        <5>2. QED
          BY <4>5, <5>1 DEF s
      <4>7. Len(of) \in Nat /\ Len(kept[k]) \in Nat /\ Len(All[n - 1]) \in Nat
            /\ Len(kept[k]) <= Len(of)
        BY <4>4, <4>5, LenProperties DEF Prefix
      <4>8. ASSUME NEW a \in Nat, NEW b \in Nat, NEW c \in Nat, b <= c, c <= b + left
            PROVE  a + b \in Nat /\ a + b <= a + c /\ a + c <= (a + b) + left
        BY <2>3, <4>8
      <4>9. ASSUME NEW a \in Nat, NEW b \in Nat, NEW c \in Nat, c = b + left
            PROVE  a + c = (a + b) + left
        BY <2>3, <4>9
      <4>10. Len(of) <= Len(kept[k]) + left /\ (bounds = Everywhere => Len(of) = Len(kept[k]) + left)
        BY <4>3, <4>4
      <4>11. /\ Len(out) \in Nat /\ Len(out) <= Len(All[n]) /\ Len(All[n]) <= Len(out) + left
        BY <4>6, <4>7, <4>8, <4>10
      <4>12. bounds = Everywhere => Len(All[n]) = Len(out) + left
        <5>1. Len(of) = Len(kept[k]) + left
                => Len(All[n - 1]) + Len(of) = (Len(All[n - 1]) + Len(kept[k])) + left
          BY <4>7, <4>9
        <5>2. QED
          BY <4>6, <4>10, <5>1
      <4>13. QED
        BY <4>11, <4>12
    <3>3. QED
      BY <3>1, <3>2
  <2> HIDE DEF n, N, left, total
  <2>6. /\ Len(All[N]) - Len(out) <= remaining_candidate_points
        /\ 0 <= Len(All[N]) - Len(out)
    <3>1. ASSUME NEW o \in Nat, NEW a \in Nat, NEW b \in Nat, NEW s \in Nat, NEW t \in Nat,
                 NEW l \in Nat, o <= a, a <= o + l, a <= b, b - a <= t - s
          PROVE  b - o <= (t - s) + l /\ 0 <= b - o
      BY <3>1
    <3>2. QED
      BY <2>3, <2>4, <2>5, <3>1
  <2>7. bounds = Everywhere => remaining_candidate_points <= Len(All[N]) - Len(out)
    <3>1. ASSUME NEW o \in Nat, NEW a \in Nat, NEW b \in Nat, NEW s \in Nat, NEW t \in Nat,
                 NEW l \in Nat, a = o + l, t - s <= b - a
          PROVE  (t - s) + l <= b - o
      BY <3>1
    <3>2. QED
      BY <2>3, <2>4, <2>5, <3>1
  <2>8. QED
    BY <2>2, <2>6, <2>7 DEF SizeHint
<1>2. IInv => HintBrackets
  BY <1>1 DEF HintBrackets
<1>3. QED
  BY <1>2, Invariance, PTL


\* Between two bytes of one request that nobody asked for, and none between
\* them, there is less than the gap.
LEMMA GapInside ==
  ASSUME SelectionInv, NEW a, NEW b, Together(a, b),
         NEW x \in chunks[a].offset..(EndOf(chunks[b]) - 1),
         NEW y \in x..(EndOf(chunks[b]) - 1), (x..y) \cap Asked = {}
  PROVE  y - x < Gap
<1> DEFINE N == Len(chunks)
           S == {k \in a..b : EndOf(chunks[k]) <= x}
           k == Max(S)
<1>1. N \in Nat /\ a \in 1..N /\ b \in a..N /\ b \in 1..N
      /\ \A i \in a..(b - 1) : chunks[i + 1].offset <= EndOf(chunks[i]) + Gap
  BY SelectedChunks DEF Together
<1>2. \A i \in 1..N :
        /\ chunks[i].offset \in Nat /\ EndOf(chunks[i]) \in Nat
        /\ chunks[i].offset < EndOf(chunks[i])
        /\ Bytes(chunks[i]) = chunks[i].offset..(EndOf(chunks[i]) - 1)
        /\ Bytes(chunks[i]) \subseteq Asked
  <2>1. DOMAIN chunks = 1..N
    BY SelectedChunks
  <2>2. \A i \in 1..N : Bytes(chunks[i]) \subseteq Asked
    BY <2>1 DEF Asked
  <2>3. ASSUME NEW i \in 1..N PROVE chunks[i].offset < EndOf(chunks[i])
    <3>1. /\ chunks[i].offset \in Nat /\ chunks[i].byte_size \in Nat \ {0}
          /\ EndOf(chunks[i]) = chunks[i].offset + chunks[i].byte_size
      BY SelectedChunks
    <3>2. QED
      BY <3>1
  <2>4. QED
    BY <2>2, <2>3, SelectedChunks
<1> HIDE DEF N
<1>3. x \in Nat /\ y \in Nat /\ x <= y /\ chunks[a].offset <= x /\ y < EndOf(chunks[b])
  <2>1. chunks[a].offset \in Nat /\ EndOf(chunks[b]) \in Nat
    BY <1>1, <1>2
  <2>2. QED
    BY <2>1
<1>4. \A z \in x..y : z \notin Asked
  OBVIOUS
<1>5. a \in S
  <2>1. x \notin Bytes(chunks[a])
    BY <1>1, <1>2, <1>3, <1>4
  <2>2. EndOf(chunks[a]) <= x
    BY <1>1, <1>2, <1>3, <2>1
  <2>3. QED
    BY <1>1, <2>2
<1>6. k \in S /\ \A i \in S : i <= k
  <2>1. b \in Nat /\ S \subseteq 0..b
    BY <1>1
  <2> HIDE DEF S
  <2>2. S # {}
    BY <1>5
  <2>3. QED
    BY <2>1, <2>2, GreatestElement
<1>7. k \in a..b /\ EndOf(chunks[k]) <= x
  BY <1>6
<1> HIDE DEF k
<1>8. k # b
  BY <1>1, <1>2, <1>3, <1>7
<1> DEFINE n == k + 1
<1>9. n \in a..b /\ n \in 1..N /\ k \in a..(b - 1) /\ k \in 1..N /\ ~ (n <= k)
  BY <1>1, <1>7, <1>8
<1>10. chunks[n].offset <= EndOf(chunks[k]) + Gap
  BY <1>1, <1>9
<1> HIDE DEF n
<1>11. x < EndOf(chunks[n])
  <2>1. n \notin S
    BY <1>6, <1>9
  <2>2. QED
    BY <1>2, <1>3, <1>9, <2>1
<1>12. x < chunks[n].offset
  <2>1. x \notin Bytes(chunks[n])
    BY <1>2, <1>3, <1>4, <1>9
  <2>2. QED
    BY <1>2, <1>3, <1>9, <1>11, <2>1
<1>13. y < chunks[n].offset
  <2>1. chunks[n].offset \in Bytes(chunks[n])
    BY <1>2, <1>9
  <2>2. chunks[n].offset \notin x..y
    BY <1>2, <1>4, <1>9, <2>1
  <2>3. QED
    BY <1>2, <1>3, <1>9, <1>12, <2>2
<1>14. QED
  BY <1>2, <1>3, <1>7, <1>9, <1>10, <1>13, RangeAssumption

\* In every reachable state the ranges asked for go forward through the
\* file, none overlaps another, each is within the limit or for the sake of
\* one chunk, and it spans no gap that is as large as the gap limit
\* (coalesce_chunks).
THEOREM RequestsAreFrugal == Spec => []RequestsFrugal
<1>1. ASSUME IInv PROVE RequestsFrugal
  <2>1. SelectionInv /\ RequestsInv(Len(chunks))
    <3>1. SelectionInv
      BY <1>1 DEF IInv
    <3>2. CASE requests = <<>>
      <4>1. requests \in Seq(SUBSET Int) /\ Len(requests) = 0
        BY <3>2
      <4>2. QED
        BY <3>1, <4>1 DEF RequestsInv
    <3>3. CASE RangesInv
      <4>1. CASE pc = "new"
        BY <3>2, <3>3, <4>1 DEF RangesInv
      <4>2. CASE pc = "returned"
        BY <3>1, <3>3, <4>2 DEF RangesInv
      <4>3. CASE pc \in {"group", "decode"}
        <5>1. PICK m \in 0..Len(chunks) : RequestsInv(m)
          BY <3>3, <4>3 DEF RangesInv, FetchedInv
        <5>2. QED
          BY <3>1, <5>1, RequestsOfAll
      <4>4. QED
        BY <3>3, <4>1, <4>2, <4>3 DEF RangesInv
    <3>4. QED
      BY <1>1, <3>1, <3>2, <3>3 DEF IInv
  <2>2. DOMAIN requests = 1..Len(requests) /\ DOMAIN chunks = 1..Len(chunks)
    BY <2>1, SelectedChunks DEF RequestsInv
  <2>3. ASSUME NEW i \in DOMAIN requests
        PROVE  /\ \/ Cardinality(requests[i]) <= MaxRange
                  \/ \E k \in DOMAIN chunks : requests[i] = Bytes(chunks[k])
               /\ \A x, y \in requests[i] : x <= y /\ (x..y) \cap Asked = {} => y - x < Gap
    <3>1. PICK a \in 1..Len(chunks), b \in 1..Len(chunks) :
            Together(a, b) /\ requests[i] = chunks[a].offset..(EndOf(chunks[b]) - 1)
      BY <2>1, <2>2 DEF RequestsInv
    <3> DEFINE o == chunks[a].offset
               e == EndOf(chunks[b])
    <3>2. o \in Nat /\ e \in Nat /\ o < e
      <4>1. b \in a..Len(chunks) /\ chunks[b].byte_size \in Nat \ {0} /\ chunks[b].offset \in Nat
            /\ e = chunks[b].offset + chunks[b].byte_size
        BY <2>1, <3>1, SelectedChunks DEF Together
      <4>2. o \in Nat /\ o <= chunks[b].offset
        BY <2>1, <4>1, ChunksRise, SelectedChunks
      <4> HIDE DEF e, o
      <4>3. QED
        BY <4>1, <4>2
    <3>3. CASE a = b
      <4>1. requests[i] = Bytes(chunks[a])
        BY <2>1, <3>1, <3>3, SelectedChunks
      <4>2. QED
        BY <2>1, <2>2, <3>1, <4>1, GapInside
    <3>4. CASE a # b
      <4>1. e - o <= MaxRange
        BY <3>1, <3>4 DEF Together
      <4> HIDE DEF o, e
      <4>2. Cardinality(o..(e - 1)) = e - o
        <5>1. o \in Int /\ e - 1 \in Int /\ ~ (o > e - 1) /\ (e - 1) - o + 1 = e - o
          BY <3>2
        <5>2. QED
          BY <5>1, FS_Interval
      <4>3. requests[i] = o..(e - 1)
        BY <3>1 DEF o, e
      <4>4. Cardinality(requests[i]) <= MaxRange
        BY <4>1, <4>2, <4>3
      <4>5. \A x, y \in requests[i] : x <= y /\ (x..y) \cap Asked = {} => y - x < Gap
        <5>1. SUFFICES ASSUME NEW x \in requests[i], NEW y \in requests[i], x <= y,
                              (x..y) \cap Asked = {}
                       PROVE  y - x < Gap
          OBVIOUS
        <5>2. x \in o..(e - 1) /\ y \in x..(e - 1)
          BY <3>2, <4>3, <5>1
        <5>3. QED
          BY <2>1, <3>1, <5>1, <5>2, GapInside DEF o, e
      <4>6. QED
        BY <4>4, <4>5
    <3>5. QED
      BY <3>3, <3>4
  <2>4. \A i, j \in DOMAIN requests : i < j => \A x \in requests[i], y \in requests[j] : x < y
    BY <2>1, <2>2 DEF RequestsInv
  <2>5. QED
    BY <2>3, <2>4 DEF RequestsFrugal
<1>2. QED
  BY <1>1, Invariance, PTL


-----------------------------------------------------------------------------
(***************************************************************************)
(* Every way of reading is a way of giving the answer.                     *)
(***************************************************************************)
\* What is promised, and whether it is everything, does not change.
LEMMA SamePromise ==
  ASSUME UNCHANGED request
  PROVE  /\ UNCHANGED Expected(file, chunks, bounds)
         /\ UNCHANGED (WholeOnes(file, chunks) = Len(chunks))
BY DEF request

LEMMA AnswerRefined ==
  ASSUME IInv, IInv', UNCHANGED <<how, request>>, AnswerStep
  PROVE  [Answer!Deliver \/ Answer!Finish \/ Answer!GiveUp]_(Answer!avars)
<1> DEFINE promised == Expected(file, chunks, bounds)
           complete == WholeOnes(file, chunks) = Len(chunks)
           S == Stored(file, chunks)
<1>1. SelectionInv /\ Prefix(Delivered, All[Ahead])
  BY DEF IInv
<1>2. /\ promised = All[Ahead] /\ (complete <=> Ahead = Len(chunks))
      /\ UNCHANGED <<promised, complete>>
  BY SamePromise, ExpectedIsGathered DEF All, Ahead
<1>3. promised \in Seq(S) /\ Len(promised) \in Nat
  BY <1>1, <1>2, AllChunks, LenProperties
<1>4. CASE GoesOn
  <2>1. /\ result = "running" /\ UNCHANGED result
        /\ Delivered \in Seq(S) /\ Delivered' \in Seq(S)
        /\ Len(Delivered) <= Len(Delivered')
        /\ Prefix(Delivered, promised) /\ Prefix(Delivered', promised)
        /\ Len(Delivered) \in Nat /\ Len(Delivered') \in Nat
    BY <1>1, <1>2, <1>4, LenProperties DEF GoesOn
  <2>2. Delivered = SubSeq(promised, 1, Len(Delivered))
    BY <1>3, <2>1, PrefixIsSubSeq
  <2>3. PICK t : t = Delivered'
    OBVIOUS
  <2>4. t = SubSeq(promised, 1, Len(t))
    BY <1>3, <2>1, <2>3, PrefixIsSubSeq
  <2>5. Len(t) \in Nat /\ Len(t) <= Len(promised) /\ Len(Delivered) <= Len(t)
    BY <2>1, <2>3 DEF Prefix
  <2>6. CASE Len(t) = Len(Delivered)
    <3>1. UNCHANGED Delivered
      BY <2>2, <2>3, <2>4, <2>6
    <3>2. QED
      BY <1>2, <2>1, <3>1 DEF Answer!avars, Delivered
  <2>7. CASE Len(t) # Len(Delivered)
    <3>1. Len(t) \in (Len(Delivered) + 1)..Len(promised)
      BY <1>3, <2>1, <2>5, <2>7
    <3>2. \E m \in (Len(Delivered) + 1)..Len(promised) : Delivered' = SubSeq(promised, 1, m)
      BY <2>3, <2>4, <3>1
    <3>3. Answer!Deliver
      BY <1>2, <2>1, <3>2 DEF Answer!Deliver, Delivered
    <3>4. QED
      BY <3>3
  <2>8. QED
    BY <2>6, <2>7
<1>5. CASE EndsWell
  <2>1. result = "running" /\ result' = "ok" /\ UNCHANGED Delivered /\ complete /\ Delivered = promised
    BY <1>2, <1>5 DEF EndsWell
  <2>2. Answer!Finish
    BY <1>2, <2>1 DEF Answer!Finish, Delivered
  <2>3. QED
    BY <2>2
<1>6. CASE Fails
  <2>1. Answer!GiveUp
    BY <1>2, <1>6 DEF Fails, Answer!GiveUp, Delivered
  <2>2. QED
    BY <2>1
<1>7. CASE Waits
  BY <1>2, <1>7 DEF Waits, Answer!avars, Delivered
<1>8. QED
  BY <1>4, <1>5, <1>6, <1>7 DEF AnswerStep

\* Every behaviour of every way of reading is one that PointAnswer allows:
\* the points come in order, none twice and none left out, and a read that
\* ends well has returned all that was promised.
THEOREM ReadsAnswer == Spec => ImplementsAnswer
<1>1. Init => Answer!AInit
  <2>1. Init => Delivered = <<>> /\ result = "running"
    BY DEF Init, ReadInit, ColumnsInit, Delivered, Rows
  <2>2. QED
    BY <2>1 DEF Answer!AInit, Delivered
<1>2. IInv /\ IInv' /\ [Next]_vars
        => [Answer!Deliver \/ Answer!Finish \/ Answer!GiveUp]_(Answer!avars)
  <2>1. ASSUME IInv, IInv', [Next]_vars
        PROVE  UNCHANGED <<how, request>> /\ AnswerStep
    BY <2>1, NextInv, Stutter DEF AnswerStep
  <2>2. QED
    BY <2>1, AnswerRefined
<1>3. QED
  BY <1>1, <1>2, Invariance, PTL DEF Spec, ImplementsAnswer, Answer!ASpec

-----------------------------------------------------------------------------
(***************************************************************************)
(* HttpRange, the source that byte ranges of a remote file come from: what *)
(* an Ok read returns, and that all Ok answers are about files of one      *)
(* length.                                                                 *)
(***************************************************************************)
\* The request is for one of the ranges a caller asks for; the length is
\* probed only while it is unknown.
CallInv ==
  \/ call = Idle
  \/ call = [kind |-> "len", from |-> 0, to |-> 0] /\ len = Unknown
  \/ \E a \in Asks :
       a.len > 0 /\ call = [kind |-> "range", from |-> a.offset, to |-> a.offset + a.len - 1]

\* A response has bytes of one version, perhaps too few or too many, and
\* what it says of their place is true.
ResponseInv ==
  response.kind = "206" =>
    \E v \in DOMAIN Versions :
      /\ response.total = Versions[v]
      /\ response.from \in Nat /\ response.to \in Int
      /\ response.body \in Bodies(Slice(v, response.from, response.to))

\* The length an answer was given under is the one that has been kept.
TotalsInv == \A a \in answers : a.total = len /\ len # Unknown

HttpIInv == served \in DOMAIN Versions /\ CallInv /\ ResponseInv /\ TotalsInv /\ RightBytes

LEMMA HttpInitInv == HttpInit => HttpIInv
  BY DEF HttpInit, HttpIInv, CallInv, ResponseInv, TotalsInv, RightBytes, None

-----------------------------------------------------------------------------
LEMMA SliceType ==
  ASSUME NEW v, NEW from \in Int, NEW to \in Int
  PROVE  /\ Slice(v, from, to) \in Seq({v} \X Int)
         /\ to >= from => Len(Slice(v, from, to)) = to - from + 1
<1> DEFINE n == to - from + 1
<1>1. n \in Int
  OBVIOUS
<1>2. CASE n >= 0
  BY <1>2 DEF Slice
<1>3. CASE n < 0
  BY <1>3, 1..n = 1..0 DEF Slice
<1>4. QED
  BY <1>1, <1>2, <1>3

\* A body that ends where it should is the slice: a shorter or a longer one
\* has another length.
LEMMA WholeBody ==
  ASSUME NEW v, NEW from \in Nat, NEW to \in Nat, from <= to,
         NEW b \in Bodies(Slice(v, from, to)), Len(b) = to - from + 1
  PROVE  b = Slice(v, from, to)
<1> DEFINE s == Slice(v, from, to)
<1>1. s \in Seq({v} \X Int) /\ Len(s) = to - from + 1
  <2>1. from \in Int /\ to \in Int /\ to >= from
    OBVIOUS
  <2>2. s \in Seq({v} \X Int)
    BY <2>1, SliceType
  <2>3. Len(s) = to - from + 1
    BY <2>1, SliceType
  <2>4. QED
    BY <2>2, <2>3
<1> HIDE DEF s
<1>2. ASSUME NEW n \in 0..Len(s), b = SubSeq(s, 1, n) PROVE b = s
  <2>1. Len(b) = n /\ b \in Seq({v} \X Int) /\ \A i \in 1..n : b[i] = s[i]
    BY <1>1, <1>2
  <2>2. Len(b) = Len(s)
    BY <1>1
  <2>3. QED
    BY <1>1, <2>1, <2>2, SeqEqual
<1>3. b # Append(s, <<"more", 0>>)
  <2>1. s \in Seq(({v} \X Int) \cup {<<"more", 0>>})
    BY <1>1
  <2>2. Len(Append(s, <<"more", 0>>)) = Len(s) + 1
    BY <2>1, AppendProperties
  <2>3. QED
    BY <1>1, <2>2
<1>4. b \in {SubSeq(s, 1, n) : n \in 0..Len(s)} \cup {Append(s, <<"more", 0>>)}
  BY DEF Bodies, s
<1>5. QED
  BY <1>2, <1>3, <1>4 DEF s

-----------------------------------------------------------------------------
\* The answer a range read adds, from a response that passes all checks.
LEMMA HttpAnswer ==
  ASSUME HttpIInv, Answered("range"), RangeAsFor, BodyAsFor
  PROVE  /\ \E ask \in Asks : ask.offset = call.from /\ ask.len = Len(response.body)
         /\ \E v \in DOMAIN Versions :
              /\ Versions[v] = response.total
              /\ response.body = Slice(v, call.from, call.from + Len(response.body) - 1)
<1>1. PICK ask \in Asks :
        /\ ask.len > 0
        /\ call = [kind |-> "range", from |-> ask.offset, to |-> ask.offset + ask.len - 1]
  BY DEF HttpIInv, CallInv, Answered, Idle
<1>2. ask.offset \in Nat /\ ask.len \in Nat
  BY HttpAssumption
<1>3. /\ call.from = ask.offset /\ call.to = ask.offset + ask.len - 1
      /\ call.from \in Nat /\ call.to \in Nat /\ call.from <= call.to
  BY <1>1, <1>2
<1>4. PICK v \in DOMAIN Versions :
        /\ response.total = Versions[v]
        /\ response.body \in Bodies(Slice(v, call.from, call.to))
  BY DEF HttpIInv, ResponseInv, RangeAsFor
<1>5. Len(response.body) = call.to - call.from + 1
  BY DEF BodyAsFor
<1>6. response.body = Slice(v, call.from, call.to)
  BY <1>3, <1>4, <1>5, WholeBody
<1>7. Len(response.body) = ask.len /\ call.to = call.from + Len(response.body) - 1
  BY <1>2, <1>3, <1>5
<1>8. QED
  BY <1>3, <1>4, <1>6, <1>7

LEMMA HttpStepInv == ASSUME HttpIInv, [HttpNext]_httpVars PROVE HttpIInv'
<1> USE DEF HttpIInv
<1>1. ASSUME Replace \/ LenKnown \/ ReadNothing PROVE HttpIInv'
  <2>1. /\ call' = call /\ response' = response /\ len' = len
        /\ \/ answers' = answers
           \/ /\ answers' = answers \cup {[offset |-> 0, bytes |-> <<>>, total |-> len]}
              /\ len # Unknown
    BY <1>1 DEF Replace, LenKnown, ReadNothing
  <2>2. CallInv' /\ ResponseInv'
    BY <2>1 DEF CallInv, ResponseInv
  <2>3. TotalsInv'
    BY <2>1 DEF TotalsInv
  <2>4. RightBytes'
    BY <2>1 DEF RightBytes
  <2>5. served' \in DOMAIN Versions
    BY <1>1 DEF Replace, LenKnown, ReadNothing
  <2>6. QED
    BY <2>2, <2>3, <2>4, <2>5
<1>2. CASE AskLen
  <2>1. /\ call' = [kind |-> "len", from |-> 0, to |-> 0] /\ len' = len /\ len = Unknown
        /\ answers' = answers /\ response' = None /\ served' = served
    BY <1>2 DEF AskLen, Request
  <2>2. QED
    BY <2>1 DEF CallInv, ResponseInv, TotalsInv, RightBytes, None
<1>3. CASE AskRange
  <2>1. /\ \E a \in Asks :
             /\ a.len > 0
             /\ call' = [kind |-> "range", from |-> a.offset, to |-> a.offset + a.len - 1]
        /\ len' = len /\ answers' = answers /\ response' = None /\ served' = served
    BY <1>3 DEF AskRange, Request
  <2>2. QED
    BY <2>1 DEF CallInv, ResponseInv, TotalsInv, RightBytes, None
<1>4. CASE Respond
  <2>1. /\ response' \in Responses(served, call.from, call.to)
        /\ call' = call /\ len' = len /\ answers' = answers /\ call # Idle
    BY <1>4 DEF Respond
  <2>2. ResponseInv'
    <3>1. call.from \in Nat /\ call.to \in Int
      BY <2>1, HttpAssumption DEF CallInv
    <3>2. Versions[served] \in Nat
      BY HttpAssumption
    <3>3. ASSUME response'.kind = "206"
          PROVE  \E from \in Nat, to \in Int : response' \in Partial(served, from, to)
      <4>1. response' # [kind |-> "other"]
        BY <3>3
      <4>2. Versions[served] - 1 \in Int /\ 0 \in Nat
        BY <3>2
      <4>3. QED
        BY <2>1, <3>1, <4>1, <4>2 DEF Responses
    <3>4. QED
      BY <3>3 DEF ResponseInv, Partial
  <2>3. served' = served
    BY <1>4 DEF Respond
  <2>4. QED
    BY <2>1, <2>2, <2>3 DEF CallInv, TotalsInv, RightBytes
<1>5. CASE EndLen
  <2>1. call.kind = "len" /\ len = Unknown /\ served' = served /\ response' = response
    BY <1>5 DEF EndLen, Answered, CallInv, Idle
  <2>2. answers = {}
    BY <2>1 DEF TotalsInv
  <2>3. /\ call' = Idle
        /\ \/ answers' = answers /\ len' = len
           \/ /\ answers' = answers \cup {[offset |-> 0, bytes |-> <<>>, total |-> response.total]}
              /\ len' = response.total /\ response.total > 0
    BY <1>5 DEF EndLen, Err
  <2>4. TotalsInv'
    <3>1. response.total > 0 => response.total # Unknown
      BY DEF Unknown
    <3>2. QED
      BY <2>2, <2>3, <3>1 DEF TotalsInv
  <2>5. RightBytes'
    BY <2>2, <2>3 DEF RightBytes
  <2>6. QED
    BY <2>1, <2>3, <2>4, <2>5 DEF CallInv, ResponseInv
<1>6. CASE EndRange
  <2>1. /\ Answered("range") /\ served' = served /\ response' = response /\ call' = Idle
        /\ \/ answers' = answers /\ len' = len
           \/ /\ RangeAsFor /\ SameTotal /\ len' = response.total
              /\ \/ answers' = answers
                 \/ /\ BodyAsFor
                    /\ answers' = answers \cup {[offset |-> call.from, bytes |-> response.body,
                                                 total |-> response.total]}
    BY <1>6 DEF EndRange, Err
  <2>2. CASE answers' = answers /\ len' = len
    BY <2>1, <2>2 DEF CallInv, ResponseInv, TotalsInv, RightBytes
  <2>3. CASE RangeAsFor /\ SameTotal /\ len' = response.total
    <3>1. response.total \in Nat /\ response.total # Unknown
      BY <2>3, HttpAssumption DEF RangeAsFor, ResponseInv, Unknown
    <3>2. \A a \in answers : a.total = len' /\ len = len'
      BY <2>3 DEF SameTotal, TotalsInv
    <3>3. TotalsInv'
      BY <2>1, <2>3, <3>1, <3>2 DEF TotalsInv
    <3>4. RightBytes'
      <4>1. \A a \in answers : a.bytes # <<>> =>
              /\ \E ask \in Asks : ask.offset = a.offset /\ ask.len = Len(a.bytes)
              /\ \E v \in DOMAIN Versions :
                   Versions[v] = len' /\ a.bytes = Slice(v, a.offset, a.offset + Len(a.bytes) - 1)
        BY <3>2 DEF RightBytes
      <4>2. CASE answers' = answers
        BY <4>1, <4>2 DEF RightBytes
      <4>3. CASE /\ BodyAsFor
                 /\ answers' = answers \cup {[offset |-> call.from, bytes |-> response.body,
                                              total |-> response.total]}
        BY <4>1, <4>3, <2>1, <2>3, HttpAnswer DEF RightBytes
      <4>4. QED
        BY <2>1, <4>2, <4>3
    <3>5. QED
      BY <2>1, <3>3, <3>4 DEF CallInv, ResponseInv
  <2>4. QED
    BY <2>1, <2>2, <2>3
<1>7. CASE UNCHANGED httpVars
  BY <1>7 DEF httpVars, CallInv, ResponseInv, TotalsInv, RightBytes
<1>8. QED
  BY <1>1, <1>2, <1>3, <1>4, <1>5, <1>6, <1>7 DEF HttpNext

THEOREM HttpInvariance == HttpSpec => []HttpIInv
<1>1. HttpInit => HttpIInv
  BY HttpInitInv
<1>2. HttpIInv /\ [HttpNext]_httpVars => HttpIInv'
  BY HttpStepInv
<1>3. QED
  BY <1>1, <1>2, PTL DEF HttpSpec

\* A read that returns Ok has filled the buffer with the bytes asked for, of
\* one version (HttpRangeReader::read_range), whatever the server answers.
THEOREM BytesAreRight == HttpSpec => []RightBytes
<1>1. HttpIInv => RightBytes
  BY DEF HttpIInv
<1>2. QED
  BY <1>1, HttpInvariance, PTL

\* The length is kept from the first accepted response on, and no answer of
\* another length is accepted (HttpRangeReader::read_range).
THEOREM LengthIsKept == HttpSpec => []OneLength
<1>1. HttpIInv => OneLength
  BY DEF HttpIInv, TotalsInv, OneLength
<1>2. QED
  BY <1>1, HttpInvariance, PTL
=============================================================================

-------------------------- MODULE OutputFile_proofs --------------------------
(***************************************************************************)
(* Proofs about the file that write_copc makes.                            *)
(*                                                                         *)
(* About FileLayout, for any records and any octree that a caller may      *)
(* bring: the offsets the writer works out before it writes are those it   *)
(* writes at, a page and its range are never larger than the limit, and a  *)
(* file that the seek-based reader opens is one the range reader opens.    *)
(*                                                                         *)
(* About AtomicOutput, for any number of writers of a destination and of   *)
(* power losses: what is at the destination is whole and lasts, and the    *)
(* writer implements AtomicPublish.                                        *)
(***************************************************************************)
EXTENDS FileLayout, AtomicOutput, HierarchyFile_proofs

-----------------------------------------------------------------------------
(***************************************************************************)
(* Counting up, and functions defined by recursion on how far a list has   *)
(* been taken: filters and sums.                                           *)
(***************************************************************************)
\* What holds of a, and of a number when it holds of the one before, holds
\* from a on.
LEMMA CountUp ==
  ASSUME NEW a \in Int, NEW b \in Int, NEW F, a \in F,
         \A i \in (a + 1)..b : i - 1 \in F => i \in F
  PROVE  a..b \subseteq F
<1> SUFFICES ASSUME NEW x \in a..b, x \notin F PROVE FALSE
  OBVIOUS
<1> DEFINE D == {n \in Nat : a + n <= b /\ a + n \notin F}
<1>1. D \subseteq Nat /\ D # {}
  <2>1. x - a \in Nat /\ a + (x - a) = x
    OBVIOUS
  <2>2. x - a \in D
    BY <2>1
  <2>3. QED
    BY <2>2
<1>2. PICK m \in D : \A n \in D : m <= n
  <2> HIDE DEF D
  <2>1. QED
    BY <1>1, LeastElement
<1>3. m \in Nat /\ a + m <= b /\ a + m \notin F
  OBVIOUS
<1>4. m # 0
  BY <1>3
<1>5. m - 1 \in Nat /\ m - 1 \notin D
  BY <1>2, <1>3, <1>4
<1>6. a + (m - 1) \in F /\ a + m \in (a + 1)..b /\ a + (m - 1) = (a + m) - 1
  BY <1>3, <1>5
<1>7. QED
  BY <1>3, <1>6

\* Recursion has a result, whatever is done in each round.
RunOf(f, V, n, base, round) ==
  f \in [0..n -> V] /\ f[0] = base /\ \A i \in 1..n : f[i] = round[i][f[i - 1]]

\* A recursion has a result, whatever is done in each round.
LEMMA Recursion ==
  ASSUME NEW V, NEW n \in Nat, NEW base \in V, NEW round \in [1..n -> [V -> V]]
  PROVE  \E f : RunOf(f, V, n, base, round)
<1> USE DEF RunOf
<1> DEFINE F == {m \in 0..n : \E f \in [0..m -> V] :
                   f[0] = base /\ \A i \in 1..m : f[i] = round[i][f[i - 1]]}
<1>1. 0 \in F
  <2> DEFINE f == [i \in 0..0 |-> base]
  <2>1. f \in [0..0 -> V] /\ f[0] = base /\ \A i \in 1..0 : f[i] = round[i][f[i - 1]]
    OBVIOUS
  <2> HIDE DEF f
  <2>2. QED
    BY <2>1
<1>2. ASSUME NEW m \in (0 + 1)..n, m - 1 \in F PROVE m \in F
  <2>1. PICK f \in [0..(m - 1) -> V] :
          f[0] = base /\ \A i \in 1..(m - 1) : f[i] = round[i][f[i - 1]]
    BY <1>2
  <2> DEFINE g == [i \in 0..m |-> IF i = m THEN round[m][f[m - 1]] ELSE f[i]]
  <2>2. f[m - 1] \in V /\ round[m] \in [V -> V]
    OBVIOUS
  <2>3. round[m][f[m - 1]] \in V
    BY <2>2
  <2>4. \A i \in 0..m : i # m => i \in 0..(m - 1)
    OBVIOUS
  <2>5. g \in [0..m -> V]
    BY <2>3, <2>4
  <2>6. g[0] = base
    BY <2>1
  <2>7. ASSUME NEW i \in 1..m PROVE g[i] = round[i][g[i - 1]]
    <3>1. g[i - 1] = f[i - 1] /\ i - 1 \in 0..(m - 1)
      OBVIOUS
    <3>2. CASE i = m
      BY <3>1, <3>2
    <3>3. CASE i # m
      <4>1. i \in 1..(m - 1) /\ g[i] = f[i]
        BY <3>3
      <4>2. QED
        BY <2>1, <3>1, <4>1
    <3>4. QED
      BY <3>2, <3>3
  <2> HIDE DEF g
  <2>8. m \in 0..n
    OBVIOUS
  <2>9. QED
    BY <2>5, <2>6, <2>7, <2>8
<1>3. 0..n \subseteq F
  <2>1. 0 \in Int /\ n \in Int
    OBVIOUS
  <2> HIDE DEF F
  <2>2. QED
    BY <1>1, <1>2, <2>1, CountUp
<1>4. n \in 0..n
  OBVIOUS
<1>5. QED
  BY <1>3, <1>4

-----------------------------------------------------------------------------
\* One more element of the list.
ThoseRound(list, S, those, n) ==
  IF n = 0 THEN <<>>
  ELSE IF list[n] \in S THEN Append(those[n - 1], list[n])
  ELSE those[n - 1]

\* The elements in S of the first n.
ThoseUpTo(list, S) ==
  CHOOSE those : those = [n \in 0..Len(list) |-> ThoseRound(list, S, those, n)]

\* Those of a list are those of all of its elements.
LEMMA ThoseIsLast ==
  ASSUME NEW list, NEW S PROVE Those(list, S) = ThoseUpTo(list, S)[Len(list)]
BY DEF Those, ThoseUpTo, ThoseRound

\* What each round of Those gives.
LEMMA ThoseSteps ==
  ASSUME NEW T, NEW list \in Seq(T), NEW S
  PROVE  /\ ThoseUpTo(list, S) \in [0..Len(list) -> Seq(T)]
         /\ \A n \in 0..Len(list) :
              ThoseUpTo(list, S)[n] = ThoseRound(list, S, ThoseUpTo(list, S), n)
<1> DEFINE N == Len(list)
           V == Seq(T)
           round == [i \in 1..N |-> [s \in V |->
                       IF list[i] \in S THEN Append(s, list[i]) ELSE s]]
           eqn(f) == f = [n \in 0..N |-> ThoseRound(list, S, f, n)]
           it == ThoseUpTo(list, S)
<1>1. N \in Nat /\ <<>> \in V /\ \A i \in 1..N : list[i] \in T
  BY LenProperties, ElementOfSeq, EmptySeq
<1>2. round \in [1..N -> [V -> V]]
  BY <1>1, AppendProperties
<1>3. PICK f \in [0..N -> V] : f[0] = <<>> /\ \A i \in 1..N : f[i] = round[i][f[i - 1]]
  <2> DEFINE base == <<>>
  <2>1. base \in V
    BY <1>1
  <2> HIDE DEF N, V, round, base
  <2>2. \E f : RunOf(f, V, N, base, round)
    BY <1>1, <1>2, <2>1, Recursion
  <2>3. QED
    BY <2>2 DEF base, RunOf
<1>4. \E g : eqn(g)
  <2>1. ASSUME NEW n \in 0..N PROVE f[n] = ThoseRound(list, S, f, n)
    <3>1. CASE n = 0
      BY <1>3, <3>1 DEF ThoseRound
    <3>2. CASE n # 0
      <4>1. n \in 1..N /\ f[n - 1] \in V
        BY <1>1, <3>2
      <4>2. f[n] = round[n][f[n - 1]]
        BY <1>3, <4>1
      <4>3. QED
        BY <3>2, <4>1, <4>2 DEF ThoseRound
    <3>3. QED
      BY <3>1, <3>2
  <2>2. eqn(f)
    BY <2>1
  <2>3. QED
    BY <2>2
<1>5. eqn(it)
  <2>1. it = CHOOSE g : eqn(g)
    BY DEF ThoseUpTo
  <2> HIDE DEF it, eqn
  <2>2. QED
    BY <1>4, <2>1
<1>6. \A n \in 0..N : it[n] = ThoseRound(list, S, it, n)
  <2> HIDE DEF it
  <2>1. QED
    BY <1>5
<1>7. \A n \in 0..N : it[n] \in V
  <2> DEFINE F == {n \in 0..N : it[n] \in V}
  <2> HIDE DEF it
  <2>1. 0 \in F
    <3>1. 0 \in 0..N
      BY <1>1
    <3>2. it[0] = <<>>
      BY <1>6, <3>1, Zenon DEF ThoseRound
    <3>3. QED
      BY <1>1, <3>1, <3>2, Zenon
  <2>2. ASSUME NEW n \in (0 + 1)..N, n - 1 \in F PROVE n \in F
    <3>1. it[n - 1] \in V /\ n \in 0..N /\ list[n] \in T /\ n # 0
      BY <1>1, <2>2
    <3>2. Append(it[n - 1], list[n]) \in V
      BY <3>1, AppendProperties
    <3>3. QED
      BY <1>6, <3>1, <3>2 DEF ThoseRound
  <2>3. 0 \in Int /\ N \in Int
    BY <1>1
  <2> HIDE DEF F
  <2>4. 0..N \subseteq F
    BY <2>1, <2>2, <2>3, CountUp
  <2>5. QED
    BY <2>4 DEF F
<1>8. it = [n \in 0..N |-> it[n]]
  <2> HIDE DEF it
  <2>1. QED
    BY <1>5
<1>9. QED
  <2> HIDE DEF it, N, V
  <2>1. it \in [0..N -> V]
    BY <1>7, <1>8
  <2>2. QED
    BY <2>1, <1>6 DEF it, N, V

\* One element more.
LEMMA ThoseStep ==
  ASSUME NEW T, NEW list \in Seq(T), NEW S, NEW n \in 1..Len(list)
  PROVE  /\ ThoseUpTo(list, S)[n - 1] \in Seq(T) /\ ThoseUpTo(list, S)[n] \in Seq(T)
         /\ ThoseUpTo(list, S)[n] =
              IF list[n] \in S THEN Append(ThoseUpTo(list, S)[n - 1], list[n])
              ELSE ThoseUpTo(list, S)[n - 1]
<1> DEFINE those == ThoseUpTo(list, S)
<1>1. n \in 0..Len(list) /\ n - 1 \in 0..Len(list) /\ n # 0
  BY LenProperties
<1>2. those \in [0..Len(list) -> Seq(T)] /\ those[n] = ThoseRound(list, S, those, n)
  BY <1>1, ThoseSteps
<1> HIDE DEF those
<1>3. those[n - 1] \in Seq(T) /\ those[n] \in Seq(T)
  BY <1>1, <1>2
<1>4. QED
  BY <1>1, <1>2, <1>3, Zenon DEF ThoseRound, those

\* Those of an empty list are none.
LEMMA ThoseNone ==
  ASSUME NEW T, NEW list \in Seq(T), NEW S PROVE ThoseUpTo(list, S)[0] = <<>>
<1> DEFINE those == ThoseUpTo(list, S)
<1>1. 0 \in 0..Len(list)
  BY LenProperties
<1>2. those[0] = ThoseRound(list, S, those, 0)
  BY <1>1, ThoseSteps
<1> HIDE DEF those
<1>3. QED
  BY <1>2, Zenon DEF ThoseRound, those

\* A filter keeps the elements that are in the set, each once, and no others.
LEMMA ThoseElements ==
  ASSUME NEW T, NEW list \in Seq(T), NEW S
  PROVE  /\ Those(list, S) \in Seq(T)
         /\ Len(Those(list, S)) \in Nat /\ Len(Those(list, S)) <= Len(list)
         /\ Range(Those(list, S)) = Range(list) \cap S
         /\ IsInjective(list) => IsInjective(Those(list, S))
<1> DEFINE N == Len(list)
           those == ThoseUpTo(list, S)
           before(n) == {list[i] : i \in 1..n} \cap S
           F == {n \in 0..N :
                   /\ those[n] \in Seq(T) /\ Len(those[n]) <= n
                   /\ Range(those[n]) = before(n)
                   /\ IsInjective(list) => IsInjective(those[n])}
<1>1. /\ N \in Nat /\ Range(list) = {list[i] : i \in 1..N} /\ DOMAIN list = 1..N
      /\ \A i \in 1..N : list[i] \in T
  BY LenProperties, RangeEquality, ElementOfSeq
<1>2. 0 \in F
  <2>1. those[0] = <<>>
    BY ThoseNone
  <2>2. 1..0 = {}
    OBVIOUS
  <2>3. <<>> \in Seq(T) /\ Range(<<>>) = {} /\ Len(<<>>) = 0 /\ IsInjective(<<>>)
    BY RangeEmpty DEF IsInjective
  <2>4. before(0) = {}
    BY <2>2
  <2> HIDE DEF those, before
  <2>5. those[0] \in Seq(T) /\ Len(those[0]) = 0 /\ Range(those[0]) = before(0)
        /\ IsInjective(those[0])
    BY <2>1, <2>3, <2>4, Zenon
  <2>6. QED
    BY <1>1, <2>5
<1>3. ASSUME NEW n \in (0 + 1)..N, n - 1 \in F PROVE n \in F
  <2>1. n \in 1..N /\ n \in 0..N /\ list[n] \in T /\ n \in Nat
    BY <1>1
  <2>2. /\ those[n - 1] \in Seq(T) /\ those[n] \in Seq(T)
        /\ those[n] = IF list[n] \in S THEN Append(those[n - 1], list[n]) ELSE those[n - 1]
    BY <2>1, ThoseStep
  <2> DEFINE was == those[n - 1]
  <2>3. /\ was \in Seq(T) /\ Len(was) <= n - 1 /\ Len(was) \in Nat
        /\ Range(was) = before(n - 1)
        /\ IsInjective(list) => IsInjective(was)
    BY <1>3, <2>2, LenProperties
  <2>4. 1..n = 1..(n - 1) \cup {n} /\ n \notin 1..(n - 1) /\ 1..(n - 1) \subseteq 1..N
    BY <2>1
  <2>5. CASE list[n] \in S
    <3>1. those[n] = Append(was, list[n]) /\ before(n) = before(n - 1) \cup {list[n]}
      BY <2>2, <2>4, <2>5
    <3>2. IsInjective(list) => list[n] \notin before(n - 1)
      BY <1>1, <2>1, <2>4 DEF IsInjective
    <3> HIDE DEF was, those, before
    <3>3. Range(Append(was, list[n])) = Range(was) \cup {list[n]}
          /\ Len(Append(was, list[n])) = Len(was) + 1
      BY <2>1, <2>3, RangeAppend, AppendProperties
    <3>4. IsInjective(list) => IsInjective(Append(was, list[n]))
      BY <2>1, <2>3, <3>2, InjectiveAppend
    <3>5. Range(those[n]) = before(n)
      BY <2>3, <3>1, <3>3, Zenon
    <3>6. Len(those[n]) <= n
      BY <2>1, <2>3, <3>1, <3>3
    <3>7. IsInjective(list) => IsInjective(those[n])
      BY <3>1, <3>4, Zenon
    <3>8. QED
      BY <2>1, <2>2, <3>5, <3>6, <3>7
  <2>6. CASE list[n] \notin S
    <3>1. those[n] = was /\ before(n) = before(n - 1)
      BY <2>2, <2>4, <2>6
    <3> HIDE DEF was, those, before
    <3>2. QED
      BY <2>1, <2>2, <2>3, <3>1
  <2>7. QED
    BY <2>5, <2>6
<1>4. N \in F
  <2>1. 0 \in Int /\ N \in Int /\ N \in 0..N
    BY <1>1
  <2> HIDE DEF F, N
  <2>2. 0..N \subseteq F
    BY <1>2, <1>3, <2>1, CountUp
  <2>3. QED
    BY <2>1, <2>2
<1>5. Those(list, S) = those[N]
  BY ThoseIsLast
<1>6. QED
  <2> HIDE DEF those
  <2>1. Len(those[N]) \in Nat /\ those[N] \in Seq(T) /\ Len(those[N]) <= N
        /\ Range(those[N]) = before(N) /\ (IsInjective(list) => IsInjective(those[N]))
    BY <1>4, LenProperties
  <2>2. QED
    BY <1>1, <1>5, <2>1

\* A list without an element twice is as long as it has elements.
LEMMA InjectiveLength ==
  ASSUME NEW T, NEW s \in Seq(T), IsInjective(s)
  PROVE  IsFiniteSet(Range(s)) /\ Cardinality(Range(s)) = Len(s)
<1> DEFINE S == 1..Len(s)
           R == Range(s)
<1>1. Len(s) \in Nat /\ DOMAIN s = S /\ R = {s[i] : i \in S} /\ s = [i \in S |-> s[i]]
  BY LenProperties, RangeEquality
<1>2. IsFiniteSet(S) /\ Cardinality(S) = Len(s)
  <2> DEFINE n == Len(s)
  <2>1. 1 \in Int /\ n \in Int /\ n - 1 + 1 = n /\ (1 > n => n = 0)
    BY <1>1
  <2> HIDE DEF n
  <2>2. IsFiniteSet(1..n) /\ Cardinality(1..n) = IF 1 > n THEN 0 ELSE n - 1 + 1
    BY <2>1, FS_Interval
  <2>3. QED
    BY <2>1, <2>2 DEF n
<1> HIDE DEF S, R
<1>3. s \in [S -> R] /\ (\A a, b \in S : s[a] = s[b] => a = b) /\ \A r \in R : \E a \in S : s[a] = r
  BY <1>1 DEF IsInjective
<1>4. s \in Bijection(S, R)
  BY <1>3, Fun_IsBij
<1>5. IsFiniteSet(R) /\ Cardinality(R) = Cardinality(S)
  BY <1>2, <1>4, FS_Bijection DEF ExistsBijection
<1>6. QED
  BY <1>2, <1>5 DEF R

-----------------------------------------------------------------------------
(***************************************************************************)
(* Octants and subtrees.                                                   *)
(***************************************************************************)
\* The side of an octant along an axis, as in VoxelKey::child.
LEMMA BitType == \A o \in Octant, a \in Axis : OctantBit(o, a) \in {0, 1}
<1> SUFFICES ASSUME NEW o \in Octant, NEW a \in Axis PROVE OctantBit(o, a) \in {0, 1}
  OBVIOUS
<1>1. CASE a = 1
  <2>1. OctantBit(o, 1) = o % 2
    BY DEF OctantBit, Octant
  <2>2. QED
    BY <1>1, <2>1 DEF Octant
<1>2. CASE a = 2
  <2>1. OctantBit(o, 2) = (o \div 2) % 2
    BY DEF OctantBit, Octant
  <2>2. QED
    BY <1>2, <2>1 DEF Octant
<1>3. CASE a = 3
  <2>1. OctantBit(o, 3) = (o \div 4) % 2
    BY DEF OctantBit, Octant
  <2>2. QED
    BY <1>3, <2>1 DEF Octant
<1>4. QED
  BY <1>1, <1>2, <1>3 DEF Axis

\* A child of a voxel is a voxel.
LEMMA ChildType == ASSUME NEW k \in Key, NEW o \in Octant PROVE Child(k, o) \in Key
<1>1. k.level + 1 \in Int
  BY DEF Key
<1>2. \A a \in Axis : 2 * k.pos[a] + OctantBit(o, a) \in Int
  BY BitType DEF Key
<1>3. QED
  BY <1>1, <1>2 DEF Child, Key

\* The eight children of a voxel are different.
LEMMA ChildInjective ==
  ASSUME NEW k \in Key, NEW o \in Octant, NEW p \in Octant, Child(k, o) = Child(k, p)
  PROVE  o = p
<1>1. \A a \in Axis : 2 * k.pos[a] + OctantBit(o, a) = 2 * k.pos[a] + OctantBit(p, a)
  BY DEF Child
<1>2. \A a \in Axis : OctantBit(o, a) = OctantBit(p, a)
  BY <1>1, BitType DEF Key
<1>3. OctantBit(o, 1) = o % 2 /\ OctantBit(o, 2) = (o \div 2) % 2 /\ OctantBit(o, 3) = (o \div 4) % 2
  BY DEF OctantBit, Octant
<1>4. OctantBit(p, 1) = p % 2 /\ OctantBit(p, 2) = (p \div 2) % 2 /\ OctantBit(p, 3) = (p \div 4) % 2
  BY DEF OctantBit, Octant
<1>5. o % 2 = p % 2 /\ (o \div 2) % 2 = (p \div 2) % 2 /\ (o \div 4) % 2 = (p \div 4) % 2
  BY <1>2, <1>3, <1>4 DEF Axis
<1>6. QED
  BY <1>5 DEF Octant

\* A voxel is in its own subtree.
LEMMA SubtreeSelf == ASSUME NEW k \in Key PROVE InSubtree(k, k)
<1>1. k.level - k.level = 0 /\ 2 ^ 0 = 1 /\ k.level >= k.level
  BY DEF Key
<1>2. \A a \in Axis : k.pos[a] \div 1 = k.pos[a]
  BY DEF Key
<1>3. QED
  BY <1>1, <1>2 DEF InSubtree, Key

\* A voxel below another one, on a level further down, is in one of its
\* octants.
LEMMA OctantOf ==
  ASSUME NEW d \in Key, NEW k \in Key, InSubtree(d, k), d # k
  PROVE  \E o \in Octant : InSubtree(d, Child(k, o))
<1>1. d.level > k.level
  <2>1. SUFFICES ASSUME d.level = k.level PROVE FALSE
    BY DEF InSubtree, Key
  <2>2. d.level - k.level = 0 /\ 2 ^ 0 = 1
    BY <2>1 DEF Key
  <2>3. \A a \in Axis : d.pos[a] \div 1 = k.pos[a] /\ d.pos[a] \in Int
    BY <2>2 DEF InSubtree, Key
  <2>4. \A a \in Axis : d.pos[a] = k.pos[a]
    BY <2>3
  <2>5. d = k
    BY <2>1, <2>4 DEF Key
  <2>6. QED
    BY <2>5
<1> DEFINE e == d.level - (k.level + 1)
           P == 2 ^ e
           bit(a) == (d.pos[a] \div P) - 2 * k.pos[a]
           o == bit(1) + 2 * bit(2) + 4 * bit(3)
<1>2. e \in Nat /\ d.level - k.level = e + 1
  BY <1>1 DEF Key
<1>3. P \in Nat \ {0} /\ 2 ^ (e + 1) = 2 * P
  BY <1>2, PowerDoubles
<1>4. ASSUME NEW a \in Axis PROVE bit(a) \in {0, 1} /\ d.pos[a] \div P \in Int
  <2> DEFINE x == d.pos[a]
             z == k.pos[a]
             y == x \div P
  <2>1. x \in Int /\ z \in Int /\ x \div (2 * P) = z
    BY <1>2, <1>3 DEF InSubtree, Key
  <2>2. y \in Int /\ y * P <= x /\ x < (y + 1) * P
    <3> HIDE DEF x, P
    <3>1. y \in Int
      BY <1>3, <2>1
    <3> HIDE DEF y
    <3>2. QED
      BY <1>3, <2>1, <3>1, Quotient DEF y
  <2>3. z * (2 * P) <= x /\ x < (z + 1) * (2 * P)
    <3> DEFINE D == 2 * P
    <3>1. D \in Nat \ {0} /\ x \div D = z
      BY <1>3, <2>1
    <3> HIDE DEF D, x, z
    <3>2. z * D <= x /\ x < (z + 1) * D
      BY <2>1, <3>1, Quotient
    <3>3. QED
      BY <3>2 DEF D
  <2> HIDE DEF x, y, z, P
  <2>4. z * (2 * P) = (2 * z) * P /\ (z + 1) * (2 * P) = (2 * z + 2) * P
    BY <1>3, <2>1
  <2>5. 2 * z <= y
    <3>1. SUFFICES ASSUME y + 1 <= 2 * z PROVE FALSE
      BY <2>1, <2>2
    <3>2. (y + 1) * P <= (2 * z) * P
      BY <1>3, <2>1, <2>2, <3>1
    <3> DEFINE u == (y + 1) * P
               v == (2 * z) * P
    <3>3. u \in Int /\ v \in Int /\ u <= v /\ v <= x /\ x < u
      BY <1>3, <2>1, <2>2, <2>3, <2>4, <3>2
    <3> HIDE DEF u, v
    <3>4. QED
      BY <2>1, <3>3
  <2>6. y <= 2 * z + 1
    <3>1. SUFFICES ASSUME 2 * z + 2 <= y PROVE FALSE
      BY <2>1, <2>2
    <3>2. (2 * z + 2) * P <= y * P
      BY <1>3, <2>1, <2>2, <3>1
    <3> DEFINE u == (2 * z + 2) * P
               v == y * P
    <3>3. u \in Int /\ v \in Int /\ u <= v /\ v <= x /\ x < u
      BY <1>3, <2>1, <2>2, <2>3, <2>4, <3>2
    <3> HIDE DEF u, v
    <3>4. QED
      BY <2>1, <3>3
  <2>7. y - 2 * z \in {0, 1}
    BY <2>1, <2>2, <2>5, <2>6
  <2>8. QED
    BY <2>2, <2>7 DEF x, y, z
<1> HIDE DEF P
<1>5. bit(1) \in {0, 1} /\ bit(2) \in {0, 1} /\ bit(3) \in {0, 1}
  BY <1>4 DEF Axis
<1>6. /\ o \in Octant
      /\ OctantBit(o, 1) = bit(1) /\ OctantBit(o, 2) = bit(2) /\ OctantBit(o, 3) = bit(3)
  <2> HIDE DEF bit
  <2>1. o \in Octant
    BY <1>5 DEF Octant
  <2>2. OctantBit(o, 1) = o % 2 /\ OctantBit(o, 2) = (o \div 2) % 2
        /\ OctantBit(o, 3) = (o \div 4) % 2
    BY <2>1 DEF OctantBit, Octant
  <2>3. QED
    BY <1>5, <2>1, <2>2
<1>7. \A a \in Axis : OctantBit(o, a) = bit(a)
  <2> HIDE DEF bit, o
  <2>1. QED
    BY <1>6 DEF Axis
<1>8. \A a \in Axis : d.pos[a] \div P = 2 * k.pos[a] + OctantBit(o, a)
  <2> HIDE DEF o
  <2>1. \A a \in Axis : k.pos[a] \in Int
    BY DEF Key
  <2>2. QED
    BY <1>4, <1>7, <2>1
<1>9. InSubtree(d, Child(k, o))
  <2>1. Child(k, o).level = k.level + 1
        /\ \A a \in Axis : Child(k, o).pos[a] = 2 * k.pos[a] + OctantBit(o, a)
    BY DEF Child
  <2>2. d.level >= k.level + 1
    BY <1>1 DEF Key
  <2> HIDE DEF o
  <2>3. QED
    BY <1>8, <2>1, <2>2 DEF InSubtree, P
<1>10. QED
  BY <1>6, <1>9

\* What is below a child is below its parent, which is not below the child.
LEMMA BelowChild ==
  ASSUME NEW k \in Key, NEW o \in Octant
  PROVE  /\ Child(k, o) \in Key /\ InSubtree(Child(k, o), k) /\ ~ InSubtree(k, Child(k, o))
         /\ \A d \in Key : InSubtree(d, Child(k, o)) => InSubtree(d, k)
<1>1. Child(k, o) \in Key
  BY ChildType
<1>2. Child(k, o).level = k.level + 1 /\ k.level \in Int
      /\ \A a \in Axis : Child(k, o).pos[a] = 2 * k.pos[a] + OctantBit(o, a)
  BY DEF Child, Key
<1>3. InSubtree(Child(k, o), k)
  <2>1. (k.level + 1) - k.level = 1 /\ 2 ^ 1 = 2 /\ k.level + 1 >= k.level
    <3>1. 2 ^ (0 + 1) = 2 * 2 ^ 0
      BY PowerDoubles
    <3>2. QED
      BY <1>2, <3>1
  <2>2. \A a \in Axis : (2 * k.pos[a] + OctantBit(o, a)) \div 2 = k.pos[a]
    BY BitType DEF Key
  <2>3. QED
    BY <1>2, <2>1, <2>2 DEF InSubtree
<1>4. ~ InSubtree(k, Child(k, o))
  BY <1>2 DEF InSubtree
<1>5. QED
  BY <1>1, <1>3, <1>4, SubtreeTransitive

\* No voxel is below two voxels of one level.
LEMMA LevelsApart ==
  ASSUME NEW d \in Key, NEW j \in Key, NEW k \in Key, j.level = k.level,
         InSubtree(d, j), InSubtree(d, k)
  PROVE  j = k
<1>1. \A a \in Axis : j.pos[a] = k.pos[a]
  BY DEF InSubtree
<1>2. QED
  BY <1>1 DEF Key

-----------------------------------------------------------------------------
(***************************************************************************)
(* The plan: what is still to be planned is all there is below a key, and  *)
(* the pages planned, with the calls to come, hold the whole octree.       *)
(***************************************************************************)
\* What a page of plan_hierarchy_pages holds.
Item == {Point(e) : e \in Entry} \cup {ChildPage(k) : k \in Key}

\* A call of plan_hierarchy_pages that is still to be made.
Call == [key : Key, list : Seq(Entry)]

\* The entries of a list in the subtree of a key.
Below(given, k) == {e \in Range(given) : InSubtree(e.key, k)}

\* Every node has one entry.
IsGiven(given) ==
  /\ given \in Seq(Entry) /\ IsInjective(given)
  /\ \A d, e \in Range(given) : d.key = e.key => d = e
  /\ \A e \in Range(given) : InSubtree(e.key, Root)

\* The keys of the child pages among the items of a page.
ChildKeys(items) ==
  LET children == Those(items, {item \in Range(items) : item.kind = "child"}) IN
  [i \in DOMAIN children |-> children[i].key]

\* A page of the key k: its child pages are those of octants of k and have
\* been planned or will be, and with them it holds all that is below k.
IsPage(items, k, given, keys) ==
  /\ items \in Seq(Item) /\ Len(items) <= PageMaxEntries
  /\ ChildKeys(items) \in Seq(Key) /\ IsInjective(ChildKeys(items))
  /\ \A c \in Range(ChildKeys(items)) : c \in keys /\ \E o \in Octant : c = Child(k, o)
  /\ ChildKeys(items) # <<>> => Len(Subtree(given, k)) > PageMaxEntries
  /\ Below(given, k) = {e \in Entry : Point(e) \in Range(items)}
                         \cup UNION {Below(given, c) : c \in Range(ChildKeys(items))}

\* A call that is given all the entries below its key.
IsCall(call, given) ==
  /\ call \in Call /\ IsInjective(call.list)
  /\ Range(call.list) = Below(given, call.key)

\* The keys of the calls to be made.
ToPlan == {work[i].key : i \in DOMAIN work}

\* The keys of the pages planned, and of those that will be.
Known == DOMAIN pages \cup IF phase = "plan" THEN ToPlan ELSE {}

\* From plan_hierarchy_pages on.
Planning == {"plan", "assign", "write", "records", "patch", "done"}

\* The pages planned hold, with the calls to come, the whole octree.
PlanInv ==
  phase \in Planning =>
    /\ IsGiven(entries)
    /\ phase = "plan" => /\ work \in Seq(Call) /\ work # <<>>
                         /\ \A i \in DOMAIN work : IsCall(work[i], entries)
    /\ DOMAIN pages \subseteq Key /\ Root \in Known
    /\ \A k \in DOMAIN pages : IsPage(pages[k], k, entries, Known)

-----------------------------------------------------------------------------
\* The root is a voxel.
LEMMA RootType == Root \in Key
BY DEF Root, Key, Axis

\* Points and child pages are items, and are told apart.
LEMMA ItemType ==
  /\ \A e \in Entry : Point(e) \in Item /\ Point(e).kind = "point" /\ Point(e).entry = e
  /\ \A k \in Key : ChildPage(k) \in Item /\ ChildPage(k).kind = "child" /\ ChildPage(k).key = k
  /\ \A i \in Item : i.kind = "child" => \E k \in Key : i = ChildPage(k)
<1>1. \A e \in Entry : Point(e).kind = "point" /\ Point(e).entry = e
  BY DEF Point
<1>2. \A k \in Key : ChildPage(k).kind = "child" /\ ChildPage(k).key = k
  BY DEF ChildPage
<1>3. \A i \in Item : i.kind = "child" => \E k \in Key : i = ChildPage(k)
  BY <1>1 DEF Item
<1>4. QED
  BY <1>1, <1>2, <1>3 DEF Item

\* A function over 1..n is a list of n elements.
LEMMA IsList ==
  ASSUME NEW S, NEW n \in Nat, NEW f \in [1..n -> S]
  PROVE  f \in Seq(S) /\ Len(f) = n
<1>1. f \in Seq(S)
  BY SeqDef
<1>2. DOMAIN f = 1..n /\ DOMAIN f = 1..Len(f) /\ Len(f) \in Nat
  BY <1>1, LenProperties
<1>3. QED
  BY <1>1, <1>2

\* The entries of a list that are below a key.
LEMMA SubtreeList ==
  ASSUME NEW list \in Seq(Entry), NEW k
  PROVE  /\ Subtree(list, k) \in Seq(Entry)
         /\ Range(Subtree(list, k)) = {e \in Range(list) : InSubtree(e.key, k)}
         /\ IsInjective(list) => IsInjective(Subtree(list, k))
         /\ Len(Subtree(list, k)) \in Nat
<1> DEFINE S == {e \in Range(list) : InSubtree(e.key, k)}
<1>1. Subtree(list, k) = Those(list, S)
  BY DEF Subtree, KeyContains
<1>2. Range(list) \cap S = S
  OBVIOUS
<1> HIDE DEF S
<1>3. QED
  BY <1>1, <1>2, ThoseElements DEF S

\* A shorter way through the elements of a list is no longer than it.
LEMMA NoLonger ==
  ASSUME NEW T, NEW s \in Seq(T), NEW t \in Seq(T), IsInjective(s), IsInjective(t),
         Range(s) \subseteq Range(t)
  PROVE  Len(s) <= Len(t)
<1>1. IsFiniteSet(Range(t)) /\ Cardinality(Range(t)) = Len(t) /\ Cardinality(Range(s)) = Len(s)
  BY InjectiveLength
<1>2. Cardinality(Range(s)) <= Cardinality(Range(t))
  BY <1>1, FS_Subset
<1>3. QED
  BY <1>1, <1>2

\* The child pages among the items of a page.
LEMMA ChildPagesAre == \A k : ChildPages(k) = ChildKeys(pages[k])
BY DEF ChildPages, ChildKeys

\* The keys of the child pages in a page.
LEMMA ChildKeysList ==
  ASSUME NEW p \in Seq(Item)
  PROVE  /\ ChildKeys(p) \in Seq(Key)
         /\ Range(ChildKeys(p)) = {c \in Key : ChildPage(c) \in Range(p)}
         /\ IsInjective(p) => IsInjective(ChildKeys(p))
<1> DEFINE children == Those(p, {item \in Range(p) : item.kind = "child"})
           keys == [i \in DOMAIN children |-> children[i].key]
<1>1. /\ children \in Seq(Item)
      /\ Range(children) = Range(p) \cap {item \in Range(p) : item.kind = "child"}
      /\ IsInjective(p) => IsInjective(children)
  BY ThoseElements
<1>2. ChildKeys(p) = keys
  BY DEF ChildKeys
<1> HIDE DEF children
<1>3. DOMAIN children = 1..Len(children) /\ Len(children) \in Nat
      /\ Range(children) = {children[i] : i \in 1..Len(children)}
  BY <1>1, LenProperties, RangeEquality
<1>4. Range(children) = {ChildPage(c) : c \in {c \in Key : ChildPage(c) \in Range(p)}}
  <2>1. \A i \in Range(children) : i \in Range(p) /\ i.kind = "child" /\ i \in Item
    <3>1. \A i \in 1..Len(p) : p[i] \in Item
      BY ElementOfSeq
    <3>2. Range(p) = {p[i] : i \in 1..Len(p)}
      BY RangeEquality
    <3>3. QED
      BY <1>1, <3>1, <3>2
  <2>2. \A c \in Key : ChildPage(c) \in Range(p) => ChildPage(c) \in Range(children)
    BY <1>1, ItemType
  <2>3. \A i \in Range(children) : \E c \in Key : i = ChildPage(c)
    BY <2>1, ItemType
  <2>4. QED
    BY <2>1, <2>2, <2>3
<1>5. \A i \in 1..Len(children) :
        \E c \in Key : children[i] = ChildPage(c) /\ children[i].key = c /\ keys[i] = c
  <2>1. \A i \in 1..Len(children) : keys[i] = children[i].key
    BY <1>3
  <2>2. \A i \in 1..Len(children) : \E c \in Key : children[i] = ChildPage(c)
    BY <1>3, <1>4
  <2> HIDE DEF keys
  <2>3. QED
    BY <2>1, <2>2, ItemType
<1>6. DOMAIN keys = 1..Len(children)
  BY <1>3
<1> HIDE DEF keys
<1>7. keys \in Seq(Key) /\ Len(keys) = Len(children)
  <2>1. keys = [i \in 1..Len(children) |-> keys[i]]
    BY <1>3 DEF keys
  <2>2. \A i \in 1..Len(children) : keys[i] \in Key
    BY <1>5
  <2>3. keys \in [1..Len(children) -> Key]
    BY <2>1, <2>2
  <2>4. QED
    BY <1>3, <2>3, IsList
<1>8. Range(keys) = {c \in Key : ChildPage(c) \in Range(p)}
  <2>1. Range(keys) = {keys[i] : i \in 1..Len(children)}
    BY <1>6 DEF Range
  <2>2. \A i \in 1..Len(children) : keys[i] \in Key /\ ChildPage(keys[i]) \in Range(p)
    BY <1>3, <1>4, <1>5, ItemType
  <2>3. \A c \in Key : ChildPage(c) \in Range(p) => \E i \in 1..Len(children) : keys[i] = c
    BY <1>3, <1>4, <1>5, ItemType
  <2>4. QED
    BY <2>1, <2>2, <2>3
<1>9. IsInjective(p) => IsInjective(keys)
  <2>1. \A i, j \in 1..Len(children) : keys[i] = keys[j] => children[i] = children[j]
    BY <1>5
  <2>2. QED
    BY <1>1, <1>3, <1>6, <2>1 DEF IsInjective
<1>10. QED
  BY <1>2, <1>7, <1>8, <1>9

\* Everything below a key goes into one page.
LEMMA LeafPage ==
  ASSUME NEW given, IsGiven(given), NEW call, IsCall(call, given),
         Len(call.list) <= PageMaxEntries, NEW keys
  PROVE  IsPage([i \in DOMAIN call.list |-> Point(call.list[i])], call.key, given, keys)
<1> DEFINE list == call.list
           k == call.key
           items == [i \in DOMAIN list |-> Point(list[i])]
<1>1. list \in Seq(Entry) /\ k \in Key /\ Range(list) = Below(given, k)
  BY DEF IsCall, Call
<1>2. /\ Len(list) \in Nat /\ DOMAIN list = 1..Len(list)
      /\ Range(list) = {list[i] : i \in 1..Len(list)}
      /\ \A i \in 1..Len(list) : list[i] \in Entry
  BY <1>1, LenProperties, RangeEquality, ElementOfSeq
<1> HIDE DEF list, k
<1>3. /\ items \in [1..Len(list) -> Item]
      /\ \A i \in 1..Len(list) : items[i] = Point(list[i])
  BY <1>2, ItemType
<1> HIDE DEF items
<1>4. items \in Seq(Item) /\ Len(items) = Len(list)
  BY <1>2, <1>3, IsList
<1>5. Range(items) = {Point(list[i]) : i \in 1..Len(list)}
  <2>1. Range(items) = {items[i] : i \in 1..Len(items)}
    BY <1>4, RangeEquality
  <2>2. QED
    BY <1>3, <1>4, <2>1
<1>6. Range(ChildKeys(items)) = {} /\ ChildKeys(items) \in Seq(Key)
  <2>1. /\ ChildKeys(items) \in Seq(Key)
        /\ Range(ChildKeys(items)) = {c \in Key : ChildPage(c) \in Range(items)}
    BY <1>4, ChildKeysList
  <2>2. \A c \in Key : ChildPage(c) \notin Range(items)
    <3>1. \A c \in Key, e \in Entry : ChildPage(c) # Point(e)
      BY DEF ChildPage, Point
    <3>2. QED
      BY <1>2, <1>5, <3>1
  <2>3. QED
    BY <2>1, <2>2
<1>7. ChildKeys(items) = <<>> /\ IsInjective(ChildKeys(items))
  <2>1. ChildKeys(items) = <<>>
    BY <1>6, EmptyRange
  <2>2. IsInjective(<<>>)
    BY DEF IsInjective
  <2>3. QED
    BY <2>1, <2>2
<1>8. {e \in Entry : Point(e) \in Range(items)} = Below(given, k)
  <2>1. \A e \in Entry : Point(e) \in Range(items) <=> \E i \in 1..Len(list) : list[i] = e
    BY <1>2, <1>5, ItemType
  <2>2. QED
    BY <1>1, <1>2, <2>1
<1>9. Len(items) <= PageMaxEntries
  BY <1>4 DEF list
<1>10. IsPage(items, k, given, keys)
  BY <1>4, <1>6, <1>7, <1>8, <1>9 DEF IsPage
<1>11. QED
  BY <1>10 DEF items, list, k

-----------------------------------------------------------------------------
\* The item of the node of a page's own key.
OwnItems(call) ==
  IF OwnEntry(call.list, call.key) = <<>> THEN <<>>
  ELSE <<Point(OwnEntry(call.list, call.key)[Len(OwnEntry(call.list, call.key))])>>

\* The key of a child page.
ChildOf(call, i) == Child(call.key, OctantsUsed(call.list, call.key)[i])

\* The items of the child pages.
ChildItems(call) ==
  [i \in DOMAIN OctantsUsed(call.list, call.key) |-> ChildPage(ChildOf(call, i))]

\* The calls that plan the child pages.
CallsFor(call) ==
  [i \in DOMAIN OctantsUsed(call.list, call.key) |->
     [key |-> ChildOf(call, i), list |-> Subtree(call.list, ChildOf(call, i))]]

\* The octants with an entry, each once.
LEMMA OctantsList ==
  ASSUME NEW call \in Call
  PROVE  LET used == OctantsUsed(call.list, call.key) IN
         /\ used \in Seq(Octant) /\ IsInjective(used) /\ Len(used) <= 8
         /\ Range(used) = {o \in Octant : Subtree(call.list, Child(call.key, o)) # <<>>}
<1> DEFINE all == <<0, 1, 2, 3, 4, 5, 6, 7>>
           S == {o \in Octant : Subtree(call.list, Child(call.key, o)) # <<>>}
<1>1. all \in Seq(Octant) /\ Len(all) = 8
  BY DEF Octant
<1>2. \A i \in 1..8 : all[i] = i - 1
  OBVIOUS
<1> HIDE DEF all
<1>3. DOMAIN all = 1..8 /\ Range(all) = {all[i] : i \in 1..8}
  BY <1>1, LenProperties, RangeEquality
<1>4. IsInjective(all)
  BY <1>2, <1>3 DEF IsInjective
<1>5. Range(all) = Octant
  <2>1. \A o \in Octant : o + 1 \in 1..8 /\ all[o + 1] = o
    BY <1>2 DEF Octant
  <2>2. \A i \in 1..8 : all[i] \in Octant
    BY <1>2 DEF Octant
  <2>3. QED
    BY <1>3, <2>1, <2>2
<1>6. OctantsUsed(call.list, call.key) = Those(all, S)
  BY DEF OctantsUsed, all
<1>7. S \subseteq Octant
  OBVIOUS
<1> HIDE DEF S
<1>8. /\ Those(all, S) \in Seq(Octant) /\ Len(Those(all, S)) <= 8
      /\ Range(Those(all, S)) = Range(all) \cap S /\ IsInjective(Those(all, S))
  BY <1>1, <1>4, ThoseElements
<1>9. Range(Those(all, S)) = S
  BY <1>5, <1>7, <1>8
<1>10. QED
  BY <1>6, <1>8, <1>9 DEF S

\* The node of the page's own key.
LEMMA OwnItem ==
  ASSUME NEW given, IsGiven(given), NEW call, IsCall(call, given)
  PROVE  /\ OwnItems(call) \in Seq(Item) /\ Len(OwnItems(call)) <= 1 /\ Len(OwnItems(call)) \in Nat
         /\ \A i \in 1..Len(OwnItems(call)) :
              \E e \in Entry : OwnItems(call)[i] = Point(e) /\ e \in Below(given, call.key)
         /\ \A e \in Below(given, call.key) : e.key = call.key => Point(e) \in Range(OwnItems(call))
<1> DEFINE list == call.list
           k == call.key
           own == OwnEntry(list, k)
           S == {e \in Range(list) : e.key = k}
           items == OwnItems(call)
<1>1. list \in Seq(Entry) /\ k \in Key /\ Range(list) = Below(given, k)
  BY DEF IsCall, Call
<1>2. own \in Seq(Entry) /\ Range(own) = Range(list) \cap S
  <2>1. own = Those(list, S)
    BY DEF OwnEntry
  <2> HIDE DEF S, list, own
  <2>2. QED
    BY <1>1, <2>1, ThoseElements
<1>3. \A d, e \in Range(own) : d = e
  BY <1>1, <1>2 DEF IsGiven, Below
<1>4. \A e \in Below(given, k) : e.key = k => e \in Range(own)
  BY <1>1, <1>2
<1>5. items = IF own = <<>> THEN <<>> ELSE <<Point(own[Len(own)])>>
  BY DEF OwnItems
<1> HIDE DEF own, items, list
<1>6. CASE own = <<>>
  <2>1. items = <<>> /\ Range(own) = {}
    BY <1>5, <1>6, RangeEmpty
  <2>2. items \in Seq(Item) /\ Len(items) = 0
    BY <2>1, EmptySeq
  <2>3. QED
    BY <1>4, <2>1, <2>2 DEF items, k
<1>7. CASE own # <<>>
  <2> DEFINE last == own[Len(own)]
  <2>1. last \in Entry /\ last \in Range(own)
    <3>1. Len(own) \in Nat \ {0} /\ Range(own) = {own[i] : i \in 1..Len(own)}
      BY <1>2, <1>7, EmptySeq, RangeEquality
    <3>2. Len(own) \in 1..Len(own)
      BY <3>1
    <3>3. QED
      BY <1>2, <3>1, <3>2, ElementOfSeq
  <2>2. items = <<Point(last)>> /\ Point(last) \in Item
    BY <1>5, <1>7, <2>1, ItemType
  <2> HIDE DEF last
  <2>3. items \in Seq(Item) /\ Len(items) = 1 /\ items[1] = Point(last)
    BY <2>2
  <2>4. Range(items) = {items[i] : i \in 1..Len(items)}
    BY <2>3, RangeEquality
  <2>5. last \in Below(given, k) /\ last \in Entry
    BY <1>1, <1>2, <2>1
  <2>6. \A e \in Below(given, k) : e.key = k => Point(e) \in Range(items)
    BY <1>3, <1>4, <2>1, <2>3, <2>4
  <2>7. \A i \in 1..Len(items) : items[i] = Point(last)
    BY <2>3
  <2>8. QED
    BY <2>3, <2>5, <2>6, <2>7 DEF items, k
<1>8. QED
  BY <1>6, <1>7

\* The child pages of a split page, and the calls that plan them.
LEMMA ChildrenOf ==
  ASSUME NEW given, IsGiven(given), NEW call, IsCall(call, given)
  PROVE  /\ Len(ChildItems(call)) \in Nat /\ Len(ChildItems(call)) <= 8
         /\ ChildItems(call) \in Seq(Item)
         /\ \A i \in 1..Len(ChildItems(call)) :
              /\ ChildItems(call)[i] = ChildPage(ChildOf(call, i))
              /\ ChildOf(call, i) \in Key
              /\ \E o \in Octant : ChildOf(call, i) = Child(call.key, o)
         /\ \A i, j \in 1..Len(ChildItems(call)) : ChildOf(call, i) = ChildOf(call, j) => i = j
         /\ \A e \in Below(given, call.key) :
              e.key # call.key =>
                \E i \in 1..Len(ChildItems(call)) : e \in Below(given, ChildOf(call, i))
         /\ CallsFor(call) \in Seq(Call) /\ Len(CallsFor(call)) = Len(ChildItems(call))
         /\ \A i \in 1..Len(ChildItems(call)) :
              IsCall(CallsFor(call)[i], given) /\ CallsFor(call)[i].key = ChildOf(call, i)
<1> DEFINE list == call.list
           k == call.key
           used == OctantsUsed(list, k)
           n == Len(used)
           items == ChildItems(call)
           calls == CallsFor(call)
           child(i) == ChildOf(call, i)
<1>1. list \in Seq(Entry) /\ IsInjective(list) /\ k \in Key /\ Range(list) = Below(given, k)
  BY DEF IsCall, Call
<1>2. /\ used \in Seq(Octant) /\ IsInjective(used) /\ n <= 8
      /\ Range(used) = {o \in Octant : Subtree(list, Child(k, o)) # <<>>}
  BY OctantsList DEF IsCall
<1>3. /\ n \in Nat /\ DOMAIN used = 1..n /\ Range(used) = {used[i] : i \in 1..n}
      /\ \A i \in 1..n : used[i] \in Octant
  BY <1>2, LenProperties, RangeEquality, ElementOfSeq
<1>4. /\ items = [i \in 1..n |-> ChildPage(child(i))]
      /\ calls = [i \in 1..n |-> [key |-> child(i), list |-> Subtree(list, child(i))]]
  BY <1>3 DEF ChildItems, CallsFor
<1>5. \A i : child(i) = Child(k, used[i])
  BY DEF ChildOf
<1> HIDE DEF used, items, calls, child, list, k, n
<1>6. \A i \in 1..n : child(i) \in Key /\ \E o \in Octant : child(i) = Child(k, o)
  BY <1>1, <1>3, <1>5, ChildType
<1>7. \A i, j \in 1..n : child(i) = child(j) => i = j
  <2>1. \A i, j \in 1..n : child(i) = child(j) => used[i] = used[j]
    BY <1>1, <1>3, <1>5, ChildInjective
  <2>2. QED
    BY <1>2, <1>3, <2>1 DEF IsInjective
<1>8. items \in Seq(Item) /\ Len(items) = n /\ \A i \in 1..n : items[i] = ChildPage(child(i))
  <2>1. \A i \in 1..n : ChildPage(child(i)) \in Item
    BY <1>6, ItemType
  <2>2. items \in [1..n -> Item]
    BY <1>4, <2>1
  <2>3. items \in Seq(Item) /\ Len(items) = n
    BY <1>3, <2>2, IsList
  <2>4. QED
    BY <1>4, <2>3
<1>9. ASSUME NEW i \in 1..n
      PROVE  /\ Subtree(list, child(i)) \in Seq(Entry) /\ IsInjective(Subtree(list, child(i)))
             /\ Range(Subtree(list, child(i))) = Below(given, child(i))
  <2>1. /\ Subtree(list, child(i)) \in Seq(Entry) /\ IsInjective(Subtree(list, child(i)))
        /\ Range(Subtree(list, child(i))) = {e \in Range(list) : InSubtree(e.key, child(i))}
    BY <1>1, SubtreeList
  <2>2. \A e \in Range(given) : e.key \in Key
    <3>1. \A j \in 1..Len(given) : given[j] \in Entry
      BY ElementOfSeq DEF IsGiven
    <3>2. Range(given) = {given[j] : j \in 1..Len(given)}
      BY RangeEquality DEF IsGiven
    <3>3. QED
      BY <3>1, <3>2 DEF Entry
  <2>3. \A e \in Range(given) : InSubtree(e.key, child(i)) => InSubtree(e.key, k)
    BY <1>1, <1>6, <2>2, BelowChild
  <2>4. QED
    BY <1>1, <2>1, <2>3 DEF Below
<1>10. /\ calls \in Seq(Call) /\ Len(calls) = n
       /\ \A i \in 1..n : IsCall(calls[i], given) /\ calls[i].key = child(i)
  <2>1. \A i \in 1..n : calls[i] = [key |-> child(i), list |-> Subtree(list, child(i))]
    BY <1>4
  <2>2. ASSUME NEW i \in 1..n
        PROVE  /\ calls[i].key = child(i) /\ calls[i].list = Subtree(list, child(i))
               /\ calls[i] \in Call
    <3> DEFINE c == child(i)
               s == Subtree(list, child(i))
    <3>1. c \in Key /\ s \in Seq(Entry) /\ calls[i] = [key |-> c, list |-> s]
      BY <1>6, <1>9, <2>1
    <3> HIDE DEF c, s
    <3>2. calls[i].key = c /\ calls[i].list = s /\ calls[i] \in Call
      BY <3>1 DEF Call
    <3>3. QED
      BY <3>2 DEF c, s
  <2>3. DOMAIN calls = 1..n /\ calls = [i \in 1..n |-> calls[i]]
    BY <1>4
  <2>4. calls \in [1..n -> Call]
    BY <2>2, <2>3
  <2>5. calls \in Seq(Call) /\ Len(calls) = n
    BY <1>3, <2>4, IsList
  <2>6. ASSUME NEW i \in 1..n PROVE IsCall(calls[i], given) /\ calls[i].key = child(i)
    <3> DEFINE s == Subtree(list, child(i))
    <3>1. calls[i].key = child(i) /\ calls[i].list = s /\ calls[i] \in Call
      BY <2>2
    <3>2. IsInjective(s) /\ Range(s) = Below(given, child(i))
      BY <1>9
    <3> HIDE DEF s
    <3>3. QED
      BY <3>1, <3>2 DEF IsCall
  <2>7. QED
    BY <2>5, <2>6
<1>11. ASSUME NEW e \in Below(given, k), e.key # k
       PROVE  \E i \in 1..n : e \in Below(given, child(i))
  <2>1. e \in Range(list) /\ e \in Range(given) /\ InSubtree(e.key, k)
    BY <1>1 DEF Below
  <2>2. e.key \in Key
    <3>1. \A j \in 1..Len(list) : list[j] \in Entry
      BY <1>1, ElementOfSeq
    <3>2. Range(list) = {list[j] : j \in 1..Len(list)}
      BY <1>1, RangeEquality
    <3>3. QED
      BY <2>1, <3>1, <3>2 DEF Entry
  <2>3. PICK o \in Octant : InSubtree(e.key, Child(k, o))
    BY <1>1, <1>11, <2>1, <2>2, OctantOf
  <2>4. e \in Range(Subtree(list, Child(k, o)))
    BY <1>1, <2>1, <2>3, SubtreeList
  <2>5. Subtree(list, Child(k, o)) # <<>>
    BY <2>4, RangeEmpty
  <2>6. PICK i \in 1..n : used[i] = o
    BY <1>2, <1>3, <2>5
  <2>7. e \in Below(given, child(i))
    BY <1>5, <2>1, <2>3, <2>6 DEF Below
  <2>8. QED
    BY <2>7
<1>12. QED
  BY <1>2, <1>3, <1>6, <1>7, <1>8, <1>10, <1>11 DEF items, calls, child, k

\* Too much for one page: what is below a key goes to the pages of octants.
LEMMA SplitPage ==
  ASSUME NEW given, IsGiven(given), NEW call, IsCall(call, given),
         Len(call.list) > PageMaxEntries, NEW keys,
         \A i \in 1..Len(CallsFor(call)) : CallsFor(call)[i].key \in keys
  PROVE  IsPage(OwnItems(call) \o ChildItems(call), call.key, given, keys)
<1> DEFINE list == call.list
           k == call.key
           own == OwnItems(call)
           children == ChildItems(call)
           items == own \o children
           m == Len(own)
           n == Len(children)
           child(i) == ChildOf(call, i)
<1>1. list \in Seq(Entry) /\ IsInjective(list) /\ k \in Key /\ Range(list) = Below(given, k)
  BY DEF IsCall, Call
<1>2. /\ own \in Seq(Item) /\ m <= 1 /\ m \in Nat
      /\ \A i \in 1..m : \E e \in Entry : own[i] = Point(e) /\ e \in Below(given, k)
      /\ \A e \in Below(given, k) : e.key = k => Point(e) \in Range(own)
  BY OwnItem
<1>3. /\ n \in Nat /\ n <= 8 /\ children \in Seq(Item)
      /\ \A i \in 1..n : /\ children[i] = ChildPage(child(i)) /\ child(i) \in Key
                         /\ \E o \in Octant : child(i) = Child(k, o)
      /\ \A i, j \in 1..n : child(i) = child(j) => i = j
      /\ \A e \in Below(given, k) : e.key # k => \E i \in 1..n : e \in Below(given, child(i))
  BY ChildrenOf
<1>4. \A i \in 1..n : child(i) \in keys
  BY ChildrenOf
<1> HIDE DEF own, children, m, n, child, list, k
<1>5. /\ items \in Seq(Item) /\ Len(items) = m + n
      /\ \A i \in 1..(m + n) : items[i] = IF i <= m THEN own[i] ELSE children[i - m]
      /\ Range(items) = Range(own) \cup Range(children)
  <2>1. Len(own) = m /\ Len(children) = n
    BY DEF m, n
  <2>2. /\ own \o children \in Seq(Item) /\ Len(own \o children) = m + n
        /\ \A i \in 1..(m + n) : (own \o children)[i] = IF i <= m THEN own[i] ELSE children[i - m]
    BY <1>2, <1>3, <2>1, ConcatProperties
  <2>3. Range(own \o children) = Range(own) \cup Range(children)
    BY <1>2, <1>3, RangeConcatenation
  <2>4. QED
    BY <2>2, <2>3
<1> HIDE DEF items
<1>6. DOMAIN items = 1..(m + n) /\ Range(own) = {own[i] : i \in 1..m}
      /\ Range(children) = {children[i] : i \in 1..n}
  BY <1>2, <1>3, <1>5, LenProperties, RangeEquality DEF m, n
<1>7. \A c \in Key, e \in Entry : ChildPage(c) # Point(e)
  BY DEF ChildPage, Point
<1>b. \A i \in 1..m, j \in 1..n : own[i] # children[j]
  BY <1>2, <1>3, <1>7
<1>8. IsInjective(items)
  <2> SUFFICES ASSUME NEW i \in 1..(m + n), NEW j \in 1..(m + n), items[i] = items[j] PROVE i = j
    BY <1>6 DEF IsInjective
  <2>1. CASE i <= m /\ j <= m
    BY <1>2, <2>1
  <2>2. CASE i <= m /\ ~ (j <= m)
    <3>1. items[i] = own[i] /\ items[j] = children[j - m] /\ i \in 1..m /\ j - m \in 1..n
      BY <1>2, <1>3, <1>5, <2>2
    <3>2. QED
      BY <1>b, <3>1
  <2>3. CASE ~ (i <= m) /\ j <= m
    <3>1. items[j] = own[j] /\ items[i] = children[i - m] /\ j \in 1..m /\ i - m \in 1..n
      BY <1>2, <1>3, <1>5, <2>3
    <3>2. QED
      BY <1>b, <3>1
  <2>4. CASE ~ (i <= m) /\ ~ (j <= m)
    <3>1. items[i] = children[i - m] /\ items[j] = children[j - m] /\ i - m \in 1..n /\ j - m \in 1..n
      BY <1>2, <1>3, <1>5, <2>4
    <3>2. ChildPage(child(i - m)) = ChildPage(child(j - m))
      BY <1>3, <3>1
    <3>3. child(i - m) = child(j - m)
      BY <3>2 DEF ChildPage
    <3>4. i - m = j - m
      BY <1>3, <3>1, <3>3
    <3>5. QED
      BY <1>2, <3>4
  <2>5. QED
    BY <2>1, <2>2, <2>3, <2>4
<1>9. /\ ChildKeys(items) \in Seq(Key) /\ IsInjective(ChildKeys(items))
      /\ Range(ChildKeys(items)) = {c \in Key : ChildPage(c) \in Range(items)}
  BY <1>5, <1>8, ChildKeysList
<1>10. \A c \in Key : ChildPage(c) \in Range(items) <=> \E i \in 1..n : c = child(i)
  <2>1. \A c \in Key : ChildPage(c) \notin Range(own)
    BY <1>2, <1>6, <1>7
  <2>2. \A c, d \in Key : ChildPage(c) = ChildPage(d) => c = d
    BY DEF ChildPage
  <2>3. QED
    BY <1>3, <1>5, <1>6, <2>1, <2>2
<1>11. Range(ChildKeys(items)) = {child(i) : i \in 1..n}
  BY <1>3, <1>9, <1>10
<1>12. Len(items) <= PageMaxEntries
  BY <1>2, <1>3, <1>5, PagesAssumption
<1>13. Len(Subtree(given, k)) > PageMaxEntries
  <2>1. /\ Subtree(given, k) \in Seq(Entry) /\ Range(Subtree(given, k)) = Range(list)
        /\ IsInjective(Subtree(given, k)) /\ Len(Subtree(given, k)) \in Nat
    BY <1>1, SubtreeList DEF IsGiven, Below
  <2>2. Len(list) <= Len(Subtree(given, k))
    BY <1>1, <2>1, NoLonger
  <2>3. Len(list) \in Nat /\ Len(list) > PageMaxEntries /\ PageMaxEntries \in Nat
    BY <1>1, LenProperties, PagesAssumption DEF list
  <2>4. QED
    BY <2>1, <2>2, <2>3
<1>14. Below(given, k) = {e \in Entry : Point(e) \in Range(items)}
                           \cup UNION {Below(given, c) : c \in Range(ChildKeys(items))}
  <2>1. \A e \in Range(given) : e \in Entry /\ e.key \in Key
    <3>1. \A j \in 1..Len(given) : given[j] \in Entry
      BY ElementOfSeq DEF IsGiven
    <3>2. Range(given) = {given[j] : j \in 1..Len(given)}
      BY RangeEquality DEF IsGiven
    <3>3. QED
      BY <3>1, <3>2 DEF Entry
  <2>2. ASSUME NEW e \in Below(given, k)
        PROVE  \/ e \in Entry /\ Point(e) \in Range(items)
               \/ \E c \in Range(ChildKeys(items)) : e \in Below(given, c)
    <3>1. CASE e.key = k
      BY <1>2, <1>5, <2>1, <3>1 DEF Below
    <3>2. CASE e.key # k
      BY <1>3, <1>11, <3>2
    <3>3. QED
      BY <3>1, <3>2
  <2>3. ASSUME NEW e \in Entry, Point(e) \in Range(items) PROVE e \in Below(given, k)
    <3>1. Point(e) \in Range(own)
      BY <1>3, <1>5, <1>6, <1>7, <2>3
    <3>2. PICK i \in 1..m : Point(e) = own[i]
      BY <1>6, <3>1
    <3>3. PICK d \in Entry : own[i] = Point(d) /\ d \in Below(given, k)
      BY <1>2
    <3>4. e = d
      BY <3>2, <3>3, ItemType
    <3>5. QED
      BY <3>3, <3>4
  <2>4. ASSUME NEW c \in Range(ChildKeys(items)), NEW e \in Below(given, c)
        PROVE  e \in Below(given, k)
    <3>1. PICK i \in 1..n : c = child(i)
      BY <1>11
    <3>2. PICK o \in Octant : c = Child(k, o)
      BY <1>3, <3>1
    <3>3. QED
      BY <1>1, <2>1, <3>2, BelowChild DEF Below
  <2>5. QED
    BY <2>2, <2>3, <2>4
<1>15. \A c \in Range(ChildKeys(items)) : c \in keys /\ \E o \in Octant : c = Child(k, o)
  BY <1>3, <1>4, <1>11
<1>16. IsPage(items, k, given, keys)
  BY <1>5, <1>9, <1>12, <1>13, <1>14, <1>15 DEF IsPage
<1>17. QED
  BY <1>16 DEF items, own, children, k

\* The call at hand, and those after it.
LEMMA TodoIsHead ==
  ASSUME NEW S, work \in Seq(S), work # <<>>
  PROVE  /\ Todo \in S /\ Todo = work[1] /\ 1 \in DOMAIN work
         /\ Tail(work) \in Seq(S) /\ DOMAIN Tail(work) = 1..Len(Tail(work))
         /\ \A i \in DOMAIN Tail(work) : i + 1 \in DOMAIN work /\ Tail(work)[i] = work[i + 1]
         /\ \A i \in DOMAIN work : i = 1 \/ (i - 1 \in DOMAIN Tail(work) /\ Tail(work)[i - 1] = work[i])
<1> DEFINE t == Tail(work)
<1>1. Head(work) \in S /\ t \in Seq(S) /\ Len(t) = Len(work) - 1
      /\ \A i \in 1..Len(t) : t[i] = work[i + 1]
  BY HeadTailProperties
<1>2. Len(work) \in Nat \ {0} /\ DOMAIN work = 1..Len(work) /\ DOMAIN t = 1..Len(t)
  BY <1>1, EmptySeq, LenProperties
<1>3. Head(work) = work[1]
  OBVIOUS
<1> HIDE DEF t
<1>4. \A i \in 1..Len(t) : i + 1 \in 1..Len(work)
  BY <1>1, <1>2
<1>5. \A i \in 1..Len(work) : i = 1 \/ (i - 1 \in 1..Len(t) /\ (i - 1) + 1 = i)
  BY <1>1, <1>2
<1>6. QED
  BY <1>1, <1>2, <1>3, <1>4, <1>5 DEF t, Todo

\* A call puts a page into the plan and leaves other calls to be made.
LEMMA Dealt ==
  ASSUME PlanInv, phase = "plan", NEW items, NEW calls \in Seq(Call),
         \A i \in DOMAIN calls : IsCall(calls[i], entries),
         \A i \in DOMAIN work : i = 1 \/ \E j \in DOMAIN calls : calls[j] = work[i],
         IsPage(items, Todo.key, entries,
                DOMAIN pages \cup {Todo.key} \cup {calls[j].key : j \in DOMAIN calls}),
         PutPage(Todo.key, items), PlanReturns(calls), entries' = entries
  PROVE  PlanInv'
<1> DEFINE k == Todo.key
           keys == DOMAIN pages \cup {k} \cup {calls[j].key : j \in DOMAIN calls}
<1>1. /\ IsGiven(entries) /\ work \in Seq(Call) /\ work # <<>>
      /\ DOMAIN pages \subseteq Key /\ Root \in Known
      /\ \A p \in DOMAIN pages : IsPage(pages[p], p, entries, Known)
  BY DEF PlanInv, Planning
<1>2. Todo \in Call /\ Todo = work[1] /\ k \in Key
  <2>1. Todo \in Call /\ Todo = work[1]
    BY <1>1, TodoIsHead
  <2>2. QED
    BY <2>1 DEF Call
<1>3. Known \subseteq keys
  <2>1. Known = DOMAIN pages \cup {work[i].key : i \in DOMAIN work}
    BY DEF Known, ToPlan
  <2>2. \A i \in DOMAIN work : work[i].key \in keys
    <3> TAKE i \in DOMAIN work
    <3>1. CASE i = 1
      BY <1>2, <3>1
    <3>2. CASE i # 1
      <4>1. PICK j \in DOMAIN calls : calls[j] = work[i]
        BY <3>2
      <4>2. QED
        BY <4>1
    <3>3. QED
      BY <3>1, <3>2
  <2>3. QED
    BY <2>1, <2>2
<1>4. pages' = [p \in DOMAIN pages \cup {k} |-> IF p = k THEN items ELSE pages[p]]
  BY DEF PutPage
<1>5. /\ DOMAIN pages' = DOMAIN pages \cup {k} /\ pages'[k] = items
      /\ \A p \in DOMAIN pages : p # k => pages'[p] = pages[p]
  BY <1>4
<1>6. Known' = keys
  <2>1. CASE calls = <<>>
    <3>1. phase' = "assign"
      BY <2>1 DEF PlanReturns, StartPhase
    <3>2. DOMAIN calls = {}
      <4>1. Len(calls) = 0 /\ DOMAIN calls = 1..Len(calls)
        BY <2>1, LenProperties
      <4>2. QED
        BY <4>1
    <3>3. QED
      BY <1>5, <3>1, <3>2 DEF Known
  <2>2. CASE calls # <<>>
    <3>1. phase' = "plan" /\ work' = calls
      BY <2>2 DEF PlanReturns
    <3>2. QED
      BY <1>5, <3>1 DEF Known, ToPlan
  <2>3. QED
    BY <2>1, <2>2
<1> HIDE DEF keys, k
<1>7. \A p \in DOMAIN pages' : IsPage(pages'[p], p, entries, keys)
  <2> TAKE p \in DOMAIN pages'
  <2>1. CASE p = k
    BY <1>5, <2>1 DEF keys, k
  <2>2. CASE p # k
    <3>1. p \in DOMAIN pages /\ pages'[p] = pages[p] /\ IsPage(pages[p], p, entries, Known)
      BY <1>1, <1>5, <2>2
    <3>2. IsPage(pages[p], p, entries, keys)
      BY <1>3, <3>1 DEF IsPage
    <3>3. QED
      BY <3>1, <3>2
  <2>3. QED
    BY <2>1, <2>2
<1>8. phase' = "plan" => /\ work' \in Seq(Call) /\ work' # <<>>
                         /\ \A i \in DOMAIN work' : IsCall(work'[i], entries)
  BY DEF PlanReturns, StartPhase
<1>9. DOMAIN pages' \subseteq Key /\ Root \in keys
  BY <1>1, <1>2, <1>3, <1>5
<1>10. QED
  BY <1>1, <1>6, <1>7, <1>8, <1>9 DEF PlanInv

\* plan_hierarchy_pages with a list that fits in one page.
LEMMA LeafStep == ASSUME PlanInv, PlanLeaf PROVE PlanInv'
<1> DEFINE items == [i \in DOMAIN Todo.list |-> Point(Todo.list[i])]
           calls == Tail(work)
           keys == DOMAIN pages \cup {Todo.key} \cup {calls[j].key : j \in DOMAIN calls}
<1>1. phase = "plan" /\ Len(Todo.list) <= PageMaxEntries
      /\ PutPage(Todo.key, items) /\ PlanReturns(calls) /\ entries' = entries
  BY DEF PlanLeaf, pageInput
<1>2. IsGiven(entries) /\ work \in Seq(Call) /\ work # <<>>
      /\ \A i \in DOMAIN work : IsCall(work[i], entries)
  BY <1>1 DEF PlanInv, Planning
<1>3. /\ Todo = work[1] /\ 1 \in DOMAIN work /\ calls \in Seq(Call)
      /\ \A i \in DOMAIN calls : i + 1 \in DOMAIN work /\ calls[i] = work[i + 1]
      /\ \A i \in DOMAIN work : i = 1 \/ (i - 1 \in DOMAIN calls /\ calls[i - 1] = work[i])
  BY <1>2, TodoIsHead
<1>4. IsCall(Todo, entries)
  BY <1>2, <1>3
<1>5. IsPage(items, Todo.key, entries, keys)
  <2> HIDE DEF keys
  <2>1. QED
    BY <1>1, <1>2, <1>4, LeafPage
<1> HIDE DEF items, calls
<1>6. \A i \in DOMAIN calls : IsCall(calls[i], entries)
  BY <1>2, <1>3
<1>7. \A i \in DOMAIN work : i = 1 \/ \E j \in DOMAIN calls : calls[j] = work[i]
  BY <1>3
<1>8. QED
  BY <1>1, <1>3, <1>5, <1>6, <1>7, Dealt

\* plan_hierarchy_pages with a list that does not.
LEMMA SplitStep ==
  ASSUME PlanInv, PlanSplit PROVE PlanInv' /\ phase' \in {"plan", "assign"}
<1> DEFINE items == OwnItems(Todo) \o ChildItems(Todo)
           rest == Tail(work)
           calls == CallsFor(Todo) \o rest
           keys == DOMAIN pages \cup {Todo.key} \cup {calls[j].key : j \in DOMAIN calls}
<1>1. phase = "plan" /\ Len(Todo.list) > PageMaxEntries /\ entries' = entries
  BY DEF PlanSplit, pageInput
<1>2. IsGiven(entries) /\ work \in Seq(Call) /\ work # <<>>
      /\ \A i \in DOMAIN work : IsCall(work[i], entries)
  BY <1>1 DEF PlanInv, Planning
<1>3. /\ Todo = work[1] /\ 1 \in DOMAIN work /\ rest \in Seq(Call) /\ DOMAIN rest = 1..Len(rest)
      /\ \A i \in DOMAIN rest : i + 1 \in DOMAIN work /\ rest[i] = work[i + 1]
      /\ \A i \in DOMAIN work : i = 1 \/ (i - 1 \in DOMAIN rest /\ rest[i - 1] = work[i])
  BY <1>2, TodoIsHead
<1>4. IsCall(Todo, entries)
  BY <1>2, <1>3
<1>5. ~ \E i \in DOMAIN Todo.list :
          /\ Todo.list[i].key # Todo.key
          /\ \A o \in Octant : ~ KeyContains(Child(Todo.key, o), Todo.list[i].key)
  <2> SUFFICES ASSUME NEW i \in DOMAIN Todo.list, Todo.list[i].key # Todo.key
               PROVE  \E o \in Octant : KeyContains(Child(Todo.key, o), Todo.list[i].key)
    OBVIOUS
  <2>1. Todo.list \in Seq(Entry) /\ Todo.key \in Key
        /\ Range(Todo.list) = Below(entries, Todo.key)
    BY <1>4 DEF IsCall, Call
  <2> DEFINE list == Todo.list
             k == Todo.key
  <2> HIDE DEF list, k
  <2>2. list[i] \in Entry /\ list[i] \in Range(list)
    <3>1. DOMAIN list = 1..Len(list) /\ Range(list) = {list[j] : j \in 1..Len(list)}
      BY <2>1, LenProperties, RangeEquality DEF list
    <3>2. QED
      BY <2>1, <3>1, ElementOfSeq DEF list
  <2>3. InSubtree(list[i].key, k) /\ list[i].key \in Key
    BY <2>1, <2>2 DEF Below, Entry, list, k
  <2>4. \E o \in Octant : InSubtree(list[i].key, Child(k, o))
    BY <2>1, <2>3, OctantOf DEF list, k
  <2>5. QED
    BY <2>4 DEF KeyContains, list, k
<1>6. PutPage(Todo.key, items) /\ PlanReturns(calls)
  BY <1>5, Zenon DEF PlanSplit, OwnItems, ChildItems, CallsFor, ChildOf
<1>7. /\ CallsFor(Todo) \in Seq(Call)
      /\ \A i \in 1..Len(CallsFor(Todo)) : IsCall(CallsFor(Todo)[i], entries)
  BY <1>2, <1>4, ChildrenOf
<1> DEFINE new == CallsFor(Todo)
           m == Len(new)
           n == Len(rest)
<1> HIDE DEF new, rest, items
<1>8. /\ calls \in Seq(Call) /\ DOMAIN calls = 1..(m + n) /\ m \in Nat /\ n \in Nat
      /\ \A i \in 1..(m + n) : calls[i] = IF i <= m THEN new[i] ELSE rest[i - m]
  <2>1. calls = new \o rest /\ new \in Seq(Call)
    BY <1>7 DEF new
  <2>2. new \o rest \in Seq(Call) /\ Len(new \o rest) = m + n
        /\ \A i \in 1..(m + n) : (new \o rest)[i] = IF i <= m THEN new[i] ELSE rest[i - m]
    BY <1>3, <2>1, ConcatProperties
  <2>3. DOMAIN (new \o rest) = 1..(m + n) /\ m \in Nat /\ n \in Nat
    BY <1>3, <2>1, <2>2, LenProperties
  <2>4. QED
    BY <2>1, <2>2, <2>3
<1> HIDE DEF calls
<1>9. \A i \in DOMAIN calls : IsCall(calls[i], entries)
  <2> TAKE i \in DOMAIN calls
  <2>1. CASE i <= m
    <3>1. calls[i] = new[i] /\ i \in 1..m
      BY <1>8, <2>1
    <3>2. QED
      BY <1>7, <3>1 DEF new, m
  <2>2. CASE ~ (i <= m)
    <3>1. calls[i] = rest[i - m] /\ i - m \in 1..n
      BY <1>8, <2>2
    <3>2. QED
      BY <1>2, <1>3, <3>1 DEF n
  <2>3. QED
    BY <2>1, <2>2
<1>10. \A i \in DOMAIN work : i = 1 \/ \E j \in DOMAIN calls : calls[j] = work[i]
  <2> TAKE i \in DOMAIN work
  <2> SUFFICES ASSUME i # 1 PROVE \E j \in DOMAIN calls : calls[j] = work[i]
    OBVIOUS
  <2>1. i - 1 \in 1..n /\ rest[i - 1] = work[i]
    BY <1>3 DEF n
  <2> DEFINE j == (i - 1) + m
  <2>2. j \in 1..(m + n) /\ ~ (j <= m) /\ j - m = i - 1
    BY <1>8, <2>1
  <2> HIDE DEF j
  <2>3. calls[j] = work[i]
    BY <1>8, <2>1, <2>2
  <2>4. QED
    BY <1>8, <2>2, <2>3
<1>11. \A i \in 1..Len(new) : new[i].key \in keys
  <2>1. \A i \in 1..m : i \in DOMAIN calls /\ calls[i] = new[i]
    BY <1>8
  <2>2. QED
    BY <2>1 DEF m
<1>12. IsPage(items, Todo.key, entries, keys)
  <2> HIDE DEF keys
  <2>1. IsPage(OwnItems(Todo) \o ChildItems(Todo), Todo.key, entries, keys)
    BY <1>1, <1>2, <1>4, <1>11, SplitPage DEF new
  <2>2. QED
    BY <2>1 DEF items
<1>13. PlanInv'
  BY <1>1, <1>6, <1>8, <1>9, <1>10, <1>12, Dealt
<1>14. phase' \in {"plan", "assign"}
  BY <1>1, <1>6 DEF PlanReturns, StartPhase
<1>15. QED
  BY <1>13, <1>14

-----------------------------------------------------------------------------
(***************************************************************************)
(* Sums, and the bytes of records that are written one after the other.    *)
(***************************************************************************)
\* One more number.
TotalRound(numbers, total, n) == IF n = 0 THEN 0 ELSE total[n - 1] + numbers[n]

\* The sum of the first n.
TotalUpTo(numbers) ==
  CHOOSE total : total = [n \in 0..Len(numbers) |-> TotalRound(numbers, total, n)]

\* A total is the sum of all.
LEMMA TotalIsLast == ASSUME NEW numbers PROVE Total(numbers) = TotalUpTo(numbers)[Len(numbers)]
BY DEF Total, TotalUpTo, TotalRound

\* What each round of a sum gives.
LEMMA TotalSteps ==
  ASSUME NEW numbers \in Seq(Nat)
  PROVE  /\ TotalUpTo(numbers) \in [0..Len(numbers) -> Nat]
         /\ TotalUpTo(numbers)[0] = 0
         /\ \A n \in 1..Len(numbers) :
              TotalUpTo(numbers)[n] = TotalUpTo(numbers)[n - 1] + numbers[n]
<1> DEFINE N == Len(numbers)
           round == [i \in 1..N |-> [s \in Nat |-> s + numbers[i]]]
           eqn(f) == f = [n \in 0..N |-> TotalRound(numbers, f, n)]
           it == TotalUpTo(numbers)
<1>1. N \in Nat /\ \A i \in 1..N : numbers[i] \in Nat
  BY LenProperties, ElementOfSeq
<1>2. round \in [1..N -> [Nat -> Nat]]
  BY <1>1
<1>3. PICK f \in [0..N -> Nat] : f[0] = 0 /\ \A i \in 1..N : f[i] = round[i][f[i - 1]]
  <2> DEFINE V == Nat
             base == 0
  <2>1. base \in V /\ round \in [1..N -> [V -> V]]
    BY <1>2
  <2> HIDE DEF N, V, round, base
  <2>2. \E f : RunOf(f, V, N, base, round)
    BY <1>1, <2>1, Recursion
  <2>3. QED
    BY <2>2 DEF V, base, RunOf
<1>4. \E g : eqn(g)
  <2>1. ASSUME NEW n \in 0..N PROVE f[n] = TotalRound(numbers, f, n)
    <3>1. CASE n = 0
      BY <1>3, <3>1 DEF TotalRound
    <3>2. CASE n # 0
      <4>0. n \in 1..N /\ n - 1 \in 0..N
        BY <1>1, <3>2
      <4>1. n \in 1..N /\ f[n - 1] \in Nat
        BY <4>0
      <4>2. f[n] = round[n][f[n - 1]]
        BY <1>3, <4>1
      <4>3. round[n][f[n - 1]] = f[n - 1] + numbers[n]
        BY <4>1
      <4> HIDE DEF round
      <4>4. QED
        BY <3>2, <4>2, <4>3 DEF TotalRound
    <3>3. QED
      BY <3>1, <3>2
  <2>2. eqn(f)
    BY <2>1
  <2>3. QED
    BY <2>2
<1>5. eqn(it)
  <2>1. it = CHOOSE g : eqn(g)
    BY DEF TotalUpTo
  <2> HIDE DEF it, eqn
  <2>2. QED
    BY <1>4, <2>1
<1>6. \A n \in 0..N : it[n] = TotalRound(numbers, it, n)
  <2> HIDE DEF it
  <2>1. QED
    BY <1>5
<1>7. it[0] = 0 /\ \A n \in 1..N : it[n] = it[n - 1] + numbers[n]
  <2> HIDE DEF it
  <2>1. 0 \in 0..N /\ \A n \in 1..N : n \in 0..N /\ n # 0
    BY <1>1
  <2>2. QED
    BY <1>6, <2>1 DEF TotalRound
<1>8. \A n \in 0..N : it[n] \in Nat
  <2> DEFINE F == {n \in 0..N : it[n] \in Nat}
  <2> HIDE DEF it
  <2>1. 0 \in F
    BY <1>1, <1>7
  <2>2. ASSUME NEW n \in (0 + 1)..N, n - 1 \in F PROVE n \in F
    <3>1. it[n - 1] \in Nat /\ n \in 0..N /\ n \in 1..N /\ numbers[n] \in Nat
      BY <1>1, <2>2
    <3>2. QED
      BY <1>7, <3>1
  <2>3. 0 \in Int /\ N \in Int
    BY <1>1
  <2> HIDE DEF F
  <2>4. 0..N \subseteq F
    BY <2>1, <2>2, <2>3, CountUp
  <2>5. QED
    BY <2>4 DEF F
<1>9. it \in [0..N -> Nat]
  <2> HIDE DEF it
  <2>1. it = [n \in 0..N |-> it[n]]
    BY <1>5
  <2>2. QED
    BY <1>8, <2>1
<1>10. QED
  BY <1>7, <1>9

\* The sum of two lists, one after the other.
LEMMA TotalConcat ==
  ASSUME NEW s \in Seq(Nat), NEW t \in Seq(Nat)
  PROVE  Total(s) \in Nat /\ Total(t) \in Nat /\ Total(s \o t) = Total(s) + Total(t)
<1> DEFINE u == s \o t
           m == Len(s)
           n == Len(t)
           a == TotalUpTo(s)
           b == TotalUpTo(t)
           c == TotalUpTo(u)
<1>1. /\ u \in Seq(Nat) /\ Len(u) = m + n /\ m \in Nat /\ n \in Nat
      /\ \A i \in 1..(m + n) : u[i] = IF i <= m THEN s[i] ELSE t[i - m]
  BY ConcatProperties, LenProperties
<1> HIDE DEF u
<1>2. /\ a \in [0..m -> Nat] /\ a[0] = 0 /\ \A i \in 1..m : a[i] = a[i - 1] + s[i]
      /\ b \in [0..n -> Nat] /\ b[0] = 0 /\ \A i \in 1..n : b[i] = b[i - 1] + t[i]
  BY TotalSteps
<1>3. c \in [0..(m + n) -> Nat] /\ c[0] = 0 /\ \A i \in 1..(m + n) : c[i] = c[i - 1] + u[i]
  <2>1. c \in [0..Len(u) -> Nat] /\ c[0] = 0 /\ \A i \in 1..Len(u) : c[i] = c[i - 1] + u[i]
    BY <1>1, TotalSteps
  <2> HIDE DEF c
  <2>2. QED
    BY <1>1, <2>1
<1> HIDE DEF a, b, c, m, n
<1>4. \A i \in 0..m : c[i] = a[i]
  <2> DEFINE F == {i \in 0..m : c[i] = a[i]}
  <2>1. 0 \in F
    BY <1>1, <1>2, <1>3
  <2>2. ASSUME NEW i \in (0 + 1)..m, i - 1 \in F PROVE i \in F
    <3>1. i \in 1..m /\ i \in 0..m /\ i \in 1..(m + n) /\ i <= m
      BY <1>1
    <3>2. c[i] = c[i - 1] + s[i] /\ a[i] = a[i - 1] + s[i]
      BY <1>1, <1>2, <1>3, <3>1
    <3>3. QED
      BY <2>2, <3>1, <3>2
  <2>3. 0 \in Int /\ m \in Int
    BY <1>1
  <2> HIDE DEF F
  <2>4. 0..m \subseteq F
    BY <2>1, <2>2, <2>3, CountUp
  <2>5. QED
    BY <2>4 DEF F
<1>5. \A i \in 0..n : c[m + i] = a[m] + b[i]
  <2> DEFINE F == {i \in 0..n : c[m + i] = a[m] + b[i]}
  <2>1. 0 \in F
    <3>1. m \in 0..m /\ m + 0 = m /\ a[m] \in Nat /\ c[m] = a[m]
      BY <1>1, <1>2, <1>4
    <3>2. QED
      BY <1>1, <1>2, <3>1
  <2>2. ASSUME NEW i \in (0 + 1)..n, i - 1 \in F PROVE i \in F
    <3>1. i \in 1..n /\ i \in 0..n /\ i - 1 \in 0..n /\ m + i \in 1..(m + n) /\ ~ (m + i <= m)
          /\ (m + i) - m = i /\ (m + i) - 1 = m + (i - 1) /\ m \in 0..m
      BY <1>1
    <3>2. c[m + i] = c[(m + i) - 1] + u[m + i] /\ u[m + i] = t[(m + i) - m]
      BY <1>1, <1>3, <3>1
    <3>3. c[m + i] = c[m + (i - 1)] + t[i] /\ b[i] = b[i - 1] + t[i]
      BY <1>2, <3>1, <3>2
    <3>4. c[m + (i - 1)] = a[m] + b[i - 1]
      BY <2>2
    <3>5. a[m] \in Nat /\ b[i - 1] \in Nat /\ t[i] \in Nat
      BY <1>2, <3>1, ElementOfSeq DEF n
    <3>6. ASSUME NEW v \in Nat, NEW w \in Nat, NEW x \in Nat, NEW y, NEW z,
                 y = (v + w) + x, z = w + x
          PROVE  y = v + z
      BY <3>6
    <3>7. c[m + i] = a[m] + b[i]
      BY <3>3, <3>4, <3>5, <3>6
    <3>8. QED
      BY <3>1, <3>7
  <2>3. 0 \in Int /\ n \in Int
    BY <1>1
  <2> HIDE DEF F
  <2>4. 0..n \subseteq F
    BY <2>1, <2>2, <2>3, CountUp
  <2>5. QED
    BY <2>4 DEF F
<1>6. Total(s) = a[m] /\ Total(t) = b[n] /\ Total(u) = c[m + n]
  BY <1>1, TotalIsLast DEF a, b, c, m, n
<1>7. a[m] \in Nat /\ b[n] \in Nat /\ c[m + n] = a[m] + b[n]
  BY <1>1, <1>2, <1>5
<1>8. QED
  BY <1>6, <1>7 DEF u

\* The numbers of bytes of records.
LEMMA BytesConcat ==
  ASSUME NEW R, \A r \in R : r.bytes \in Nat, NEW s \in Seq(R), NEW t \in Seq(R)
  PROVE  /\ TotalBytes(s) \in Nat /\ TotalBytes(t) \in Nat
         /\ TotalBytes(s \o t) = TotalBytes(s) + TotalBytes(t)
<1> DEFINE u == s \o t
           bytes(l) == [i \in DOMAIN l |-> l[i].bytes]
           m == Len(s)
           n == Len(t)
<1>1. /\ u \in Seq(R) /\ Len(u) = m + n /\ m \in Nat /\ n \in Nat
      /\ \A i \in 1..(m + n) : u[i] = IF i <= m THEN s[i] ELSE t[i - m]
  BY ConcatProperties, LenProperties
<1> HIDE DEF u
<1>2. ASSUME NEW l \in Seq(R)
      PROVE  /\ bytes(l) \in Seq(Nat) /\ Len(bytes(l)) = Len(l)
             /\ \A i \in 1..Len(l) : bytes(l)[i] = l[i].bytes
  <2>1. DOMAIN l = 1..Len(l) /\ Len(l) \in Nat /\ \A i \in 1..Len(l) : l[i] \in R
    BY LenProperties, ElementOfSeq
  <2>2. bytes(l) \in [1..Len(l) -> Nat] /\ \A i \in 1..Len(l) : bytes(l)[i] = l[i].bytes
    BY <2>1
  <2> HIDE DEF bytes
  <2>3. QED
    BY <2>1, <2>2, IsList
<1> HIDE DEF bytes
<1>3. bytes(u) = bytes(s) \o bytes(t)
  <2>1. /\ bytes(s) \in Seq(Nat) /\ Len(bytes(s)) = m
        /\ bytes(t) \in Seq(Nat) /\ Len(bytes(t)) = n
        /\ bytes(u) \in Seq(Nat) /\ Len(bytes(u)) = m + n
    BY <1>1, <1>2
  <2>2. /\ bytes(s) \o bytes(t) \in Seq(Nat) /\ Len(bytes(s) \o bytes(t)) = m + n
        /\ \A i \in 1..(m + n) : (bytes(s) \o bytes(t))[i] =
             IF i <= m THEN bytes(s)[i] ELSE bytes(t)[i - m]
    <3> DEFINE p == bytes(s)
               q == bytes(t)
    <3>a. p \in Seq(Nat) /\ q \in Seq(Nat) /\ Len(p) = m /\ Len(q) = n
      BY <2>1
    <3> HIDE DEF p, q
    <3>1. /\ p \o q \in Seq(Nat) /\ Len(p \o q) = m + n
          /\ \A i \in 1..(m + n) : (p \o q)[i] = IF i <= m THEN p[i] ELSE q[i - m]
      <4> HIDE DEF m, n
      <4>1. QED
        BY <3>a, ConcatProperties
    <3>2. QED
      BY <3>1 DEF p, q
  <2>3. ASSUME NEW i \in 1..(m + n) PROVE bytes(u)[i] = (bytes(s) \o bytes(t))[i]
    <3>1. bytes(u)[i] = u[i].bytes
      BY <1>1, <1>2
    <3>2. CASE i <= m
      <4>1. i \in 1..m
        BY <1>1, <3>2
      <4>a. bytes(s)[i] = s[i].bytes
        BY <1>2, <4>1 DEF m
      <4>2. bytes(s)[i] = s[i].bytes /\ u[i] = s[i] /\ (bytes(s) \o bytes(t))[i] = bytes(s)[i]
        BY <1>1, <2>2, <3>2, <4>a
      <4>3. QED
        BY <3>1, <4>2
    <3>3. CASE ~ (i <= m)
      <4>1. i - m \in 1..n
        BY <1>1, <3>3
      <4>a. bytes(t)[i - m] = t[i - m].bytes
        BY <1>2, <4>1 DEF n
      <4>2. bytes(t)[i - m] = t[i - m].bytes /\ u[i] = t[i - m]
            /\ (bytes(s) \o bytes(t))[i] = bytes(t)[i - m]
        BY <1>1, <2>2, <3>3, <4>a
      <4>3. QED
        BY <3>1, <4>2
    <3>4. QED
      BY <3>2, <3>3
  <2>4. QED
    BY <2>1, <2>2, <2>3, SeqEqual
<1>4. Total(bytes(s)) \in Nat /\ Total(bytes(t)) \in Nat
      /\ Total(bytes(s) \o bytes(t)) = Total(bytes(s)) + Total(bytes(t))
  BY <1>2, TotalConcat
<1>5. QED
  BY <1>3, <1>4 DEF TotalBytes, bytes, u

\* The room records take one after the other.
LEMMA StorageConcat ==
  ASSUME NEW R, \A r \in R : r.bytes \in Nat, NEW s \in Seq(R), NEW t \in Seq(R), NEW form
  PROVE  /\ StorageBytes(s, form) \in Nat /\ StorageBytes(t, form) \in Nat
         /\ StorageBytes(s \o t, form) = StorageBytes(s, form) + StorageBytes(t, form)
         /\ s \o t \in Seq(R)
<1> DEFINE h == HeaderBytes(form)
<1>1. h \in Nat
  BY DEF HeaderBytes
<1>2. Len(s) \in Nat /\ Len(t) \in Nat /\ Len(s \o t) = Len(s) + Len(t) /\ s \o t \in Seq(R)
  BY LenProperties, ConcatProperties
<1>3. TotalBytes(s) \in Nat /\ TotalBytes(t) \in Nat
      /\ TotalBytes(s \o t) = TotalBytes(s) + TotalBytes(t)
  BY BytesConcat
<1> HIDE DEF h
<1>4. \A l : StorageBytes(l, form) = TotalBytes(l) + Len(l) * h
  BY DEF StorageBytes, h
<1> DEFINE a == TotalBytes(s)
           b == TotalBytes(t)
           m == Len(s)
           n == Len(t)
           x == m * h
           y == n * h
           z == (m + n) * h
<1>5. a \in Nat /\ b \in Nat /\ m \in Nat /\ n \in Nat
  BY <1>2, <1>3
<1>6. x \in Nat /\ y \in Nat /\ z = x + y
  <2> HIDE DEF m, n
  <2>1. QED
    BY <1>1, <1>5
<1>7. /\ StorageBytes(s, form) = a + x /\ StorageBytes(t, form) = b + y
      /\ StorageBytes(s \o t, form) = (a + b) + z
  BY <1>2, <1>3, <1>4
<1> HIDE DEF a, b, m, n, x, y, z
<1>8. a + x \in Nat /\ b + y \in Nat /\ (a + b) + z = (a + x) + (b + y)
  BY <1>5, <1>6
<1>9. QED
  BY <1>2, <1>7, <1>8

-----------------------------------------------------------------------------
(***************************************************************************)
(* The invariant of a whole run of the writer.                             *)
(***************************************************************************)
\* The records of the source, and those made from them.
OutRecord == JobRecords \cup {OverrideRecord, EmptyWktRecord}

\* The COPC info record, before and after it is patched.
InfoRecords == {InfoRecord(o, n) : o \in Nat, n \in Nat}

\* The record of the hierarchy EVLR.
HierarchyRecords == {Record("copc hierarchy", n, "pages") : n \in Nat}

\* Every record a file may have.
AnyRecord == OutRecord \cup {LazRecord} \cup InfoRecords \cup HierarchyRecords

\* What the writer keeps of the source's records.
IsMetadata(m) ==
  /\ m.crs_vlrs \in Seq(OutRecord) /\ m.extra_bytes_vlrs \in Seq(OutRecord)
  /\ m.pass_through_vlrs \in Seq(OutRecord) /\ m.evlrs_after_hierarchy \in Seq(OutRecord)

\* A header as the writer makes it.
HeaderRecord ==
  [form : {"header"}, wkt : {TRUE}, offset_to_point_data : Nat, number_of_vlrs : Nat,
   offset_to_first_evlr : Nat, number_of_evlrs : Nat, number_of_points : Nat]

\* A VLR at its offset.
VlrRecord == {[form |-> "vlr", record |-> r] : r \in AnyRecord}

\* What is in the file is at offsets, its records are records, and the two
\* places that will be patched are the header and a VLR.
IsPlaced(at) ==
  /\ DOMAIN at \subseteq Nat
  /\ 0 \in DOMAIN at /\ at[0] \in HeaderRecord
  /\ LasHeaderBytes \in DOMAIN at /\ at[LasHeaderBytes] \in VlrRecord
  /\ \A o \in DOMAIN at : at[o].form \in {"vlr", "evlr"} => at[o].record \in AnyRecord

\* A file being written.
IsLayout(f) ==
  /\ f = [len |-> f.len, at |-> f.at]
  /\ f.len \in Nat /\ f.len > LasHeaderBytes
  /\ IsPlaced(f.at)

\* From assign_hierarchy_page_offsets on.
Placing == {"assign", "write", "records", "patch", "done"}

\* What has been made in each phase of write_copc_inner.
WriterInv ==
  /\ phase \in {"metadata", "rejected", "head", "chunks", "plan", "failed", "damaged"} \cup Placing
  /\ job \in Jobs
  /\ phase \in {"metadata", "head", "chunks"} => pages = <<>> /\ ranges = <<>> /\ body = <<>>
  /\ phase \in {"head", "chunks"} \cup Planning => IsMetadata(metadata)
  /\ phase \in {"chunks"} \cup Planning => IsLayout(file)
  /\ phase = "damaged" => UnsignedFields(file)
  /\ phase \in Planning => root_hier_offset \in Nat /\ root_hier_offset > LasHeaderBytes
  /\ phase \in {"plan", "assign"} => root_hier_offset = file.len + 60
  /\ phase = "plan" => ranges = <<>> /\ body = <<>> /\ next = root_hier_offset
  /\ phase = "assign" => body = <<>>
  /\ phase \in {"write", "records"} => body \in Seq(Entry)

\* Every page that was planned gets a range of its own size.
RangesInv ==
  phase \in Placing =>
    LET placed == DOMAIN ranges \cup IF phase = "assign" THEN Range(work) ELSE {} IN
    /\ DOMAIN ranges \subseteq DOMAIN pages
    /\ \A k \in DOMAIN ranges : ranges[k] \in Nat \X Nat
    /\ Root \in placed
    /\ \A k \in DOMAIN ranges : Range(ChildKeys(pages[k])) \subseteq placed

\* A stop of the walk over the page tree: the pages still to be visited, and
\* the offset where the first of them is.  The walk goes on at a stop in C.
Follows(stop, C, placed, planned) ==
  /\ stop[1] # <<>> /\ Head(stop[1]) \in DOMAIN placed
  /\ placed[Head(stop[1])][1] = stop[2]
  /\ <<ChildKeys(planned[Head(stop[1])]) \o Tail(stop[1]),
       stop[2] + EntryBytes * Len(planned[Head(stop[1])])>> \in C

\* A stop is the pages to be visited and the offset of the first.
Stops == Seq(DOMAIN pages) \X Nat

\* The walk that assigns the offsets leaves its stops behind; no page is
\* visited twice.
AssignInv ==
  phase = "assign" =>
    /\ work \in Seq(DOMAIN pages) /\ next \in Nat /\ next >= root_hier_offset
    /\ \A i, j \in DOMAIN work : \A k \in Key :
         InSubtree(k, work[i]) /\ InSubtree(k, work[j]) => i = j
    /\ \A k \in DOMAIN ranges : \A i \in DOMAIN work : ~ InSubtree(k, work[i])
    /\ \E C \in SUBSET Stops :
         /\ <<<<Root>>, root_hier_offset>> \in C
         /\ \A stop \in C : stop = <<work, next>> \/ Follows(stop, C, ranges, pages)

\* The walk that writes the pages makes the same stops.
WriteInv ==
  phase = "write" =>
    \E C \in SUBSET Stops :
      /\ <<work, root_hier_offset + EntryBytes * Len(body)>> \in C
      /\ \A stop \in C : stop[1] = <<>> \/ Follows(stop, C, ranges, pages)

\* The inductive invariant.
LayoutInv == WriterInv /\ PlanInv /\ RangesInv /\ AssignInv /\ WriteInv

-----------------------------------------------------------------------------
\* The elements of a list of entries are entries.
LEMMA EntriesOf ==
  ASSUME NEW given, IsGiven(given) PROVE \A e \in Range(given) : e \in Entry /\ e.key \in Key
<1>1. \A j \in 1..Len(given) : given[j] \in Entry
  BY ElementOfSeq DEF IsGiven
<1>2. Range(given) = {given[j] : j \in 1..Len(given)}
  BY RangeEquality DEF IsGiven
<1>3. QED
  BY <1>1, <1>2 DEF Entry

\* A record has the fields it is made of.
LEMMA RecordIs ==
  ASSUME NEW kind, NEW bytes, NEW data
  PROVE  /\ Record(kind, bytes, data).kind = kind /\ Record(kind, bytes, data).bytes = bytes
         /\ Record(kind, bytes, data).data = data
BY DEF Record

\* Sizes and offsets in records are unsigned numbers.
LEMMA RecordFields == ASSUME NEW r \in AnyRecord PROVE UnsignedRecord(r) /\ r.bytes \in Nat
<1>1. CASE r \in JobRecords
  BY <1>1, JobsAssumption DEF UnsignedRecord
<1>2. CASE r \in {OverrideRecord, EmptyWktRecord, LazRecord}
  <2>1. r.kind # "copc info"
    <3>1. OverrideRecord.kind = "wkt" /\ EmptyWktRecord.kind = "wkt" /\ LazRecord.kind = "laszip"
      BY DEF OverrideRecord, EmptyWktRecord, LazRecord, Record
    <3>2. r.kind = "wkt" \/ r.kind = "laszip"
      BY <1>2, <3>1, Zenon
    <3>3. QED
      BY <3>2
  <2>2. r.bytes \in Nat
    BY <1>2, MetadataAssumption, LayoutAssumption
       DEF OverrideRecord, EmptyWktRecord, LazRecord, Record
  <2>3. QED
    BY <2>1, <2>2 DEF UnsignedRecord
<1>3. ASSUME NEW o \in Nat, NEW n \in Nat, r = InfoRecord(o, n)
      PROVE  UnsignedRecord(r) /\ r.bytes \in Nat
  <2>1. r.bytes = 160 /\ r.data.root_hier_offset = o /\ r.data.root_hier_size = n
    BY <1>3 DEF InfoRecord, Record, CopcInfoBytes
  <2>2. r.bytes \in Nat /\ r.data.root_hier_offset \in Nat /\ r.data.root_hier_size \in Nat
    <3>1. 160 \in Nat
      OBVIOUS
    <3>2. QED
      BY <2>1, <3>1, Zenon
  <2>3. QED
    BY <2>2, Zenon DEF UnsignedRecord
<1>4. ASSUME NEW n \in Nat, r = Record("copc hierarchy", n, "pages")
      PROVE  UnsignedRecord(r) /\ r.bytes \in Nat
  <2>1. r.bytes = n /\ r.kind # "copc info"
    BY <1>4 DEF Record
  <2>2. QED
    BY <2>1 DEF UnsignedRecord
<1>5. \/ r \in JobRecords \/ r \in {OverrideRecord, EmptyWktRecord, LazRecord}
      \/ (\E o, n \in Nat : r = InfoRecord(o, n))
      \/ \E n \in Nat : r = Record("copc hierarchy", n, "pages")
  <2>1. \/ r \in JobRecords \/ r \in {OverrideRecord, EmptyWktRecord, LazRecord}
        \/ r \in InfoRecords \/ r \in HierarchyRecords
    BY DEF AnyRecord, OutRecord
  <2>2. r \in InfoRecords => \E o, n \in Nat : r = InfoRecord(o, n)
    BY DEF InfoRecords
  <2>3. r \in HierarchyRecords => \E n \in Nat : r = Record("copc hierarchy", n, "pages")
    BY DEF HierarchyRecords
  <2>4. QED
    BY <2>1, <2>2, <2>3
<1>6. QED
  BY <1>1, <1>2, <1>3, <1>4, <1>5, Zenon

\* A file being written has only unsigned numbers in its records.
LEMMA LayoutFields == ASSUME NEW f, IsLayout(f) PROVE UnsignedFields(f)
<1>1. /\ f.at[0].offset_to_point_data \in Nat /\ f.at[0].number_of_vlrs \in Nat
      /\ f.at[0].offset_to_first_evlr \in Nat /\ f.at[0].number_of_evlrs \in Nat
  BY DEF IsLayout, IsPlaced, HeaderRecord
<1>2. QED
  BY <1>1, RecordFields DEF IsLayout, IsPlaced, UnsignedFields, Header

\* Records of one kind are records.
LEMMA OfKindList ==
  ASSUME NEW R, NEW list \in Seq(R), NEW kind PROVE OfKind(list, kind) \in Seq(R)
<1> DEFINE S == {r \in Range(list) : r.kind = kind}
<1>1. OfKind(list, kind) = Those(list, S)
  BY DEF OfKind
<1> HIDE DEF S
<1>2. QED
  BY <1>1, ThoseElements

\* The records of the source that are passed through.
LEMMA PassThroughList ==
  ASSUME NEW R, NEW list \in Seq(R), NEW others PROVE PassThrough(list, others) \in Seq(R)
<1> DEFINE S == {r \in Range(list) : r.kind \notin Replaced \cup others}
<1>1. PassThrough(list, others) = Those(list, S)
  BY DEF PassThrough
<1> HIDE DEF S
<1>2. QED
  BY <1>1, ThoseElements

\* What from_las_header and to_output give.
LEMMA MetadataType ==
  ASSUME NEW j \in Jobs PROVE IsMetadata(FromLasHeader(j)) /\ IsMetadata(ToOutput(j))
<1> DEFINE R == OutRecord
<1>1. j.vlrs \in Seq(R) /\ j.evlrs \in Seq(R)
  <2>1. j.vlrs \in Seq(JobRecords) /\ j.evlrs \in Seq(JobRecords) /\ JobRecords \subseteq OutRecord
    BY JobsAssumption DEF OutRecord
  <2>2. QED
    BY <2>1, SeqMonotonic
<1>2. <<>> \in Seq(R) /\ <<OverrideRecord>> \in Seq(R) /\ <<EmptyWktRecord>> \in Seq(R)
  <2>1. OverrideRecord \in R /\ EmptyWktRecord \in R
    BY DEF OutRecord
  <2> HIDE DEF R
  <2>2. QED
    BY <2>1
<1> HIDE DEF R
<1>3. \A l \in Seq(R) : EnsureWkt(l) \in Seq(R)
  BY <1>2 DEF EnsureWkt
<1>4. /\ OfKind(j.vlrs, "wkt") \in Seq(R) /\ OfKind(j.evlrs, "wkt") \in Seq(R)
      /\ OfKind(j.vlrs, "extra bytes") \in Seq(R)
      /\ PassThrough(j.vlrs, {"extra bytes"}) \in Seq(R) /\ PassThrough(j.evlrs, {}) \in Seq(R)
  BY <1>1, OfKindList, PassThroughList
<1>5. OfKind(j.evlrs, "wkt") \o PassThrough(j.evlrs, {}) \in Seq(R)
  BY <1>4, ConcatProperties
<1>6. IsMetadata(FromLasHeader(j))
  <2> DEFINE m == FromLasHeader(j)
  <2>1. m.evlrs_after_hierarchy = OfKind(j.evlrs, "wkt") \o PassThrough(j.evlrs, {})
        /\ m.pass_through_vlrs = PassThrough(j.vlrs, {"extra bytes"})
        /\ m.extra_bytes_vlrs = (IF j.extra_bytes THEN OfKind(j.vlrs, "extra bytes") ELSE <<>>)
    BY DEF FromLasHeader
  <2>2. m.crs_vlrs \in Seq(R)
    BY <1>2, <1>3, <1>4 DEF FromLasHeader
  <2> HIDE DEF m
  <2>3. QED
    BY <1>2, <1>4, <1>5, <2>1, <2>2 DEF IsMetadata, R, m
<1>7. IsMetadata(ToOutput(j))
  BY <1>1, <1>2, <1>3 DEF IsMetadata, ToOutput, R
<1>8. QED
  BY <1>6, <1>7

\* Records laid out from an offset are at offsets from there on.
LEMMA LaidOutRecords ==
  ASSUME NEW R, \A r \in R : r.bytes \in Nat, NEW list \in Seq(R), NEW from \in Nat, NEW form
  PROVE  /\ \A o \in DOMAIN LaidOut(list, from, form) :
              /\ o \in Nat /\ o >= from
              /\ \E r \in R : LaidOut(list, from, form)[o] = [form |-> form, record |-> r]
         /\ list # <<>> => from \in DOMAIN LaidOut(list, from, form)
<1> DEFINE start(i) == from + StorageBytes(SubSeq(list, 1, i - 1), form)
           S == {start(i) : i \in DOMAIN list}
           laid == [o \in S |-> [form |-> form,
                                 record |-> list[CHOOSE i \in DOMAIN list : start(i) = o]]]
<1>1. LaidOut(list, from, form) = laid
  BY DEF LaidOut
<1>2. DOMAIN list = 1..Len(list) /\ Len(list) \in Nat
  BY LenProperties
<1>3. ASSUME NEW i \in DOMAIN list PROVE start(i) \in Nat /\ start(i) >= from
  <2> DEFINE s == SubSeq(list, 1, i - 1)
  <2>1. 1 \in Int /\ i - 1 \in Int /\ i - 1 <= Len(list) /\ 1 >= 1
    BY <1>2
  <2>2. s \in Seq(R)
    BY <2>1, RangeSubSeq
  <2> HIDE DEF s
  <2>3. StorageBytes(s, form) \in Nat
    BY <2>2, StorageConcat
  <2>4. QED
    BY <2>3 DEF s
<1> HIDE DEF start
<1>4. ASSUME NEW o \in S
      PROVE  /\ o \in Nat /\ o >= from
             /\ \E r \in R : laid[o] = [form |-> form, record |-> r]
  <2> DEFINE i == CHOOSE i \in DOMAIN list : start(i) = o
  <2>1. i \in DOMAIN list /\ start(i) = o
    OBVIOUS
  <2>2. laid[o] = [form |-> form, record |-> list[i]]
    OBVIOUS
  <2> HIDE DEF i, laid
  <2>3. list[i] \in R
    BY <1>2, <2>1, ElementOfSeq
  <2>4. QED
    BY <1>3, <2>1, <2>2, <2>3
<1>5. DOMAIN laid = S
  OBVIOUS
<1>6. list # <<>> => from \in S
  <2> SUFFICES ASSUME list # <<>> PROVE from \in S
    OBVIOUS
  <2>1. 1 \in DOMAIN list
    BY <1>2, EmptySeq
  <2>2. SubSeq(list, 1, 1 - 1) = <<>>
    BY SubSeqEmpty
  <2>3. StorageBytes(<<>>, form) = 0
    <3> DEFINE none == <<>>
    <3>1. none \in Seq(R)
      BY EmptySeq
    <3>2. none \o none = none
      BY <3>1, ConcatEmptySeq
    <3> HIDE DEF none
    <3>3. StorageBytes(none, form) \in Nat
          /\ StorageBytes(none \o none, form) = StorageBytes(none, form) + StorageBytes(none, form)
      BY <3>1, StorageConcat
    <3>4. StorageBytes(none, form) = 0
      BY <3>2, <3>3
    <3>5. QED
      BY <3>4 DEF none
  <2>4. start(1) = from
    <3>1. start(1) = from + StorageBytes(SubSeq(list, 1, 1 - 1), form)
      BY DEF start
    <3>2. start(1) = from + 0
      BY <2>2, <2>3, <3>1, Zenon
    <3>3. QED
      BY <3>2
  <2>5. QED
    BY <2>1, <2>4
<1> HIDE DEF laid, S
<1>7. QED
  BY <1>1, <1>4, <1>5, <1>6

-----------------------------------------------------------------------------
(***************************************************************************)
(* Every action keeps the invariant.                                       *)
(***************************************************************************)
\* Outside the planning and the writing of pages little is claimed.
LEMMA NoPlanYet ==
  ASSUME WriterInv', phase' \in {"metadata", "rejected", "head", "chunks", "failed", "damaged"}
  PROVE  LayoutInv'
<1>1. phase' \notin Planning /\ phase' \notin Placing /\ phase' # "assign" /\ phase' # "write"
  BY DEF Planning, Placing
<1>2. PlanInv' /\ RangesInv' /\ AssignInv' /\ WriteInv'
  BY <1>1 DEF PlanInv, RangesInv, AssignInv, WriteInv
<1>3. QED
  BY <1>2 DEF LayoutInv

\* A job that has not begun.
LEMMA InitStep == Init => LayoutInv
<1> SUFFICES ASSUME Init PROVE LayoutInv
  OBVIOUS
<1>1. phase = "metadata" /\ job \in Jobs /\ pages = <<>> /\ ranges = <<>> /\ body = <<>>
  BY DEF Init, NoPages
<1>2. phase \notin Planning /\ phase \notin Placing /\ phase # "assign" /\ phase # "write"
  BY <1>1 DEF Planning, Placing
<1>3. WriterInv
  BY <1>1, <1>2 DEF WriterInv
<1>4. QED
  BY <1>2, <1>3 DEF LayoutInv, PlanInv, RangesInv, AssignInv, WriteInv

\* Reading the records of the source.
LEMMA ReadMetadataStep == ASSUME LayoutInv, ReadMetadata PROVE LayoutInv'
<1>1. phase = "metadata" /\ job' = job /\ pages' = pages /\ ranges' = ranges /\ body' = body
  BY DEF ReadMetadata, pageVars
<1>2. job \in Jobs /\ pages = <<>> /\ ranges = <<>> /\ body = <<>>
  BY <1>1 DEF LayoutInv, WriterInv
<1>3. phase' = "rejected" \/ (phase' = "head" /\ IsMetadata(metadata'))
  BY <1>2, MetadataType DEF ReadMetadata
<1>4. phase' \notin Planning /\ phase' \notin {"plan", "assign", "write", "records"}
  BY <1>3 DEF Planning
<1>5. WriterInv'
  BY <1>1, <1>2, <1>3, <1>4 DEF WriterInv
<1>6. QED
  BY <1>3, <1>5, NoPlanYet

\* A job that fails leaves its file as it is.
LEMMA FailStep == ASSUME LayoutInv, Fail PROVE LayoutInv'
<1>1. phase' = "failed" /\ job' = job /\ job \in Jobs
  BY DEF Fail, LayoutInv, WriterInv
<1>2. phase' \notin Planning
  BY <1>1 DEF Planning
<1>3. WriterInv'
  BY <1>1, <1>2 DEF WriterInv
<1>4. QED
  BY <1>1, <1>3, NoPlanYet

\* A file with one thing changed has unsigned numbers still.
LEMMA DamageStep == ASSUME LayoutInv, Damage PROVE LayoutInv'
<1>1. phase' = "damaged" /\ job' = job /\ job \in Jobs /\ UnsignedFields(file')
  BY DEF Damage, LayoutInv, WriterInv
<1>2. phase' \notin Planning
  BY <1>1 DEF Planning
<1>3. WriterInv'
  BY <1>1, <1>2 DEF WriterInv
<1>4. QED
  BY <1>1, <1>3, NoPlanYet

\* Every record the writer makes is one a file may have.
LEMMA OutRecordsAreRecords ==
  /\ OutRecord \subseteq AnyRecord /\ \A r \in AnyRecord : r.bytes \in Nat
  /\ \A n, k \in Nat : InfoRecord(n, k) \in AnyRecord
  /\ \A n \in Nat : Record("copc hierarchy", n, "pages") \in AnyRecord
<1>1. \A r \in AnyRecord : r.bytes \in Nat
  BY RecordFields
<1>2. \A n, k \in Nat : InfoRecord(n, k) \in InfoRecords
  BY DEF InfoRecords
<1>3. \A n \in Nat : Record("copc hierarchy", n, "pages") \in HierarchyRecords
  BY DEF HierarchyRecords
<1>4. QED
  BY <1>1, <1>2, <1>3 DEF AnyRecord

\* The lists of a file's records.
LEMMA MetadataLists ==
  ASSUME NEW m, IsMetadata(m)
  PROVE  /\ m.crs_vlrs \in Seq(AnyRecord) /\ m.extra_bytes_vlrs \in Seq(AnyRecord)
         /\ m.pass_through_vlrs \in Seq(AnyRecord) /\ m.evlrs_after_hierarchy \in Seq(AnyRecord)
         /\ CallerVlrs(m) \in Seq(AnyRecord)
         /\ <<InfoRecord(0, 0), LazRecord>> \in Seq(AnyRecord)
<1> DEFINE R == AnyRecord
<1>1. /\ m.crs_vlrs \in Seq(R) /\ m.extra_bytes_vlrs \in Seq(R)
      /\ m.pass_through_vlrs \in Seq(R) /\ m.evlrs_after_hierarchy \in Seq(R)
  BY OutRecordsAreRecords, SeqMonotonic DEF IsMetadata
<1>2. InfoRecord(0, 0) \in R /\ LazRecord \in R
  BY OutRecordsAreRecords DEF AnyRecord
<1> HIDE DEF R
<1>3. <<InfoRecord(0, 0), LazRecord>> \in Seq(R)
  BY <1>2
<1>4. CallerVlrs(m) \in Seq(R)
  BY <1>1, ConcatProperties DEF CallerVlrs
<1>5. QED
  BY <1>1, <1>3, <1>4 DEF R

\* The two ways to work out where the point data starts agree.
LEMMA VlrsEnd ==
  ASSUME NEW m, IsMetadata(m)
  PROVE  /\ LasHeaderBytes + StorageBytes(<<InfoRecord(0, 0), LazRecord>> \o CallerVlrs(m), "vlr")
              = OffsetToPointData(m)
         /\ OffsetToPointData(m) \in Nat /\ OffsetToPointData(m) > LasHeaderBytes
<1> DEFINE a == <<InfoRecord(0, 0), LazRecord>>
           b == m.crs_vlrs
           c == m.extra_bytes_vlrs
           d == m.pass_through_vlrs
           size(list) == StorageBytes(list, "vlr")
           h == LasHeaderBytes
           R == AnyRecord
<1>1. a \in Seq(R) /\ b \in Seq(R) /\ c \in Seq(R) /\ d \in Seq(R)
  BY MetadataLists
<1>2. \A r \in R : r.bytes \in Nat
  BY OutRecordsAreRecords
<1>3. size(a) > 0
  <2>1. Len(a) = 2
    OBVIOUS
  <2>2. TotalBytes(a) \in Nat
    <3> HIDE DEF a, R
    <3>1. QED
      BY <1>1, <1>2, BytesConcat
  <2>3. HeaderBytes("vlr") = 54
    BY DEF HeaderBytes
  <2> HIDE DEF a
  <2>4. size(a) = TotalBytes(a) + 2 * 54
    BY <2>1, <2>3 DEF StorageBytes
  <2>5. QED
    BY <2>2, <2>4
<1>4. h \in Nat
  BY DEF LasHeaderBytes
<1>5. CallerVlrs(m) = (b \o c) \o d
  BY DEF CallerVlrs
<1>6. OffsetToPointData(m) = h + size(a) + size(b) + size(c) + size(d)
  BY DEF OffsetToPointData
<1> HIDE DEF a, b, c, d, R, h, size
<1>7. /\ size(b \o c) = size(b) + size(c) /\ b \o c \in Seq(R)
      /\ size(b) \in Nat /\ size(c) \in Nat
  BY <1>1, <1>2, StorageConcat DEF size
<1> DEFINE u == b \o c
           v == u \o d
<1>8. /\ size(v) = size(u) + size(d) /\ v \in Seq(R)
      /\ size(d) \in Nat
  <2>1. u \in Seq(R)
    BY <1>7
  <2> HIDE DEF u
  <2>2. QED
    BY <1>1, <1>2, <2>1, StorageConcat DEF size
<1>9. size(a \o v) = size(a) + size(v) /\ size(a) \in Nat
  <2> HIDE DEF v
  <2>1. QED
    BY <1>1, <1>2, <1>8, StorageConcat DEF size
<1>10. h + size(a \o ((b \o c) \o d)) = h + size(a) + size(b) + size(c) + size(d)
  BY <1>4, <1>7, <1>8, <1>9
<1>11. QED
  <2>1. OffsetToPointData(m) \in Nat /\ OffsetToPointData(m) > h
    BY <1>3, <1>4, <1>6, <1>7, <1>8, <1>9
  <2>2. QED
    BY <1>5, <1>6, <1>10, <2>1 DEF a, h, size

\* What the header says is numbers.
LEMMA HeaderType ==
  ASSUME IsMetadata(metadata), job \in Jobs PROVE LasHeader \in HeaderRecord
<1>1. PointTotal \in Nat
  <2> DEFINE counts == [i \in DOMAIN job.tree |-> job.tree[i].point_count]
  <2>1. job.tree \in Seq(Node)
    BY JobsAssumption
  <2>2. DOMAIN job.tree = 1..Len(job.tree) /\ Len(job.tree) \in Nat
    BY <2>1, LenProperties
  <2>3. \A i \in 1..Len(job.tree) : job.tree[i].point_count \in Nat
    <3>1. \A i \in 1..Len(job.tree) : job.tree[i] \in Node
      BY <2>1, ElementOfSeq
    <3>2. \A n \in Node : n.point_count \in Nat
      BY DEF Node
    <3>3. QED
      BY <3>1, <3>2
  <2>4. counts \in [1..Len(job.tree) -> Nat]
    BY <2>2, <2>3
  <2>5. counts \in Seq(Nat)
    BY <2>2, <2>4, IsList
  <2>6. Total(counts) \in Nat
    <3> HIDE DEF counts
    <3>1. QED
      BY <2>5, TotalConcat
  <2>7. QED
    BY <2>6 DEF PointTotal
<1>2. OffsetToPointData(metadata) \in Nat
  BY VlrsEnd
<1>3. NumberOfVlrs(metadata) \in Nat /\ NumberOfEvlrs(metadata) \in Nat
  <2> DEFINE a == metadata.crs_vlrs
             b == metadata.extra_bytes_vlrs
             c == metadata.pass_through_vlrs
             d == metadata.evlrs_after_hierarchy
  <2>1. a \in Seq(AnyRecord) /\ b \in Seq(AnyRecord) /\ c \in Seq(AnyRecord) /\ d \in Seq(AnyRecord)
    BY MetadataLists
  <2>2. NumberOfVlrs(metadata) = 2 + Len(a) + Len(b) + Len(c) /\ NumberOfEvlrs(metadata) = 1 + Len(d)
    BY DEF NumberOfVlrs, NumberOfEvlrs
  <2> HIDE DEF a, b, c, d
  <2>3. Len(a) \in Nat /\ Len(b) \in Nat /\ Len(c) \in Nat /\ Len(d) \in Nat
    BY <2>1, LenProperties
  <2>4. QED
    BY <2>2, <2>3
<1>4. QED
  BY <1>1, <1>2, <1>3 DEF LasHeader, HeaderRecord

\* One thing more in a file.
LEMMA PlacedIs ==
  ASSUME NEW f, NEW o, NEW what
  PROVE  /\ DOMAIN Placed(f, o, what) = DOMAIN f \cup {o} /\ Placed(f, o, what)[o] = what
         /\ \A x \in DOMAIN f : x # o => Placed(f, o, what)[x] = f[x]
BY DEF Placed

\* Several things more in a file.
LEMMA AddedIs ==
  ASSUME NEW f, NEW g
  PROVE  /\ DOMAIN Added(f, g) = DOMAIN f \cup DOMAIN g
         /\ \A x \in DOMAIN f : Added(f, g)[x] = f[x]
         /\ \A x \in DOMAIN g : x \notin DOMAIN f => Added(f, g)[x] = g[x]
BY DEF Added

\* The header and the VLRs are written.
LEMMA WriteHeadStep == ASSUME LayoutInv, WriteHead PROVE LayoutInv'
<1>1. /\ phase = "head" /\ job' = job /\ metadata' = metadata /\ pages' = pages
      /\ ranges' = ranges /\ body' = body
  BY DEF WriteHead, pageVars
<1>2. phase \notin Planning /\ phase \notin {"metadata", "plan", "assign", "write", "records"}
  BY <1>1 DEF Planning
<1>3. job \in Jobs /\ pages = <<>> /\ ranges = <<>> /\ body = <<>> /\ IsMetadata(metadata)
  BY <1>1 DEF LayoutInv, WriterInv
<1> DEFINE vlrs == <<InfoRecord(0, 0), LazRecord>> \o CallerVlrs(metadata)
           end == LasHeaderBytes + StorageBytes(vlrs, "vlr")
           laid == LaidOut(vlrs, LasHeaderBytes, "vlr")
           at == Placed(laid, 0, LasHeader)
<1>4. end = OffsetToPointData(metadata) /\ end \in Nat /\ end > LasHeaderBytes
  BY <1>3, VlrsEnd
<1>5. CASE ~ HeadFits(metadata)
  <2>1. phase' = "rejected"
    BY <1>5 DEF WriteHead
  <2>2. phase' \notin Planning
    BY <2>1 DEF Planning
  <2>3. WriterInv'
    BY <1>1, <1>3, <2>1, <2>2 DEF WriterInv
  <2>4. QED
    BY <2>1, <2>3, NoPlanYet
<1>6. CASE HeadFits(metadata)
  <2>1. file' = [len |-> end, at |-> at] /\ phase' = "chunks"
    <3>1. IF ~ HeadFits(metadata) THEN phase' = "rejected" /\ UNCHANGED file
          ELSE IF end # OffsetToPointData(metadata) THEN phase' = "refused" /\ UNCHANGED file
          ELSE file' = [len |-> end, at |-> at] /\ phase' = "chunks"
      BY DEF WriteHead
    <3> HIDE DEF end, at
    <3>2. QED
      BY <1>4, <1>6, <3>1
  <2>2. IsPlaced(at)
    <3> DEFINE h == LasHeaderBytes
    <3>1. vlrs \in Seq(AnyRecord) /\ vlrs # <<>>
      <4> DEFINE two == <<InfoRecord(0, 0), LazRecord>>
                 rest == CallerVlrs(metadata)
      <4>1. two \in Seq(AnyRecord) /\ rest \in Seq(AnyRecord)
        BY <1>3, MetadataLists
      <4>2. Len(two) = 2
        OBVIOUS
      <4> HIDE DEF two, rest
      <4>3. /\ two \o rest \in Seq(AnyRecord) /\ Len(two \o rest) = Len(two) + Len(rest)
            /\ Len(rest) \in Nat
        BY <4>1, ConcatProperties, LenProperties
      <4>4. two \o rest # <<>>
        BY <4>2, <4>3, EmptySeq
      <4>5. QED
        BY <4>3, <4>4 DEF two, rest
    <3>2. h \in Nat /\ h # 0 /\ h > 0
      BY DEF LasHeaderBytes
    <3> HIDE DEF vlrs, h
    <3>3. /\ \A o \in DOMAIN laid :
               /\ o \in Nat /\ o >= h
               /\ \E r \in AnyRecord : laid[o] = [form |-> "vlr", record |-> r]
          /\ h \in DOMAIN laid
      <4> DEFINE R == AnyRecord
      <4>1. vlrs \in Seq(R) /\ \A r \in R : r.bytes \in Nat
        BY <3>1, OutRecordsAreRecords
      <4>2. laid = LaidOut(vlrs, h, "vlr")
        BY DEF h
      <4> HIDE DEF R, laid
      <4>3. QED
        BY <3>1, <3>2, <4>1, <4>2, LaidOutRecords DEF R
    <3>4. DOMAIN at = DOMAIN laid \cup {0} /\ at[0] = LasHeader
          /\ \A o \in DOMAIN laid : o # 0 => at[o] = laid[o]
      <4> DEFINE what == LasHeader
      <4> HIDE DEF laid, what
      <4>1. at = Placed(laid, 0, what)
        BY DEF what
      <4>2. /\ DOMAIN Placed(laid, 0, what) = DOMAIN laid \cup {0}
            /\ Placed(laid, 0, what)[0] = what
            /\ \A o \in DOMAIN laid : o # 0 => Placed(laid, 0, what)[o] = laid[o]
        BY DEF Placed
      <4> HIDE DEF at
      <4>3. DOMAIN at = DOMAIN laid \cup {0} /\ at[0] = what
            /\ \A o \in DOMAIN laid : o # 0 => at[o] = laid[o]
        BY <4>1, <4>2, Zenon
      <4>4. QED
        BY <4>3 DEF what
    <3>5. \A o \in DOMAIN laid : o # 0
      BY <3>2, <3>3
    <3> HIDE DEF laid, at
    <3>8. LasHeader \in HeaderRecord /\ LasHeader.form = "header"
      BY <1>3, HeaderType DEF HeaderRecord
    <3>9. at[h] \in VlrRecord
      BY <3>3, <3>4, <3>5 DEF VlrRecord
    <3>10. \A o \in DOMAIN at : at[o].form \in {"vlr", "evlr"} => at[o].record \in AnyRecord
      <4>1. ASSUME NEW o \in DOMAIN laid PROVE at[o].record \in AnyRecord
        <5>1. PICK r \in AnyRecord : laid[o] = [form |-> "vlr", record |-> r]
          BY <3>3
        <5>2. at[o].record = r
          BY <3>4, <3>5, <5>1
        <5>3. QED
          BY <5>2
      <4>2. at[0].form = "header"
        BY <3>4, <3>8
      <4>3. QED
        BY <3>4, <4>1, <4>2
    <3>11. QED
      BY <3>3, <3>4, <3>8, <3>9, <3>10 DEF IsPlaced, h
  <2>3. IsLayout(file')
    <3> HIDE DEF at, end
    <3>1. QED
      BY <1>4, <2>1, <2>2 DEF IsLayout
  <2>4. phase' \notin Planning /\ phase' \notin {"plan", "assign", "write", "records", "damaged"}
    BY <2>1 DEF Planning
  <2>5. WriterInv'
    <3> HIDE DEF at, end
    <3>1. QED
      BY <1>1, <1>3, <2>1, <2>3, <2>4 DEF WriterInv
  <2>6. QED
    BY <2>1, <2>5, NoPlanYet
<1>7. QED
  BY <1>5, <1>6

\* One thing more, behind the header, leaves the header and the VLRs.
LEMMA PlacedKeeps ==
  ASSUME NEW at, IsPlaced(at), NEW o \in Nat, o > LasHeaderBytes, NEW what,
         what.form \in {"vlr", "evlr"} => what.record \in AnyRecord
  PROVE  IsPlaced(Placed(at, o, what))
<1> DEFINE h == LasHeaderBytes
           new == Placed(at, o, what)
<1>1. DOMAIN new = DOMAIN at \cup {o} /\ new[o] = what
      /\ \A x \in DOMAIN at : x # o => new[x] = at[x]
  BY DEF Placed
<1>2. h \in Nat /\ o # 0 /\ o # h
  BY DEF LasHeaderBytes
<1> HIDE DEF new
<1>3. IsPlaced(new)
  BY <1>1, <1>2 DEF IsPlaced
<1>4. QED
  BY <1>3 DEF new

\* Several things more leave what is there.
LEMMA AddedKeeps ==
  ASSUME NEW at, IsPlaced(at), NEW more, DOMAIN more \subseteq Nat,
         \A o \in DOMAIN more : more[o].form \in {"vlr", "evlr"} => more[o].record \in AnyRecord
  PROVE  IsPlaced(Added(at, more))
<1> DEFINE new == Added(at, more)
<1>1. /\ DOMAIN new = DOMAIN at \cup DOMAIN more
      /\ \A x \in DOMAIN at : new[x] = at[x]
      /\ \A x \in DOMAIN more : x \notin DOMAIN at => new[x] = more[x]
  BY DEF Added
<1> HIDE DEF new
<1>2. IsPlaced(new)
  BY <1>1 DEF IsPlaced
<1>3. QED
  BY <1>2 DEF new

\* The octree's nodes, with a chunk each, are entries of a new file.
LEMMA GivenByJob ==
  ASSUME NEW tree, \E j \in Jobs : tree = j.tree, NEW given,
         given = [i \in DOMAIN tree |-> given[i]],
         \A i \in DOMAIN tree : \E o \in Nat :
           given[i] = [key |-> tree[i].key, offset |-> o, byte_size |-> ChunkBytes,
                       point_count |-> tree[i].point_count]
  PROVE  IsGiven(given)
<1>1. /\ tree \in Seq(Node)
      /\ \A i \in DOMAIN tree : InSubtree(tree[i].key, Root)
      /\ \A i, k \in DOMAIN tree : tree[i].key = tree[k].key => i = k
  BY JobsAssumption
<1>2. DOMAIN tree = 1..Len(tree) /\ Len(tree) \in Nat
      /\ \A i \in 1..Len(tree) : tree[i] \in Node
  BY <1>1, LenProperties, ElementOfSeq
<1>3. \A n \in Node : n.key \in Key /\ n.point_count \in Int
  BY DEF Node
<1>4. ChunkBytes \in Int
  BY LayoutAssumption
<1>5. ASSUME NEW i \in DOMAIN tree PROVE given[i] \in Entry /\ given[i].key = tree[i].key
  <2> DEFINE key == tree[i].key
             count == tree[i].point_count
  <2>1. key \in Key /\ count \in Int
    BY <1>2, <1>3
  <2>2. PICK o \in Nat : given[i] = [key |-> key, offset |-> o, byte_size |-> ChunkBytes,
                                    point_count |-> count]
    OBVIOUS
  <2> HIDE DEF key, count
  <2>3. given[i] \in Entry /\ given[i].key = key
    BY <1>4, <2>1, <2>2 DEF Entry
  <2>4. QED
    BY <2>3 DEF key
<1>6. DOMAIN given = 1..Len(tree) /\ given = [i \in 1..Len(tree) |-> given[i]]
  BY <1>2
<1>7. given \in Seq(Entry)
  <2>1. given \in [1..Len(tree) -> Entry]
    BY <1>2, <1>5, <1>6
  <2>2. QED
    BY <1>2, <2>1, IsList
<1>8. \A i, k \in DOMAIN given : given[i].key = given[k].key => i = k
  BY <1>1, <1>2, <1>5, <1>6
<1>9. \A e \in Range(given) : \E i \in DOMAIN given : e = given[i]
  BY DEF Range
<1>10. IsInjective(given)
  BY <1>8 DEF IsInjective
<1>11. \A d, e \in Range(given) : d.key = e.key => d = e
  BY <1>8, <1>9
<1>12. \A e \in Range(given) : InSubtree(e.key, Root)
  <2>1. \A i \in DOMAIN given : InSubtree(given[i].key, Root)
    BY <1>1, <1>2, <1>5, <1>6
  <2>2. QED
    BY <1>9, <2>1
<1>13. QED
  BY <1>7, <1>10, <1>11, <1>12 DEF IsGiven

\* The chunks and the chunk table are written.
LEMMA WriteChunksStep == ASSUME LayoutInv, WriteChunks PROVE LayoutInv'
<1>1. phase = "chunks" /\ job' = job /\ metadata' = metadata
  BY DEF WriteChunks
<1>2. phase \in {"metadata", "head", "chunks"} /\ phase \in {"chunks"} \cup Planning
      /\ phase \in {"head", "chunks"} \cup Planning
  BY <1>1
<1>3. /\ job \in Jobs /\ pages = <<>> /\ ranges = <<>> /\ body = <<>> /\ IsMetadata(metadata)
      /\ IsLayout(file)
  BY <1>2 DEF LayoutInv, WriterInv
<1> DEFINE tree == job.tree
           start == file.len
           offset(i) == start + 8 + ChunkBytes * (i - 1)
           table == offset(Len(tree) + 1)
           chunks == [o \in {offset(i) : i \in DOMAIN tree} |->
                        [form |-> "chunk", node |-> CHOOSE i \in DOMAIN tree : offset(i) = o]]
           pointed == Placed(file.at, start, [form |-> "pointer"])
           given == [i \in DOMAIN tree |->
                       [key |-> tree[i].key, offset |-> offset(i), byte_size |-> ChunkBytes,
                        point_count |-> tree[i].point_count]]
           at == Placed(Added(pointed, chunks), table, [form |-> "table"])
           root == table + TableBytes + HeaderBytes("evlr")
<1>4. DOMAIN tree = 1..Len(tree) /\ Len(tree) \in Nat
  <2>1. tree \in Seq(Node)
    BY <1>3, JobsAssumption
  <2>2. QED
    BY <2>1, LenProperties
<1>5. start \in Nat /\ start > LasHeaderBytes /\ IsPlaced(file.at) /\ LasHeaderBytes \in Nat
  BY <1>3 DEF IsLayout, LasHeaderBytes
<1>6. file' = [len |-> table + TableBytes, at |-> at] /\ StartPlan(given, root)
  BY DEF WriteChunks
<1>7. ASSUME NEW i \in 1..(Len(tree) + 1) PROVE offset(i) \in Nat /\ offset(i) > start
  <2> DEFINE n == i - 1
             b == ChunkBytes * n
  <2>1. n \in Nat /\ ChunkBytes \in Nat
    BY <1>4, LayoutAssumption
  <2>2. b \in Nat
    <3> HIDE DEF n
    <3>1. QED
      BY <2>1
  <2> HIDE DEF b
  <2>3. offset(i) = start + 8 + b
    BY DEF b
  <2> HIDE DEF offset, start
  <2>4. QED
    BY <1>5, <2>2, <2>3
<1>8. table \in Nat /\ table > start /\ TableBytes \in Nat
  BY <1>4, <1>7, LayoutAssumption
<1>9. IsPlaced(at)
  <2>1. IsPlaced(pointed)
    <3> DEFINE what == [form |-> "pointer"]
    <3>1. what.form \notin {"vlr", "evlr"}
      OBVIOUS
    <3> HIDE DEF what, start
    <3>2. QED
      BY <1>5, <3>1, PlacedKeeps
  <2>2. IsPlaced(Added(pointed, chunks))
    <3>1. DOMAIN chunks = {offset(i) : i \in DOMAIN tree}
      OBVIOUS
    <3>2. \A o \in DOMAIN chunks : chunks[o].form = "chunk"
      OBVIOUS
    <3>3. \A i \in DOMAIN tree : offset(i) \in Nat
      BY <1>4, <1>7
    <3> HIDE DEF offset, chunks, tree, pointed
    <3>4. DOMAIN chunks \subseteq Nat
      BY <3>1, <3>3
    <3>5. QED
      BY <2>1, <3>2, <3>4, AddedKeeps
  <2>3. table > LasHeaderBytes
    <3> HIDE DEF table, start
    <3>1. QED
      BY <1>5, <1>8
  <2> DEFINE what == [form |-> "table"]
             was == Added(pointed, chunks)
  <2>4. what.form \notin {"vlr", "evlr"}
    OBVIOUS
  <2> HIDE DEF what, was, table
  <2>5. IsPlaced(Placed(was, table, what))
    BY <1>8, <2>2, <2>3, <2>4, PlacedKeeps DEF was
  <2>6. QED
    BY <2>5 DEF what, was
<1>10. IsLayout(file')
  <2>1. file'.len = table + TableBytes /\ file'.at = at /\ file' = [len |-> file'.len, at |-> file'.at]
    BY <1>6
  <2> HIDE DEF table, at, start
  <2>2. QED
    BY <1>5, <1>8, <1>9, <2>1 DEF IsLayout
<1>11. /\ entries' = given /\ root_hier_offset' = root /\ next' = root /\ phase' = "plan"
       /\ pages' = pages /\ ranges' = ranges /\ body' = body
       /\ work' = <<[key |-> Root, list |-> given]>>
  BY <1>6 DEF StartPlan
<1>12. root = file'.len + 60 /\ root \in Nat /\ root > LasHeaderBytes
  <2>1. HeaderBytes("evlr") = 60 /\ file'.len = table + TableBytes
    BY <1>6 DEF HeaderBytes
  <2> HIDE DEF table, start
  <2>2. QED
    BY <1>5, <1>8, <2>1
<1>13. IsGiven(given)
  <2>1. given = [i \in DOMAIN tree |-> given[i]]
    OBVIOUS
  <2>2. \A i \in DOMAIN tree : \E o \in Nat :
          given[i] = [key |-> tree[i].key, offset |-> o, byte_size |-> ChunkBytes,
                      point_count |-> tree[i].point_count]
    <3>1. \A i \in DOMAIN tree : offset(i) \in Nat
      BY <1>4, <1>7
    <3> HIDE DEF offset, tree
    <3>2. QED
      BY <3>1
  <2>3. \E j \in Jobs : tree = j.tree
    BY <1>3
  <2> HIDE DEF given, tree
  <2>4. QED
    BY <2>1, <2>2, <2>3, GivenByJob
<1> HIDE DEF given, root, table, at, offset, tree, start
<1>14. PlanInv'
  <2> DEFINE call == [key |-> Root, list |-> given]
  <2>1. call.key = Root /\ call.list = given /\ call = [key |-> Root, list |-> given]
    OBVIOUS
  <2> HIDE DEF call
  <2>2. given \in Seq(Entry) /\ IsInjective(given) /\ Root \in Key
    BY <1>13, RootType DEF IsGiven
  <2>3. Below(given, Root) = Range(given)
    BY <1>13 DEF IsGiven, Below
  <2>4. call \in Call
    BY <2>1, <2>2 DEF Call
  <2>5. IsCall(call, given)
    BY <2>1, <2>2, <2>3, <2>4 DEF IsCall
  <2>6. /\ work' = <<call>> /\ DOMAIN work' = {1} /\ work'[1] = call /\ work' # <<>>
        /\ work' \in Seq(Call)
    <3>1. work' = <<call>>
      BY <1>11 DEF call
    <3>2. QED
      BY <2>4, <3>1
  <2>7. DOMAIN pages' = {}
    BY <1>3, <1>11
  <2>8. Root \in Known'
    <3>1. ToPlan' = {work'[i].key : i \in DOMAIN work'}
      BY DEF ToPlan
    <3>2. Root \in ToPlan'
      BY <2>1, <2>6, <3>1
    <3>3. QED
      BY <1>11, <3>2 DEF Known
  <2>9. QED
    BY <1>11, <1>13, <2>5, <2>6, <2>7, <2>8 DEF PlanInv
<1>15. phase' \notin Placing /\ phase' # "assign" /\ phase' # "write"
  BY <1>11 DEF Placing
<1>16. RangesInv' /\ AssignInv' /\ WriteInv'
  BY <1>15 DEF RangesInv, AssignInv, WriteInv
<1>17. WriterInv'
  BY <1>1, <1>3, <1>10, <1>11, <1>12, <1>15 DEF WriterInv
<1>18. QED
  BY <1>14, <1>16, <1>17 DEF LayoutInv

\* What a call of plan_hierarchy_pages changes.
LEMMA PlanMoves ==
  ASSUME LayoutInv, PlanLeaf \/ PlanSplit
  PROVE  /\ phase = "plan" /\ phase' \in {"plan", "assign"} /\ PlanInv'
         /\ phase' = "assign" => work' = <<Root>>
         /\ root_hier_offset' = root_hier_offset /\ ranges' = ranges
         /\ next' = next /\ body' = body
<1>1. /\ phase = "plan" /\ root_hier_offset' = root_hier_offset /\ ranges' = ranges
      /\ next' = next /\ body' = body
  BY DEF PlanLeaf, PlanSplit, pageInput
<1>2. PlanInv
  BY DEF LayoutInv
<1>3. \A calls : PlanReturns(calls) =>
        phase' \in {phase, "assign"} /\ (phase' = "assign" => phase = "assign" \/ work' = <<Root>>)
  BY DEF PlanReturns, StartPhase
<1>4. CASE PlanLeaf
  <2>1. PlanInv'
    BY <1>2, <1>4, LeafStep
  <2>2. PlanReturns(Tail(work))
    BY <1>4 DEF PlanLeaf
  <2>3. phase' \in {phase, "assign"} /\ (phase' = "assign" => phase = "assign" \/ work' = <<Root>>)
    BY <1>3, <2>2
  <2>4. QED
    BY <1>1, <2>1, <2>3
<1>5. CASE PlanSplit
  <2>1. PlanInv' /\ phase' \in {"plan", "assign"}
    BY <1>2, <1>5, SplitStep
  <2>2. \E calls : PlanReturns(calls)
    <3>1. phase' # "refused"
      BY <2>1
    <3>2. PlanReturns([i \in DOMAIN OctantsUsed(Todo.list, Todo.key) |->
                 [key |-> Child(Todo.key, OctantsUsed(Todo.list, Todo.key)[i]),
                  list |-> Subtree(Todo.list,
                             Child(Todo.key, OctantsUsed(Todo.list, Todo.key)[i]))]] \o Tail(work))
      BY <1>5, <3>1 DEF PlanSplit
    <3>3. QED
      BY <3>2
  <2>3. phase' = "assign" => work' = <<Root>>
    BY <1>1, <1>3, <2>2
  <2>4. QED
    BY <1>1, <2>1, <2>3
<1>6. QED
  BY <1>4, <1>5

\* A call of plan_hierarchy_pages.
LEMMA PlanStep ==
  ASSUME LayoutInv, PlanLeaf \/ PlanSplit, UNCHANGED <<job, metadata, file>> PROVE LayoutInv'
<1>1. /\ phase = "plan" /\ phase' \in {"plan", "assign"} /\ PlanInv'
      /\ phase' = "assign" => work' = <<Root>>
      /\ root_hier_offset' = root_hier_offset /\ ranges' = ranges
      /\ next' = next /\ body' = body
  BY PlanMoves
<1>2. /\ job' = job /\ metadata' = metadata /\ file' = file
  OBVIOUS
<1>3. phase \in Planning /\ phase \in {"plan", "assign"}
  BY <1>1 DEF Planning
<1>4. /\ job \in Jobs /\ IsMetadata(metadata) /\ IsLayout(file)
      /\ root_hier_offset \in Nat /\ root_hier_offset > LasHeaderBytes
      /\ root_hier_offset = file.len + 60
      /\ ranges = <<>> /\ body = <<>> /\ next = root_hier_offset
  BY <1>1, <1>3 DEF LayoutInv, WriterInv
<1>5. WriterInv'
  <2>1. phase' \notin {"metadata", "head", "chunks", "damaged", "write", "records"}
        /\ phase' \in Planning /\ phase' # "damaged"
    BY <1>1 DEF Planning
  <2>2. phase' \in {"metadata", "rejected", "head", "chunks", "plan", "failed", "damaged"} \cup Placing
    BY <1>1 DEF Placing
  <2>3. QED
    BY <1>1, <1>2, <1>4, <2>1, <2>2 DEF WriterInv
<1>6. phase' # "write"
  BY <1>1
<1>7. WriteInv'
  BY <1>6 DEF WriteInv
<1>8. RangesInv' /\ AssignInv'
  <2>1. CASE phase' # "assign"
    <3>1. phase' \notin Placing
      BY <1>1, <2>1 DEF Placing
    <3>2. QED
      BY <2>1, <3>1 DEF RangesInv, AssignInv
  <2>2. CASE phase' = "assign"
    <3>1. work' = <<Root>> /\ DOMAIN work' = {1} /\ work'[1] = Root /\ Range(work') = {Root}
      <4>1. work' = <<Root>>
        BY <1>1, <2>2
      <4>2. DOMAIN work' = {1} /\ work'[1] = Root
        BY <4>1
      <4>3. QED
        BY <4>1, <4>2 DEF Range
    <3>2. DOMAIN ranges' = {}
      BY <1>1, <1>4
    <3>3. Root \in DOMAIN pages' /\ DOMAIN pages' \subseteq Key
      <4>1. Root \in Known' /\ DOMAIN pages' \subseteq Key
        BY <1>1, <2>2 DEF PlanInv, Planning
      <4>2. Known' = DOMAIN pages'
        BY <2>2 DEF Known
      <4>3. QED
        BY <4>1, <4>2
    <3>4. RangesInv'
      BY <2>2, <3>1, <3>2 DEF RangesInv
    <3>5. AssignInv'
      <4> DEFINE P == DOMAIN pages'
                 C == {<<<<Root>>, root_hier_offset>>}
      <4>1. work' \in Seq(P)
        <5> HIDE DEF P
        <5>1. Root \in P
          BY <3>3 DEF P
        <5>2. QED
          BY <3>1, <5>1
      <4>2. next' \in Nat /\ next' >= root_hier_offset'
        BY <1>1, <1>4
      <4>3. \A i, j \in DOMAIN work' : i = j
        BY <3>1
      <4>4. C \subseteq Seq(P) \X Nat
        <5>1. <<Root>> \in Seq(P)
          BY <3>1, <4>1
        <5>2. root_hier_offset \in Nat
          BY <1>4
        <5> HIDE DEF P, C
        <5>3. <<<<Root>>, root_hier_offset>> \in Seq(P) \X Nat
          BY <5>1, <5>2
        <5>4. QED
          BY <5>3 DEF C
      <4>5. \A stop \in C : stop = <<work', next'>>
        BY <1>1, <1>4, <3>1
      <4>6. <<<<Root>>, root_hier_offset'>> \in C
        BY <1>1
      <4>7. Stops' = Seq(P) \X Nat
        BY DEF Stops
      <4>8. C \in SUBSET Stops'
        BY <4>4, <4>7
      <4> HIDE DEF C
      <4>9. \E D \in SUBSET Stops' :
              /\ <<<<Root>>, root_hier_offset'>> \in D
              /\ \A stop \in D : stop = <<work', next'>> \/ Follows(stop, D, ranges', pages')
        BY <4>5, <4>6, <4>8
      <4>10. QED
        BY <3>2, <4>1, <4>2, <4>3, <4>9 DEF AssignInv
    <3>6. QED
      BY <3>4, <3>5
  <2>3. QED
    BY <2>1, <2>2
<1>9. QED
  BY <1>1, <1>5, <1>7, <1>8 DEF LayoutInv

\* The plan is kept when it has been made.
LEMMA PlanStays ==
  ASSUME PlanInv, phase \in Planning, phase # "plan", phase' # "plan",
         entries' = entries, pages' = pages
  PROVE  PlanInv'
<1>1. Known = DOMAIN pages /\ Known' = DOMAIN pages'
  BY DEF Known
<1>2. /\ IsGiven(entries) /\ DOMAIN pages \subseteq Key /\ Root \in Known
      /\ \A k \in DOMAIN pages : IsPage(pages[k], k, entries, Known)
  BY DEF PlanInv
<1>3. /\ IsGiven(entries') /\ DOMAIN pages' \subseteq Key /\ Root \in Known'
      /\ \A k \in DOMAIN pages' : IsPage(pages'[k], k, entries', Known')
  BY <1>1, <1>2
<1>4. QED
  BY <1>3 DEF PlanInv

\* What the child pages of a planned page are.
LEMMA ChildrenPlanned ==
  ASSUME PlanInv, phase \in Planning, phase # "plan", NEW k \in DOMAIN pages
  PROVE  /\ k \in Key /\ pages[k] \in Seq(Item) /\ Len(pages[k]) \in Nat
         /\ ChildKeys(pages[k]) \in Seq(DOMAIN pages)
         /\ IsInjective(ChildKeys(pages[k]))
         /\ \A c \in Range(ChildKeys(pages[k])) : \E o \in Octant : c = Child(k, o)
<1> DEFINE items == pages[k]
           keys == ChildKeys(items)
<1>1. Known = DOMAIN pages
  BY DEF Known
<1>2. k \in Key /\ IsPage(items, k, entries, DOMAIN pages)
  BY <1>1 DEF PlanInv
<1> HIDE DEF items
<1>3. /\ items \in Seq(Item) /\ keys \in Seq(Key) /\ IsInjective(keys)
      /\ \A c \in Range(keys) : c \in DOMAIN pages /\ \E o \in Octant : c = Child(k, o)
  BY <1>2 DEF IsPage
<1> HIDE DEF keys
<1>4. keys \in Seq(DOMAIN pages)
  <2>1. Len(keys) \in Nat /\ DOMAIN keys = 1..Len(keys) /\ keys \in [1..Len(keys) -> Key]
    BY <1>3, LenProperties
  <2>2. \A i \in 1..Len(keys) : keys[i] \in DOMAIN pages
    BY <1>3, <2>1 DEF Range
  <2>3. keys \in [1..Len(keys) -> DOMAIN pages]
    BY <2>1, <2>2
  <2>4. QED
    BY <2>1, <2>3, IsList
<1>5. Len(items) \in Nat
  BY <1>3, LenProperties
<1>6. QED
  BY <1>2, <1>3, <1>4, <1>5 DEF items, keys

\* The subtrees of the child pages of a page and of the pages still to be
\* visited after it are apart.
LEMMA ListsApart ==
  ASSUME NEW k \in Key, NEW children \in Seq(Key), IsInjective(children),
         \A c \in Range(children) : \E o \in Octant : c = Child(k, o),
         NEW rest \in Seq(Key),
         \A i, j \in DOMAIN rest : \A d \in Key :
           InSubtree(d, rest[i]) /\ InSubtree(d, rest[j]) => i = j,
         \A i \in DOMAIN rest : \A d \in Key : ~ (InSubtree(d, k) /\ InSubtree(d, rest[i]))
  PROVE  \A i, j \in DOMAIN (children \o rest) : \A d \in Key :
           InSubtree(d, (children \o rest)[i]) /\ InSubtree(d, (children \o rest)[j]) => i = j
<1> DEFINE m == Len(children)
           n == Len(rest)
           all == children \o rest
<1>1. /\ m \in Nat /\ n \in Nat /\ DOMAIN children = 1..m /\ DOMAIN rest = 1..n
      /\ all \in Seq(Key) /\ Len(all) = m + n
      /\ \A i \in 1..(m + n) : all[i] = IF i <= m THEN children[i] ELSE rest[i - m]
  BY LenProperties, ConcatProperties
<1>2. DOMAIN all = 1..(m + n)
  BY <1>1, LenProperties
<1> HIDE DEF m, n, all
<1>3. \A i \in 1..m : children[i] \in Range(children)
  BY <1>1 DEF Range
<1>4. ASSUME NEW i \in 1..m, NEW d \in Key, InSubtree(d, children[i])
      PROVE  InSubtree(d, k) /\ children[i] \in Key /\ children[i].level = k.level + 1
  <2>1. PICK o \in Octant : children[i] = Child(k, o)
    BY <1>3
  <2>2. Child(k, o).level = k.level + 1
    BY DEF Child
  <2>3. QED
    BY <1>4, <2>1, <2>2, BelowChild
<1>5. \A i \in (m + 1)..(m + n) : i - m \in 1..n /\ all[i] = rest[i - m]
  BY <1>1
<1>6. \A i \in 1..m : all[i] = children[i]
  BY <1>1
<1>7. ASSUME NEW i \in 1..(m + n), NEW j \in 1..(m + n), NEW d \in Key,
             InSubtree(d, all[i]), InSubtree(d, all[j])
      PROVE  i = j
  <2>1. CASE i <= m /\ j <= m
    <3>1. i \in 1..m /\ j \in 1..m
      BY <1>1, <2>1
    <3>2. /\ children[i] \in Key /\ children[j] \in Key /\ children[i].level = children[j].level
          /\ InSubtree(d, children[i]) /\ InSubtree(d, children[j])
      BY <1>4, <1>6, <1>7, <3>1
    <3>3. children[i] = children[j]
      BY <3>2, LevelsApart
    <3>4. QED
      BY <1>1, <3>1, <3>3 DEF IsInjective
  <2>2. CASE i <= m /\ j > m
    <3>1. i \in 1..m /\ j \in (m + 1)..(m + n)
      BY <1>1, <2>2
    <3>2. QED
      BY <1>1, <1>4, <1>5, <1>6, <1>7, <3>1
  <2>3. CASE i > m /\ j <= m
    <3>1. j \in 1..m /\ i \in (m + 1)..(m + n)
      BY <1>1, <2>3
    <3>2. QED
      BY <1>1, <1>4, <1>5, <1>6, <1>7, <3>1
  <2>4. CASE i > m /\ j > m
    <3>1. i \in (m + 1)..(m + n) /\ j \in (m + 1)..(m + n)
      BY <1>1, <2>4
    <3>2. i - m = j - m
      BY <1>1, <1>5, <1>7, <3>1
    <3>3. QED
      BY <1>1, <3>2
  <2>5. QED
    BY <1>1, <2>1, <2>2, <2>3, <2>4
<1>8. QED
  BY <1>2, <1>7 DEF all

\* Every page that was planned is that of a voxel.
LEMMA PlannedKeys ==
  ASSUME PlanInv, phase \in Planning, phase # "plan"
  PROVE  DOMAIN pages \subseteq Key /\ Root \in DOMAIN pages
<1>1. Known = DOMAIN pages
  BY DEF Known
<1>2. QED
  BY <1>1 DEF PlanInv

\* assign_hierarchy_page_offsets visits a page.
LEMMA AssignStep ==
  ASSUME LayoutInv, AssignPage, UNCHANGED <<job, metadata, file>> PROVE LayoutInv'
<1> DEFINE k == Todo
           kids == ChildKeys(pages[k])
           rest == Tail(work)
           bytes == EntryBytes * Len(pages[k])
           P == DOMAIN pages
<1>1. /\ phase = "assign" /\ phase' = "assign" /\ work # <<>>
      /\ entries' = entries /\ root_hier_offset' = root_hier_offset
      /\ pages' = pages /\ body' = body
      /\ job' = job /\ metadata' = metadata /\ file' = file
  BY DEF AssignPage, pageInput
<1>2. phase \in Planning /\ phase # "plan" /\ phase \in Placing
  BY <1>1 DEF Planning, Placing
<1>3. /\ PlanInv /\ WriterInv /\ RangesInv /\ AssignInv
  BY DEF LayoutInv
<1>4. PlanInv'
  BY <1>1, <1>2, <1>3, PlanStays
<1>5. WriterInv'
  <2>1. /\ job \in Jobs /\ IsMetadata(metadata) /\ IsLayout(file)
        /\ root_hier_offset \in Nat /\ root_hier_offset > LasHeaderBytes
        /\ root_hier_offset = file.len + 60 /\ body = <<>>
    BY <1>1, <1>2, <1>3 DEF WriterInv
  <2>2. phase' \notin {"metadata", "head", "chunks", "damaged", "plan", "write", "records"}
        /\ phase' \in Planning /\ phase' \in Placing
    BY <1>1, <1>2
  <2>3. QED
    BY <1>1, <2>1, <2>2 DEF WriterInv
<1>6. P \subseteq Key /\ Root \in P
  BY <1>2, <1>3, PlannedKeys
<1>7. /\ work \in Seq(P) /\ next \in Nat /\ next >= root_hier_offset
      /\ root_hier_offset \in Nat
  BY <1>1, <1>2, <1>3 DEF AssignInv, WriterInv
<1>8. /\ k \in P /\ k = work[1] /\ 1 \in DOMAIN work
      /\ rest \in Seq(P) /\ DOMAIN rest = 1..Len(rest)
      /\ \A i \in DOMAIN rest : i + 1 \in DOMAIN work /\ rest[i] = work[i + 1]
      /\ \A i \in DOMAIN work : i = 1 \/ (i - 1 \in DOMAIN rest /\ rest[i - 1] = work[i])
  BY <1>1, <1>7, TodoIsHead
<1>9. /\ k \in Key /\ Len(pages[k]) \in Nat /\ kids \in Seq(P) /\ IsInjective(kids)
      /\ \A c \in Range(kids) : \E o \in Octant : c = Child(k, o)
  BY <1>2, <1>3, <1>8, ChildrenPlanned
<1>10. bytes \in Nat
  <2> DEFINE n == Len(pages[k])
  <2>1. n \in Nat /\ EntryBytes \in Nat
    BY <1>9, LimitsAssumption
  <2> HIDE DEF n
  <2>2. EntryBytes * n \in Nat
    BY <2>1
  <2>3. QED
    BY <2>2 DEF n
<1>11. work' = kids \o rest /\ next' = next + bytes
  BY ChildPagesAre DEF AssignPage, PageBytes
<1>12. ranges' = [p \in DOMAIN ranges \cup {k} |-> IF p = k THEN <<next, bytes>> ELSE ranges[p]]
  BY DEF AssignPage, PageBytes
<1>13. /\ DOMAIN ranges' = DOMAIN ranges \cup {k} /\ ranges'[k] = <<next, bytes>>
       /\ \A p \in DOMAIN ranges : p # k => ranges'[p] = ranges[p]
  BY <1>12
<1>14. /\ \A i, j \in DOMAIN work : \A d \in Key :
            InSubtree(d, work[i]) /\ InSubtree(d, work[j]) => i = j
       /\ \A p \in DOMAIN ranges : \A i \in DOMAIN work : ~ InSubtree(p, work[i])
  BY <1>1, <1>3 DEF AssignInv
<1>15. k \notin DOMAIN ranges
  BY <1>8, <1>9, <1>14, SubtreeSelf
<1>16. /\ DOMAIN ranges \subseteq P /\ \A p \in DOMAIN ranges : ranges[p] \in Nat \X Nat
       /\ Root \in DOMAIN ranges \cup Range(work)
       /\ \A p \in DOMAIN ranges : Range(ChildKeys(pages[p])) \subseteq DOMAIN ranges \cup Range(work)
  BY <1>1, <1>2, <1>3 DEF RangesInv
<1>17. Range(work) = {k} \cup Range(rest)
  <2>1. \A i \in DOMAIN work : work[i] = k \/ work[i] \in Range(rest)
    BY <1>8 DEF Range
  <2>2. \A i \in DOMAIN rest : rest[i] \in Range(work)
    BY <1>8 DEF Range
  <2>3. k \in Range(work)
    BY <1>8 DEF Range
  <2>4. QED
    BY <2>1, <2>2, <2>3 DEF Range
<1> HIDE DEF k, kids, rest, bytes, P
<1>18. kids \o rest \in Seq(P) /\ Range(kids \o rest) = Range(kids) \cup Range(rest)
  BY <1>8, <1>9, ConcatProperties, RangeConcatenation
<1>19. RangesInv'
  <2> DEFINE D == DOMAIN ranges \cup {k} \cup Range(kids) \cup Range(rest)
  <2>1. DOMAIN ranges' \cup Range(work') = D
    BY <1>11, <1>13, <1>18
  <2>2. DOMAIN ranges' \subseteq DOMAIN pages'
    BY <1>1, <1>8, <1>13, <1>16 DEF P
  <2>3. \A p \in DOMAIN ranges' : ranges'[p] \in Nat \X Nat
    <3>1. <<next, bytes>> \in Nat \X Nat
      BY <1>7, <1>10
    <3>2. QED
      BY <1>13, <1>16, <3>1
  <2>4. Root \in D
    BY <1>16, <1>17
  <2>5. \A p \in DOMAIN ranges' : Range(ChildKeys(pages'[p])) \subseteq D
    <3>1. Range(ChildKeys(pages[k])) \subseteq D
      BY DEF kids
    <3>2. \A p \in DOMAIN ranges : Range(ChildKeys(pages[p])) \subseteq D
      BY <1>16, <1>17
    <3>3. QED
      BY <1>1, <1>13, <3>1, <3>2
  <2> HIDE DEF D
  <2>6. DOMAIN ranges' \cup (IF phase' = "assign" THEN Range(work') ELSE {}) = D
    BY <1>1, <2>1
  <2>7. QED
    BY <2>2, <2>3, <2>4, <2>5, <2>6 DEF RangesInv
<1>20. AssignInv'
  <2> DEFINE new == kids \o rest
  <2>1. \A i, j \in DOMAIN new : \A d \in Key : InSubtree(d, new[i]) /\ InSubtree(d, new[j]) => i = j
    <3>1. kids \in Seq(Key) /\ rest \in Seq(Key)
      BY <1>6, <1>8, <1>9, SeqMonotonic
    <3>2. \A i, j \in DOMAIN rest : \A d \in Key :
            InSubtree(d, rest[i]) /\ InSubtree(d, rest[j]) => i = j
      <4>1. ASSUME NEW i \in DOMAIN rest, NEW j \in DOMAIN rest, NEW d \in Key,
                   InSubtree(d, rest[i]), InSubtree(d, rest[j])
            PROVE  i = j
        <5>1. i + 1 \in DOMAIN work /\ j + 1 \in DOMAIN work /\ rest[i] = work[i + 1]
              /\ rest[j] = work[j + 1] /\ i \in Int /\ j \in Int
          BY <1>8
        <5>2. i + 1 = j + 1
          BY <1>14, <4>1, <5>1
        <5>3. QED
          BY <5>1, <5>2
      <4>2. QED
        BY <4>1
    <3>3. \A i \in DOMAIN rest : \A d \in Key : ~ (InSubtree(d, k) /\ InSubtree(d, rest[i]))
      <4>1. ASSUME NEW i \in DOMAIN rest, NEW d \in Key, InSubtree(d, k), InSubtree(d, rest[i])
            PROVE  FALSE
        <5>1. i + 1 \in DOMAIN work /\ rest[i] = work[i + 1] /\ i \in Nat /\ i >= 1
          BY <1>8
        <5>2. 1 = i + 1
          BY <1>8, <1>14, <4>1, <5>1
        <5>3. QED
          BY <5>1, <5>2
      <4>2. QED
        BY <4>1
    <3>4. QED
      BY <1>9, <3>1, <3>2, <3>3, ListsApart
  <2>2. \A p \in DOMAIN ranges \cup {k} : \A i \in DOMAIN new : ~ InSubtree(p, new[i])
    <3>1. \A i \in DOMAIN new : new[i] \in Range(kids) \cup Range(rest)
      BY <1>18 DEF Range
    <3>2. \A p \in DOMAIN ranges : \A w \in Range(work) : ~ InSubtree(p, w)
      BY <1>14 DEF Range
    <3>3. \A p \in DOMAIN ranges \cup {k} : \A c \in Range(kids) : ~ InSubtree(p, c)
      <4>1. ASSUME NEW p \in DOMAIN ranges \cup {k}, NEW c \in Range(kids), InSubtree(p, c)
            PROVE  FALSE
        <5>1. PICK o \in Octant : c = Child(k, o)
          BY <1>9
        <5>2. p \in Key
          BY <1>6, <1>9, <1>16
        <5>3. InSubtree(p, k) /\ p # k
          BY <1>9, <4>1, <5>1, <5>2, BelowChild
        <5>4. k \in Range(work)
          BY <1>17
        <5>5. QED
          BY <3>2, <5>3, <5>4
      <4>2. QED
        BY <4>1
    <3>4. \A p \in DOMAIN ranges \cup {k} : \A c \in Range(rest) : ~ InSubtree(p, c)
      <4>1. \A p \in DOMAIN ranges : \A c \in Range(rest) : ~ InSubtree(p, c)
        BY <1>17, <3>2
      <4>2. ASSUME NEW i \in DOMAIN rest, InSubtree(k, rest[i]) PROVE FALSE
        <5>1. i + 1 \in DOMAIN work /\ rest[i] = work[i + 1] /\ i \in Nat /\ i >= 1
          BY <1>8
        <5>2. 1 = i + 1
          BY <1>8, <1>9, <1>14, <4>2, <5>1, SubtreeSelf
        <5>3. QED
          BY <5>1, <5>2
      <4>3. QED
        BY <4>1, <4>2 DEF Range
    <3>5. QED
      BY <3>1, <3>3, <3>4
  <2>3. PICK C \in SUBSET Stops :
          /\ <<<<Root>>, root_hier_offset>> \in C
          /\ \A stop \in C : stop = <<work, next>> \/ Follows(stop, C, ranges, pages)
    BY <1>1, <1>3 DEF AssignInv
  <2>4. PICK last : last = <<new, next + bytes>>
    OBVIOUS
  <2>5. PICK D : D = C \cup {last}
    OBVIOUS
  <2>6. D \in SUBSET Stops'
    <3>1. Stops' = Seq(P) \X Nat /\ Stops = Seq(P) \X Nat
      BY <1>1 DEF Stops, P
    <3>2. last \in Seq(P) \X Nat
      <4>1. next + bytes \in Nat
        BY <1>7, <1>10
      <4> DEFINE e == next + bytes
                 w == kids \o rest
      <4>2. last = <<w, e>>
        BY <2>4
      <4> HIDE DEF e, w
      <4>3. w \in Seq(P) /\ e \in Nat
        BY <1>18, <4>1 DEF e, w
      <4>4. QED
        BY <4>2, <4>3
    <3>3. QED
      BY <2>5, <3>1, <3>2
  <2>7. ASSUME NEW stop \in C PROVE Follows(stop, D, ranges', pages')
    <3>1. CASE stop = <<work, next>>
      <4>1. stop[1] = work /\ stop[2] = next
        BY <3>1
      <4>2. Head(stop[1]) = k /\ Tail(stop[1]) = rest /\ stop[1] # <<>>
        BY <1>1, <4>1, Zenon DEF k, rest, Todo
      <4>3. Head(stop[1]) \in DOMAIN ranges' /\ ranges'[Head(stop[1])][1] = stop[2]
        BY <1>13, <4>1, <4>2
      <4>4. last = <<ChildKeys(pages'[k]) \o rest, stop[2] + EntryBytes * Len(pages'[k])>>
        BY <1>1, <2>4, <4>1 DEF kids, bytes
      <4>5. <<ChildKeys(pages'[Head(stop[1])]) \o Tail(stop[1]),
              stop[2] + EntryBytes * Len(pages'[Head(stop[1])])>> \in D
        BY <2>5, <4>2, <4>4
      <4>6. QED
        BY <4>2, <4>3, <4>5 DEF Follows
    <3>2. CASE Follows(stop, C, ranges, pages)
      <4>1. /\ stop[1] # <<>> /\ Head(stop[1]) \in DOMAIN ranges
            /\ ranges[Head(stop[1])][1] = stop[2]
            /\ <<ChildKeys(pages[Head(stop[1])]) \o Tail(stop[1]),
                 stop[2] + EntryBytes * Len(pages[Head(stop[1])])>> \in C
        BY <3>2 DEF Follows
      <4>2. Head(stop[1]) # k
        BY <1>15, <4>1
      <4>3. Head(stop[1]) \in DOMAIN ranges' /\ ranges'[Head(stop[1])][1] = stop[2]
        BY <1>13, <4>1, <4>2
      <4>4. <<ChildKeys(pages'[Head(stop[1])]) \o Tail(stop[1]),
              stop[2] + EntryBytes * Len(pages'[Head(stop[1])])>> \in D
        BY <1>1, <2>5, <4>1
      <4>5. QED
        BY <4>1, <4>3, <4>4 DEF Follows
    <3>3. QED
      BY <2>3, <3>1, <3>2
  <2>8. /\ <<<<Root>>, root_hier_offset'>> \in D
        /\ \A stop \in D : stop = <<work', next'>> \/ Follows(stop, D, ranges', pages')
    <3>1. last = <<work', next'>>
      BY <1>11, <2>4
    <3>2. QED
      BY <1>1, <2>3, <2>5, <2>7, <3>1
  <2>9. next + bytes \in Nat /\ next + bytes >= root_hier_offset
    BY <1>7, <1>10
  <2>10. \E E \in SUBSET Stops' :
          /\ <<<<Root>>, root_hier_offset'>> \in E
          /\ \A stop \in E : stop = <<work', next'>> \/ Follows(stop, E, ranges', pages')
    BY <2>6, <2>8
  <2> HIDE DEF new
  <2>11. work' = new /\ work' \in Seq(DOMAIN pages')
    BY <1>1, <1>11, <1>18 DEF new, P
  <2>12. /\ \A i, j \in DOMAIN work' : \A d \in Key :
              InSubtree(d, work'[i]) /\ InSubtree(d, work'[j]) => i = j
         /\ \A p \in DOMAIN ranges' : \A i \in DOMAIN work' : ~ InSubtree(p, work'[i])
    BY <1>13, <2>1, <2>2, <2>11
  <2>13. next' \in Nat /\ next' >= root_hier_offset'
    BY <1>1, <1>11, <2>9
  <2>14. QED
    BY <2>10, <2>11, <2>12, <2>13 DEF AssignInv
<1>21. WriteInv'
  BY <1>1 DEF WriteInv
<1>22. QED
  BY <1>4, <1>5, <1>19, <1>20, <1>21 DEF LayoutInv

\* Nothing is written before the first page.
LEMMA NoEntriesWritten == ASSUME NEW n \in Nat PROVE n + EntryBytes * Len(<<>>) = n
<1>1. EntryBytes * 0 = 0 /\ Len(<<>>) = 0
  BY LimitsAssumption
<1>2. QED
  BY <1>1

\* The header of the hierarchy EVLR is written.
LEMMA WriteEvlrHeaderStep == ASSUME LayoutInv, WriteEvlrHeader PROVE LayoutInv'
<1> DEFINE record == Record("copc hierarchy", next - root_hier_offset, "pages")
           what == Evlr(record)
           at == Placed(file.at, file.len, what)
<1>1. /\ phase = "assign" /\ work = <<>>
      /\ job' = job /\ metadata' = metadata /\ entries' = entries /\ pages' = pages
      /\ root_hier_offset' = root_hier_offset /\ ranges' = ranges /\ next' = next /\ body' = body
  BY DEF WriteEvlrHeader, pageInput
<1>2. phase \in Planning /\ phase # "plan" /\ phase \in Placing
  BY <1>1 DEF Planning, Placing
<1>3. /\ PlanInv /\ WriterInv /\ RangesInv /\ AssignInv
  BY DEF LayoutInv
<1>4. /\ job \in Jobs /\ IsMetadata(metadata) /\ IsLayout(file)
      /\ root_hier_offset \in Nat /\ root_hier_offset > LasHeaderBytes
      /\ root_hier_offset = file.len + 60 /\ body = <<>>
  BY <1>1, <1>2, <1>3 DEF WriterInv
<1>5. next \in Nat /\ next >= root_hier_offset
  BY <1>1, <1>3 DEF AssignInv
<1>6. file' = [len |-> file.len + HeaderBytes("evlr"), at |-> at]
  BY DEF WriteEvlrHeader
<1>7. HeaderBytes("evlr") = 60 /\ file'.len = file.len + 60 /\ file'.at = at
      /\ file' = [len |-> file'.len, at |-> file'.at]
  BY <1>6 DEF HeaderBytes
<1>8. IsLayout(file')
  <2>1. record \in AnyRecord
    <3> DEFINE size == next - root_hier_offset
    <3>1. size \in Nat
      BY <1>4, <1>5
    <3>2. record = Record("copc hierarchy", size, "pages")
      OBVIOUS
    <3> HIDE DEF size, record
    <3>3. QED
      BY <3>1, <3>2, OutRecordsAreRecords
  <2>2. what.record = record
    BY DEF Evlr
  <2>3. /\ file.len \in Nat /\ file.len > LasHeaderBytes /\ IsPlaced(file.at)
        /\ LasHeaderBytes \in Nat
    BY <1>4 DEF IsLayout, LasHeaderBytes
  <2> HIDE DEF what, record
  <2>4. IsPlaced(at)
    BY <2>1, <2>2, <2>3, PlacedKeeps
  <2>5. file'.len \in Nat /\ file'.len > LasHeaderBytes
    BY <1>7, <2>3
  <2> HIDE DEF at
  <2>6. QED
    BY <1>7, <2>4, <2>5 DEF IsLayout
<1>9. work' = <<Root>> /\ phase' = "write"
  <2>1. file'.len = root_hier_offset
    BY <1>4, <1>7
  <2>2. StartPhase("write")
    BY <2>1 DEF WriteEvlrHeader
  <2>3. QED
    BY <2>2 DEF StartPhase
<1>10. PlanInv'
  BY <1>1, <1>2, <1>3, <1>9, PlanStays
<1>11. WriterInv'
  <2>1. phase' \notin {"metadata", "head", "chunks", "damaged", "plan", "assign"}
        /\ phase' \in Planning /\ phase' \in Placing
    BY <1>9 DEF Planning, Placing
  <2>2. body' \in Seq(Entry)
    BY <1>1, <1>4, EmptySeq
  <2>3. QED
    BY <1>1, <1>4, <1>8, <1>9, <2>1, <2>2 DEF WriterInv
<1>12. RangesInv'
  <2>1. Range(work) = {}
    BY <1>1, RangeEmpty
  <2>2. /\ DOMAIN ranges \subseteq DOMAIN pages /\ \A p \in DOMAIN ranges : ranges[p] \in Nat \X Nat
        /\ Root \in DOMAIN ranges
        /\ \A p \in DOMAIN ranges : Range(ChildKeys(pages[p])) \subseteq DOMAIN ranges
    BY <1>1, <1>2, <1>3, <2>1 DEF RangesInv
  <2>3. phase' # "assign"
    BY <1>9
  <2>4. QED
    BY <1>1, <2>2, <2>3 DEF RangesInv
<1>13. AssignInv'
  BY <1>9 DEF AssignInv
<1>14. WriteInv'
  <2>1. PICK C \in SUBSET Stops :
          /\ <<<<Root>>, root_hier_offset>> \in C
          /\ \A stop \in C : stop = <<work, next>> \/ Follows(stop, C, ranges, pages)
    BY <1>1, <1>3 DEF AssignInv
  <2>2. Stops' = Stops
    BY <1>1 DEF Stops
  <2>3. root_hier_offset' + EntryBytes * Len(body') = root_hier_offset
    BY <1>1, <1>4, NoEntriesWritten
  <2>4. \A stop \in C : stop[1] = <<>> \/ Follows(stop, C, ranges', pages')
    BY <1>1, <2>1
  <2>5. C \in SUBSET Stops'
    BY <2>2
  <2>6. <<work', root_hier_offset' + EntryBytes * Len(body')>> \in C
    BY <1>9, <2>1, <2>3
  <2>7. QED
    BY <2>4, <2>5, <2>6 DEF WriteInv
<1>15. QED
  BY <1>10, <1>11, <1>12, <1>13, <1>14 DEF LayoutInv

-----------------------------------------------------------------------------
\* The conjuncts that do not change in the phases after the placing.
LEMMA PlacedStays ==
  ASSUME LayoutInv, phase \in Placing, phase # "assign", phase' \in Placing, phase' # "assign",
         entries' = entries, pages' = pages, ranges' = ranges
  PROVE  PlanInv' /\ RangesInv' /\ AssignInv'
<1>1. phase \in Planning /\ phase # "plan" /\ phase' # "plan"
  BY DEF Planning, Placing
<1>2. PlanInv'
  BY <1>1, PlanStays DEF LayoutInv
<1>3. RangesInv'
  BY DEF RangesInv, LayoutInv
<1>4. QED
  BY <1>2, <1>3 DEF AssignInv

\* The entries of a page, in a file whose pages have their places.
LEMMA EntriesOfPage ==
  ASSUME LayoutInv, phase \in Placing, phase # "assign", NEW k \in DOMAIN ranges
  PROVE  LET new == [i \in DOMAIN pages[k] |-> ItemEntry(pages[k][i])]
         IN  new \in Seq(Entry) /\ Len(new) = Len(pages[k]) /\ Len(new) \in Nat
<1> DEFINE items == pages[k]
           new == [i \in DOMAIN items |-> ItemEntry(items[i])]
<1>1. PlanInv /\ phase \in Planning /\ phase # "plan"
  BY DEF LayoutInv, Planning, Placing
<1>2. /\ k \in DOMAIN pages /\ Range(ChildKeys(items)) \subseteq DOMAIN ranges
      /\ \A p \in DOMAIN ranges : ranges[p] \in Nat \X Nat
  BY DEF LayoutInv, RangesInv
<1>3. items \in Seq(Item)
  BY <1>1, <1>2, ChildrenPlanned
<1> HIDE DEF items
<1>4. DOMAIN items = 1..Len(items) /\ Len(items) \in Nat /\ \A i \in 1..Len(items) : items[i] \in Item
  BY <1>3, LenProperties, ElementOfSeq
<1>5. ASSUME NEW i \in 1..Len(items) PROVE ItemEntry(items[i]) \in Entry
  <2>1. CASE \E e \in Entry : items[i] = Point(e)
    <3>1. PICK e \in Entry : items[i] = Point(e)
      BY <2>1
    <3>2. items[i].kind = "point" /\ items[i].entry = e
      BY <3>1, ItemType
    <3>3. ItemEntry(items[i]) = e
      BY <3>2 DEF ItemEntry
    <3>4. QED
      BY <3>3
  <2>2. CASE \E c \in Key : items[i] = ChildPage(c)
    <3>1. PICK c \in Key : items[i] = ChildPage(c)
      BY <2>2
    <3>2. items[i].kind = "child" /\ items[i].key = c
      BY <3>1, ItemType
    <3>3. ChildPage(c) \in Range(items)
      BY <1>4, <3>1 DEF Range
    <3>4. c \in DOMAIN ranges
      BY <1>2, <1>3, <3>3, ChildKeysList
    <3>5. ItemEntry(items[i]) =
            [key |-> c, offset |-> ranges[c][1], byte_size |-> ranges[c][2], point_count |-> -1]
      BY <3>2 DEF ItemEntry
    <3> DEFINE o == ranges[c][1]
               n == ranges[c][2]
    <3>6. o \in Nat /\ n \in Nat
      BY <1>2, <3>4
    <3>7. ItemEntry(items[i]) = [key |-> c, offset |-> o, byte_size |-> n, point_count |-> -1]
      BY <3>5
    <3> HIDE DEF o, n
    <3>8. n \in Int /\ -1 \in Int
      BY <3>6
    <3>9. QED
      BY <3>6, <3>7, <3>8 DEF Entry
  <2>3. QED
    BY <1>4, <2>1, <2>2 DEF Item
<1>6. new \in [1..Len(items) -> Entry]
  BY <1>4, <1>5
<1> HIDE DEF new
<1>7. new \in Seq(Entry) /\ Len(new) = Len(items)
  BY <1>4, <1>6, IsList
<1>8. QED
  BY <1>4, <1>7 DEF new, items

\* write_hierarchy_page_tree writes a page where its range says.
LEMMA WritePageStep ==
  ASSUME LayoutInv, WritePage, UNCHANGED <<job, metadata, file>> PROVE LayoutInv'
<1> DEFINE k == Todo
           items == pages[k]
           new == [i \in DOMAIN items |-> ItemEntry(items[i])]
           m == Len(body)
           n == Len(items)
<1>1. /\ phase = "write" /\ work # <<>>
      /\ entries' = entries /\ root_hier_offset' = root_hier_offset
      /\ pages' = pages /\ ranges' = ranges /\ next' = next
      /\ job' = job /\ metadata' = metadata /\ file' = file
  BY DEF WritePage, pageInput
<1>2. phase \in Planning /\ phase \in Placing /\ phase # "assign"
  BY <1>1 DEF Planning, Placing
<1>3. /\ job \in Jobs /\ IsMetadata(metadata) /\ IsLayout(file)
      /\ root_hier_offset \in Nat /\ root_hier_offset > LasHeaderBytes /\ body \in Seq(Entry)
  BY <1>1, <1>2 DEF LayoutInv, WriterInv
<1>4. PICK C \in SUBSET Stops :
        /\ <<work, root_hier_offset + EntryBytes * Len(body)>> \in C
        /\ \A stop \in C : stop[1] = <<>> \/ Follows(stop, C, ranges, pages)
  BY <1>1 DEF LayoutInv, WriteInv
<1>5. PICK stop \in C : stop = <<work, Position>>
  BY <1>4 DEF Position
<1>6. stop[1] = work /\ stop[2] = Position
  BY <1>5
<1>7. Follows(stop, C, ranges, pages)
  BY <1>1, <1>4, <1>6
<1>8. /\ k \in DOMAIN ranges /\ ranges[k][1] = Position
      /\ <<ChildKeys(items) \o Tail(work), Position + EntryBytes * n>> \in C
  <2>1. Head(stop[1]) = k /\ Tail(stop[1]) = Tail(work)
    BY <1>6 DEF Todo
  <2>2. /\ Head(stop[1]) \in DOMAIN ranges /\ ranges[Head(stop[1])][1] = stop[2]
        /\ <<ChildKeys(pages[Head(stop[1])]) \o Tail(stop[1]),
             stop[2] + EntryBytes * Len(pages[Head(stop[1])])>> \in C
    BY <1>7 DEF Follows
  <2>3. QED
    BY <1>6, <2>1, <2>2
<1>9. /\ body' = body \o new /\ work' = ChildKeys(items) \o Tail(work) /\ phase' = phase
  BY <1>8, ChildPagesAre DEF WritePage
<1>10. new \in Seq(Entry) /\ Len(new) = n /\ n \in Nat
  BY <1>2, <1>8, EntriesOfPage
<1>11. m \in Nat
  BY <1>3, LenProperties
<1> HIDE DEF new
<1>12. body' \in Seq(Entry) /\ Len(body') = m + n
  <2>1. body \o new \in Seq(Entry) /\ Len(body \o new) = Len(body) + Len(new)
    BY <1>3, <1>10, ConcatProperties
  <2>2. QED
    BY <1>9, <1>10, <2>1
<1>13. Position' = Position + EntryBytes * n
  <2> DEFINE r == root_hier_offset
             x == EntryBytes * m
             y == EntryBytes * n
  <2>1. EntryBytes \in Nat
    BY LimitsAssumption
  <2>2. Position' = r + EntryBytes * (m + n) /\ Position = r + x
    BY <1>1, <1>12 DEF Position
  <2>3. x \in Nat /\ y \in Nat /\ EntryBytes * (m + n) = x + y
    <3> HIDE DEF m, n
    <3>1. QED
      BY <1>10, <1>11, <2>1
  <2> HIDE DEF x, y, r, m, n
  <2>4. Position' = (r + x) + y
    BY <1>3, <2>2, <2>3 DEF r
  <2>5. QED
    BY <2>2, <2>4 DEF y
<1>14. PlanInv' /\ RangesInv' /\ AssignInv'
  BY <1>1, <1>2, <1>9, PlacedStays
<1>15. WriterInv'
  <2>1. phase' \notin {"metadata", "head", "chunks", "damaged", "plan", "assign"}
        /\ phase' \in Planning /\ phase' \in Placing
    BY <1>1, <1>9 DEF Planning, Placing
  <2>2. QED
    BY <1>1, <1>3, <1>12, <2>1 DEF WriterInv
<1>16. WriteInv'
  <2>1. <<work', root_hier_offset' + EntryBytes * Len(body')>> \in C
    <3>1. <<work', Position'>> \in C
      BY <1>8, <1>9, <1>13
    <3>2. QED
      BY <3>1 DEF Position
  <2>2. C \in SUBSET Stops'
    BY <1>1 DEF Stops
  <2>3. \A s \in C : s[1] = <<>> \/ Follows(s, C, ranges', pages')
    BY <1>1, <1>4
  <2>4. QED
    BY <2>1, <2>2, <2>3 DEF WriteInv
<1>17. QED
  BY <1>14, <1>15, <1>16 DEF LayoutInv

\* The last page is written.
LEMMA EndWriteStep ==
  ASSUME LayoutInv, EndWrite, UNCHANGED <<job, metadata, file>> PROVE LayoutInv'
<1>1. /\ phase = "write" /\ phase' = "records"
      /\ entries' = entries /\ root_hier_offset' = root_hier_offset
      /\ pages' = pages /\ ranges' = ranges /\ body' = body
      /\ job' = job /\ metadata' = metadata /\ file' = file
  BY DEF EndWrite, pageVars, pageInput
<1>2. phase \in Planning /\ phase \in Placing /\ phase # "assign"
      /\ phase' \in Planning /\ phase' \in Placing /\ phase' # "assign"
  BY <1>1 DEF Planning, Placing
<1>3. /\ job \in Jobs /\ IsMetadata(metadata) /\ IsLayout(file)
      /\ root_hier_offset \in Nat /\ root_hier_offset > LasHeaderBytes /\ body \in Seq(Entry)
  BY <1>1, <1>2 DEF LayoutInv, WriterInv
<1>4. PlanInv' /\ RangesInv' /\ AssignInv'
  BY <1>1, <1>2, PlacedStays
<1>5. WriterInv'
  <2>1. phase' \notin {"metadata", "head", "chunks", "damaged", "plan", "assign"}
    BY <1>1
  <2>2. QED
    BY <1>1, <1>2, <1>3, <2>1 DEF WriterInv
<1>6. WriteInv'
  BY <1>1 DEF WriteInv
<1>7. QED
  BY <1>4, <1>5, <1>6 DEF LayoutInv

\* The entries and the EVLRs after them are in the file.
LEMMA WriteRecordsStep == ASSUME LayoutInv, WriteRecords PROVE LayoutInv'
<1> DEFINE slot(i) == root_hier_offset + EntryBytes * (i - 1)
           after == metadata.evlrs_after_hierarchy
           written == [o \in {slot(i) : i \in DOMAIN body} |->
                         [form |-> "entry",
                          entry |-> body[CHOOSE i \in DOMAIN body : slot(i) = o]]]
           laid == LaidOut(after, Position, "evlr")
           at == Added(Added(file.at, written), laid)
           end == Position + StorageBytes(after, "evlr")
<1>1. /\ phase = "records" /\ phase' = "patch"
      /\ entries' = entries /\ root_hier_offset' = root_hier_offset
      /\ pages' = pages /\ ranges' = ranges /\ body' = body
      /\ job' = job /\ metadata' = metadata
      /\ file' = [len |-> end, at |-> at]
  BY DEF WriteRecords, pageVars, pageInput
<1>2. phase \in Planning /\ phase \in Placing /\ phase # "assign"
      /\ phase' \in Planning /\ phase' \in Placing /\ phase' # "assign"
  BY <1>1 DEF Planning, Placing
<1>3. /\ job \in Jobs /\ IsMetadata(metadata) /\ IsLayout(file)
      /\ root_hier_offset \in Nat /\ root_hier_offset > LasHeaderBytes /\ body \in Seq(Entry)
  BY <1>1, <1>2 DEF LayoutInv, WriterInv
<1>4. PlanInv' /\ RangesInv' /\ AssignInv'
  BY <1>1, <1>2, PlacedStays
<1>5. DOMAIN body = 1..Len(body) /\ Len(body) \in Nat
  BY <1>3, LenProperties
<1>6. Position \in Nat /\ Position >= root_hier_offset
  <2> DEFINE n == Len(body)
             x == EntryBytes * n
  <2>1. n \in Nat /\ EntryBytes \in Nat
    BY <1>5, LimitsAssumption
  <2> HIDE DEF n
  <2>2. x \in Nat
    BY <2>1
  <2>3. Position = root_hier_offset + x
    BY DEF Position, n
  <2> HIDE DEF x
  <2>4. QED
    BY <1>3, <2>2, <2>3
<1>7. after \in Seq(AnyRecord) /\ \A r \in AnyRecord : r.bytes \in Nat
  BY <1>3, MetadataLists, OutRecordsAreRecords
<1>8. IsPlaced(Added(file.at, written))
  <2>1. DOMAIN written = {slot(i) : i \in DOMAIN body}
        /\ \A o \in DOMAIN written : written[o].form = "entry"
    OBVIOUS
  <2>2. ASSUME NEW i \in DOMAIN body PROVE slot(i) \in Nat
    <3> DEFINE n == i - 1
               x == EntryBytes * n
    <3>1. n \in Nat /\ EntryBytes \in Nat
      BY <1>5, LimitsAssumption
    <3> HIDE DEF n
    <3>2. x \in Nat
      BY <3>1
    <3>3. slot(i) = root_hier_offset + x
      BY DEF n
    <3> HIDE DEF x, slot
    <3>4. QED
      BY <1>3, <3>2, <3>3
  <2> HIDE DEF slot, written
  <2>3. DOMAIN written \subseteq Nat
    BY <2>1, <2>2
  <2>4. IsPlaced(file.at)
    BY <1>3 DEF IsLayout
  <2>5. QED
    BY <2>1, <2>3, <2>4, AddedKeeps
<1>9. IsPlaced(at)
  <2> DEFINE was == Added(file.at, written)
             p == Position
  <2> HIDE DEF was, after, p
  <2>1. \A o \in DOMAIN LaidOut(after, p, "evlr") :
          /\ o \in Nat
          /\ \E r \in AnyRecord : LaidOut(after, p, "evlr")[o] = [form |-> "evlr", record |-> r]
    <3>1. p \in Nat
      BY <1>6 DEF p
    <3> DEFINE R == AnyRecord
    <3> HIDE DEF R
    <3>2. after \in Seq(R) /\ \A r \in R : r.bytes \in Nat
      BY <1>7 DEF R
    <3>3. QED
      BY <3>1, <3>2, LaidOutRecords DEF R
  <2>2. laid = LaidOut(after, p, "evlr")
    BY DEF p
  <2> HIDE DEF laid
  <2>3. /\ DOMAIN laid \subseteq Nat
        /\ \A o \in DOMAIN laid : laid[o].record \in AnyRecord
    <3>1. ASSUME NEW o \in DOMAIN laid PROVE o \in Nat /\ laid[o].record \in AnyRecord
      <4>1. PICK r \in AnyRecord : laid[o] = [form |-> "evlr", record |-> r]
        BY <2>1, <2>2
      <4>2. laid[o].record = r
        BY <4>1
      <4>3. QED
        BY <2>1, <2>2, <4>2
    <3>2. QED
      BY <3>1
  <2>4. IsPlaced(Added(was, laid))
    <3>1. IsPlaced(was)
      BY <1>8 DEF was
    <3>2. QED
      BY <2>3, <3>1, AddedKeeps
  <2>5. QED
    BY <2>4 DEF was
<1>10. IsLayout(file')
  <2> DEFINE p == Position
             x == StorageBytes(after, "evlr")
  <2>1. x \in Nat
    <3> HIDE DEF after
    <3>1. QED
      BY <1>7, StorageConcat
  <2>2. p \in Nat /\ p > LasHeaderBytes /\ LasHeaderBytes \in Nat
    BY <1>3, <1>6 DEF LasHeaderBytes
  <2>3. end = p + x
    OBVIOUS
  <2> HIDE DEF p, x, end
  <2>4. end \in Nat /\ end > LasHeaderBytes
    BY <2>1, <2>2, <2>3
  <2>5. file' = [len |-> end, at |-> at]
    BY <1>1 DEF end
  <2> HIDE DEF at
  <2>6. file'.len = end /\ file'.at = at
    BY <2>5
  <2>7. QED
    BY <1>9, <2>4, <2>5, <2>6 DEF IsLayout
<1>11. WriterInv'
  <2>1. phase' \notin {"metadata", "head", "chunks", "damaged", "plan", "assign", "write", "records"}
    BY <1>1
  <2>2. QED
    BY <1>1, <1>2, <1>3, <1>10, <2>1 DEF WriterInv
<1>12. WriteInv'
  BY <1>1 DEF WriteInv
<1>13. QED
  BY <1>4, <1>11, <1>12 DEF LayoutInv

\* The COPC info and the header are patched.
LEMMA PatchStep == ASSUME LayoutInv, Patch PROVE LayoutInv'
<1> DEFINE h == LasHeaderBytes
           info == InfoRecord(root_hier_offset, ranges[Root][2])
           start == HierarchyEvlrStart
<1>1. /\ phase = "patch" /\ phase' = "done"
      /\ entries' = entries /\ root_hier_offset' = root_hier_offset
      /\ pages' = pages /\ ranges' = ranges /\ body' = body
      /\ job' = job /\ metadata' = metadata
      /\ file' = [file EXCEPT !.at[h].record = info, !.at[0].offset_to_first_evlr = start]
  BY DEF Patch, pageVars, pageInput
<1>2. phase \in Planning /\ phase \in Placing /\ phase # "assign"
      /\ phase' \in Planning /\ phase' \in Placing /\ phase' # "assign"
  BY <1>1 DEF Planning, Placing
<1>3. /\ job \in Jobs /\ IsMetadata(metadata) /\ IsLayout(file)
      /\ root_hier_offset \in Nat /\ root_hier_offset > LasHeaderBytes
  BY <1>1, <1>2 DEF LayoutInv, WriterInv
<1>4. PlanInv' /\ RangesInv' /\ AssignInv'
  BY <1>1, <1>2, PlacedStays
<1>5. info \in AnyRecord
  <2> DEFINE o == root_hier_offset
             n == ranges[Root][2]
  <2>1. o \in Nat /\ n \in Nat
    BY <1>2, <1>3 DEF LayoutInv, RangesInv
  <2>2. info = InfoRecord(o, n)
    OBVIOUS
  <2> HIDE DEF o, n, info
  <2>3. QED
    BY <2>1, <2>2, OutRecordsAreRecords
<1>6. start \in Nat
  BY <1>3 DEF HierarchyEvlrStart, HeaderBytes, LasHeaderBytes
<1>7. h \in Nat /\ h # 0
  BY DEF LasHeaderBytes
<1> DEFINE at == file.at
           vlr == [at[h] EXCEPT !.record = info]
           header == [at[0] EXCEPT !.offset_to_first_evlr = start]
           new == [[at EXCEPT ![h] = vlr] EXCEPT ![0] = header]
<1>8. IsPlaced(at) /\ file = [len |-> file.len, at |-> at]
      /\ file.len \in Nat /\ file.len > LasHeaderBytes
  BY <1>3 DEF IsLayout
<1> HIDE DEF info, start, h
<1>9. file' = [len |-> file.len, at |-> new]
  BY <1>1, <1>7, <1>8
<1>10. IsPlaced(new)
  <2>1. header \in HeaderRecord /\ header.form = "header"
    <3>1. at[0] \in HeaderRecord
      BY <1>8 DEF IsPlaced
    <3> HIDE DEF at
    <3>2. QED
      BY <1>6, <3>1 DEF HeaderRecord
  <2>2. vlr \in VlrRecord /\ vlr.record = info
    <3>1. PICK r \in AnyRecord : at[h] = [form |-> "vlr", record |-> r]
      BY <1>8 DEF IsPlaced, VlrRecord, h
    <3> HIDE DEF at
    <3>2. vlr = [form |-> "vlr", record |-> info]
      BY <3>1
    <3>3. QED
      BY <1>5, <3>2 DEF VlrRecord
  <2> HIDE DEF header, vlr, at
  <2>3. DOMAIN new = DOMAIN at /\ 0 \in DOMAIN at /\ h \in DOMAIN at
    BY <1>8 DEF IsPlaced, h
  <2>4. new[0] = header /\ new[h] = vlr
        /\ \A o \in DOMAIN at : o # 0 /\ o # h => new[o] = at[o]
    BY <1>7, <2>3
  <2> HIDE DEF new
  <2>5. \A o \in DOMAIN new : new[o].form \in {"vlr", "evlr"} => new[o].record \in AnyRecord
    <3>1. \A o \in DOMAIN at : at[o].form \in {"vlr", "evlr"} => at[o].record \in AnyRecord
      BY <1>8 DEF IsPlaced
    <3>2. QED
      BY <1>5, <2>1, <2>2, <2>3, <2>4, <3>1
  <2>6. DOMAIN at \subseteq Nat
    BY <1>8 DEF IsPlaced
  <2>7. QED
    BY <2>1, <2>2, <2>3, <2>4, <2>5, <2>6 DEF IsPlaced, h
<1>11. IsLayout(file')
  <2> HIDE DEF new
  <2>1. file'.len = file.len /\ file'.at = new
    BY <1>9
  <2>2. QED
    BY <1>8, <1>9, <1>10, <2>1 DEF IsLayout
<1>12. WriterInv'
  <2>1. phase' \notin {"metadata", "head", "chunks", "damaged", "plan", "assign", "write", "records"}
    BY <1>1
  <2>2. QED
    BY <1>1, <1>2, <1>3, <1>11, <2>1 DEF WriterInv
<1>13. WriteInv'
  BY <1>1 DEF WriteInv
<1>14. QED
  BY <1>4, <1>12, <1>13 DEF LayoutInv

\* The places of a new file, worked out in three ways and by two walks over
\* the page tree, fit together at every step of write_copc_inner.
THEOREM LayoutInvariance == Spec => []LayoutInv
<1>1. Init => LayoutInv
  BY InitStep
<1>2. LayoutInv /\ [Next]_vars => LayoutInv'
  <2> SUFFICES ASSUME LayoutInv, [Next]_vars PROVE LayoutInv'
    OBVIOUS
  <2>1. CASE ReadMetadata
    BY <2>1, ReadMetadataStep
  <2>2. CASE WriteHead
    BY <2>2, WriteHeadStep
  <2>3. CASE WriteChunks
    BY <2>3, WriteChunksStep
  <2>4. CASE WritePages
    <3>1. UNCHANGED <<job, metadata, file>>
      BY <2>4 DEF WritePages
    <3>2. CASE PlanLeaf \/ PlanSplit
      BY <3>1, <3>2, PlanStep
    <3>3. CASE AssignPage
      BY <3>1, <3>3, AssignStep
    <3>4. CASE WritePage
      BY <3>1, <3>4, WritePageStep
    <3>5. CASE EndWrite
      BY <3>1, <3>5, EndWriteStep
    <3>6. QED
      BY <2>4, <3>2, <3>3, <3>4, <3>5 DEF WritePages, PageStep
  <2>5. CASE WriteEvlrHeader
    BY <2>5, WriteEvlrHeaderStep
  <2>6. CASE WriteRecords
    BY <2>6, WriteRecordsStep
  <2>7. CASE Patch
    BY <2>7, PatchStep
  <2>8. CASE Fail
    BY <2>8, FailStep
  <2>9. CASE Damage
    BY <2>9, DamageStep
  <2>10. CASE UNCHANGED vars
    <3>1. /\ job' = job /\ metadata' = metadata /\ file' = file /\ phase' = phase
          /\ entries' = entries /\ root_hier_offset' = root_hier_offset /\ pages' = pages
          /\ ranges' = ranges /\ next' = next /\ body' = body /\ work' = work
      BY <2>10 DEF vars, pageVars, pageInput
    <3>2. WriterInv'
      BY <3>1 DEF LayoutInv, WriterInv
    <3>3. Known' = Known
      BY <3>1 DEF Known, ToPlan
    <3>4. PlanInv'
      BY <3>1, <3>3 DEF LayoutInv, PlanInv
    <3>5. RangesInv'
      BY <3>1 DEF LayoutInv, RangesInv
    <3>6. Stops' = Stops
      BY <3>1 DEF Stops
    <3>7. AssignInv'
      BY <3>1, <3>6 DEF LayoutInv, AssignInv
    <3>8. WriteInv'
      BY <3>1, <3>6 DEF LayoutInv, WriteInv
    <3>9. QED
      BY <3>2, <3>4, <3>5, <3>7, <3>8 DEF LayoutInv
  <2>11. QED
    BY <2>1, <2>2, <2>3, <2>4, <2>5, <2>6, <2>7, <2>8, <2>9, <2>10 DEF Next
<1>3. QED
  BY <1>1, <1>2, PTL DEF Spec

\* The writer is never where it did not expect to be: the VLRs end where the
\* header says, the root page is behind the EVLR header, every page of the
\* tree is written at the offset its parent's entry has, and no node is
\* outside the octants of its page.
THEOREM NeverRefusedHolds == Spec => []NeverRefused
<1>1. LayoutInv => NeverRefused
  <2>1. "refused" \notin {"metadata", "rejected", "head", "chunks", "plan", "failed", "damaged"}
                          \cup Placing
    BY DEF Placing
  <2>2. QED
    BY <2>1 DEF LayoutInv, WriterInv, NeverRefused
<1>2. QED
  BY <1>1, LayoutInvariance, PTL

\* No page of the finished plan has more entries than the limit, and only a
\* page that would have had too many is split.
THEOREM PagesWithinLimitHolds == Spec => []PagesWithinLimit
<1>1. LayoutInv => PagesWithinLimit
  <2> SUFFICES ASSUME LayoutInv, phase = "done", NEW k \in DOMAIN pages
               PROVE  /\ Len(pages[k]) <= PageMaxEntries
                      /\ ChildPages(k) # <<>> => Len(Subtree(entries, k)) > PageMaxEntries
    BY DEF PagesWithinLimit
  <2>1. IsPage(pages[k], k, entries, Known)
    BY DEF LayoutInv, PlanInv, Planning
  <2>2. ChildPages(k) = ChildKeys(pages[k])
    BY ChildPagesAre
  <2>3. QED
    BY <2>1, <2>2 DEF IsPage
<1>2. QED
  BY <1>1, LayoutInvariance, PTL

-----------------------------------------------------------------------------
(***************************************************************************)
(* Reading records one after the other.                                    *)
(***************************************************************************)
\* One more header read.
FoundRound(f, from, form, end, found, n) ==
  IF n = 0 THEN <<from>>
  ELSE IF found[n - 1] # <<>> /\ RecordIn(f, Last(found[n - 1]), form, end)
    THEN Append(found[n - 1], RecordEnd(f, Last(found[n - 1]), form))
  ELSE <<>>

\* What has been found after each record.
FoundUpTo(f, from, count, form, end) ==
  CHOOSE found : found = [n \in 0..count |-> FoundRound(f, from, form, end, found, n)]

\* A walk is what is found in its last round.
LEMMA WalkIsLast ==
  ASSUME NEW f, NEW from, NEW count, NEW form, NEW end
  PROVE  Walk(f, from, count, form, end) = FoundUpTo(f, from, count, form, end)[count]
BY DEF Walk, FoundUpTo, FoundRound

\* A record read ends at an offset.
LEMMA RecordEnds ==
  ASSUME NEW f, UnsignedFields(f), NEW o, NEW form \in {"vlr", "evlr"}, NEW end,
         RecordIn(f, o, form, end)
  PROVE  o \in Nat /\ f.at[o].record.bytes \in Nat /\ RecordEnd(f, o, form) \in Nat
<1>1. o \in DOMAIN f.at /\ f.at[o].form = form
  BY DEF RecordIn
<1>2. o \in Nat /\ UnsignedRecord(f.at[o].record)
  BY <1>1 DEF UnsignedFields
<1>3. f.at[o].record.bytes \in Nat
  BY <1>2 DEF UnsignedRecord
<1> DEFINE n == f.at[o].record.bytes
<1>4. RecordEnd(f, o, form) = o + HeaderBytes(form) + n /\ HeaderBytes(form) \in Nat
  BY DEF RecordEnd, HeaderBytes
<1> HIDE DEF n
<1>5. QED
  BY <1>2, <1>3, <1>4 DEF n

\* What each round of a walk gives.
LEMMA FoundSteps ==
  ASSUME NEW f, UnsignedFields(f), NEW from \in Nat, NEW count \in Nat,
         NEW form \in {"vlr", "evlr"}, NEW end
  PROVE  /\ FoundUpTo(f, from, count, form, end) \in [0..count -> Seq(Nat)]
         /\ FoundUpTo(f, from, count, form, end)[0] = <<from>>
         /\ \A n \in 1..count :
              FoundUpTo(f, from, count, form, end)[n] =
                LET was == FoundUpTo(f, from, count, form, end)[n - 1]
                IN  IF was # <<>> /\ RecordIn(f, Last(was), form, end)
                      THEN Append(was, RecordEnd(f, Last(was), form)) ELSE <<>>
<1> DEFINE V == Seq(Nat)
           more(s) == IF s # <<>> /\ RecordIn(f, Last(s), form, end)
                        THEN Append(s, RecordEnd(f, Last(s), form)) ELSE <<>>
           step == [s \in V |-> more(s)]
           round == [i \in 1..count |-> step]
           eqn(g) == g = [n \in 0..count |-> FoundRound(f, from, form, end, g, n)]
           it == FoundUpTo(f, from, count, form, end)
           base == <<from>>
<1>1. base \in V /\ <<>> \in V
  OBVIOUS
<1>2. \A s \in V : more(s) \in V
  <2>1. ASSUME NEW s \in V, s # <<>>, RecordIn(f, Last(s), form, end)
        PROVE  Append(s, RecordEnd(f, Last(s), form)) \in V
    <3>1. RecordEnd(f, Last(s), form) \in Nat
      BY <2>1, RecordEnds
    <3>2. QED
      BY <3>1, AppendProperties
  <2>2. QED
    BY <1>1, <2>1
<1> HIDE DEF V, base
<1>3. round \in [1..count -> [V -> V]]
  <2> HIDE DEF more
  <2>1. step \in [V -> V]
    BY <1>2
  <2> HIDE DEF step
  <2>2. QED
    BY <2>1
<1>4. \A i \in 1..count : \A s \in V : round[i][s] = more(s)
  <2> HIDE DEF more
  <2>1. QED
    OBVIOUS
<1> HIDE DEF round, more
<1>5. PICK g \in [0..count -> V] : g[0] = base /\ \A i \in 1..count : g[i] = round[i][g[i - 1]]
  <2>1. \E g : RunOf(g, V, count, base, round)
    BY <1>1, <1>3, Recursion
  <2>2. QED
    BY <2>1 DEF RunOf
<1>6. \E h : eqn(h)
  <2>1. ASSUME NEW n \in 0..count PROVE g[n] = FoundRound(f, from, form, end, g, n)
    <3>1. CASE n = 0
      BY <1>5, <3>1 DEF FoundRound, base
    <3>2. CASE n # 0
      <4>1. n \in 1..count /\ g[n - 1] \in V
        BY <3>2
      <4>2. g[n] = more(g[n - 1])
        BY <1>4, <1>5, <4>1
      <4>3. QED
        BY <3>2, <4>1, <4>2 DEF FoundRound, more
    <3>3. QED
      BY <3>1, <3>2
  <2>2. eqn(g)
    BY <2>1
  <2>3. QED
    BY <2>2
<1>7. eqn(it)
  <2>1. it = CHOOSE h : eqn(h)
    BY DEF FoundUpTo
  <2> HIDE DEF it, eqn
  <2>2. QED
    BY <1>6, <2>1
<1> HIDE DEF it
<1>8. \A n \in 0..count : it[n] = FoundRound(f, from, form, end, it, n)
  BY <1>7
<1>9. it[0] = base
  <2>1. 0 \in 0..count
    OBVIOUS
  <2>2. it[0] = FoundRound(f, from, form, end, it, 0)
    BY <1>8, <2>1
  <2>3. QED
    BY <2>2, Zenon DEF FoundRound, base
<1>10. ASSUME NEW n \in 1..count PROVE it[n] = more(it[n - 1])
  <2>1. n \in 0..count /\ n # 0
    OBVIOUS
  <2>2. it[n] = FoundRound(f, from, form, end, it, n)
    BY <1>8, <2>1
  <2>3. QED
    BY <2>1, <2>2, Zenon DEF FoundRound, more
<1>11. \A n \in 0..count : it[n] \in V
  <2> DEFINE F == {n \in 0..count : it[n] \in V}
  <2>1. 0 \in F
    BY <1>1, <1>9
  <2>2. ASSUME NEW n \in (0 + 1)..count, n - 1 \in F PROVE n \in F
    <3>1. n \in 1..count /\ n \in 0..count /\ it[n - 1] \in V
      BY <2>2
    <3>2. it[n] = more(it[n - 1])
      BY <1>10, <3>1
    <3>3. QED
      BY <1>2, <3>1, <3>2
  <2>3. 0 \in Int /\ count \in Int
    OBVIOUS
  <2> HIDE DEF F
  <2>4. 0..count \subseteq F
    BY <2>1, <2>2, <2>3, CountUp
  <2>5. QED
    BY <2>4 DEF F
<1>12. it \in [0..count -> V]
  <2>1. it = [n \in 0..count |-> it[n]]
    BY <1>7
  <2>2. QED
    BY <1>11, <2>1
<1>13. QED
  BY <1>9, <1>10, <1>12 DEF it, base, V, more

\* The headers a walk has found.
IsWalk(f, walk, from, count, form, end) ==
  /\ walk \in Seq(Nat) /\ Len(walk) = count + 1 /\ walk[1] = from
  /\ \A i \in 1..count :
       RecordIn(f, walk[i], form, end) /\ walk[i + 1] = RecordEnd(f, walk[i], form)

\* A walk that does not fail finds a record at each of its stops.
LEMMA WalkFinds ==
  ASSUME NEW f, UnsignedFields(f), NEW from \in Nat, NEW count \in Nat,
         NEW form \in {"vlr", "evlr"}, NEW end, Walk(f, from, count, form, end) # <<>>
  PROVE  IsWalk(f, Walk(f, from, count, form, end), from, count, form, end)
<1> DEFINE it == FoundUpTo(f, from, count, form, end)
           F == {n \in 0..count : it[n] = <<>> \/ IsWalk(f, it[n], from, n, form, end)}
<1>1. /\ it \in [0..count -> Seq(Nat)] /\ it[0] = <<from>>
      /\ \A n \in 1..count :
           it[n] = IF it[n - 1] # <<>> /\ RecordIn(f, Last(it[n - 1]), form, end)
                     THEN Append(it[n - 1], RecordEnd(f, Last(it[n - 1]), form)) ELSE <<>>
  BY FoundSteps
<1> HIDE DEF it
<1>2. 0 \in F
  <2>1. <<from>> \in Seq(Nat) /\ Len(<<from>>) = 0 + 1 /\ <<from>>[1] = from /\ 1..0 = {}
    OBVIOUS
  <2>2. IsWalk(f, <<from>>, from, 0, form, end)
    BY <2>1, Zenon DEF IsWalk
  <2>3. 0 \in 0..count
    OBVIOUS
  <2>4. IsWalk(f, it[0], from, 0, form, end)
    BY <1>1, <2>2, Zenon
  <2>5. QED
    BY <2>3, <2>4
<1>3. ASSUME NEW n \in (0 + 1)..count, n - 1 \in F PROVE n \in F
  <2> DEFINE was == it[n - 1]
             o == Last(was)
             next_o == RecordEnd(f, o, form)
  <2>1. n \in 1..count /\ n \in 0..count /\ n - 1 \in 0..count /\ n \in Nat /\ was \in Seq(Nat)
    BY <1>1
  <2>2. SUFFICES ASSUME it[n] # <<>> PROVE IsWalk(f, it[n], from, n, form, end)
    BY <2>1
  <2>3. was # <<>> /\ RecordIn(f, o, form, end) /\ it[n] = Append(was, next_o)
    BY <1>1, <2>1, <2>2
  <2>4. IsWalk(f, was, from, n - 1, form, end)
    BY <1>3, <2>3
  <2>5. next_o \in Nat
    BY <2>3, RecordEnds
  <2> HIDE DEF was, next_o
  <2>6. /\ Len(was) = n /\ was[1] = from /\ o = was[n]
        /\ \A i \in 1..(n - 1) :
             RecordIn(f, was[i], form, end) /\ was[i + 1] = RecordEnd(f, was[i], form)
    BY <2>1, <2>4 DEF IsWalk, Last
  <2>7. /\ Append(was, next_o) \in Seq(Nat) /\ Len(Append(was, next_o)) = n + 1
        /\ \A i \in 1..n : Append(was, next_o)[i] = was[i]
        /\ Append(was, next_o)[n + 1] = next_o
    BY <2>1, <2>5, <2>6, AppendProperties
  <2>8. \A i \in 1..n : i \in 1..(n - 1) \/ i = n
    BY <2>1
  <2>9. \A i \in 1..n : RecordIn(f, was[i], form, end)
    BY <2>3, <2>6, <2>8
  <2>10. \A i \in 1..n : Append(was, next_o)[i + 1] = RecordEnd(f, was[i], form)
    <3>1. \A i \in 1..(n - 1) : i + 1 \in 1..n
      BY <2>1
    <3>2. \A i \in 1..(n - 1) : Append(was, next_o)[i + 1] = RecordEnd(f, was[i], form)
      BY <2>6, <2>7, <3>1
    <3>3. Append(was, next_o)[n + 1] = RecordEnd(f, was[n], form)
      BY <2>6, <2>7 DEF next_o
    <3>4. QED
      BY <2>8, <3>2, <3>3
  <2>11. 1 \in 1..n
    BY <2>1
  <2>12. QED
    BY <2>3, <2>6, <2>7, <2>9, <2>10, <2>11 DEF IsWalk
<1>4. count \in F
  <2>1. 0 \in Int /\ count \in Int /\ count \in 0..count
    OBVIOUS
  <2> HIDE DEF F
  <2>2. 0..count \subseteq F
    BY <1>2, <1>3, <2>1, CountUp
  <2>3. QED
    BY <2>1, <2>2
<1>5. Walk(f, from, count, form, end) = it[count]
  BY WalkIsLast DEF it
<1>6. QED
  BY <1>4, <1>5

\* What a reader knows of the VLRs once it has read them: the first is the
\* COPC info, and it is valid.
LEMMA InfoRead ==
  ASSUME NEW f, UnsignedFields(f), VlrsRead(f)
  PROVE  /\ ValidInfo(Info(f)) /\ Info(f).root_hier_size \in Nat /\ Info(f).root_hier_offset \in Nat
<1> DEFINE vlrs == RecordsAt(f, Vlrs(f))
           walk == Vlrs(f)
           count == Header(f).number_of_vlrs
           h == LasHeaderBytes
<1>1. /\ walk # <<>> /\ Len(OfKind(vlrs, "copc info")) = 1 /\ vlrs[1].kind = "copc info"
      /\ ValidInfo(vlrs[1].data)
  BY DEF VlrsRead
<1>2. h \in Nat /\ count \in Nat
  BY DEF LasHeaderBytes, UnsignedFields
<1>3. IsWalk(f, walk, h, count, "vlr", Header(f).offset_to_point_data)
  <2> DEFINE end == Header(f).offset_to_point_data
  <2>1. walk = Walk(f, h, count, "vlr", end)
    BY DEF Vlrs
  <2> HIDE DEF walk, h, count, end
  <2>2. QED
    BY <1>1, <1>2, <2>1, WalkFinds DEF end
<1>4. vlrs = [i \in 1..count |-> f.at[walk[i]].record]
  <2>1. vlrs = [i \in 1..Len(walk) - 1 |-> f.at[walk[i]].record]
    BY DEF RecordsAt
  <2> HIDE DEF walk, count, vlrs
  <2>2. Len(walk) - 1 = count
    BY <1>2, <1>3 DEF IsWalk
  <2>3. QED
    BY <2>1, <2>2
<1> HIDE DEF walk, count, vlrs
<1>5. count >= 1
  <2>1. CASE count = 0
    <3>1. vlrs = <<>>
      BY <1>4, <2>1
    <3>2. OfKind(<<>>, "copc info") = <<>>
      <4> DEFINE S == {r \in Range(<<>>) : r.kind = "copc info"}
                 list == <<>>
      <4>1. OfKind(<<>>, "copc info") = Those(list, S)
        BY DEF OfKind
      <4>2. list \in Seq(Nat) /\ Len(list) = 0
        OBVIOUS
      <4> HIDE DEF S, list
      <4>3. Those(list, S) \in Seq(Nat) /\ Len(Those(list, S)) \in Nat /\ Len(Those(list, S)) <= 0
        BY <4>2, ThoseElements
      <4>4. Those(list, S) = <<>>
        BY <4>3, EmptySeq
      <4>5. QED
        BY <4>1, <4>4
    <3>3. Len(<<>>) = 0
      OBVIOUS
    <3> DEFINE n == Len(OfKind(vlrs, "copc info"))
    <3>4. n = 0
      BY <3>1, <3>2, <3>3, Zenon
    <3>5. n = 1
      BY <1>1
    <3> HIDE DEF n
    <3>6. QED
      BY <3>4, <3>5
  <2>2. QED
    BY <1>2, <2>1
<1>6. walk[1] = h /\ RecordIn(f, h, "vlr", Header(f).offset_to_point_data)
  BY <1>2, <1>3, <1>5 DEF IsWalk
<1>7. vlrs[1] = f.at[h].record
  BY <1>2, <1>4, <1>5, <1>6
<1>8. UnsignedRecord(f.at[h].record)
  BY <1>6 DEF RecordIn, UnsignedFields
<1>9. Info(f) = vlrs[1].data
  BY <1>7 DEF Info
<1>10. QED
  BY <1>1, <1>7, <1>8, <1>9 DEF UnsignedRecord

\* The hierarchy EVLR that a walk finds first.
LEMMA FirstHierarchyEvlr ==
  ASSUME NEW f, UnsignedFields(f), Evlrs(f) # <<>>, HierarchyEvlrs(f) # <<>>
  PROVE  /\ RecordIn(f, Head(HierarchyEvlrs(f)), "evlr", f.len)
         /\ f.at[Head(HierarchyEvlrs(f))].record.kind = "copc hierarchy"
<1> DEFINE walk == Evlrs(f)
           offsets == Front(walk)
           S == {o \in Range(offsets) : f.at[o].record.kind = "copc hierarchy"}
           found == Those(offsets, S)
           from == Header(f).offset_to_first_evlr
           count == Header(f).number_of_evlrs
<1>1. HierarchyEvlrs(f) = found
  BY DEF HierarchyEvlrs
<1>2. from \in Nat /\ count \in Nat
  BY DEF UnsignedFields
<1>3. ASSUME offsets \in Seq(Nat)
      PROVE  /\ Head(found) \in Range(offsets) /\ f.at[Head(found)].record.kind = "copc hierarchy"
  <2> HIDE DEF offsets
  <2>1. S \subseteq Range(offsets) /\ \A o \in S : f.at[o].record.kind = "copc hierarchy"
    OBVIOUS
  <2> HIDE DEF S
  <2>2. found \in Seq(Nat) /\ Range(found) = Range(offsets) \cap S
    BY <1>3, ThoseElements
  <2>3. found # <<>>
    BY <1>1
  <2> HIDE DEF found
  <2>4. Head(found) = found[1] /\ 1 \in DOMAIN found
    BY <2>2, <2>3, HeadTailProperties, LenProperties, EmptySeq
  <2>5. Head(found) \in Range(found)
    BY <2>4 DEF Range
  <2>6. QED
    BY <2>1, <2>2, <2>5
<1>4. from # 0
  <2> SUFFICES ASSUME from = 0 PROVE FALSE
    OBVIOUS
  <2>1. walk = <<0>>
    BY DEF Evlrs
  <2>2. offsets = <<>>
    <3>1. Len(<<0>>) - 1 = 0
      OBVIOUS
    <3>2. SubSeq(<<0>>, 1, 0) = <<>>
      BY SubSeqEmpty
    <3>3. Front(<<0>>) = <<>>
      BY <3>1, <3>2, Zenon DEF Front
    <3> HIDE DEF walk
    <3>4. QED
      BY <2>1, <3>3, Zenon
  <2>3. offsets \in Seq(Nat) /\ Range(offsets) = {}
    <3>1. <<>> \in Seq(Nat) /\ Range(<<>>) = {}
      BY RangeEmpty
    <3> HIDE DEF offsets
    <3>2. QED
      BY <2>2, <3>1, Zenon
  <2>4. QED
    BY <1>3, <2>3
<1>5. IsWalk(f, walk, from, count, "evlr", f.len)
  <2>1. walk = Walk(f, from, count, "evlr", f.len)
    BY <1>4 DEF Evlrs
  <2> HIDE DEF walk, from, count
  <2>2. walk # <<>>
    BY DEF walk
  <2>3. QED
    BY <1>2, <2>1, <2>2, WalkFinds
<1>6. offsets \in Seq(Nat) /\ Range(offsets) = {walk[i] : i \in 1..count}
  <2> HIDE DEF walk, count
  <2>1. walk \in Seq(Nat) /\ Len(walk) - 1 = count /\ count <= Len(walk)
    BY <1>2, <1>5 DEF IsWalk
  <2>2. offsets = SubSeq(walk, 1, count)
    BY <2>1 DEF Front
  <2>3. 1 \in Int /\ count \in Int
    BY <1>2
  <2>4. \A i \in 1..count : walk[i] \in Nat
    BY <2>1, <1>2, ElementOfSeq
  <2>5. /\ SubSeq(walk, 1, count) \in Seq(Nat)
        /\ Len(SubSeq(walk, 1, count)) = IF 1 <= count THEN count - 1 + 1 ELSE 0
        /\ \A i \in 1 .. count - 1 + 1 : SubSeq(walk, 1, count)[i] = walk[1 + i - 1]
    BY <2>3, <2>4, SubSeqProperties
  <2> HIDE DEF offsets
  <2>6. offsets \in Seq(Nat) /\ Len(offsets) = count
    BY <1>2, <2>2, <2>5
  <2>7. \A i \in 1..count : offsets[i] = walk[i]
    BY <1>2, <2>2, <2>5
  <2>8. DOMAIN offsets = 1..count
    BY <2>6, LenProperties
  <2>9. QED
    BY <2>6, <2>7, <2>8 DEF Range
<1> HIDE DEF offsets, walk, found, count
<1>7. Head(found) \in Range(offsets) /\ f.at[Head(found)].record.kind = "copc hierarchy"
  BY <1>3, <1>6
<1>8. PICK i \in 1..count : Head(found) = walk[i]
  BY <1>6, <1>7
<1>9. RecordIn(f, walk[i], "evlr", f.len)
  BY <1>5 DEF IsWalk
<1>10. QED
  BY <1>1, <1>7, <1>8, <1>9

\* A file whose COPC info is valid and whose hierarchy EVLR is in the file,
\* with the root page in it, has sections to start from.
LEMMA SectionsFound ==
  ASSUME NEW f, UnsignedFields(f), VlrsRead(f), SectionsOrdered(f), NEW o,
         RecordIn(f, o, "evlr", f.len), Info(f).root_hier_size <= f.at[o].record.bytes
  PROVE  ValidSections(FileView(f, o))
<1> DEFINE start == o + HeaderBytes("evlr")
           bytes == f.at[o].record.bytes
           size == Info(f).root_hier_size
           v == FileView(f, o)
<1>1. /\ size \in Nat /\ size # 0 /\ size % EntryBytes = 0 /\ size <= MaxPageBytes
  BY InfoRead DEF ValidInfo
<1>2. o \in Nat /\ bytes \in Nat
  BY RecordEnds
<1>3. start \in Nat
  BY <1>2 DEF HeaderBytes
<1>4. start + bytes <= f.len
  BY DEF RecordIn, RecordEnd
<1>5. /\ v.root_size = size /\ v.hierarchy_start = start /\ v.hierarchy_end = start + bytes
      /\ v.len = f.len /\ v.point_data_start = Header(f).offset_to_point_data
      /\ v.point_data_end = Header(f).offset_to_first_evlr
  BY DEF FileView
<1> HIDE DEF v, start, bytes, size
<1>6. size <= bytes
  BY DEF size, bytes
<1>7. size > 0 /\ start + size <= start + bytes
  BY <1>1, <1>2, <1>3, <1>6
<1>8. ValidSections(v)
  BY <1>1, <1>4, <1>5, <1>7 DEF ValidSections, SectionsOrdered
<1>9. QED
  BY <1>8 DEF v

\* A file that the seek-based reader opens.
LEMMA SeekAgrees ==
  ASSUME NEW f, UnsignedFields(f), SeekOpens(f)
  PROVE  /\ ValidSections(SeekView(f))
         /\ VlrSectionBytes(f) <= MaxVlrSectionBytes =>
              RangeOpens(f) /\ RangeView(f) = SeekView(f)
<1> DEFINE o == Head(HierarchyEvlrs(f))
<1>1. /\ HeaderReads(f) /\ VlrsRead(f) /\ Evlrs(f) # <<>> /\ HierarchyEvlrs(f) # <<>>
      /\ Info(f).root_hier_offset = o + HeaderBytes("evlr")
      /\ Info(f).root_hier_size <= f.at[o].record.bytes
      /\ SectionsOrdered(f)
  BY DEF SeekOpens
<1>2. RecordIn(f, o, "evlr", f.len) /\ f.at[o].record.kind = "copc hierarchy"
  BY <1>1, FirstHierarchyEvlr
<1>3. o \in Nat
  BY <1>2, RecordEnds
<1> HIDE DEF o
<1>4. RootEvlrOffset(f) = o
  BY <1>1, <1>3 DEF RootEvlrOffset, HeaderBytes
<1>5. RootEvlrReads(f)
  <2>1. o >= 0
    BY <1>3
  <2>2. QED
    BY <1>1, <1>2, <1>4, <2>1, Zenon DEF RootEvlrReads
<1>6. VlrSectionBytes(f) <= MaxVlrSectionBytes => RangeOpens(f)
  BY <1>1, <1>5 DEF RangeOpens
<1>7. RangeView(f) = SeekView(f)
  <2>1. SeekView(f) = FileView(f, o)
    BY DEF SeekView, o
  <2>2. RangeView(f) = FileView(f, RootEvlrOffset(f))
    BY DEF RangeView
  <2>3. QED
    BY <1>4, <2>1, <2>2
<1>8. ValidSections(SeekView(f))
  BY <1>1, <1>2, SectionsFound DEF SeekView, o
<1>9. QED
  BY <1>6, <1>7, <1>8

\* A file that the range reader opens.
LEMMA RangeAgrees ==
  ASSUME NEW f, UnsignedFields(f), RangeOpens(f) PROVE ValidSections(RangeView(f))
<1>1. /\ VlrsRead(f) /\ RootEvlrReads(f) /\ SectionsOrdered(f)
  BY DEF RangeOpens
<1>2. /\ RecordIn(f, RootEvlrOffset(f), "evlr", f.len)
      /\ Info(f).root_hier_size <= f.at[RootEvlrOffset(f)].record.bytes
  BY <1>1 DEF RootEvlrReads
<1>3. QED
  BY <1>1, <1>2, SectionsFound DEF RangeView

\* A file the seek-based reader opens, as written or with one thing changed,
\* the range reader opens with the same sections, and either has sections
\* that the models of the readers start from.
THEOREM ReadersAgreeHolds == Spec => []ReadersAgree
<1>1. LayoutInv => ReadersAgree
  <2> SUFFICES ASSUME LayoutInv, phase \in {"done", "damaged"}
               PROVE  /\ SeekOpens(file) =>
                           /\ ValidSections(SeekView(file))
                           /\ VlrSectionBytes(file) <= MaxVlrSectionBytes =>
                                RangeOpens(file) /\ RangeView(file) = SeekView(file)
                      /\ RangeOpens(file) => ValidSections(RangeView(file))
    BY DEF ReadersAgree
  <2>1. UnsignedFields(file)
    <3>1. CASE phase = "done"
      <4>1. IsLayout(file)
        BY <3>1 DEF LayoutInv, WriterInv, Planning
      <4>2. QED
        BY <4>1, LayoutFields
    <3>2. CASE phase = "damaged"
      BY <3>2 DEF LayoutInv, WriterInv
    <3>3. QED
      BY <3>1, <3>2
  <2>2. QED
    BY <2>1, SeekAgrees, RangeAgrees
<1>2. QED
  BY <1>1, LayoutInvariance, PTL

-----------------------------------------------------------------------------
(***************************************************************************)
(* AtomicOutput: the file under its name.                                  *)
(***************************************************************************)
\* What is certain about a file at each point of its writer.
FileInv ==
  \A w \in Writers :
    /\ synced[w] \subseteq content[w]
    /\ pc[w] = "start" => Range(todo[w]) = Complete
    /\ pc[w] = "write" => content[w] \cup buffer[w] \cup Range(todo[w]) = Complete
    /\ pc[w] \in {"start", "write"} => todo[w] # <<>>
    /\ pc[w] = "flush" => content[w] \cup buffer[w] = Complete
    /\ pc[w] = "sync" => content[w] = Complete
    /\ pc[w] \in {"rename", "syncdir", "ok"} => synced[w] = Complete

\* A file gets its name once, when it is complete and on disk.
EntryInv ==
  /\ entry[1] = Before
  /\ \A i \in 2..Len(entry) :
         /\ entry[i] \in Writers
         /\ synced[entry[i]] = Complete
         /\ pc[entry[i]] \in {"syncdir", "ok", "err", "gone"}
  /\ \A w \in Writers : pc[w] = "syncdir" => \E i \in 1..Len(entry) : entry[i] = w

IInv == TypeOK /\ FileInv /\ EntryInv /\ OkIsDurable

LEMMA SectionsType ==
  Sections \in Seq(Complete) /\ Range(Sections) = Complete /\ Sections # <<>>
<1>1. DOMAIN Sections = 1..4
  BY DEF Sections
<1>2. Complete = {Sections[1], Sections[2], Sections[3], Sections[4]}
  BY <1>1 DEF Complete
<1>3. /\ Sections[1] = "header and vlrs" /\ Sections[2] = "points"
      /\ Sections[3] = "hierarchy and evlrs" /\ Sections[4] = "patches"
  BY DEF Sections
<1>4. Sections \in Seq({"header and vlrs", "points", "hierarchy and evlrs", "patches"})
  BY DEF Sections
<1>5. Sections \in Seq(Complete)
  BY <1>2, <1>3, <1>4
<1>6. Range(Sections) = Complete
  BY DEF Range, Complete
<1>7. Sections # <<>>
  BY DEF Sections
<1>8. QED
  BY <1>5, <1>6, <1>7

\* Of the entries, as a set of positions.
LEMMA EntryType ==
  ASSUME TypeOK
  PROVE  /\ Len(entry) \in Nat /\ Len(entry) >= 1
         /\ DOMAIN entry = 1..Len(entry)
         /\ \A i \in 1..Len(entry) : entry[i] \in Writers \cup {Before}
  BY EmptySeq, LenProperties DEF TypeOK

LEMMA InitInv == OutputInit => IInv
<1> SUFFICES ASSUME OutputInit PROVE IInv
  OBVIOUS
<1>1. /\ <<Before>> \in Seq(Writers \cup {Before})
      /\ <<Before>> # <<>> /\ Len(<<Before>>) = 1 /\ <<Before>>[1] = Before
  OBVIOUS
<1>2. TypeOK
  BY <1>1, SectionsType, WritersAssumption DEF OutputInit, TypeOK
<1>3. FileInv
  BY SectionsType DEF OutputInit, FileInv
<1>4. EntryInv /\ OkIsDurable
  BY <1>1 DEF OutputInit, EntryInv, OkIsDurable
<1>5. QED
  BY <1>2, <1>3, <1>4 DEF IInv

\* The section a writer is at, and what is left after it.
LEMMA HeadOfTodo ==
  ASSUME IInv, NEW w \in Writers, pc[w] = "write"
  PROVE  /\ Head(todo[w]) \in Complete
         /\ Tail(todo[w]) \in Seq(Complete)
         /\ Range(todo[w]) = {Head(todo[w])} \cup Range(Tail(todo[w]))
         /\ Len(todo[w]) = 1 => Range(Tail(todo[w])) = {}
         /\ Len(todo[w]) # 1 => Tail(todo[w]) # <<>>
<1>1. todo[w] \in Seq(Complete) /\ todo[w] # <<>>
  BY DEF IInv, TypeOK, FileInv
<1>2. /\ Head(todo[w]) \in Complete /\ Tail(todo[w]) \in Seq(Complete)
      /\ Range(todo[w]) = {Head(todo[w])} \cup Range(Tail(todo[w]))
  BY <1>1, RangeTail
<1>3. Len(todo[w]) = 1 <=> Tail(todo[w]) = <<>>
  <2>1. Tail(todo[w]) \in Seq(Complete) /\ Len(Tail(todo[w])) = Len(todo[w]) - 1
    BY <1>1, HeadTailProperties
  <2>2. Len(todo[w]) \in Nat
    BY <1>1, LenProperties
  <2>3. Tail(todo[w]) = <<>> <=> Len(Tail(todo[w])) = 0
    BY <2>1, EmptySeq
  <2>4. QED
    BY <2>1, <2>2, <2>3
<1>4. Range(<<>>) = {}
  BY DEF Range
<1>5. QED
  BY <1>2, <1>3, <1>4

\* A rename adds one value, the last.
LEMMA RenameEntry ==
  ASSUME TypeOK, NEW w \in Writers
  PROVE  LET e == Append(entry, w) IN
         /\ e \in Seq(Writers \cup {Before}) /\ e # <<>>
         /\ Len(e) = Len(entry) + 1 /\ e[Len(entry) + 1] = w
         /\ \A i \in 1..Len(entry) : e[i] = entry[i]
<1>1. entry \in Seq(Writers \cup {Before}) /\ w \in Writers \cup {Before}
  BY DEF TypeOK
<1>2. QED
  BY <1>1, AppendProperties, EmptySeq

\* A power loss leaves the first values.
LEMMA LostEntry ==
  ASSUME TypeOK, NEW n \in durable..Len(entry)
  PROVE  LET e == SubSeq(entry, 1, n) IN
         /\ e \in Seq(Writers \cup {Before}) /\ e # <<>>
         /\ Len(e) = n /\ n \in Nat /\ n >= 1 /\ n <= Len(entry)
         /\ \A i \in 1..n : e[i] = entry[i]
<1>1. /\ entry \in Seq(Writers \cup {Before}) /\ Len(entry) \in Nat
      /\ n \in Int /\ 1 <= n /\ n <= Len(entry) /\ durable >= 1
  BY EntryType DEF TypeOK
<1>2. QED
  BY <1>1, SubSeqProperties, EmptySeq

LEMMA StepType == ASSUME IInv, [OutputNext]_outputVars PROVE TypeOK'
<1> USE DEF IInv, TypeOK
<1>1. ASSUME NEW w \in Writers, Create(w) PROVE TypeOK'
  BY <1>1 DEF Create
<1>2. ASSUME NEW w \in Writers, Write(w) PROVE TypeOK'
  <2>1. Head(todo[w]) \in Complete /\ Tail(todo[w]) \in Seq(Complete)
    BY <1>2, HeadOfTodo DEF Write
  <2>2. todo' \in [Writers -> Seq(Complete)] /\ pc' \in [Writers -> {"start", "write", "flush",
          "sync", "rename", "syncdir", "ok", "err", "gone"}]
    BY <1>2, <2>1 DEF Write
  <2>3. buffer' \in [Writers -> SUBSET Complete] /\ content' \in [Writers -> SUBSET Complete]
    <3> DEFINE pending == buffer[w] \cup {Head(todo[w])}
    <3>1. pending \in SUBSET Complete
      BY <2>1
    <3>2. \/ buffer' = [buffer EXCEPT ![w] = pending] /\ UNCHANGED content
          \/ /\ buffer' = [buffer EXCEPT ![w] = {}]
             /\ content' = [content EXCEPT ![w] = @ \cup pending]
      BY <1>2 DEF Write
    <3> HIDE DEF pending
    <3>3. QED
      BY <3>1, <3>2
  <2>4. QED
    BY <1>2, <2>2, <2>3 DEF Write
<1>3. ASSUME NEW w \in Writers, Flush(w) PROVE TypeOK'
  BY <1>3 DEF Flush
<1>4. ASSUME NEW w \in Writers, SyncFile(w) PROVE TypeOK'
  BY <1>4 DEF SyncFile
<1>5. ASSUME NEW w \in Writers, Rename(w) PROVE TypeOK'
  <2>1. /\ entry' \in Seq(Writers \cup {Before}) /\ entry' # <<>>
        /\ Len(entry') = Len(entry) + 1 /\ Len(entry) \in Nat
    BY <1>5, RenameEntry, EntryType DEF Rename
  <2>2. QED
    BY <1>5, <2>1 DEF Rename
<1>6. ASSUME NEW w \in Writers, SyncDirectory(w) PROVE TypeOK'
  BY <1>6, EntryType DEF SyncDirectory
<1>7. ASSUME NEW w \in Writers, WriterFails(w) PROVE TypeOK'
  BY <1>7 DEF WriterFails
<1>8. ASSUME NEW w \in Writers, Kill(w) PROVE TypeOK'
  BY <1>8 DEF Kill
<1>9. CASE PowerLoss
  <2>1. PICK n \in durable..Len(entry) :
          /\ entry' = SubSeq(entry, 1, n)
          /\ durable' = n
          /\ temp' = temp \cup {entry[i] : i \in (n + 1)..Len(entry)}
    BY <1>9 DEF PowerLoss
  <2>2. /\ entry' \in Seq(Writers \cup {Before}) /\ entry' # <<>>
        /\ Len(entry') = n /\ n \in Nat /\ n >= 1
    BY <2>1, LostEntry
  <2>3. temp' \subseteq Writers
    <3>1. \A i \in (n + 1)..Len(entry) : entry[i] \in Writers
      BY <2>1, LostEntry DEF EntryInv
    <3>2. QED
      BY <3>1, <2>1
  <2>4. durable' \in 1..Len(entry')
    BY <2>1, <2>2
  <2>5. /\ content' \in [Writers -> SUBSET Complete] /\ synced' = content'
        /\ buffer' \in [Writers -> SUBSET Complete] /\ todo' = todo
    BY <1>9 DEF PowerLoss
  <2>6. losses' \in 0..MaxLosses
    BY <1>9, WritersAssumption DEF PowerLoss
  <2>7. pc' = [w \in Writers |-> IF Running(w) /\ pc[w] # "start" THEN "gone" ELSE pc[w]]
    BY <1>9 DEF PowerLoss
  <2>8. pc' \in [Writers -> {"start", "write", "flush", "sync", "rename", "syncdir",
                          "ok", "err", "gone"}]
    BY <2>7
  <2>9. QED
    BY <2>2, <2>3, <2>4, <2>5, <2>6, <2>8
<1>10. CASE UNCHANGED outputVars
  BY <1>10 DEF outputVars
<1>11. QED
  BY <1>1, <1>2, <1>3, <1>4, <1>5, <1>6, <1>7, <1>8, <1>9, <1>10 DEF OutputNext

-----------------------------------------------------------------------------
LEMMA StepFile == ASSUME IInv, [OutputNext]_outputVars PROVE FileInv'
<1> USE DEF IInv, TypeOK, FileInv
<1>1. ASSUME NEW w \in Writers, Create(w) PROVE FileInv'
  BY <1>1 DEF Create
<1>2. ASSUME NEW w \in Writers, Write(w) PROVE FileInv'
  <2> DEFINE pending == buffer[w] \cup {Head(todo[w])}
  <2>1. /\ Range(todo[w]) = {Head(todo[w])} \cup Range(Tail(todo[w]))
        /\ Len(todo[w]) = 1 => Range(Tail(todo[w])) = {}
        /\ Len(todo[w]) # 1 => Tail(todo[w]) # <<>>
    BY <1>2, HeadOfTodo DEF Write
  <2>2. /\ todo'[w] = Tail(todo[w]) /\ synced' = synced
        /\ content[w] \subseteq content'[w]
        /\ content'[w] \cup buffer'[w] = content[w] \cup pending
    BY <1>2 DEF Write
  <2>3. /\ Len(todo[w]) = 1 => pc'[w] = "flush"
        /\ Len(todo[w]) # 1 => pc'[w] = "write"
    BY <1>2 DEF Write
  <2>4. \A v \in Writers : v # w =>
          /\ pc'[v] = pc[v] /\ todo'[v] = todo[v]
          /\ content'[v] = content[v] /\ buffer'[v] = buffer[v]
    BY <1>2 DEF Write
  <2>5. content[w] \cup buffer[w] \cup Range(todo[w]) = Complete
    BY <1>2 DEF Write
  <2> HIDE DEF TypeOK
  <2>6. content'[w] \cup buffer'[w] \cup Range(todo'[w]) = Complete
    BY <2>1, <2>2, <2>5
  <2>7. Len(todo[w]) = 1 => content'[w] \cup buffer'[w] = Complete
    BY <2>6, <2>1, <2>2
  <2>8. synced'[w] \subseteq content'[w]
    BY <2>2
  <2>9. todo[w] # <<>> /\ synced'[w] \subseteq content'[w]
    BY <1>2, <2>8 DEF Write
  <2>10. ASSUME NEW v \in Writers, v # w
         PROVE  /\ synced'[v] \subseteq content'[v]
                /\ pc'[v] = "start" => Range(todo'[v]) = Complete
                /\ pc'[v] = "write" => content'[v] \cup buffer'[v] \cup Range(todo'[v]) = Complete
                /\ pc'[v] \in {"start", "write"} => todo'[v] # <<>>
                /\ pc'[v] = "flush" => content'[v] \cup buffer'[v] = Complete
                /\ pc'[v] = "sync" => content'[v] = Complete
                /\ pc'[v] \in {"rename", "syncdir", "ok"} => synced'[v] = Complete
    BY <2>2, <2>4, <2>10
  <2>11. QED
    BY <2>1, <2>2, <2>3, <2>6, <2>7, <2>9, <2>10
<1>3. ASSUME NEW w \in Writers, Flush(w) PROVE FileInv'
  BY <1>3 DEF Flush
<1>4. ASSUME NEW w \in Writers, SyncFile(w) PROVE FileInv'
  BY <1>4 DEF SyncFile
<1>5. ASSUME NEW w \in Writers, Rename(w) PROVE FileInv'
  BY <1>5 DEF Rename
<1>6. ASSUME NEW w \in Writers, SyncDirectory(w) PROVE FileInv'
  BY <1>6 DEF SyncDirectory
<1>7. ASSUME NEW w \in Writers, WriterFails(w) PROVE FileInv'
  BY <1>7 DEF WriterFails
<1>8. ASSUME NEW w \in Writers, Kill(w) PROVE FileInv'
  BY <1>8 DEF Kill
<1>9. CASE PowerLoss
  <2>1. /\ content' \in [Writers -> SUBSET Complete]
        /\ \A w \in Writers : synced[w] \subseteq content'[w] /\ content'[w] \subseteq content[w]
        /\ synced' = content' /\ todo' = todo
    BY <1>9 DEF PowerLoss
  <2>2. \A w \in Writers :
          pc'[w] = IF Running(w) /\ pc[w] # "start" THEN "gone" ELSE pc[w]
    BY <1>9 DEF PowerLoss
  <2>3. ASSUME NEW w \in Writers
        PROVE  \/ pc'[w] = "gone"
               \/ pc'[w] = pc[w] /\ pc[w] \in {"start", "ok", "err"}
    BY <2>2 DEF Running
  <2>4. ASSUME NEW w \in Writers, pc[w] = "ok" PROVE synced'[w] = Complete
    <3>1. synced[w] = Complete
      BY <2>4
    <3>2. synced[w] \subseteq content'[w] /\ content'[w] \subseteq Complete
      BY <2>1
    <3>3. QED
      BY <3>1, <3>2, <2>1
  <2>5. QED
    BY <2>1, <2>3, <2>4
<1>10. CASE UNCHANGED outputVars
  BY <1>10 DEF outputVars
<1>11. QED
  BY <1>1, <1>2, <1>3, <1>4, <1>5, <1>6, <1>7, <1>8, <1>9, <1>10 DEF OutputNext

-----------------------------------------------------------------------------
\* A step that leaves the directory alone, changes the place of one writer
\* that has not renamed its file yet, or keeps it past the rename.
LEMMA SameEntry ==
  ASSUME IInv, NEW w \in Writers, entry' = entry, durable' = durable,
         \A v \in Writers : synced[v] = Complete => synced'[v] = Complete,
         \A v \in Writers \ {w} : pc'[v] = pc[v],
         pc[w] \in {"syncdir", "ok", "err", "gone"} => pc'[w] \in {"syncdir", "ok", "err", "gone"},
         pc'[w] = "syncdir" => pc[w] = "syncdir",
         pc'[w] = "ok" => pc[w] = "ok"
  PROVE  EntryInv' /\ OkIsDurable'
<1>1. \A v \in Writers :
        pc[v] \in {"syncdir", "ok", "err", "gone"} => pc'[v] \in {"syncdir", "ok", "err", "gone"}
  OBVIOUS
<1>2. \A v \in Writers : (pc'[v] = "syncdir" => pc[v] = "syncdir") /\ (pc'[v] = "ok" => pc[v] = "ok")
  OBVIOUS
<1>3. EntryInv'
  BY <1>1, <1>2 DEF IInv, EntryInv
<1>4. OkIsDurable'
  BY <1>2 DEF IInv, OkIsDurable
<1>5. QED
  BY <1>3, <1>4

LEMMA StepEntry == ASSUME IInv, [OutputNext]_outputVars PROVE EntryInv' /\ OkIsDurable'
<1> USE DEF IInv, TypeOK
<1>1. ASSUME NEW w \in Writers, Create(w) PROVE EntryInv' /\ OkIsDurable'
  BY <1>1, SameEntry DEF Create
<1>2. ASSUME NEW w \in Writers, Write(w) PROVE EntryInv' /\ OkIsDurable'
  <2>1. /\ entry' = entry /\ durable' = durable /\ synced' = synced
        /\ pc[w] = "write" /\ pc'[w] \in {"write", "flush"}
        /\ \A v \in Writers \ {w} : pc'[v] = pc[v]
    BY <1>2 DEF Write
  <2>2. QED
    BY <2>1, SameEntry
<1>3. ASSUME NEW w \in Writers, Flush(w) PROVE EntryInv' /\ OkIsDurable'
  BY <1>3, SameEntry DEF Flush
<1>4. ASSUME NEW w \in Writers, SyncFile(w) PROVE EntryInv' /\ OkIsDurable'
  <2>1. \A v \in Writers : synced[v] = Complete => synced'[v] = Complete
    BY <1>4 DEF SyncFile, FileInv
  <2>2. QED
    BY <1>4, <2>1, SameEntry DEF SyncFile
<1>5. ASSUME NEW w \in Writers, Rename(w) PROVE EntryInv' /\ OkIsDurable'
  <2>1. /\ Len(entry') = Len(entry) + 1 /\ entry'[Len(entry) + 1] = w
        /\ \A i \in 1..Len(entry) : entry'[i] = entry[i]
    BY <1>5, RenameEntry DEF Rename
  <2>2. /\ Len(entry) \in Nat /\ Len(entry) >= 1 /\ durable \in 1..Len(entry)
    BY EntryType
  <2>3. /\ synced[w] = Complete /\ pc'[w] = "syncdir" /\ pc[w] = "rename"
        /\ synced' = synced /\ durable' = durable
        /\ \A v \in Writers \ {w} : pc'[v] = pc[v]
    BY <1>5 DEF Rename, FileInv
  <2> HIDE DEF TypeOK
  <2>4. EntryInv'
    <3>1. ASSUME NEW i \in 2..Len(entry')
          PROVE  /\ entry'[i] \in Writers /\ synced'[entry'[i]] = Complete
                 /\ pc'[entry'[i]] \in {"syncdir", "ok", "err", "gone"}
      <4>1. CASE i = Len(entry) + 1
        BY <4>1, <2>1, <2>3
      <4>2. CASE i # Len(entry) + 1
        <5>1. i \in 2..Len(entry) /\ entry'[i] = entry[i]
          BY <4>2, <2>1, <2>2
        <5>2. QED
          BY <5>1, <2>3 DEF EntryInv
      <4>3. QED
        BY <4>1, <4>2
    <3>2. ASSUME NEW v \in Writers, pc'[v] = "syncdir"
          PROVE  \E i \in 1..Len(entry') : entry'[i] = v
      <4>1. CASE v = w
        BY <4>1, <2>1, <2>2
      <4>2. CASE v # w
        <5>1. PICK i \in 1..Len(entry) : entry[i] = v
          BY <4>2, <3>2, <2>3 DEF EntryInv
        <5>2. i \in 1..Len(entry') /\ entry'[i] = v
          BY <5>1, <2>1, <2>2
        <5>3. QED
          BY <5>2
      <4>3. QED
        BY <4>1, <4>2
    <3>3. entry'[1] = Before
      BY <2>1, <2>2 DEF EntryInv
    <3>4. QED
      BY <3>1, <3>2, <3>3 DEF EntryInv
  <2>5. OkIsDurable'
    <3>1. ASSUME NEW v \in Writers, pc'[v] = "ok" PROVE \E i \in 1..durable' : entry'[i] = v
      <4>1. PICK i \in 1..durable : entry[i] = v
        BY <3>1, <2>3 DEF OkIsDurable
      <4>2. QED
        BY <4>1, <2>1, <2>2, <2>3
    <3>2. QED
      BY <3>1 DEF OkIsDurable
  <2>6. QED
    BY <2>4, <2>5
<1>6. ASSUME NEW w \in Writers, SyncDirectory(w) PROVE EntryInv' /\ OkIsDurable'
  <2>1. /\ pc[w] = "syncdir" /\ pc'[w] = "ok" /\ durable' = Len(entry) /\ entry' = entry
        /\ synced' = synced /\ \A v \in Writers \ {w} : pc'[v] = pc[v]
    BY <1>6 DEF SyncDirectory
  <2>2. Len(entry) \in Nat /\ durable \in 1..Len(entry)
    BY EntryType
  <2> HIDE DEF TypeOK
  <2>3. EntryInv'
    BY <2>1 DEF EntryInv
  <2>4. ASSUME NEW v \in Writers, pc'[v] = "ok" PROVE \E i \in 1..durable' : entry'[i] = v
    <3>1. CASE v = w
      BY <3>1, <2>1 DEF EntryInv
    <3>2. CASE v # w
      <4>1. PICK i \in 1..durable : entry[i] = v
        BY <3>2, <2>4, <2>1 DEF OkIsDurable
      <4>2. QED
        BY <4>1, <2>1, <2>2
    <3>3. QED
      BY <3>1, <3>2
  <2>5. QED
    BY <2>3, <2>4 DEF OkIsDurable
<1>7. ASSUME NEW w \in Writers, WriterFails(w) PROVE EntryInv' /\ OkIsDurable'
  BY <1>7, SameEntry DEF WriterFails
<1>8. ASSUME NEW w \in Writers, Kill(w) PROVE EntryInv' /\ OkIsDurable'
  BY <1>8, SameEntry DEF Kill
<1>9. CASE PowerLoss
  <2>1. PICK n \in durable..Len(entry) : entry' = SubSeq(entry, 1, n) /\ durable' = n
    BY <1>9 DEF PowerLoss
  <2>2. /\ Len(entry') = n /\ n \in Nat /\ n >= 1 /\ n <= Len(entry) /\ durable <= n
        /\ \A i \in 1..n : entry'[i] = entry[i]
        /\ Len(entry) \in Nat /\ durable \in Nat
    BY <2>1, LostEntry, EntryType
  <2>3. \A v \in Writers : synced[v] = Complete => synced'[v] = Complete
    BY <1>9 DEF PowerLoss
  <2>4. \A v \in Writers : pc'[v] = IF Running(v) /\ pc[v] # "start" THEN "gone" ELSE pc[v]
    BY <1>9 DEF PowerLoss
  <2>5. \A v \in Writers :
          /\ pc[v] \in {"syncdir", "ok", "err", "gone"} => pc'[v] \in {"ok", "err", "gone"}
          /\ pc'[v] # "syncdir"
          /\ pc'[v] = "ok" => pc[v] = "ok"
    BY <2>4 DEF Running
  <2> HIDE DEF TypeOK
  <2>6. EntryInv'
    BY <2>2, <2>3, <2>5 DEF EntryInv
  <2>7. ASSUME NEW v \in Writers, pc'[v] = "ok" PROVE \E i \in 1..durable' : entry'[i] = v
    <3>1. PICK i \in 1..durable : entry[i] = v
      BY <2>7, <2>5 DEF OkIsDurable
    <3>2. QED
      BY <3>1, <2>1, <2>2
  <2>8. QED
    BY <2>6, <2>7 DEF OkIsDurable
<1>10. CASE UNCHANGED outputVars
  BY <1>10 DEF outputVars, EntryInv, OkIsDurable
<1>11. QED
  BY <1>1, <1>2, <1>3, <1>4, <1>5, <1>6, <1>7, <1>8, <1>9, <1>10 DEF OutputNext

THEOREM Invariance == OutputSpec => []IInv
<1>1. OutputInit => IInv
  BY InitInv
<1>2. IInv /\ [OutputNext]_outputVars => IInv'
  BY StepType, StepFile, StepEntry DEF IInv
<1>3. QED
  BY <1>1, <1>2, PTL DEF OutputSpec

\* Every variable of the writers and of the file system has its type.
THEOREM TypeCorrect == OutputSpec => []TypeOK
<1>1. IInv => TypeOK
  BY DEF IInv
<1>2. QED
  BY <1>1, Invariance, PTL

\* What the destination is, has been since its last sync, or becomes by a
\* power loss is whole (PendingOutput: sync_all comes before the rename).
LEMMA Whole == IInv => NeverPartial
<1> SUFFICES ASSUME IInv, NEW i \in DOMAIN entry, entry[i] # Before
             PROVE  content[entry[i]] = Complete /\ synced[entry[i]] = Complete
  BY DEF NeverPartial
<1>1. i \in 2..Len(entry)
  BY EntryType DEF IInv, EntryInv
<1>2. entry[i] \in Writers /\ synced[entry[i]] = Complete
  BY <1>1 DEF IInv, EntryInv
<1>3. content[entry[i]] \subseteq Complete /\ synced[entry[i]] \subseteq content[entry[i]]
  BY <1>2 DEF IInv, TypeOK, FileInv
<1>4. QED
  BY <1>2, <1>3

THEOREM NeverPartialHolds == OutputSpec => []NeverPartial
  BY Whole, Invariance, PTL

\* A reported success is final (PendingOutput::commit syncs the directory
\* before it returns).
THEOREM SuccessIsDurable == OutputSpec => []OkIsDurable
<1>1. IInv => OkIsDurable
  BY DEF IInv
<1>2. QED
  BY <1>1, Invariance, PTL

-----------------------------------------------------------------------------
\* Each file is renamed once, and a writer past its rename or returned has
\* no temporary name, unless a power loss gave it back.
TempInv ==
  /\ \A i, j \in 2..Len(entry) : entry[i] = entry[j] => i = j
  /\ \A w \in temp :
         /\ pc[w] \notin {"syncdir", "ok"}
         /\ pc[w] = "err" => losses > 0

LEMMA InitTemp == OutputInit => TempInv
<1> SUFFICES ASSUME OutputInit PROVE TempInv
  OBVIOUS
<1>1. Len(entry) = 1
  BY DEF OutputInit
<1>2. QED
  BY <1>1 DEF OutputInit, TempInv

\* Before its rename a writer's file is not among the values of the entry.
LEMMA NotYetThere ==
  ASSUME IInv, NEW w \in Writers, pc[w] = "rename"
  PROVE  \A i \in 1..Len(entry) : entry[i] # w
  BY EntryType, WritersAssumption DEF IInv, EntryInv

\* A writer that returned Ok has its file among the durable values, so a
\* power loss does not give it its temporary name back.
LEMMA LostNotOk ==
  ASSUME IInv, TempInv, NEW n \in durable..Len(entry), NEW i \in (n + 1)..Len(entry)
  PROVE  pc[entry[i]] # "ok"
<1>1. /\ Len(entry) \in Nat /\ durable \in 1..Len(entry) /\ i \in 2..Len(entry)
      /\ n \in Int /\ i > n /\ n >= durable
  BY EntryType DEF IInv, TypeOK
<1>2. entry[i] \in Writers
  BY <1>1 DEF IInv, EntryInv
<1>3. SUFFICES ASSUME pc[entry[i]] = "ok" PROVE FALSE
  OBVIOUS
<1>4. PICK j \in 1..durable : entry[j] = entry[i]
  BY <1>2, <1>3 DEF IInv, OkIsDurable
<1>5. j # 1
  BY <1>2, <1>4, WritersAssumption DEF IInv, EntryInv
<1>6. j \in 2..Len(entry)
  BY <1>1, <1>5
<1>7. i = j
  BY <1>1, <1>4, <1>6 DEF TempInv
<1>8. QED
  BY <1>1, <1>7

LEMMA StepTemp == ASSUME IInv, TempInv, [OutputNext]_outputVars PROVE TempInv'
<1>1. ASSUME NEW w \in Writers, Create(w) PROVE TempInv'
  BY <1>1 DEF Create, TempInv, IInv, TypeOK
<1>2. ASSUME NEW w \in Writers, Write(w) PROVE TempInv'
  <2>1. /\ pc'[w] \in {"write", "flush"} /\ \A v \in Writers \ {w} : pc'[v] = pc[v]
        /\ temp' = temp /\ entry' = entry /\ losses' = losses
    BY <1>2 DEF Write, IInv, TypeOK
  <2>2. QED
    BY <2>1 DEF TempInv, IInv, TypeOK
<1>3. ASSUME NEW w \in Writers, Flush(w) PROVE TempInv'
  BY <1>3 DEF Flush, TempInv, IInv, TypeOK
<1>4. ASSUME NEW w \in Writers, SyncFile(w) PROVE TempInv'
  BY <1>4 DEF SyncFile, TempInv, IInv, TypeOK
<1>5. ASSUME NEW w \in Writers, Rename(w) PROVE TempInv'
  <2>1. /\ Len(entry') = Len(entry) + 1 /\ entry'[Len(entry) + 1] = w
        /\ \A i \in 1..Len(entry) : entry'[i] = entry[i]
    BY <1>5, RenameEntry DEF Rename, IInv
  <2>2. Len(entry) \in Nat
    BY EntryType DEF IInv
  <2>3. \A i \in 1..Len(entry) : entry[i] # w
    BY <1>5, NotYetThere DEF Rename
  <2>4. \A i, j \in 2..Len(entry') : entry'[i] = entry'[j] => i = j
    <3> TAKE i, j \in 2..Len(entry')
    <3>1. \A k \in 2..Len(entry') : k = Len(entry) + 1 \/ k \in 2..Len(entry)
      BY <2>1, <2>2
    <3>2. QED
      BY <2>1, <2>3, <3>1 DEF TempInv
  <2>5. /\ temp' = temp \ {w} /\ losses' = losses
        /\ \A v \in Writers \ {w} : pc'[v] = pc[v]
    BY <1>5 DEF Rename, IInv, TypeOK
  <2>6. temp' \subseteq Writers \ {w}
    BY <2>5 DEF IInv, TypeOK
  <2>7. QED
    BY <2>4, <2>5, <2>6 DEF TempInv
<1>6. ASSUME NEW w \in Writers, SyncDirectory(w) PROVE TempInv'
  BY <1>6 DEF SyncDirectory, TempInv, IInv, TypeOK
<1>7. ASSUME NEW w \in Writers, WriterFails(w) PROVE TempInv'
  BY <1>7 DEF WriterFails, TempInv, IInv, TypeOK
<1>8. ASSUME NEW w \in Writers, Kill(w) PROVE TempInv'
  BY <1>8 DEF Kill, TempInv, IInv, TypeOK
<1>9. CASE PowerLoss
  <2>1. PICK n \in durable..Len(entry) :
          /\ entry' = SubSeq(entry, 1, n)
          /\ temp' = temp \cup {entry[i] : i \in (n + 1)..Len(entry)}
    BY <1>9 DEF PowerLoss
  <2>2. /\ Len(entry') = n /\ n \in Nat /\ n >= 1 /\ n <= Len(entry)
        /\ \A i \in 1..n : entry'[i] = entry[i]
        /\ Len(entry) \in Nat
    BY <2>1, LostEntry, EntryType DEF IInv
  <2>3. \A i, j \in 2..Len(entry') : entry'[i] = entry'[j] => i = j
    BY <2>2 DEF TempInv
  <2>4. \A v \in Writers : pc'[v] = IF Running(v) /\ pc[v] # "start" THEN "gone" ELSE pc[v]
    BY <1>9 DEF PowerLoss
  <2>5. losses' > 0
    BY <1>9 DEF PowerLoss, IInv, TypeOK
  <2>6. ASSUME NEW w \in temp' PROVE w \in Writers /\ pc[w] # "ok"
    <3>1. CASE w \in temp
      BY <3>1 DEF TempInv, IInv, TypeOK
    <3>2. CASE w \notin temp
      <4>1. PICK i \in (n + 1)..Len(entry) : w = entry[i]
        BY <2>1, <2>6, <3>2
      <4>2. w \in Writers
        BY <2>2, <4>1 DEF IInv, EntryInv
      <4>3. QED
        BY <4>1, <4>2, LostNotOk
    <3>3. QED
      BY <3>1, <3>2
  <2>7. ASSUME NEW w \in temp' PROVE pc'[w] \notin {"syncdir", "ok"}
    BY <2>4, <2>6, <2>7 DEF Running
  <2>8. QED
    BY <2>3, <2>5, <2>7 DEF TempInv
<1>10. CASE UNCHANGED outputVars
  BY <1>10 DEF outputVars, TempInv
<1>11. QED
  BY <1>1, <1>2, <1>3, <1>4, <1>5, <1>6, <1>7, <1>8, <1>9, <1>10 DEF OutputNext

\* A writer that has returned left no temporary file behind, unless it had
\* failed after its rename and a power loss undid the rename (PendingOutput
\* removes its file when it is dropped).
THEOREM NoLitterLeft == OutputSpec => []NoLitter
<1>1. TempInv => NoLitter
  BY DEF TempInv, NoLitter
<1>2. IInv /\ TempInv /\ [OutputNext]_outputVars => TempInv'
  BY StepTemp
<1>3. QED
  BY <1>1, <1>2, InitTemp, Invariance, PTL DEF OutputSpec

-----------------------------------------------------------------------------
\* The refinement: everything the destination shows is whole.
LEMMA ShownWhole == IInv => Shown = entry
<1> SUFFICES ASSUME IInv PROVE Shown = entry
  OBVIOUS
<1>1. DOMAIN entry = 1..Len(entry) /\ entry = [i \in 1..Len(entry) |-> entry[i]]
  BY EntryType DEF IInv, TypeOK
<1>2. \A i \in DOMAIN entry : entry[i] = Before \/ content[entry[i]] = Complete
  BY Whole DEF NeverPartial
<1>3. Shown = [i \in DOMAIN entry |-> entry[i]]
  BY <1>2 DEF Shown
<1>4. QED
  BY <1>1, <1>3

LEMMA InitRefines == OutputInit => Promise!PInit
<1> SUFFICES ASSUME OutputInit PROVE Promise!PInit
  OBVIOUS
<1>1. Shown = <<Before>>
  BY InitInv, ShownWhole DEF OutputInit
<1>2. Answer = [w \in Writers |-> "none"]
  BY DEF OutputInit, Answer, Running
<1>3. QED
  BY <1>1, <1>2 DEF OutputInit, Promise!PInit

\* A step of one writer is a step of its answer, or none.
LEMMA OneAnswer ==
  ASSUME NEW w \in Writers, NEW p, TypeOK, pc' = [pc EXCEPT ![w] = p], Running(w)
  PROVE  /\ Answer[w] = "none"
         /\ p \in {"write", "flush", "sync", "rename", "syncdir"} => Answer' = Answer
         /\ p \in {"ok", "err", "gone"} => Answer' = [Answer EXCEPT ![w] = p]
<1>1. pc'[w] = p /\ \A v \in Writers \ {w} : pc'[v] = pc[v]
  BY DEF TypeOK
<1>2. Answer[w] = "none" /\ DOMAIN Answer = Writers
  BY DEF Answer
<1>3. \A v \in Writers \ {w} : Answer'[v] = Answer[v]
  BY <1>1 DEF Answer, Running
<1>4. p \in {"write", "flush", "sync", "rename", "syncdir"} => Answer'[w] = "none"
  BY <1>1 DEF Answer, Running
<1>5. p \in {"ok", "err", "gone"} => Answer'[w] = p
  BY <1>1 DEF Answer, Running
<1>6. Answer = [v \in Writers |-> Answer[v]] /\ Answer' = [v \in Writers |-> Answer'[v]]
  BY DEF Answer
<1>7. QED
  BY <1>2, <1>3, <1>4, <1>5, <1>6

LEMMA StepRefines ==
  ASSUME IInv, Shown = entry, (Shown = entry)', [OutputNext]_outputVars
  PROVE  [Promise!PNext]_(Promise!pvars)
<1> USE DEF Promise!PNext, Promise!pvars
<1>1. Shown = entry /\ Shown' = entry'
  OBVIOUS
<1>2. TypeOK /\ EntryInv
  BY DEF IInv
<1>3. ASSUME NEW w \in Writers, Create(w) \/ Write(w) \/ Flush(w) \/ SyncFile(w)
      PROVE  UNCHANGED Promise!pvars
  <2>1. /\ Running(w) /\ entry' = entry /\ durable' = durable
        /\ \E p \in {"write", "flush", "sync", "rename"} : pc' = [pc EXCEPT ![w] = p]
    <3>1. CASE Write(w)
      <4>1. pc' = [pc EXCEPT ![w] = IF Len(todo[w]) = 1 THEN "flush" ELSE pc[w]] /\ pc[w] = "write"
        BY <3>1 DEF Write
      <4>2. QED
        BY <3>1, <4>1 DEF Write, Running
    <3>2. QED
      BY <1>3, <3>1 DEF Create, Flush, SyncFile, Running
  <2>2. Answer' = Answer
    BY <2>1, <1>2, OneAnswer
  <2>3. QED
    BY <1>1, <2>1, <2>2
<1>4. ASSUME NEW w \in Writers, Rename(w) PROVE Promise!Publish(w)
  <2>1. /\ Running(w) /\ entry' = Append(entry, w) /\ durable' = durable
        /\ pc[w] = "rename" /\ pc' = [pc EXCEPT ![w] = "syncdir"]
    BY <1>4 DEF Rename, Running
  <2>2. Answer' = Answer /\ Answer[w] = "none"
    BY <2>1, <1>2, OneAnswer
  <2>3. \A i \in DOMAIN entry : entry[i] # w
    BY <2>1, <1>2, EntryType, WritersAssumption DEF EntryInv
  <2>4. QED
    BY <1>1, <2>1, <2>2, <2>3 DEF Promise!Publish
<1>5. ASSUME NEW w \in Writers, SyncDirectory(w) PROVE Promise!Succeed(w)
  <2>1. /\ Running(w) /\ entry' = entry /\ durable' = Len(entry)
        /\ pc[w] = "syncdir" /\ pc' = [pc EXCEPT ![w] = "ok"]
    BY <1>5 DEF SyncDirectory, Running
  <2>2. Answer' = [Answer EXCEPT ![w] = "ok"] /\ Answer[w] = "none"
    BY <2>1, <1>2, OneAnswer
  <2>3. \E i \in DOMAIN entry : entry[i] = w
    BY <2>1, <1>2, EntryType DEF EntryInv
  <2>4. QED
    BY <1>1, <2>1, <2>2, <2>3 DEF Promise!Succeed
<1>6. ASSUME NEW w \in Writers, WriterFails(w) \/ Kill(w) PROVE Promise!GiveUp(w)
  <2>1. /\ Running(w) /\ entry' = entry /\ durable' = durable
        /\ \E p \in {"err", "gone"} : pc' = [pc EXCEPT ![w] = p]
    BY <1>6 DEF WriterFails, Kill
  <2>2. Answer[w] = "none" /\ \E p \in {"err", "gone"} : Answer' = [Answer EXCEPT ![w] = p]
    BY <2>1, <1>2, OneAnswer
  <2>3. QED
    BY <1>1, <2>1, <2>2 DEF Promise!GiveUp
<1>7. CASE PowerLoss
  <2>1. \E n \in durable..Len(entry) : entry' = SubSeq(entry, 1, n) /\ durable' = n
    BY <1>7 DEF PowerLoss
  <2> DEFINE running == {w \in Writers : Running(w) /\ pc[w] # "start"}
  <2>2. \A w \in Writers : pc'[w] = IF w \in running THEN "gone" ELSE pc[w]
    BY <1>7 DEF PowerLoss
  <2>3. running \in SUBSET {w \in Writers : Answer[w] = "none"}
    BY DEF Answer
  <2>4. \A w \in Writers : Answer'[w] = IF w \in running THEN "gone" ELSE Answer[w]
    BY <2>2 DEF Answer, Running
  <2> HIDE DEF running
  <2>5. Answer' = [w \in Writers |-> IF w \in running THEN "gone" ELSE Answer[w]]
    BY <2>4 DEF Answer
  <2>6. QED
    BY <1>1, <2>1, <2>3, <2>5 DEF Promise!LosePower
<1>8. CASE UNCHANGED outputVars
  BY <1>1, <1>8 DEF outputVars, Answer, Running
<1>9. QED
  BY <1>3, <1>4, <1>5, <1>6, <1>7, <1>8 DEF OutputNext

\* The writer, step by step, does what AtomicPublish promises: an error
\* message may come with a published file, never with a part of one.
THEOREM WriterKeepsPromise == OutputSpec => ImplementsPublish
<1>1. OutputInit => Promise!PInit
  BY InitRefines
<1>2. IInv /\ Shown = entry /\ (Shown = entry)' /\ [OutputNext]_outputVars
        => [Promise!PNext]_(Promise!pvars)
  BY StepRefines
<1>3. OutputSpec => [](IInv /\ Shown = entry)
  BY ShownWhole, Invariance, PTL
<1>4. QED
  BY <1>1, <1>2, <1>3, PTL DEF OutputSpec, ImplementsPublish, Promise!PSpec
=============================================================================

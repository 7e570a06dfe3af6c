-------------------------- MODULE LodIndex_proofs --------------------------
(***************************************************************************)
(* Proofs about LodIndex, for every cloud, node size, depth and cube: its  *)
(* types, that no point is lost or written twice, that the nodes tile the  *)
(* order file and respect the node size, that their keys form a tree, that *)
(* a point lies in the box of its node as the readers compute it, and that *)
(* only a crowded node is refused.                                         *)
(***************************************************************************)
EXTENDS LodIndex, SequenceTheorems, SequencesExt, WellFoundedInduction,
        FiniteSetTheorems, FunctionTheorems, TLAPS

\* A set of numbers that is not empty has a least one.
LEMMA LeastElement ==
  ASSUME NEW S, S \subseteq Nat, S # {}
  PROVE  \E m \in S : \A n \in S : m <= n
<1>1. PICK x \in S : \A y \in S : ~ <<y, x>> \in OpToRel(<, Nat)
  <2>1. IsWellFoundedOn(OpToRel(<, Nat), Nat)
    BY NatLessThanWellFounded
  <2> HIDE DEF OpToRel
  <2>2. QED
    BY <2>1, WFMin
<1>2. \A y \in S : ~(y < x)
  BY <1>1 DEF OpToRel
<1>3. QED
  BY <1>2

\* A frame that waits for a call it made, or is between two of them: its run
\* is used up, and so are the octants before the loop variable.
DoneUpTo(frame) ==
  /\ frame.run = {}
  /\ \A o \in Octant : o < frame.octant => frame.children[o] = {}

ControlInv ==
  /\ Building => stack # <<>>
  /\ status = "done" => stack = <<>>
  /\ \A n \in 1..Len(stack) : n < Len(stack) => DoneUpTo(stack[n])
  /\ status \in {"assign", "copy"} => Top.children = NoChildren
  /\ status = "assign" => Top.octant = 0
  /\ status = "select" => Top.octant \in Octant /\ Top.run = {}
  /\ status = "descend" => DoneUpTo(Top)
  /\ \A n \in 1..Len(stack) : stack[n].start <= Len(order)

-----------------------------------------------------------------------------
LEMMA BitType == \A o \in Octant, a \in Axis : OctantBit(o, a) \in {0, 1}
<1> SUFFICES ASSUME NEW o \in Octant, NEW a \in Axis PROVE OctantBit(o, a) \in {0, 1}
  OBVIOUS
<1>1. CASE a = 1
  <2>1. OctantBit(o, 1) = o % 2
    BY DEF OctantBit, Octant
  <2>2. QED
    BY <1>1, <2>1 DEF Octant
<1>2. CASE a = 2
  <2>1. OctantBit(o, 2) = (o \div 2) % 2
    BY DEF OctantBit, Octant
  <2>2. QED
    BY <1>2, <2>1 DEF Octant
<1>3. CASE a = 3
  <2>1. OctantBit(o, 3) = (o \div 4) % 2
    BY DEF OctantBit, Octant
  <2>2. QED
    BY <1>3, <2>1 DEF Octant
<1>4. QED
  BY <1>1, <1>2, <1>3 DEF Axis

\* A set has twice as many subsets when it has one element more.
LEMMA PowerDoubles ==
  ASSUME NEW n \in Nat PROVE 2 ^ n \in Nat \ {0} /\ 2 ^ (n + 1) = 2 * 2 ^ n
<1> DEFINE S == 1..n
           A == SUBSET S
           x == n + 1
           B == {s \cup {x} : s \in A}
           f == [s \in A |-> s \cup {x}]
<1>1. IsFiniteSet(S) /\ Cardinality(S) = n
  BY FS_Interval
<1>2. IsFiniteSet(A) /\ Cardinality(A) = 2 ^ n
  BY <1>1, FS_SUBSET
<1>3. 1..(n + 1) = S \cup {x} /\ x \notin S
  OBVIOUS
<1>4. IsFiniteSet(S \cup {x}) /\ Cardinality(S \cup {x}) = n + 1
  BY <1>1, <1>3, FS_AddElement
<1>5. IsFiniteSet(SUBSET (S \cup {x})) /\ Cardinality(SUBSET (S \cup {x})) = 2 ^ (n + 1)
  BY <1>4, FS_SUBSET
<1> HIDE DEF S, x
<1>6. SUBSET (S \cup {x}) = A \cup B
  <2>1. \A t \in SUBSET (S \cup {x}) : t \in A \cup B
    <3> TAKE t \in SUBSET (S \cup {x})
    <3>1. CASE x \in t
      <4>1. t \ {x} \in A /\ t = (t \ {x}) \cup {x}
        BY <3>1
      <4>2. QED
        BY <4>1
    <3>2. CASE x \notin t
      BY <3>2
    <3>3. QED
      BY <3>1, <3>2
  <2>2. QED
    BY <2>1
<1>7. A \cap B = {}
  BY <1>3
<1>8. f \in Bijection(A, B)
  <2>1. \A s, t \in A : s \cup {x} = t \cup {x} => s = t
    BY <1>3
  <2>2. \A s \in A : s \cup {x} \in B
    OBVIOUS
  <2>3. \A b \in B : \E s \in A : s \cup {x} = b
    OBVIOUS
  <2> HIDE DEF A, B
  <2>4. f \in [A -> B] /\ \A s \in A : f[s] = s \cup {x}
    BY <2>2
  <2> HIDE DEF f
  <2>5. \A s, t \in A : f[s] = f[t] => s = t
    BY <2>1, <2>4
  <2>6. \A b \in B : \E s \in A : f[s] = b
    BY <2>3, <2>4
  <2>7. QED
    BY <2>4, <2>5, <2>6, Fun_IsBij
<1>9. IsFiniteSet(B) /\ Cardinality(B) = Cardinality(A)
  BY <1>2, <1>8, FS_Bijection DEF ExistsBijection
<1> HIDE DEF A, B
<1>10. 2 ^ (n + 1) = 2 ^ n + 2 ^ n
  <2>1. Cardinality(A \cap B) = 0
    BY <1>7, FS_EmptySet
  <2>2. Cardinality(A) \in Nat
    BY <1>2, FS_CardinalityType
  <2>3. Cardinality(A \cup B) = Cardinality(A) + Cardinality(B) - Cardinality(A \cap B)
    BY <1>2, <1>9, FS_Union
  <2>4. Cardinality(A \cup B) = Cardinality(A) + Cardinality(A)
    BY <1>9, <2>1, <2>2, <2>3
  <2>5. QED
    BY <1>2, <1>5, <1>6, <2>4
<1>11. 2 ^ n \in Nat
  BY <1>2, FS_CardinalityType
<1>12. 2 ^ n # 0
  <2>1. {} \in A
    BY DEF A
  <2>2. QED
    BY <1>2, <2>1, FS_EmptySet
<1>13. QED
  BY <1>10, <1>11, <1>12

\* A quotient is known by the multiples it lies between.
LEMMA Quotient ==
  ASSUME NEW x \in Int, NEW d \in Nat \ {0}, NEW q \in Int
  PROVE  x \div d = q <=> q * d <= x /\ x < (q + 1) * d
<1>1. (x \div d) * d <= x /\ x < ((x \div d) + 1) * d /\ x \div d \in Int
  BY Z3
<1> DEFINE y == x \div d
<1> HIDE DEF y
<1>2. ASSUME q * d <= x, x < (q + 1) * d, y \in Int, y * d <= x, x < (y + 1) * d PROVE y = q
  <2>1. CASE y < q
    <3>1. (y + 1) * d <= q * d
      BY <1>2, <2>1
    <3>2. QED
      BY <1>2, <3>1
  <2>2. CASE q < y
    <3>1. (q + 1) * d <= y * d
      BY <1>2, <2>2
    <3>2. QED
      BY <1>2, <3>1
  <2>3. QED
    BY <1>2, <2>1, <2>2
<1>3. QED
  BY <1>1, <1>2 DEF y

\* What twice P divides, P divides, into twice as many parts.
LEMMA EvenParts ==
  ASSUME NEW n \in Nat, NEW P \in Nat \ {0}, n % (2 * P) = 0
  PROVE  n % P = 0 /\ n \div P = 2 * (n \div (2 * P)) /\ n \div (2 * P) \in Nat
<1> DEFINE d == 2 * P
           q == n \div d
<1>1. d \in Nat \ {0} /\ n % d = 0
  OBVIOUS
<1> HIDE DEF d
<1>2. n = d * q /\ q \in Nat
  BY <1>1, Z3
<1> HIDE DEF q
<1> DEFINE r == 2 * q
<1>3. n = r * P /\ r \in Nat
  BY <1>2 DEF d
<1> HIDE DEF r
<1>4. n % P = 0
  BY <1>3, Z3
<1>5. r * P <= n /\ n < (r + 1) * P
  BY <1>3
<1>6. n \div P = r
  BY <1>3, <1>5, Quotient
<1>7. QED
  BY <1>2, <1>4, <1>6 DEF d, q, r

LEMMA ChildType == ASSUME NEW k \in Key, NEW o \in Octant PROVE Child(k, o) \in Key
<1>1. k.level + 1 \in Int
  BY DEF Key
<1>2. \A a \in Axis : 2 * k.pos[a] + OctantBit(o, a) \in Int
  BY BitType DEF Key
<1>3. QED
  BY <1>1, <1>2 DEF Child, Key

\* A child lies in its parent, and no two children of a voxel are one.
LEMMA ParentOfChild ==
  ASSUME NEW k \in Key, NEW o \in Octant
  PROVE  /\ Child(k, o) \in Key /\ Child(k, o).level = k.level + 1
         /\ Parent(Child(k, o)) = k
<1>1. \A a \in Axis : (2 * k.pos[a] + OctantBit(o, a)) \div 2 = k.pos[a]
  BY BitType DEF Key
<1>2. (k.level + 1) - 1 = k.level
  BY DEF Key
<1>3. Parent(Child(k, o)) = [level |-> k.level, pos |-> [a \in Axis |-> k.pos[a]]]
  BY <1>1, <1>2 DEF Parent, Child
<1>4. QED
  BY <1>3, ChildType DEF Key, Child

LEMMA ChildInjective ==
  ASSUME NEW k \in Key, NEW o \in Octant, NEW p \in Octant, Child(k, o) = Child(k, p)
  PROVE  o = p
<1>1. \A a \in Axis : 2 * k.pos[a] + OctantBit(o, a) = 2 * k.pos[a] + OctantBit(p, a)
  BY DEF Child
<1>2. \A a \in Axis : OctantBit(o, a) = OctantBit(p, a)
  BY <1>1, BitType DEF Key
<1>3. OctantBit(o, 1) = o % 2 /\ OctantBit(o, 2) = (o \div 2) % 2 /\ OctantBit(o, 3) = (o \div 4) % 2
  BY DEF OctantBit, Octant
<1>4. OctantBit(p, 1) = p % 2 /\ OctantBit(p, 2) = (p \div 2) % 2 /\ OctantBit(p, 3) = (p \div 4) % 2
  BY DEF OctantBit, Octant
<1>5. o % 2 = p % 2 /\ (o \div 2) % 2 = (p \div 2) % 2 /\ (o \div 4) % 2 = (p \div 4) % 2
  BY <1>2, <1>3, <1>4 DEF Axis
<1>6. QED
  BY <1>5 DEF Octant

LEMMA ChildValid ==
  ASSUME NEW k \in Key, NEW o \in Octant, ValidKey(k)
  PROVE  ValidKey(Child(k, o))
<1> DEFINE c == Child(k, o)
<1>1. /\ c.level = k.level + 1 /\ k.level \in Nat
      /\ \A a \in Axis : c.pos[a] = 2 * k.pos[a] + OctantBit(o, a)
      /\ \A a \in Axis : k.pos[a] \in Nat /\ OctantBit(o, a) \in {0, 1}
  BY BitType DEF Child, Key, ValidKey
<1>2. \A a \in Axis : c.pos[a] >= 0
  BY <1>1
<1>3. ASSUME c.level < 31, NEW a \in Axis PROVE c.pos[a] < VoxelsPerAxis(c.level)
  <2>1. k.pos[a] < 2 ^ k.level
    BY <1>1, <1>3 DEF ValidKey, VoxelsPerAxis
  <2>2. 2 ^ k.level \in Nat /\ 2 ^ (k.level + 1) = 2 * 2 ^ k.level
    BY <1>1, PowerDoubles
  <2> HIDE DEF c
  <2>3. QED
    BY <1>1, <2>1, <2>2 DEF VoxelsPerAxis
<1>4. QED
  BY <1>1, <1>2, <1>3 DEF ValidKey

LEMMA SubtreeSelf == ASSUME NEW k \in Key PROVE InSubtree(k, k)
<1>1. k.level - k.level = 0 /\ 2 ^ 0 = 1 /\ k.level >= k.level
  BY DEF Key
<1>2. \A a \in Axis : k.pos[a] \div 1 = k.pos[a]
  BY DEF Key
<1>3. QED
  BY <1>1, <1>2 DEF InSubtree, Key

LEMMA SubtreeChild ==
  ASSUME NEW k \in Key, NEW m \in Key, NEW o \in Octant, InSubtree(k, m)
  PROVE  InSubtree(Child(k, o), m)
<1> DEFINE e == k.level - m.level
           P == 2 ^ e
<1>1. e \in Nat /\ (k.level + 1) - m.level = e + 1 /\ k.level + 1 >= m.level
  BY DEF InSubtree, Key
<1>2. P \in Nat \ {0} /\ 2 ^ (e + 1) = 2 * P
  BY <1>1, PowerDoubles
<1> HIDE DEF P
<1>3. ASSUME NEW a \in Axis
      PROVE  (2 * k.pos[a] + OctantBit(o, a)) \div (2 * P) = m.pos[a]
  <2> DEFINE x == k.pos[a]
             q == m.pos[a]
             b == OctantBit(o, a)
  <2>1. x \in Int /\ q \in Int /\ b \in {0, 1} /\ x \div P = q
    BY BitType DEF Key, InSubtree, P
  <2> HIDE DEF x, q, b
  <2>2. q * P <= x /\ x < (q + 1) * P
    BY <1>2, <2>1, Quotient
  <2>3. (q + 1) * P \in Int /\ q * (2 * P) = 2 * (q * P) /\ (q + 1) * (2 * P) = 2 * ((q + 1) * P)
    BY <1>2, <2>1
  <2>4. q * (2 * P) <= 2 * x + b /\ 2 * x + b < (q + 1) * (2 * P)
    <3> DEFINE u == q * P
               v == (q + 1) * P
    <3>1. u \in Int /\ v \in Int
      BY <1>2, <2>1
    <3> HIDE DEF u, v
    <3>2. 2 * u <= 2 * x + b /\ 2 * x + b < 2 * v
      BY <2>1, <2>2, <3>1 DEF u, v
    <3>3. QED
      BY <2>3, <3>2 DEF u, v
  <2>5. 2 * x + b \in Int /\ 2 * P \in Nat \ {0}
    BY <1>2, <2>1
  <2>6. (2 * x + b) \div (2 * P) = q
    <3> DEFINE y == 2 * x + b
               d == 2 * P
    <3>1. y \in Int /\ d \in Nat \ {0} /\ q * d <= y /\ y < (q + 1) * d /\ q \in Int
      BY <2>1, <2>4, <2>5
    <3> HIDE DEF y, d
    <3>2. y \div d = q
      BY <3>1, Quotient
    <3>3. QED
      BY <3>2 DEF y, d
  <2>7. QED
    BY <2>6 DEF x, q, b
<1>4. /\ Child(k, o).level = k.level + 1
      /\ \A a \in Axis : Child(k, o).pos[a] = 2 * k.pos[a] + OctantBit(o, a)
  BY DEF Child
<1>5. QED
  BY <1>1, <1>2, <1>3, <1>4 DEF InSubtree, P

BoxType == [min : Position, max : Position]

LEMMA OctantBoxType == ASSUME NEW b \in BoxType, NEW o \in Octant PROVE OctantBox(b, o) \in BoxType
<1>1. RootSide \in Nat
  BY LodAssumption
<1>2. \A a \in Axis : b.min[a] \in 0..RootSide /\ b.max[a] \in 0..RootSide
  BY DEF BoxType, Position
<1>3. \A m, n \in 0..RootSide : (m + n) \div 2 \in 0..RootSide
  BY <1>1
<1>4. \A a \in Axis : Center(b)[a] \in 0..RootSide
  BY <1>2, <1>3 DEF Center
<1>5. QED
  BY <1>2, <1>4 DEF OctantBox, Box, BoxType, Position

\* Every point is in one of the eight octants.
LEMMA OctantType == ASSUME NEW b, NEW p PROVE ChildOctant(b, p) \in Octant
<1> DEFINE bit(a) == IF p[a] >= Center(b)[a] THEN 1 ELSE 0
<1>1. bit(1) \in {0, 1} /\ bit(2) \in {0, 1} /\ bit(3) \in {0, 1}
  OBVIOUS
<1>2. ChildOctant(b, p) = bit(1) + 2 * bit(2) + 4 * bit(3)
  BY DEF ChildOctant
<1> HIDE DEF bit
<1>3. QED
  BY <1>1, <1>2 DEF Octant

\* The first index of a run.
LEMMA LeastOfRun ==
  ASSUME TypeOK, NEW run \in SUBSET DOMAIN points, run # {}
  PROVE  Least(run) \in run
<1>1. points \in Seq(Position)
  BY LodAssumption DEF TypeOK
<1>2. run \subseteq Nat
  BY <1>1
<1>3. \E i \in run : \A j \in run : i <= j
  BY <1>2, LeastElement
<1>4. QED
  BY <1>3 DEF Least

-----------------------------------------------------------------------------
\* The stack, with its running call taken apart, replaced or joined by
\* another one.
LEMMA StackParts ==
  ASSUME TypeOK, stack # <<>>
  PROVE  /\ Len(stack) \in Nat /\ Len(stack) >= 1
         /\ Top \in Frame
         /\ Callers \in Seq(Frame) /\ Len(Callers) = Len(stack) - 1
         /\ Callers = <<>> <=> Len(stack) = 1
         /\ \A n \in 1..(Len(stack) - 1) : Callers[n] = stack[n]
<1>1. stack \in Seq(Frame) /\ Len(stack) \in Nat /\ Len(stack) >= 1
  BY EmptySeq, LenProperties DEF TypeOK
<1>2. /\ Callers \in Seq(Frame) /\ Len(Callers) = Len(stack) - 1
      /\ \A n \in 1..(Len(stack) - 1) : Callers[n] = stack[n]
  <2> DEFINE n == Len(stack) - 1
  <2>1. n \in Int /\ n >= 0 /\ n <= Len(stack)
    BY <1>1
  <2> HIDE DEF n
  <2>2. /\ SubSeq(stack, 1, n) \in Seq(Frame) /\ Len(SubSeq(stack, 1, n)) = n
        /\ \A i \in 1..n : SubSeq(stack, 1, n)[i] = stack[i]
    BY <1>1, <2>1, SubSeqProperties
  <2>3. QED
    BY <2>2 DEF Callers, n
<1>3. Callers = <<>> <=> Len(Callers) = 0
  BY <1>2, EmptySeq
<1>4. Top \in Frame
  BY <1>1 DEF Top
<1>5. QED
  BY <1>1, <1>2, <1>3, <1>4

LEMMA StackWithTop ==
  ASSUME TypeOK, stack # <<>>, NEW f \in Frame
  PROVE  /\ WithTop(f) \in Seq(Frame) /\ WithTop(f) # <<>>
         /\ Len(WithTop(f)) = Len(stack)
         /\ WithTop(f)[Len(stack)] = f
         /\ \A n \in 1..(Len(stack) - 1) : WithTop(f)[n] = stack[n]
BY StackParts, AppendProperties, EmptySeq DEF WithTop

LEMMA StackPushed ==
  ASSUME TypeOK, stack # <<>>, NEW f \in Frame, NEW g \in Frame
  PROVE  LET s == Append(WithTop(f), g) IN
         /\ s \in Seq(Frame) /\ s # <<>>
         /\ Len(s) = Len(stack) + 1
         /\ s[Len(stack) + 1] = g /\ s[Len(stack)] = f
         /\ \A n \in 1..(Len(stack) - 1) : s[n] = stack[n]
<1>1. Len(stack) \in Nat /\ Len(stack) >= 1
  BY StackParts
<1>2. QED
  BY <1>1, StackWithTop, AppendProperties, EmptySeq

LEMMA AfterPush ==
  ASSUME TypeOK, stack # <<>>, NEW f \in Frame, NEW g \in Frame,
         stack' = Append(WithTop(f), g)
  PROVE  /\ Len(stack') = Len(stack) + 1
         /\ stack'[Len(stack) + 1] = g /\ stack'[Len(stack)] = f
         /\ \A n \in 1..(Len(stack) - 1) : stack'[n] = stack[n]
<1> DEFINE s == Append(WithTop(f), g)
<1>1. /\ Len(s) = Len(stack) + 1
      /\ s[Len(stack) + 1] = g /\ s[Len(stack)] = f
      /\ \A n \in 1..(Len(stack) - 1) : s[n] = stack[n]
  BY StackPushed
<1>2. stack' = s
  OBVIOUS
<1> HIDE DEF s
<1>3. QED
  BY <1>1, <1>2

-----------------------------------------------------------------------------
LEMMA InitControl == Init => TypeOK /\ ControlInv
<1> SUFFICES ASSUME Init PROVE TypeOK /\ ControlInv
  OBVIOUS
<1> DEFINE f == Call(Root, DOMAIN points, RootCube, 0)
<1>1. RootSide \in Nat
  BY LodAssumption
<1>2. Root \in Key /\ RootCube \in BoxType
  BY <1>1 DEF Root, Key, RootCube, Box, BoxType, Position
<1>3. f \in Frame /\ f.children = NoChildren /\ f.octant = 0 /\ f.start = 0
  BY <1>2 DEF Call, Frame, NoChildren, BoxType, Octant
<1> HIDE DEF f
<1>4. <<f>> \in Seq(Frame) /\ <<f>> # <<>> /\ Len(<<f>>) = 1 /\ <<f>>[1] = f
  BY <1>3
<1>5. stack = <<f>> /\ Top = f
  BY <1>4 DEF Init, f, Top
<1>6. TypeOK
  BY <1>3, <1>4, <1>5 DEF Init, TypeOK
<1>7. ControlInv
  <2>1. Len(order) = 0
    BY DEF Init
  <2>2. QED
    BY <2>1, <1>3, <1>4, <1>5 DEF Init, ControlInv, Building
<1>8. QED
  BY <1>6, <1>7

\* The frames the actions write.
LEMMA NextFrames ==
  ASSUME TypeOK, ControlInv, stack # <<>>, NEW o \in Octant
  PROVE  /\ \A i : \A p \in 0..8 :
              [Top EXCEPT !.children[o] = Top.children[o] \ {i}, !.octant = p] \in Frame
         /\ \A p \in 0..8 : [Top EXCEPT !.octant = p] \in Frame
         /\ \A p \in 0..8 : [Top EXCEPT !.children[o] = {}, !.octant = p] \in Frame
         /\ [Top EXCEPT !.run = {},
               !.children = [q \in Octant |->
                  {i \in Top.run : ChildOctant(Top.box, points[i]) = q}]] \in Frame
         /\ Call(Child(Top.key, o), Top.children[o], OctantBox(Top.box, o), Len(order)) \in Frame
<1>1. Top \in Frame
  BY StackParts
<1>2. Child(Top.key, o) \in Key /\ OctantBox(Top.box, o) \in BoxType /\ Len(order) \in Nat
  BY <1>1, ChildType, OctantBoxType, LenProperties DEF Frame, BoxType, TypeOK
<1>3. Call(Child(Top.key, o), Top.children[o], OctantBox(Top.box, o), Len(order)) \in Frame
  BY <1>1, <1>2 DEF Call, Frame, BoxType, NoChildren, Octant
<1>4. QED
  BY <1>1, <1>3 DEF Frame

\* The node the running call ends with.
LEMMA NodeRangeType ==
  ASSUME TypeOK, ControlInv, stack # <<>> PROVE Written \in Nat /\ NodeRange \in NodeRanges
<1>1. /\ Top \in Frame /\ Len(order) \in Nat /\ Top.start <= Len(order)
  BY StackParts, LenProperties DEF TypeOK, ControlInv, Top
<1>2. Top.key \in Key /\ Top.start \in Nat
  BY <1>1 DEF Frame
<1>3. Written \in Nat
  BY <1>1, <1>2 DEF Written
<1>4. QED
  BY <1>2, <1>3 DEF NodeRange, NodeRanges

\* What an action does that replaces the running frame, or returns from it.
LEMMA TopControl ==
  ASSUME TypeOK, ControlInv, stack # <<>>, NEW f \in Frame, stack' = WithTop(f),
         points' = points, order' \in Seq(DOMAIN points), nodes' \subseteq NodeRanges,
         Len(order) <= Len(order'), f.start = Top.start,
         \/ status' = "select" /\ f.octant \in Octant /\ f.run = {}
         \/ status' = "descend" /\ DoneUpTo(f)
         \/ status' = "copy" /\ f.children = NoChildren
  PROVE  TypeOK' /\ ControlInv'
<1>1. /\ stack' \in Seq(Frame) /\ stack' # <<>> /\ Len(stack') = Len(stack)
      /\ stack'[Len(stack)] = f
      /\ \A n \in 1..(Len(stack) - 1) : stack'[n] = stack[n]
      /\ Len(stack) \in Nat /\ Len(stack) >= 1
  BY StackWithTop, StackParts
<1>2. Top' = f
  BY <1>1 DEF Top
<1>3. TypeOK'
  BY <1>1 DEF TypeOK, Frame
<1>4. \A n \in 1..Len(stack') : n < Len(stack') => DoneUpTo(stack'[n])
  BY <1>1 DEF ControlInv
<1>5. ASSUME NEW n \in 1..Len(stack') PROVE stack'[n].start <= Len(order')
  <2>1. stack'[n].start = stack[n].start
    BY <1>1 DEF Top
  <2>2. stack[n] \in Frame /\ stack[n].start <= Len(order)
    BY <1>1 DEF TypeOK, ControlInv
  <2>3. stack[n].start \in Nat /\ Len(order) \in Nat /\ Len(order') \in Nat
    BY <2>2, LenProperties DEF TypeOK, Frame
  <2>4. QED
    BY <2>1, <2>2, <2>3
<1>6. ControlInv'
  BY <1>1, <1>2, <1>4, <1>5 DEF ControlInv, Building
<1>7. QED
  BY <1>3, <1>6

LEMMA PopControl ==
  ASSUME TypeOK, ControlInv, stack # <<>>, stack' = Callers,
         points' = points, order' = order, nodes' \subseteq NodeRanges,
         status' = IF Len(stack) = 1 THEN "done" ELSE "descend"
  PROVE  TypeOK' /\ ControlInv'
<1>1. /\ stack' \in Seq(Frame) /\ Len(stack') = Len(stack) - 1
      /\ (stack' = <<>> <=> Len(stack) = 1)
      /\ \A n \in 1..(Len(stack) - 1) : stack'[n] = stack[n]
      /\ Len(stack) \in Nat /\ Len(stack) >= 1
  BY StackParts
<1>2. TypeOK'
  BY <1>1 DEF TypeOK, Frame
<1>3. \A n \in 1..Len(stack') : DoneUpTo(stack'[n])
  BY <1>1 DEF ControlInv
<1>4. status' = "descend" => Len(stack') \in 1..Len(stack')
  BY <1>1
<1>5. status' = "descend" => DoneUpTo(Top')
  BY <1>3, <1>4 DEF Top
<1>6. \A n \in 1..Len(stack') : stack'[n].start <= Len(order')
  BY <1>1 DEF ControlInv
<1>7. ControlInv'
  BY <1>1, <1>3, <1>5, <1>6 DEF ControlInv, Building
<1>8. QED
  BY <1>2, <1>7

LEMMA StepControl == ASSUME TypeOK, ControlInv, [Next]_vars PROVE TypeOK' /\ ControlInv'
<1>0. /\ points \in Clouds /\ order \in Seq(DOMAIN points) /\ nodes \subseteq NodeRanges
      /\ stack \in Seq(Frame) /\ Len(order) \in Nat
  BY LenProperties DEF TypeOK
<1>1. CASE StartLeaf
  BY <1>1 DEF StartLeaf, TypeOK, ControlInv, Building, Top, Frame
<1>2. CASE CopyPoint
  <2> DEFINE f == [Top EXCEPT !.run = @ \ {Least(Top.run)}]
  <2>1. stack # <<>> /\ status = "copy" /\ status' = "copy" /\ points' = points /\ nodes' = nodes
    BY <1>2 DEF CopyPoint, ControlInv, Building
  <2>2. Top \in Frame /\ f \in Frame
    <3>1. Top \in Frame
      BY <2>1, StackParts
    <3>2. QED
      BY <3>1 DEF Frame
  <2>3. f.children = Top.children /\ Top.children = NoChildren /\ f.start = Top.start
    BY <2>1, <2>2 DEF ControlInv, Frame
  <2>4. Least(Top.run) \in DOMAIN points
    BY <1>2, <2>2, LeastOfRun DEF CopyPoint, Frame
  <2>5. order' \in Seq(DOMAIN points) /\ Len(order) <= Len(order')
    BY <1>0, <1>2, <2>4, AppendProperties DEF CopyPoint
  <2>6. stack' = WithTop(f)
    BY <1>2 DEF CopyPoint
  <2> HIDE DEF f
  <2>7. QED
    BY <1>0, <2>1, <2>2, <2>3, <2>5, <2>6, TopControl
<1>3. CASE EndLeaf
  <2>1. /\ stack # <<>> /\ points' = points /\ order' = order /\ stack' = Callers
        /\ status' = IF Len(stack) = 1 THEN "done" ELSE "descend"
        /\ nodes' = nodes \cup {NodeRange}
    BY <1>3 DEF EndLeaf, Return, ControlInv, Building
  <2>2. QED
    BY <1>0, <2>1, NodeRangeType, PopControl
<1>4. CASE EndDescend
  <2>1. /\ stack # <<>> /\ points' = points /\ order' = order /\ stack' = Callers
        /\ status' = IF Len(stack) = 1 THEN "done" ELSE "descend"
        /\ nodes' = nodes
    BY <1>4 DEF EndDescend, Return, ControlInv, Building
  <2>2. QED
    BY <1>0, <2>1, PopControl
<1>5. CASE Partition
  <2> DEFINE f == [Top EXCEPT !.run = {},
               !.children = [q \in Octant |->
                  {i \in Top.run : ChildOctant(Top.box, points[i]) = q}]]
  <2>1. /\ stack # <<>> /\ status = "assign" /\ status' = "select"
        /\ points' = points /\ nodes' = nodes /\ order' = order
        /\ 0 \in Octant
    BY <1>5 DEF Partition, ControlInv, Building, Octant
  <2>2. Top \in Frame /\ f \in Frame
    BY <2>1, StackParts, NextFrames
  <2>3. f.run = {} /\ f.octant = 0 /\ f.start = Top.start
    BY <2>1, <2>2 DEF ControlInv, Frame
  <2>4. stack' = WithTop(f)
    BY <1>5 DEF Partition
  <2> HIDE DEF f
  <2>5. QED
    BY <1>0, <2>1, <2>2, <2>3, <2>4, TopControl DEF Octant
<1>6. CASE SelectPoint
  <2> DEFINE o == Top.octant
             next == (o + 1) % 8
             run == Top.children[o]
             f == [Top EXCEPT !.octant = next]
             g == [Top EXCEPT !.children[o] = run \ {Least(run)}, !.octant = next]
  <2>1. /\ stack # <<>> /\ status = "select" /\ status' = "select"
        /\ points' = points /\ nodes' = nodes /\ o \in Octant /\ Top.run = {}
    BY <1>6 DEF SelectPoint, ControlInv, Building
  <2>2. Top \in Frame
    BY <2>1, StackParts
  <2>3. next \in Octant /\ next \in 0..8
    BY <2>1 DEF Octant
  <2>4. f \in Frame /\ g \in Frame
    BY <2>1, <2>3, NextFrames
  <2>5. f.run = {} /\ f.octant = next /\ g.run = {} /\ g.octant = next
    BY <2>1, <2>2 DEF Frame
  <2>6. CASE run = {}
    <3>1. stack' = WithTop(f) /\ order' = order /\ f.start = Top.start
      BY <1>6, <2>2, <2>6 DEF SelectPoint, Frame
    <3> HIDE DEF f, g, next
    <3>2. QED
      BY <1>0, <2>1, <2>3, <2>4, <2>5, <3>1, TopControl
  <2>7. CASE run # {}
    <3>1. stack' = WithTop(g) /\ order' = Append(order, Least(run))
      BY <1>6, <2>7 DEF SelectPoint
    <3>2. run \in SUBSET DOMAIN points
      BY <2>1, <2>2 DEF Frame
    <3>3. Least(run) \in DOMAIN points
      BY <2>7, <3>2, LeastOfRun
    <3>4. order' \in Seq(DOMAIN points)
      BY <1>0, <3>1, <3>3, AppendProperties
    <3>5. Len(order) <= Len(order') /\ g.start = Top.start
      BY <1>0, <2>2, <3>1, <3>3, AppendProperties DEF Frame
    <3> HIDE DEF f, g, next, run
    <3>6. QED
      BY <1>0, <2>1, <2>3, <2>4, <2>5, <3>1, <3>4, <3>5, TopControl
  <2>8. QED
    BY <2>6, <2>7
<1>7. CASE EndSelect
  <2> DEFINE f == [Top EXCEPT !.octant = 0]
  <2>1. /\ stack # <<>> /\ status = "select" /\ status' = "descend" /\ Top.run = {}
        /\ points' = points /\ order' = order /\ nodes' = nodes \cup {NodeRange}
        /\ stack' = WithTop(f) /\ 0 \in Octant /\ 0 \in 0..8
    BY <1>7 DEF EndSelect, ControlInv, Building, Octant
  <2>2. Top \in Frame /\ f \in Frame
    BY <2>1, StackParts, NextFrames
  <2>3. DoneUpTo(f) /\ f.start = Top.start
    BY <2>1, <2>2 DEF DoneUpTo, Frame, Octant
  <2> HIDE DEF f
  <2>4. nodes' \subseteq NodeRanges
    BY <1>0, <2>1, NodeRangeType
  <2>5. QED
    BY <1>0, <2>1, <2>2, <2>3, <2>4, TopControl
<1>11. CASE Descend
  <2> DEFINE o == Top.octant
             run == Top.children[o]
             f == [Top EXCEPT !.children[o] = {}, !.octant = o + 1]
             g == Call(Child(Top.key, o), run, OctantBox(Top.box, o), Len(order))
  <2>1. /\ stack # <<>> /\ status = "descend" /\ DoneUpTo(Top) /\ Top.octant < 8
        /\ points' = points /\ nodes' = nodes /\ order' = order
    BY <1>11 DEF Descend, ControlInv, Building
  <2>2. Top \in Frame
    BY <2>1, StackParts
  <2>3. o \in Octant /\ o + 1 \in 0..8
    BY <2>1, <2>2 DEF Frame, Octant
  <2>4. f \in Frame /\ g \in Frame
    BY <2>1, <2>3, NextFrames
  <2>5. DoneUpTo(f)
    BY <2>1, <2>2, <2>3 DEF DoneUpTo, Frame, Octant
  <2>6. g.children = NoChildren /\ g.octant = 0
    BY DEF Call
  <2>7. CASE run = {}
    <3>1. stack' = WithTop(f) /\ status' = status /\ f.start = Top.start
      BY <1>11, <2>2, <2>7 DEF Descend, Frame
    <3> HIDE DEF f
    <3>2. QED
      BY <1>0, <2>1, <2>4, <2>5, <3>1, TopControl
  <2>8. CASE run # {}
    <3>1. stack' = Append(WithTop(f), g) /\ status' = "assign"
      BY <1>11, <2>8 DEF Descend
    <3> HIDE DEF f, g
    <3>2. /\ stack' \in Seq(Frame) /\ stack' # <<>>
          /\ Len(stack') = Len(stack) + 1
          /\ stack'[Len(stack) + 1] = g /\ stack'[Len(stack)] = f
          /\ \A n \in 1..(Len(stack) - 1) : stack'[n] = stack[n]
      <4> DEFINE s == Append(WithTop(f), g)
      <4>1. /\ s \in Seq(Frame) /\ s # <<>>
            /\ Len(s) = Len(stack) + 1
            /\ s[Len(stack) + 1] = g /\ s[Len(stack)] = f
            /\ \A n \in 1..(Len(stack) - 1) : s[n] = stack[n]
        BY <2>1, <2>4, StackPushed
      <4>2. stack' = s
        BY <3>1
      <4> HIDE DEF s
      <4>3. QED
        BY <4>1, <4>2
    <3>3. Len(stack) \in Nat /\ Len(stack) >= 1
      BY <2>1, StackParts
    <3>4. Top' = g
      BY <3>2 DEF Top
    <3>5. \A n \in 1..Len(stack') : n < Len(stack') => DoneUpTo(stack'[n])
      <4>1. \A n \in 1..Len(stack) : n < Len(stack) => DoneUpTo(stack[n])
        BY DEF ControlInv
      <4>2. ASSUME NEW n \in 1..Len(stack'), n < Len(stack') PROVE DoneUpTo(stack'[n])
        <5>1. n = Len(stack) \/ n \in 1..(Len(stack) - 1)
          BY <4>2, <3>2, <3>3
        <5>2. CASE n = Len(stack)
          BY <5>2, <3>2, <2>5
        <5>3. CASE n \in 1..(Len(stack) - 1)
          BY <5>3, <4>1, <3>2, <3>3
        <5>4. QED
          BY <5>1, <5>2, <5>3
      <4>3. QED
        BY <4>2
    <3>6. TypeOK'
      BY <1>0, <2>1, <3>1, <3>2 DEF TypeOK, Frame
    <3>7. \A n \in 1..Len(stack') : stack'[n].start <= Len(order')
      <4>1. f.start = Top.start /\ g.start = Len(order)
        BY <2>2 DEF f, g, Frame, Call
      <4>2. \A n \in 1..Len(stack) : stack[n].start <= Len(order)
        BY DEF ControlInv
      <4>3. QED
        BY <1>0, <2>1, <3>2, <3>3, <4>1, <4>2 DEF Top
    <3>8. ControlInv'
      BY <2>6, <3>1, <3>2, <3>4, <3>5, <3>7 DEF ControlInv, Building
    <3>9. QED
      BY <3>6, <3>8
  <2>9. QED
    BY <2>7, <2>8
<1>8. CASE TooDeep
  BY <1>8 DEF TooDeep, TypeOK, ControlInv, Building, Top, Frame
<1>9. CASE Fail
  BY <1>9 DEF Fail, TypeOK, ControlInv, Building, Top, Frame
<1>10. CASE UNCHANGED vars
  BY <1>10 DEF vars, TypeOK, ControlInv, Building, Top, Frame
<1>12. QED
  BY <1>1, <1>2, <1>3, <1>4, <1>5, <1>6, <1>7, <1>8, <1>9, <1>10, <1>11 DEF Next, Step

\* Every variable has its type: keys and boxes stay those of voxels inside
\* the cube however deep the calls of assign go.
THEOREM TypeCorrect == Spec => []TypeOK
<1>1. Spec => [](TypeOK /\ ControlInv)
  BY InitControl, StepControl, PTL DEF Spec
<1>2. QED
  BY <1>1, PTL

-----------------------------------------------------------------------------
\* The points a frame holds, taken together and apart.
LEMMA HeldParts ==
  ASSUME TypeOK, stack # <<>>
  PROVE  /\ \A o \in Octant : Top.children[o] \subseteq Held(Top)
         /\ Top.run \subseteq Held(Top)
         /\ Held(Top) \subseteq DOMAIN points
         /\ (\A o \in Octant : Top.children[o] = {}) => Held(Top) = Top.run
<1>1. Top \in Frame
  BY StackParts
<1>2. QED
  BY <1>1 DEF Held, Frame

\* The parts of EachPointOnce, over positions of the stack.
Once(o, s) ==
  /\ {o[j] : j \in 1..Len(o)} \cup UNION {Held(s[n]) : n \in 1..Len(s)} = DOMAIN points
  /\ \A i, j \in 1..Len(o) : o[i] = o[j] => i = j
  /\ \A n \in 1..Len(s) :
       /\ Held(s[n]) \cap {o[j] : j \in 1..Len(o)} = {}
       /\ \A m \in 1..Len(s) : m # n => Held(s[n]) \cap Held(s[m]) = {}
       /\ \A p, q \in Octant : p # q => s[n].children[p] \cap s[n].children[q] = {}

LEMMA OncePrimed ==
  ASSUME points' = points, Once(order', stack') PROVE Once(order, stack)'
BY DEF Once, Held

LEMMA OnceIsOnce ==
  TypeOK /\ ControlInv => (EachPointOnce <=> Once(order, stack))
<1> SUFFICES ASSUME TypeOK, ControlInv PROVE EachPointOnce <=> Once(order, stack)
  OBVIOUS
<1>1. DOMAIN order = 1..Len(order) /\ DOMAIN stack = 1..Len(stack)
  BY LenProperties DEF TypeOK
<1>2. QED
  BY <1>1 DEF EachPointOnce, Once, Ordered, ControlInv

\* The running call replaces its frame by one that holds the same points,
\* or writes one of them.
LEMMA OnceTop ==
  ASSUME TypeOK, stack # <<>>, Once(order, stack), NEW f \in Frame,
         stack' = WithTop(f), points' = points,
         \/ order' = order /\ Held(f) = Held(Top)
         \/ \E i \in Held(Top) : order' = Append(order, i) /\ Held(f) = Held(Top) \ {i},
         \A p, q \in Octant : p # q => f.children[p] \cap f.children[q] = {}
  PROVE  Once(order, stack)'
<1> DEFINE L == Len(stack)
<1>1. /\ Len(stack') = L /\ stack'[L] = f
      /\ \A n \in 1..(L - 1) : stack'[n] = stack[n]
      /\ L \in Nat /\ L >= 1 /\ stack[L] = Top
  BY StackWithTop, StackParts DEF Top
<1>2. order \in Seq(DOMAIN points) /\ Len(order) \in Nat
  BY LenProperties DEF TypeOK
<1> DEFINE Out(o) == {o[j] : j \in 1..Len(o)}
<1> HIDE DEF L
<1>3. \A n \in 1..L : n # L => n \in 1..(L - 1)
  BY <1>1
<1>4. CASE order' = order /\ Held(f) = Held(Top)
  <2>1. \A n \in 1..L : Held(stack'[n]) = Held(stack[n])
    BY <1>1, <1>3, <1>4
  <2>2. {Held(stack'[n]) : n \in 1..L} = {Held(stack[n]) : n \in 1..L}
    BY <2>1
  <2>3. \A n \in 1..L : \A p, q \in Octant :
          p # q => stack'[n].children[p] \cap stack'[n].children[q] = {}
    BY <1>1, <1>3 DEF Once, L
  <2>4. /\ Out(order) \cup UNION {Held(stack[n]) : n \in 1..L} = DOMAIN points
        /\ \A i, j \in 1..Len(order) : order[i] = order[j] => i = j
        /\ \A n \in 1..L :
             /\ Held(stack[n]) \cap Out(order) = {}
             /\ \A m \in 1..L : m # n => Held(stack[n]) \cap Held(stack[m]) = {}
    BY DEF Once, L
  <2>5. /\ Out(order) \cup UNION {Held(stack'[n]) : n \in 1..L} = DOMAIN points
        /\ \A n \in 1..L :
             /\ Held(stack'[n]) \cap Out(order) = {}
             /\ \A m \in 1..L : m # n => Held(stack'[n]) \cap Held(stack'[m]) = {}
    <3> HIDE DEF Out
    <3>1. QED
      BY <2>1, <2>2, <2>4
  <2>6. QED
    BY <1>1, <1>4, <2>3, <2>4, <2>5 DEF Once
<1>5. ASSUME NEW i \in Held(Top), order' = Append(order, i), Held(f) = Held(Top) \ {i}
      PROVE  Once(order, stack)'
  <2>1. i \in DOMAIN points
    BY HeldParts
  <2>2. /\ Len(order') = Len(order) + 1 /\ order'[Len(order) + 1] = i
        /\ \A j \in 1..Len(order) : order'[j] = order[j]
    BY <1>2, <1>5, <2>1, AppendProperties
  <2>3. Out(order') = Out(order) \cup {i}
    BY <1>2, <2>2
  <2>4. i \notin Out(order) /\ \A n \in 1..(L - 1) : i \notin Held(stack[n])
    <3>1. i \in Held(stack[L]) /\ L \in 1..L
      BY <1>1, <1>5
    <3>2. Held(stack[L]) \cap Out(order) = {}
      BY <3>1 DEF Once, L
    <3>3. \A n \in 1..L : n # L => Held(stack[L]) \cap Held(stack[n]) = {}
      BY <3>1 DEF Once, L
    <3>4. \A n \in 1..(L - 1) : n \in 1..L /\ n # L
      BY <1>1
    <3>5. QED
      BY <3>1, <3>2, <3>3, <3>4
  <2>5. \A n \in 1..(L - 1) : Held(stack'[n]) = Held(stack[n])
    BY <1>1
  <2>6. Held(stack'[L]) = Held(stack[L]) \ {i} /\ i \in Held(stack[L])
    BY <1>1, <1>5
  <2>7. Out(order') \cup UNION {Held(stack'[n]) : n \in 1..L}
          = Out(order) \cup UNION {Held(stack[n]) : n \in 1..L}
    <3> DEFINE A == UNION {Held(stack[n]) : n \in 1..(L - 1)}
               B == UNION {Held(stack'[n]) : n \in 1..(L - 1)}
    <3>1. A = B
      BY <2>5
    <3>2. UNION {Held(stack[n]) : n \in 1..L} = A \cup Held(stack[L])
      BY <1>1, <1>3
    <3>3. UNION {Held(stack'[n]) : n \in 1..L} = B \cup Held(stack'[L])
      BY <1>1, <1>3
    <3> HIDE DEF A, B, Out
    <3>4. QED
      BY <3>1, <3>2, <3>3, <2>3, <2>6
  <2>8. \A j, k \in 1..Len(order') : order'[j] = order'[k] => j = k
    <3>1. SUFFICES ASSUME NEW j \in 1..Len(order'), NEW k \in 1..Len(order'), order'[j] = order'[k]
                   PROVE  j = k
      OBVIOUS
    <3>2. \A n \in 1..Len(order) : order[n] # i
      BY <2>4
    <3>3. \A m, n \in 1..Len(order) : order[m] = order[n] => m = n
      BY DEF Once
    <3>4. QED
      BY <1>2, <2>2, <3>1, <3>2, <3>3
  <2>9. ASSUME NEW n \in 1..L
        PROVE  /\ Held(stack'[n]) \cap Out(order') = {}
               /\ \A m \in 1..L : m # n => Held(stack'[n]) \cap Held(stack'[m]) = {}
               /\ \A p, q \in Octant : p # q => stack'[n].children[p] \cap stack'[n].children[q] = {}
    <3>1. /\ Held(stack[n]) \cap Out(order) = {}
          /\ \A m \in 1..L : m # n => Held(stack[n]) \cap Held(stack[m]) = {}
          /\ \A p, q \in Octant : p # q => stack[n].children[p] \cap stack[n].children[q] = {}
      BY DEF Once, L
    <3>2. \A m \in 1..L : Held(stack'[m]) \subseteq Held(stack[m]) /\ i \notin Held(stack'[m])
      BY <1>3, <2>4, <2>5, <2>6
    <3>3. Held(stack'[n]) \cap Out(order') = {}
      <4>1. Held(stack'[n]) \subseteq Held(stack[n]) /\ i \notin Held(stack'[n])
        BY <3>2
      <4> HIDE DEF Out
      <4>2. QED
        BY <2>3, <3>1, <4>1
    <3>4. \A m \in 1..L : m # n => Held(stack'[n]) \cap Held(stack'[m]) = {}
      BY <3>1, <3>2
    <3>5. \A p, q \in Octant : p # q => stack'[n].children[p] \cap stack'[n].children[q] = {}
      BY <1>1, <1>3, <3>1
    <3>6. QED
      BY <3>3, <3>4, <3>5
  <2>10. Out(order) \cup UNION {Held(stack[n]) : n \in 1..L} = DOMAIN points
    BY DEF Once, L
  <2>11. QED
    BY <1>1, <2>7, <2>8, <2>9, <2>10 DEF Once, L
<1>6. QED
  BY <1>4, <1>5

\* The running call returns, and holds nothing.
LEMMA OncePop ==
  ASSUME TypeOK, stack # <<>>, Once(order, stack), stack' = Callers, order' = order,
         points' = points, Held(Top) = {}
  PROVE  Once(order, stack)'
<1> DEFINE L == Len(stack)
           Out == {order[j] : j \in 1..Len(order)}
<1>1. /\ Len(stack') = L - 1 /\ L \in Nat /\ L >= 1 /\ Held(stack[L]) = {}
      /\ \A n \in 1..(L - 1) : stack'[n] = stack[n] /\ n \in 1..L
      /\ \A n \in 1..L : n # L => n \in 1..(L - 1)
  BY StackParts DEF Top
<1>2. /\ Out \cup UNION {Held(stack[n]) : n \in 1..L} = DOMAIN points
      /\ \A i, j \in 1..Len(order) : order[i] = order[j] => i = j
      /\ \A n \in 1..L :
           /\ Held(stack[n]) \cap Out = {}
           /\ \A m \in 1..L : m # n => Held(stack[n]) \cap Held(stack[m]) = {}
           /\ \A p, q \in Octant : p # q => stack[n].children[p] \cap stack[n].children[q] = {}
  BY DEF Once
<1> HIDE DEF L, Out
<1>3. UNION {Held(stack[n]) : n \in 1..L} = UNION {Held(stack'[n]) : n \in 1..(L - 1)}
  BY <1>1
<1>4. /\ Out \cup UNION {Held(stack'[n]) : n \in 1..(L - 1)} = DOMAIN points
      /\ \A n \in 1..(L - 1) :
           /\ Held(stack'[n]) \cap Out = {}
           /\ \A m \in 1..(L - 1) : m # n => Held(stack'[n]) \cap Held(stack'[m]) = {}
           /\ \A p, q \in Octant : p # q => stack'[n].children[p] \cap stack'[n].children[q] = {}
  BY <1>1, <1>2, <1>3
<1>5. Once(order, stack')
  BY <1>1, <1>2, <1>4 DEF Once, Out
<1>6. QED
  BY <1>5, OncePrimed

\* The running call hands some of its points to a new one.
LEMMA OncePush ==
  ASSUME TypeOK, stack # <<>>, Once(order, stack), NEW f \in Frame, NEW g \in Frame,
         stack' = Append(WithTop(f), g), order' = order, points' = points,
         Held(f) \cup Held(g) = Held(Top), Held(f) \cap Held(g) = {},
         \A p, q \in Octant : p # q =>
           f.children[p] \cap f.children[q] = {} /\ g.children[p] \cap g.children[q] = {}
  PROVE  Once(order, stack)'
<1> DEFINE L == Len(stack)
           Out == {order[j] : j \in 1..Len(order)}
<1>1. /\ Len(stack') = L + 1 /\ L \in Nat /\ L >= 1 /\ Held(stack[L]) = Held(Top)
      /\ stack'[L] = f /\ stack'[L + 1] = g
      /\ \A n \in 1..(L - 1) : stack'[n] = stack[n] /\ n \in 1..L
      /\ \A n \in 1..(L + 1) : n \in 1..(L - 1) \/ n = L \/ n = L + 1
      /\ \A n \in 1..L : n \in 1..(L - 1) \/ n = L
      /\ L \in 1..L
  <2>1. /\ L \in Nat /\ L >= 1 /\ Held(stack[L]) = Held(Top)
    BY StackParts DEF Top
  <2>2. /\ Len(stack') = L + 1 /\ stack'[L] = f /\ stack'[L + 1] = g
        /\ \A n \in 1..(L - 1) : stack'[n] = stack[n]
    BY StackPushed
  <2> HIDE DEF L
  <2>3. QED
    BY <2>1, <2>2
<1>2. /\ Out \cup UNION {Held(stack[n]) : n \in 1..L} = DOMAIN points
      /\ \A i, j \in 1..Len(order) : order[i] = order[j] => i = j
      /\ \A n \in 1..L :
           /\ Held(stack[n]) \cap Out = {}
           /\ \A m \in 1..L : m # n => Held(stack[n]) \cap Held(stack[m]) = {}
           /\ \A p, q \in Octant : p # q => stack[n].children[p] \cap stack[n].children[q] = {}
  BY DEF Once
<1> HIDE DEF L, Out
<1>3. UNION {Held(stack'[n]) : n \in 1..(L + 1)} = UNION {Held(stack[n]) : n \in 1..L}
  <2> DEFINE A == UNION {Held(stack[n]) : n \in 1..(L - 1)}
  <2>1. UNION {Held(stack[n]) : n \in 1..L} = A \cup Held(stack[L])
    BY <1>1
  <2>2. A = UNION {Held(stack'[n]) : n \in 1..(L - 1)}
    BY <1>1
  <2>3. /\ L \in 1..(L + 1) /\ L + 1 \in 1..(L + 1)
        /\ \A n \in 1..(L - 1) : n \in 1..(L + 1)
    BY <1>1
  <2> HIDE DEF A
  <2>4. UNION {Held(stack'[n]) : n \in 1..(L + 1)} = A \cup Held(f) \cup Held(g)
    BY <1>1, <2>2, <2>3
  <2>5. QED
    BY <1>1, <2>1, <2>4
<1>4. ASSUME NEW n \in 1..(L + 1)
      PROVE  /\ Held(stack'[n]) \cap Out = {}
             /\ \A m \in 1..(L + 1) : m # n => Held(stack'[n]) \cap Held(stack'[m]) = {}
             /\ \A p, q \in Octant : p # q => stack'[n].children[p] \cap stack'[n].children[q] = {}
  <2>1. \A m \in 1..(L - 1) : Held(stack[m]) \cap Held(Top) = {} /\ m # L
    <3>1. SUFFICES ASSUME NEW m \in 1..(L - 1)
                   PROVE  Held(stack[m]) \cap Held(Top) = {} /\ m # L
      OBVIOUS
    <3>2. m # L /\ m \in 1..L /\ L \in 1..L
      BY <1>1
    <3>3. Held(stack[m]) \cap Held(stack[L]) = {}
      BY <1>2, <3>2
    <3>4. QED
      BY <1>1, <3>2, <3>3
  <2>2. Held(Top) \cap Out = {}
    BY <1>1, <1>2
  <2>3. Held(stack'[n]) \cap Out = {}
    BY <1>1, <1>2, <2>2
  <2>4. \A m \in 1..(L + 1) : m # n => Held(stack'[n]) \cap Held(stack'[m]) = {}
    <3>1. CASE n \in 1..(L - 1)
      BY <3>1, <1>1, <1>2, <2>1
    <3>2. CASE n = L
      BY <3>2, <1>1, <2>1
    <3>3. CASE n = L + 1
      BY <3>3, <1>1, <2>1
    <3>4. QED
      BY <1>1, <3>1, <3>2, <3>3
  <2>5. \A p, q \in Octant : p # q => stack'[n].children[p] \cap stack'[n].children[q] = {}
    BY <1>1, <1>2
  <2>6. QED
    BY <2>3, <2>4, <2>5
<1>5. Out \cup UNION {Held(stack'[n]) : n \in 1..Len(stack')} = DOMAIN points
  BY <1>1, <1>2, <1>3
<1>6. Once(order, stack')
  BY <1>1, <1>2, <1>4, <1>5 DEF Once, Out
<1>7. QED
  BY <1>6, OncePrimed

-----------------------------------------------------------------------------
LEMMA InitOnce == Init => Once(order, stack)
<1> SUFFICES ASSUME Init PROVE Once(order, stack)
  OBVIOUS
<1>1. /\ Len(order) = 0 /\ Len(stack) = 1
      /\ stack[1].children = NoChildren /\ stack[1].run = DOMAIN points
  BY DEF Init, Call
<1>2. UNION {NoChildren[o] : o \in Octant} = {}
  BY DEF NoChildren
<1>3. Held(stack[1]) = DOMAIN points
  BY <1>1, <1>2 DEF Held
<1>4. {order[j] : j \in 1..Len(order)} = {}
  BY <1>1
<1>5. 1..Len(stack) = {1}
  BY <1>1
<1>6. UNION {Held(stack[n]) : n \in 1..Len(stack)} = DOMAIN points
  BY <1>3, <1>5
<1>7. \A p, q \in Octant : p # q => stack[1].children[p] \cap stack[1].children[q] = {}
  BY <1>1 DEF NoChildren
<1>8. \A i, j \in 1..Len(order) : order[i] = order[j] => i = j
  BY <1>1
<1>9. QED
  BY <1>4, <1>5, <1>6, <1>7, <1>8 DEF Once

LEMMA StepOnce ==
  ASSUME TypeOK, ControlInv, Once(order, stack), [Next]_vars PROVE Once(order, stack)'
<1>0. Building => stack # <<>>
  BY DEF ControlInv
<1>a. ASSUME stack # <<>>
      PROVE  /\ Top \in Frame
             /\ \A p, q \in Octant : p # q => Top.children[p] \cap Top.children[q] = {}
  BY <1>a, StackParts DEF Once, Top
<1>1. CASE StartLeaf \/ TooDeep \/ Fail \/ UNCHANGED vars
  <2>1. UNCHANGED <<points, order, stack>>
    BY <1>1 DEF StartLeaf, TooDeep, Fail, vars
  <2>2. QED
    BY <2>1, OncePrimed
<1>2. CASE CopyPoint
  <2> DEFINE i == Least(Top.run)
             f == [Top EXCEPT !.run = @ \ {i}]
  <2>1. /\ stack # <<>> /\ Top.children = NoChildren /\ Top.run # {}
        /\ stack' = WithTop(f) /\ order' = Append(order, i) /\ points' = points
    BY <1>0, <1>2 DEF CopyPoint, ControlInv, Building
  <2>2. Top \in Frame
    BY <2>1, <1>a
  <2>3. i \in Top.run
    BY <2>1, <2>2, LeastOfRun DEF Frame
  <2>4. f \in Frame /\ f.run = Top.run \ {i} /\ f.children = NoChildren
    BY <2>1, <2>2 DEF Frame
  <2>5. Held(Top) = Top.run /\ Held(f) = Top.run \ {i}
    BY <2>1, <2>4 DEF Held, NoChildren
  <2>6. \A p, q \in Octant : p # q => f.children[p] \cap f.children[q] = {}
    BY <2>4 DEF NoChildren
  <2> HIDE DEF f, i
  <2>7. QED
    BY <2>1, <2>3, <2>4, <2>5, <2>6, OnceTop
<1>3. CASE EndLeaf
  <2>1. /\ stack # <<>> /\ Top.children = NoChildren /\ Top.run = {}
        /\ stack' = Callers /\ order' = order /\ points' = points
    BY <1>0, <1>3 DEF EndLeaf, Return, ControlInv, Building
  <2>2. Held(Top) = {}
    BY <2>1 DEF Held, NoChildren
  <2>3. QED
    BY <2>1, <2>2, OncePop
<1>4. CASE Partition
  <2> DEFINE part == [q \in Octant |-> {i \in Top.run : ChildOctant(Top.box, points[i]) = q}]
             f == [Top EXCEPT !.run = {}, !.children = part]
  <2>1. /\ stack # <<>> /\ Top.children = NoChildren
        /\ stack' = WithTop(f) /\ order' = order /\ points' = points
    BY <1>0, <1>4 DEF Partition, ControlInv, Building
  <2>2. Top \in Frame
    BY <2>1, <1>a
  <2>3. f \in Frame /\ f.run = {} /\ f.children = part
    BY <2>2 DEF Frame
  <2>4. UNION {part[o] : o \in Octant} = Top.run
    BY OctantType
  <2>5. Held(Top) = Top.run
    BY <2>1 DEF Held, NoChildren
  <2>6. \A p, q \in Octant : p # q => part[p] \cap part[q] = {}
    OBVIOUS
  <2> HIDE DEF part
  <2>7. Held(f) = Held(Top)
    BY <2>3, <2>4, <2>5 DEF Held
  <2> HIDE DEF f
  <2>8. QED
    BY <2>1, <2>3, <2>6, <2>7, OnceTop
<1>5. CASE SelectPoint
  <2> DEFINE o == Top.octant
             next == (o + 1) % 8
             run == Top.children[o]
             f == [Top EXCEPT !.octant = next]
             g == [Top EXCEPT !.children[o] = run \ {Least(run)}, !.octant = next]
  <2>1. /\ stack # <<>> /\ o \in Octant /\ Top.run = {} /\ points' = points
    BY <1>0, <1>5 DEF SelectPoint, ControlInv, Building
  <2>2. Top \in Frame /\ \A p, q \in Octant : p # q => Top.children[p] \cap Top.children[q] = {}
    BY <2>1, <1>a
  <2>3. next \in 0..8
    BY <2>1 DEF Octant
  <2>4. f \in Frame /\ g \in Frame
    BY <2>1, <2>3, NextFrames
  <2>5. CASE run = {}
    <3>1. stack' = WithTop(f) /\ order' = order
      BY <1>5, <2>5 DEF SelectPoint
    <3>2. f.children = Top.children /\ f.run = Top.run
      BY <2>2 DEF Frame
    <3>3. Held(f) = Held(Top)
      BY <3>2 DEF Held
    <3> HIDE DEF f
    <3>4. QED
      BY <2>1, <2>2, <2>4, <3>1, <3>2, <3>3, OnceTop
  <2>6. CASE run # {}
    <3>1. stack' = WithTop(g) /\ order' = Append(order, Least(run))
      BY <1>5, <2>6 DEF SelectPoint
    <3>2. run \in SUBSET DOMAIN points /\ run \subseteq Held(Top)
      BY <2>1, <2>2 DEF Frame, Held
    <3>3. Least(run) \in run
      BY <2>6, <3>2, LeastOfRun
    <3>4. /\ g.run = {} /\ g.children[o] = run \ {Least(run)}
          /\ \A p \in Octant : p # o => g.children[p] = Top.children[p]
      BY <2>1, <2>2 DEF Frame
    <3> HIDE DEF g
    <3>5. Held(g) = Held(Top) \ {Least(run)}
      <4>1. \A p \in Octant : p # o => Top.children[p] \cap run = {}
        BY <2>1, <2>2
      <4>2. \A p \in Octant : g.children[p] = Top.children[p] \ {Least(run)}
        BY <3>3, <3>4, <4>1
      <4>3. Held(g) = UNION {g.children[p] : p \in Octant}
            /\ Held(Top) = UNION {Top.children[p] : p \in Octant}
        BY <2>1, <3>4 DEF Held
      <4> HIDE DEF run, o
      <4>4. QED
        BY <4>2, <4>3
    <3>6. \A p, q \in Octant : p # q => g.children[p] \cap g.children[q] = {}
      BY <2>2, <3>4
    <3>7. Least(run) \in Held(Top)
      BY <3>2, <3>3
    <3> HIDE DEF run
    <3>8. QED
      BY <2>1, <2>4, <3>1, <3>5, <3>6, <3>7, OnceTop
  <2>7. QED
    BY <2>5, <2>6
<1>6. CASE EndSelect
  <2> DEFINE f == [Top EXCEPT !.octant = 0]
  <2>1. /\ stack # <<>> /\ stack' = WithTop(f) /\ order' = order /\ points' = points
        /\ 0 \in 0..8
    BY <1>0, <1>6 DEF EndSelect, Building
  <2>2. Top \in Frame /\ \A p, q \in Octant : p # q => Top.children[p] \cap Top.children[q] = {}
    BY <2>1, <1>a
  <2>3. f \in Frame /\ f.children = Top.children /\ f.run = Top.run
    BY <2>1, <2>2 DEF Frame
  <2>4. Held(f) = Held(Top)
    BY <2>3 DEF Held
  <2> HIDE DEF f
  <2>5. QED
    BY <2>1, <2>2, <2>3, <2>4, OnceTop
<1>7. CASE Descend
  <2> DEFINE o == Top.octant
             run == Top.children[o]
             f == [Top EXCEPT !.children[o] = {}, !.octant = o + 1]
             g == Call(Child(Top.key, o), run, OctantBox(Top.box, o), Len(order))
  <2>1. /\ stack # <<>> /\ Top.octant < 8 /\ points' = points /\ order' = order /\ Top.run = {}
    BY <1>0, <1>7 DEF Descend, Building, ControlInv, DoneUpTo
  <2>2. Top \in Frame /\ \A p, q \in Octant : p # q => Top.children[p] \cap Top.children[q] = {}
    BY <2>1, <1>a
  <2>3. o \in Octant /\ o + 1 \in 0..8
    BY <2>1, <2>2 DEF Frame, Octant
  <2>4. f \in Frame /\ g \in Frame
    BY <2>1, <2>3, NextFrames
  <2>5. /\ f.run = {} /\ f.children[o] = {}
        /\ \A p \in Octant : p # o => f.children[p] = Top.children[p]
        /\ g.run = run /\ g.children = NoChildren
    BY <2>1, <2>2, <2>3 DEF Frame, Call
  <2> HIDE DEF f, g
  <2>6. /\ Held(g) = run
        /\ Held(f) = UNION {f.children[p] : p \in Octant}
        /\ Held(Top) = UNION {Top.children[p] : p \in Octant}
    BY <2>1, <2>5 DEF Held, NoChildren
  <2>7. \A p \in Octant : f.children[p] = Top.children[p] \ run
    BY <2>2, <2>3, <2>5
  <2>8. \A p, q \in Octant : p # q =>
          f.children[p] \cap f.children[q] = {} /\ g.children[p] \cap g.children[q] = {}
    BY <2>2, <2>7, <2>5 DEF NoChildren
  <2>9. Held(f) = Held(Top) \ run /\ run \subseteq Held(Top)
    BY <2>3, <2>6, <2>7
  <2>10. CASE run = {}
    <3>1. stack' = WithTop(f)
      BY <1>7, <2>10 DEF Descend, f
    <3>2. Held(f) = Held(Top)
      BY <2>9, <2>10
    <3>3. QED
      BY <2>1, <2>4, <2>8, <3>1, <3>2, OnceTop
  <2>11. CASE run # {}
    <3>1. stack' = Append(WithTop(f), g)
      BY <1>7, <2>11 DEF Descend, f, g
    <3>2. Held(f) \cup Held(g) = Held(Top) /\ Held(f) \cap Held(g) = {}
      BY <2>6, <2>9
    <3>3. QED
      BY <2>1, <2>4, <2>8, <3>1, <3>2, OncePush
  <2>12. QED
    BY <2>10, <2>11
<1>8. CASE EndDescend
  <2>1. /\ stack # <<>> /\ DoneUpTo(Top) /\ Top.octant = 8
        /\ stack' = Callers /\ order' = order /\ points' = points
    BY <1>0, <1>8 DEF EndDescend, Return, ControlInv, Building
  <2>2. Held(Top) = {}
    BY <2>1 DEF Held, DoneUpTo, Octant
  <2>3. QED
    BY <2>1, <2>2, OncePop
<1>9. QED
  BY <1>1, <1>2, <1>3, <1>4, <1>5, <1>6, <1>7, <1>8 DEF Next, Step

\* However the points are split, selected and handed down, each is written
\* to the order file once or still held by one call (partition_index_run,
\* append_lod_selection_to_order, assign): a finished file has them all.
THEOREM PointsConserved == Spec => []EachPointOnce
<1>1. Init => TypeOK /\ ControlInv /\ Once(order, stack)
  BY InitControl, InitOnce
<1>2. TypeOK /\ ControlInv /\ Once(order, stack) /\ [Next]_vars
        => (TypeOK /\ ControlInv /\ Once(order, stack))'
  BY StepControl, StepOnce
<1>3. TypeOK /\ ControlInv /\ Once(order, stack) => EachPointOnce
  BY OnceIsOnce
<1>4. QED
  BY <1>1, <1>2, <1>3, PTL DEF Spec

-----------------------------------------------------------------------------
\* The first m places of the order file are divided between the nodes ns.
Tiles(ns, m) ==
  /\ \A j \in 1..m : \E n \in ns : Covers(n, j)
  /\ \A n \in ns :
       /\ 0 < n.count /\ n.count <= MaxPointsPerNode /\ n.start + n.count <= m
       /\ \A k \in ns : n # k => n.start + n.count <= k.start \/ k.start + k.count <= n.start

\* The nodes end where the running call began to write; what it has written
\* and has still to copy or select makes one node more.
TileInv ==
  /\ status \in {"descend", "done"} => Tiles(nodes, Len(order))
  /\ status \in {"assign", "copy", "select"} => Tiles(nodes, Top.start)
  /\ status = "assign" => Top.start = Len(order) /\ Top.run # {}
  /\ status = "copy" => Written + Cardinality(Top.run) \in 1..MaxPointsPerNode
  /\ status = "select" => Written <= MaxPointsPerNode

\* A run is a finite set; taking a point out of it leaves one less.
LEMMA RunSize ==
  ASSUME TypeOK, NEW run \in SUBSET DOMAIN points
  PROVE  /\ Cardinality(run) \in Nat
         /\ Cardinality(run) = 0 <=> run = {}
         /\ \A i \in run : Cardinality(run \ {i}) = Cardinality(run) - 1
<1>1. points \in Seq(Position)
  BY LodAssumption DEF TypeOK
<1>2. IsFiniteSet(DOMAIN points)
  <2>1. DOMAIN points = 1..Len(points) /\ Len(points) \in Nat
    BY <1>1, LenProperties
  <2>2. QED
    BY <2>1, FS_Interval
<1>3. IsFiniteSet(run)
  BY <1>2, FS_Subset
<1>4. QED
  BY <1>3, FS_CardinalityType, FS_EmptySet, FS_RemoveElement

\* One node more, where the others end.
LEMMA TileAdded ==
  ASSUME NEW ns, ns \subseteq NodeRanges, NEW r \in NodeRanges,
         Tiles(ns, r.start), r.count \in 1..MaxPointsPerNode
  PROVE  Tiles(ns \cup {r}, r.start + r.count)
<1> DEFINE m == r.start + r.count
<1>1. /\ r.start \in Nat /\ r.count \in Nat /\ m \in Nat /\ MaxPointsPerNode \in Nat
      /\ \A n \in ns : n.start \in Nat /\ n.count \in Nat
  BY LodAssumption DEF NodeRanges
<1>2. ASSUME NEW j \in 1..m PROVE \E n \in ns \cup {r} : Covers(n, j)
  <2>1. CASE j <= r.start
    <3>1. j \in 1..r.start
      BY <1>1, <2>1
    <3>2. QED
      BY <3>1 DEF Tiles
  <2>2. CASE j > r.start
    BY <1>1, <2>2 DEF Covers
  <2>3. QED
    BY <1>1, <2>1, <2>2
<1>3. ASSUME NEW n \in ns
      PROVE  /\ 0 < n.count /\ n.count <= MaxPointsPerNode /\ n.start + n.count <= r.start
             /\ n.start + n.count <= m
  BY <1>1 DEF Tiles
<1>4. \A n \in ns \cup {r} : 0 < n.count /\ n.count <= MaxPointsPerNode /\ n.start + n.count <= m
  BY <1>1, <1>3
<1>5. \A n, k \in ns \cup {r} :
        n # k => n.start + n.count <= k.start \/ k.start + k.count <= n.start
  BY <1>3 DEF Tiles
<1> HIDE DEF m
<1>6. QED
  BY <1>2, <1>4, <1>5 DEF Tiles, m

\* The stack after an action that replaces the running frame.
LEMMA AfterTop ==
  ASSUME TypeOK, stack # <<>>, NEW f \in Frame, stack' = WithTop(f)
  PROVE  /\ stack' # <<>> /\ Len(stack') = Len(stack) /\ Top' = f
         /\ \A n \in 1..(Len(stack) - 1) : stack'[n] = stack[n]
<1>1. QED
  BY StackWithTop DEF Top

LEMMA InitTile == Init => TileInv
<1> SUFFICES ASSUME Init PROVE TileInv
  OBVIOUS
<1> DEFINE f == Call(Root, DOMAIN points, RootCube, 0)
<1>1. f.start = 0 /\ f.run = DOMAIN points
  BY DEF Call
<1>2. stack = <<f>> /\ Len(order) = 0 /\ nodes = {} /\ status = "assign"
  BY DEF Init
<1> HIDE DEF f
<1>3. Top = f
  BY <1>2 DEF Top
<1>4. points \in Seq(Position) /\ points # <<>>
  BY LodAssumption DEF Init
<1>5. DOMAIN points # {}
  <2>1. Len(points) \in Nat /\ Len(points) # 0 /\ DOMAIN points = 1..Len(points)
    BY <1>4, EmptySeq, LenProperties
  <2>2. 1 \in DOMAIN points
    BY <2>1
  <2>3. QED
    BY <2>2
<1>6. Tiles(nodes, 0)
  BY <1>2 DEF Tiles
<1>7. QED
  BY <1>1, <1>2, <1>3, <1>5, <1>6 DEF TileInv

LEMMA StepTile == ASSUME TypeOK, ControlInv, TileInv, [Next]_vars PROVE TileInv'
<1>0. /\ order \in Seq(DOMAIN points) /\ nodes \subseteq NodeRanges
      /\ Len(order) \in Nat /\ MaxPointsPerNode \in Nat \ {0}
  BY LodAssumption, LenProperties DEF TypeOK
<1>a. ASSUME Building
      PROVE  /\ stack # <<>> /\ Top \in Frame /\ Top.run \in SUBSET DOMAIN points
             /\ Written \in Nat /\ NodeRange \in NodeRanges /\ Top.start \in Nat
             /\ NodeRange.start = Top.start /\ NodeRange.count = Written
             /\ Top.start + Written = Len(order)
  <2>1. stack # <<>> /\ Top \in Frame
    BY <1>a, StackParts DEF ControlInv
  <2>2. Written \in Nat /\ NodeRange \in NodeRanges
    BY <2>1, NodeRangeType
  <2>3. QED
    BY <1>0, <2>1, <2>2 DEF Frame, NodeRange, Written
<1>b. ASSUME NEW p \in DOMAIN points
      PROVE  Len(Append(order, p)) = Len(order) + 1
  BY <1>0, AppendProperties
<1>1. CASE StartLeaf
  <2>1. /\ Building /\ status = "assign" /\ status' = "copy"
        /\ Top' = Top /\ Written' = Written /\ nodes' = nodes
        /\ Cardinality(Top.run) <= MaxPointsPerNode
    BY <1>1 DEF StartLeaf, Fits, Building, Top, Written
  <2>2. Written = 0 /\ Cardinality(Top.run) \in Nat /\ Cardinality(Top.run) # 0
    <3>1. Top.start = Len(order) /\ Top.run # {}
      BY <2>1 DEF TileInv
    <3>2. Cardinality(Top.run) \in Nat /\ Cardinality(Top.run) # 0
      BY <1>a, <2>1, <3>1, RunSize
    <3>3. QED
      BY <1>0, <3>1, <3>2 DEF Written
  <2>3. QED
    BY <1>0, <1>a, <2>1, <2>2 DEF TileInv
<1>2. CASE CopyPoint
  <2> DEFINE p == Least(Top.run)
             f == [Top EXCEPT !.run = Top.run \ {p}]
  <2>1. /\ Building /\ status = "copy" /\ status' = "copy" /\ nodes' = nodes
        /\ order' = Append(order, p) /\ stack' = WithTop(f) /\ Top.run # {}
    BY <1>2 DEF CopyPoint, Building
  <2>2. p \in Top.run /\ p \in DOMAIN points
    BY <1>a, <2>1, LeastOfRun
  <2>3. f \in Frame /\ f.start = Top.start /\ f.run = Top.run \ {p}
    BY <1>a, <2>1 DEF Frame
  <2> HIDE DEF f, p
  <2>4. Top' = f
    BY <1>a, <2>1, <2>3, AfterTop
  <2>5. Len(order') = Len(order) + 1
    BY <1>b, <2>1, <2>2
  <2>6. Written' = Written + 1
    BY <1>0, <1>a, <2>1, <2>3, <2>4, <2>5 DEF Written
  <2>7. Cardinality(Top'.run) = Cardinality(Top.run) - 1 /\ Cardinality(Top.run) \in Nat
    BY <1>a, <2>1, <2>2, <2>3, <2>4, RunSize
  <2>8. Tiles(nodes, Top.start) /\ Written + Cardinality(Top.run) \in 1..MaxPointsPerNode
    BY <2>1 DEF TileInv
  <2>9. QED
    BY <1>a, <2>1, <2>3, <2>4, <2>6, <2>7, <2>8 DEF TileInv
<1>3. CASE EndLeaf
  <2>1. /\ Building /\ status = "copy" /\ status' \in {"done", "descend"} /\ order' = order
        /\ nodes' = nodes \cup {NodeRange} /\ Top.run = {}
    BY <1>3 DEF EndLeaf, Return, Building
  <2>2. Cardinality(Top.run) = 0
    BY <1>a, <2>1, RunSize
  <2>3. Tiles(nodes, Top.start) /\ Written \in 1..MaxPointsPerNode
    BY <1>a, <2>1, <2>2 DEF TileInv
  <2>4. Tiles(nodes \cup {NodeRange}, Len(order))
    BY <1>0, <1>a, <2>1, <2>3, TileAdded
  <2>5. QED
    BY <2>1, <2>4 DEF TileInv
<1>4. CASE TooDeep
  BY <1>4 DEF TooDeep, TileInv
<1>5. CASE Partition
  <2> DEFINE f == [Top EXCEPT !.run = {},
               !.children = [q \in Octant |->
                  {i \in Top.run : ChildOctant(Top.box, points[i]) = q}]]
  <2>1. /\ Building /\ status = "assign" /\ status' = "select" /\ nodes' = nodes
        /\ order' = order /\ stack' = WithTop(f)
    BY <1>5 DEF Partition, Building
  <2>2. 0 \in Octant
    BY DEF Octant
  <2>3. f \in Frame /\ f.start = Top.start
    BY <1>a, <2>1, <2>2, NextFrames DEF Frame
  <2> HIDE DEF f
  <2>4. Top' = f
    BY <1>a, <2>1, <2>3, AfterTop
  <2>5. Written' = 0
    BY <1>a, <1>0, <2>1, <2>3, <2>4 DEF Written, TileInv
  <2>6. QED
    BY <1>0, <2>1, <2>3, <2>4, <2>5 DEF TileInv
<1>6. CASE SelectPoint
  <2> DEFINE o == Top.octant
             next == (o + 1) % 8
             run == Top.children[o]
             f == [Top EXCEPT !.octant = next]
             g == [Top EXCEPT !.children[o] = run \ {Least(run)}, !.octant = next]
  <2>1. /\ Building /\ status = "select" /\ status' = "select" /\ nodes' = nodes
        /\ Written < MaxPointsPerNode /\ o \in Octant
    BY <1>6 DEF SelectPoint, Building, ControlInv
  <2>2. next \in 0..8
    BY <2>1 DEF Octant
  <2>3. f \in Frame /\ g \in Frame /\ run \in SUBSET DOMAIN points
    BY <1>a, <2>1, <2>2, NextFrames DEF Frame
  <2>4. f.start = Top.start /\ g.start = Top.start
    BY <1>a, <2>1 DEF Frame
  <2>5. \/ stack' = WithTop(f) /\ order' = order
        \/ stack' = WithTop(g) /\ order' = Append(order, Least(run)) /\ run # {}
    BY <1>6 DEF SelectPoint
  <2> HIDE DEF f, g, next, run
  <2>6. Top'.start = Top.start /\ (Len(order') = Len(order) \/ Len(order') = Len(order) + 1)
    <3>1. CASE stack' = WithTop(f) /\ order' = order
      BY <1>a, <2>1, <2>3, <2>4, <3>1, AfterTop
    <3>2. CASE stack' = WithTop(g) /\ order' = Append(order, Least(run)) /\ run # {}
      <4>1. Least(run) \in DOMAIN points
        BY <2>3, <3>2, LeastOfRun
      <4>2. QED
        BY <1>a, <1>b, <2>1, <2>3, <2>4, <3>2, <4>1, AfterTop
    <3>3. QED
      BY <2>5, <3>1, <3>2
  <2>7. Written' <= MaxPointsPerNode
    BY <1>0, <1>a, <2>1, <2>6 DEF Written
  <2>8. QED
    BY <2>1, <2>6, <2>7 DEF TileInv
<1>7. CASE EndSelect
  <2>1. /\ Building /\ status = "select" /\ status' = "descend" /\ order' = order
        /\ nodes' = nodes \cup {NodeRange} /\ Written = MaxPointsPerNode
    BY <1>7 DEF EndSelect, Building
  <2>2. Tiles(nodes, Top.start) /\ Written \in 1..MaxPointsPerNode
    BY <1>0, <1>a, <2>1 DEF TileInv
  <2>3. Tiles(nodes \cup {NodeRange}, Len(order))
    BY <1>0, <1>a, <2>1, <2>2, TileAdded
  <2>4. QED
    BY <2>1, <2>3 DEF TileInv
<1>8. CASE Descend
  <2> DEFINE o == Top.octant
             run == Top.children[o]
             f == [Top EXCEPT !.children[o] = {}, !.octant = o + 1]
             g == Call(Child(Top.key, o), run, OctantBox(Top.box, o), Len(order))
  <2>1. /\ Building /\ status = "descend" /\ nodes' = nodes /\ order' = order /\ Top.octant < 8
        /\ \/ status' = status
           \/ stack' = Append(WithTop(f), g) /\ status' = "assign" /\ run # {}
    BY <1>8 DEF Descend, Building
  <2>2. CASE status' = status
    BY <2>1, <2>2 DEF TileInv
  <2>3. CASE stack' = Append(WithTop(f), g) /\ status' = "assign" /\ run # {}
    <3>1. o \in Octant /\ o + 1 \in 0..8
      BY <1>a, <2>1 DEF Frame, Octant
    <3>2. f \in Frame /\ g \in Frame
      BY <1>a, <2>1, <3>1, NextFrames
    <3>3. g.start = Len(order) /\ g.run = run
      BY DEF Call
    <3> HIDE DEF f, g, run
    <3>4. Top' = g
      BY <1>a, <2>1, <2>3, <3>2, StackPushed DEF Top
    <3>5. QED
      BY <2>1, <2>3, <3>3, <3>4 DEF TileInv
  <2>4. QED
    BY <2>1, <2>2, <2>3
<1>9. CASE EndDescend
  <2>1. /\ Building /\ status = "descend" /\ status' \in {"done", "descend"}
        /\ order' = order /\ nodes' = nodes
    BY <1>9 DEF EndDescend, Return, Building
  <2>2. QED
    BY <2>1 DEF TileInv
<1>10. CASE Fail
  BY <1>10 DEF Fail, TileInv
<1>11. CASE UNCHANGED vars
  BY <1>11 DEF vars, TileInv, Top, Written
<1>12. QED
  BY <1>1, <1>2, <1>3, <1>4, <1>5, <1>6, <1>7, <1>8, <1>9, <1>10, <1>11 DEF Next, Step

\* A finished order file is cut into nodes without gap or overlap, and the
\* chunk of a node never holds more points than max_points_per_node
\* (assign, append_lod_selection_to_order, build_lod_index).
THEOREM OrderTiled == Spec => []NodesTile
<1>1. TypeOK /\ ControlInv /\ TileInv => NodesTile
  <2> SUFFICES ASSUME TypeOK, TileInv, status = "done" PROVE NodesTile
    BY DEF NodesTile
  <2>1. DOMAIN order = 1..Len(order)
    BY LenProperties DEF TypeOK
  <2>2. QED
    BY <2>1 DEF TileInv, Tiles, NodesTile
<1>2. Spec => [](TypeOK /\ ControlInv /\ TileInv)
  BY InitControl, StepControl, InitTile, StepTile, PTL DEF Spec
<1>3. QED
  BY <1>1, <1>2, PTL

-----------------------------------------------------------------------------
NodeKeys(ns) == {n.key : n \in ns}

\* The node of a frame that selected its points is full, the frame may still
\* hand points down, and no node is in an octant it has not come to.
Waiting(ns, frame) ==
  /\ frame.key.level < MaxOctreeDepth
  /\ \E n \in ns : n.key = frame.key /\ n.count = MaxPointsPerNode
  /\ \A o \in Octant : o >= frame.octant => Child(frame.key, o) \notin NodeKeys(ns)

\* The calls follow a path down from the root, one level each.
Path(s) ==
  /\ s[1].key = Root
  /\ \A n \in 1..Len(s) :
       ValidKey(s[n].key) /\ s[n].key.level = n - 1 /\ n - 1 <= MaxOctreeDepth
  /\ \A m, n \in 1..Len(s) : m <= n => InSubtree(s[n].key, s[m].key)
  /\ \A n \in 1..(Len(s) - 1) :
       s[n].octant > 0 /\ s[n + 1].key = Child(s[n].key, s[n].octant - 1)

\* The callers and, once its own node is written, the running call wait for
\* what is below them; before, there is no node at the running call's key.
TreeInv ==
  /\ NodesFormTree
  /\ status \notin {"done", "failed"} =>
       /\ Path(stack)
       /\ \A n \in 1..(Len(stack) - 1) : Waiting(nodes, stack[n])
       /\ status = "descend" => Waiting(nodes, Top)
       /\ status # "descend" => Top.key \notin NodeKeys(nodes)
       /\ status = "select" => Top.key.level < MaxOctreeDepth

\* A frame with the running call's key takes its place.
LEMMA PathTop ==
  ASSUME TypeOK, stack # <<>>, Path(stack),
         NEW f \in Frame, f.key = Top.key, stack' = WithTop(f)
  PROVE  Path(stack')
<1>1. /\ Len(stack') = Len(stack) /\ Top' = f
      /\ \A n \in 1..(Len(stack) - 1) : stack'[n] = stack[n]
      /\ Len(stack) \in Nat /\ Len(stack) >= 1
  BY AfterTop, StackParts
<1>2. \A n \in 1..Len(stack) : stack'[n].key = stack[n].key
  BY <1>1 DEF Top
<1>3. QED
  BY <1>1, <1>2 DEF Path

LEMMA PathPop ==
  ASSUME TypeOK, stack # <<>>, Path(stack), Len(stack) # 1, stack' = Callers
  PROVE  /\ Path(stack') /\ Len(stack') = Len(stack) - 1 /\ Len(stack) >= 2
         /\ Top' = stack[Len(stack) - 1]
         /\ \A n \in 1..(Len(stack) - 1) : stack'[n] = stack[n]
<1>1. /\ Len(stack') = Len(stack) - 1
      /\ \A n \in 1..(Len(stack) - 1) : stack'[n] = stack[n]
      /\ Len(stack) \in Nat /\ Len(stack) >= 2
  BY StackParts
<1>2. Top' = stack[Len(stack) - 1]
  BY <1>1 DEF Top
<1>3. Path(stack')
  BY <1>1 DEF Path
<1>4. QED
  BY <1>1, <1>2, <1>3

\* The running call calls itself for an octant.
LEMMA PathPush ==
  ASSUME TypeOK, stack # <<>>, Path(stack), Top.key.level < MaxOctreeDepth,
         NEW f \in Frame, NEW g \in Frame, NEW o \in Octant,
         f.key = Top.key, f.octant = o + 1, g.key = Child(Top.key, o),
         stack' = Append(WithTop(f), g)
  PROVE  /\ Path(stack') /\ Top' = g
         /\ Len(stack') = Len(stack) + 1 /\ stack'[Len(stack)] = f
         /\ \A n \in 1..(Len(stack) - 1) : stack'[n] = stack[n]
<1> DEFINE d == Len(stack)
<1>1. /\ Len(stack') = d + 1 /\ stack'[d + 1] = g /\ stack'[d] = f
      /\ \A n \in 1..(d - 1) : stack'[n] = stack[n]
      /\ d \in Nat /\ d >= 1
  BY StackParts, AfterPush
<1>2. Top' = g
  BY <1>1 DEF Top
<1>3. \A n \in 1..d : stack'[n].key = stack[n].key /\ stack[n].key \in Key
  <2>1. stack \in Seq(Frame)
    BY DEF TypeOK
  <2>2. \A n \in 1..d : stack[n] \in Frame
    BY <2>1
  <2>3. \A n \in 1..d : stack'[n].key = stack[n].key
    BY <1>1 DEF Top
  <2>4. QED
    BY <2>2, <2>3 DEF Frame
<1>4. /\ ValidKey(Top.key) /\ Top.key.level = d - 1 /\ Top.key \in Key
      /\ \A m \in 1..d : InSubtree(Top.key, stack[m].key)
  BY <1>1, <1>3 DEF Path, Top
<1>5. g.key \in Key /\ g.key.level = d /\ ValidKey(g.key)
  BY <1>1, <1>4, ParentOfChild, ChildValid
<1>6. \A m \in 1..d : InSubtree(g.key, stack[m].key)
  BY <1>3, <1>4, SubtreeChild
<1>7. InSubtree(g.key, g.key)
  BY <1>5, SubtreeSelf
<1> HIDE DEF d
<1>8. stack'[1].key = Root
  BY <1>1, <1>3 DEF Path
<1>9. \A n \in 1..(d + 1) :
        ValidKey(stack'[n].key) /\ stack'[n].key.level = n - 1 /\ n - 1 <= MaxOctreeDepth
  <2>1. d <= MaxOctreeDepth
    BY <1>1, <1>4, LodAssumption
  <2>2. \A n \in 1..d :
          ValidKey(stack'[n].key) /\ stack'[n].key.level = n - 1 /\ n - 1 <= MaxOctreeDepth
    BY <1>3 DEF Path, d
  <2>3. QED
    BY <1>1, <1>5, <2>1, <2>2
<1>10. \A m, n \in 1..(d + 1) : m <= n => InSubtree(stack'[n].key, stack'[m].key)
  <2>1. \A m, n \in 1..d : m <= n => InSubtree(stack'[n].key, stack'[m].key)
    BY <1>3 DEF Path, d
  <2>2. \A m \in 1..(d + 1) : InSubtree(stack'[d + 1].key, stack'[m].key)
    BY <1>1, <1>3, <1>6, <1>7
  <2>3. QED
    BY <1>1, <2>1, <2>2
<1>11. \A n \in 1..d :
         stack'[n].octant > 0 /\ stack'[n + 1].key = Child(stack'[n].key, stack'[n].octant - 1)
  <2>1. ASSUME NEW n \in 1..(d - 1)
        PROVE  /\ stack'[n].octant > 0
               /\ stack'[n + 1].key = Child(stack'[n].key, stack'[n].octant - 1)
    <3>1. stack'[n] = stack[n] /\ n + 1 \in 1..d
      BY <1>1, <2>1
    <3>2. stack'[n + 1].key = stack[n + 1].key
      BY <1>3, <3>1
    <3>3. stack[n].octant > 0 /\ stack[n + 1].key = Child(stack[n].key, stack[n].octant - 1)
      BY <2>1 DEF Path, d
    <3>4. QED
      BY <3>1, <3>2, <3>3
  <2>2. stack'[d].octant > 0 /\ stack'[d + 1].key = Child(stack'[d].key, stack'[d].octant - 1)
    <3>1. (o + 1) - 1 = o /\ o + 1 > 0
      BY DEF Octant
    <3>2. QED
      BY <1>1, <3>1
  <2>3. QED
    BY <1>1, <2>1, <2>2
<1>12. (d + 1) - 1 = d
  BY <1>1
<1>13. Path(stack')
  BY <1>1, <1>8, <1>9, <1>10, <1>11, <1>12 DEF Path
<1>14. QED
  BY <1>1, <1>2, <1>13 DEF d

\* The running call writes its node: the octree has one more, below the node
\* of the caller, and the callers' other octants are as before.
LEMMA NodeAdded ==
  ASSUME TypeOK, ControlInv, TreeInv, status \in {"copy", "select"}, stack # <<>>,
         nodes' = nodes \cup {NodeRange}
  PROVE  /\ NodesFormTree'
         /\ \A n \in 1..(Len(stack) - 1) : Waiting(nodes', stack[n])
         /\ \A o \in Octant : Child(Top.key, o) \notin NodeKeys(nodes')
<1> DEFINE d == Len(stack)
           t == Top.key
<1>1. /\ Path(stack) /\ t \notin NodeKeys(nodes) /\ NodesFormTree
      /\ \A n \in 1..(d - 1) : Waiting(nodes, stack[n])
  BY DEF TreeInv
<1>2. d \in Nat /\ d >= 1 /\ \A n \in 1..d : stack[n] \in Frame /\ stack[n].key \in Key
  <2>1. stack \in Seq(Frame) /\ d \in Nat /\ d >= 1
    BY StackParts DEF TypeOK
  <2>2. \A n \in 1..d : stack[n] \in Frame
    BY <2>1
  <2>3. QED
    BY <2>1, <2>2 DEF Frame
<1>3. t \in Key /\ ValidKey(t) /\ t.level = d - 1 /\ t.level <= MaxOctreeDepth
  BY <1>1, <1>2 DEF Top, Path
<1>4. NodeRange.key = t /\ NodeKeys(nodes') = NodeKeys(nodes) \cup {t}
  <2>1. NodeRange.key = t
    BY DEF NodeRange
  <2> DEFINE r == NodeRange
  <2> HIDE DEF r
  <2>2. NodeKeys(nodes \cup {r}) = NodeKeys(nodes) \cup {r.key}
    BY DEF NodeKeys
  <2>3. QED
    BY <2>1, <2>2 DEF r
<1>5. ASSUME t # Root
      PROVE  \E m \in nodes' : m.key = Parent(t) /\ m.count = MaxPointsPerNode
  <2>1. d # 1
    BY <1>1, <1>5 DEF Path, Top
  <2> DEFINE c == stack[d - 1]
  <2>2. d - 1 \in 1..d /\ d - 1 \in 1..(d - 1) /\ (d - 1) + 1 = d
    <3> HIDE DEF d
    <3>1. QED
      BY <1>2, <2>1
  <2>3. c \in Frame /\ c.key \in Key /\ Waiting(nodes, c)
    BY <1>1, <1>2, <2>2
  <2>4. c.octant > 0 /\ t = Child(c.key, c.octant - 1)
    BY <1>1, <2>2 DEF Path, Top
  <2>5. c.octant - 1 \in Octant
    BY <2>3, <2>4 DEF Frame, Octant
  <2>6. Parent(t) = c.key
    BY <2>3, <2>4, <2>5, ParentOfChild
  <2>7. QED
    BY <2>3, <2>6 DEF Waiting
<1>6. NodesFormTree'
  <2>1. ASSUME NEW n \in nodes'
        PROVE  /\ ValidKey(n.key) /\ n.key.level <= MaxOctreeDepth
               /\ \A m \in nodes' : m.key = n.key => m = n
               /\ n.key # Root =>
                    \E m \in nodes' : m.key = Parent(n.key) /\ m.count = MaxPointsPerNode
    <3>1. CASE n \in nodes
      <4>1. n.key # t
        BY <1>1, <3>1 DEF NodeKeys
      <4>2. QED
        BY <1>1, <1>4, <3>1, <4>1 DEF NodesFormTree
    <3>2. CASE n = NodeRange
      <4>1. \A m \in nodes' : m.key = n.key => m = n
        BY <1>1, <1>4, <3>2 DEF NodeKeys
      <4> HIDE DEF t
      <4>2. QED
        BY <1>3, <1>4, <1>5, <3>2, <4>1
    <3>3. QED
      BY <3>1, <3>2
  <2>2. QED
    BY <2>1 DEF NodesFormTree
<1>7. ASSUME NEW n \in 1..(d - 1) PROVE Waiting(nodes', stack[n])
  <2> DEFINE c == stack[n]
  <2>1. Waiting(nodes, c) /\ c \in Frame /\ c.key \in Key /\ n \in 1..d
    BY <1>1, <1>2, <1>7
  <2>2. c.key.level = n - 1
    BY <1>1, <2>1 DEF Path
  <2>3. ASSUME NEW o \in Octant, o >= c.octant PROVE Child(c.key, o) # t
    <3>1. Child(c.key, o).level = n
      BY <1>2, <2>1, <2>2, ParentOfChild
    <3>2. CASE n < d - 1
      BY <1>2, <1>3, <3>1, <3>2
    <3>3. CASE n = d - 1
      <4>1. c.octant > 0 /\ t = Child(c.key, c.octant - 1)
        <5>1. n + 1 = d
          BY <1>2, <3>3
        <5>2. QED
          BY <1>1, <1>7, <5>1 DEF Path, Top
      <4>2. c.octant - 1 \in Octant /\ c.octant - 1 # o
        BY <2>1, <2>3, <4>1 DEF Frame, Octant
      <4> HIDE DEF c, t
      <4>3. QED
        BY <2>1, <4>1, <4>2, ChildInjective
    <3>4. QED
      BY <1>2, <3>2, <3>3
  <2> HIDE DEF c, t
  <2>4. Waiting(nodes', c)
    BY <1>4, <2>1, <2>3 DEF Waiting
  <2>5. QED
    BY <2>4 DEF c
<1>8. ASSUME NEW o \in Octant PROVE Child(t, o) \notin NodeKeys(nodes')
  <2>1. Child(t, o).level = t.level + 1 /\ Parent(Child(t, o)) = t
    BY <1>3, ParentOfChild
  <2>2. Child(t, o) # t
    BY <1>3, <2>1 DEF Key
  <2>3. Child(t, o) # Root
    BY <1>2, <1>3, <2>1 DEF Root
  <2>4. Child(t, o) \notin NodeKeys(nodes)
    BY <1>1, <2>1, <2>3 DEF NodesFormTree, NodeKeys
  <2>5. QED
    BY <1>4, <2>2, <2>4
<1>9. QED
  BY <1>6, <1>7, <1>8

LEMMA InitTree == Init => TreeInv
<1> SUFFICES ASSUME Init PROVE TreeInv
  OBVIOUS
<1> DEFINE f == Call(Root, DOMAIN points, RootCube, 0)
<1>1. f.key = Root /\ Root \in Key
  BY DEF Call, Root, Key
<1>2. stack = <<f>> /\ nodes = {} /\ status = "assign"
  BY DEF Init
<1> HIDE DEF f
<1>3. Len(stack) = 1 /\ stack[1] = f /\ Top = f
  BY <1>2 DEF Top
<1>4. ValidKey(Root) /\ Root.level = 0
  <2>1. Root.level = 0 /\ \A a \in Axis : Root.pos[a] = 0
    BY DEF Root
  <2>2. 2 ^ 0 = 1
    OBVIOUS
  <2>3. QED
    BY <2>1, <2>2 DEF ValidKey, VoxelsPerAxis
<1>5. Path(stack)
  <2>1. InSubtree(Root, Root)
    BY <1>1, SubtreeSelf
  <2>2. MaxOctreeDepth \in Nat
    BY LodAssumption
  <2>3. QED
    BY <1>1, <1>3, <1>4, <2>1, <2>2 DEF Path
<1>6. QED
  BY <1>2, <1>3, <1>5 DEF TreeInv, NodesFormTree, NodeKeys

LEMMA StepTree == ASSUME TypeOK, ControlInv, TreeInv, [Next]_vars PROVE TreeInv'
<1>a. ASSUME Building
      PROVE  /\ stack # <<>> /\ Top \in Frame /\ Path(stack) /\ NodesFormTree
             /\ \A n \in 1..(Len(stack) - 1) : Waiting(nodes, stack[n])
             /\ Len(stack) \in Nat /\ Len(stack) >= 1
  BY <1>a, StackParts DEF ControlInv, TreeInv, Building
<1>1. CASE StartLeaf
  BY <1>1 DEF StartLeaf, TreeInv, NodesFormTree, Top
<1>2. CASE CopyPoint
  <2> DEFINE f == [Top EXCEPT !.run = @ \ {Least(Top.run)}]
  <2>1. /\ Building /\ status = "copy" /\ status' = "copy" /\ nodes' = nodes /\ stack' = WithTop(f)
    BY <1>2 DEF CopyPoint, Building
  <2>2. f \in Frame /\ f.key = Top.key
    BY <1>a, <2>1 DEF Frame
  <2> HIDE DEF f
  <2>3. Path(stack')
    BY <1>a, <2>1, <2>2, PathTop
  <2>4. /\ Top' = f /\ Len(stack') = Len(stack)
        /\ \A n \in 1..(Len(stack) - 1) : stack'[n] = stack[n]
    BY <1>a, <2>1, <2>2, AfterTop
  <2>5. QED
    BY <1>a, <2>1, <2>2, <2>3, <2>4 DEF TreeInv, NodesFormTree
<1>3. CASE EndLeaf
  <2>1. /\ Building /\ status = "copy" /\ nodes' = nodes \cup {NodeRange} /\ stack' = Callers
        /\ status' = IF Len(stack) = 1 THEN "done" ELSE "descend"
    BY <1>3 DEF EndLeaf, Return, Building
  <2>2. /\ NodesFormTree'
        /\ \A n \in 1..(Len(stack) - 1) : Waiting(nodes', stack[n])
    BY <1>a, <2>1, NodeAdded
  <2>3. CASE Len(stack) = 1
    BY <2>1, <2>2, <2>3 DEF TreeInv
  <2>4. CASE Len(stack) # 1
    <3>1. /\ Path(stack') /\ Len(stack') = Len(stack) - 1 /\ Len(stack) >= 2
          /\ Top' = stack[Len(stack) - 1]
          /\ \A n \in 1..(Len(stack) - 1) : stack'[n] = stack[n]
      BY <1>a, <2>1, <2>4, PathPop
    <3>2. Waiting(nodes', Top') /\ \A n \in 1..(Len(stack') - 1) : Waiting(nodes', stack'[n])
      <4>1. /\ Len(stack) - 1 \in 1..(Len(stack) - 1)
            /\ \A n \in 1..(Len(stack') - 1) : n \in 1..(Len(stack) - 1)
        BY <1>a, <2>1, <3>1
      <4>2. QED
        BY <2>2, <3>1, <4>1
    <3>3. QED
      BY <2>1, <2>2, <2>4, <3>1, <3>2 DEF TreeInv
  <2>5. QED
    BY <2>3, <2>4
<1>4. CASE TooDeep
  BY <1>4 DEF TooDeep, TreeInv, NodesFormTree, Top
<1>5. CASE Partition
  <2> DEFINE f == [Top EXCEPT !.run = {},
               !.children = [q \in Octant |->
                  {i \in Top.run : ChildOctant(Top.box, points[i]) = q}]]
  <2>1. /\ Building /\ status = "assign" /\ status' = "select" /\ nodes' = nodes
        /\ stack' = WithTop(f) /\ Top.key.level < MaxOctreeDepth
    BY <1>5 DEF Partition, Building
  <2>2. f \in Frame /\ f.key = Top.key
    <3>1. 0 \in Octant
      BY DEF Octant
    <3>2. QED
      BY <1>a, <2>1, <3>1, NextFrames DEF Frame
  <2> HIDE DEF f
  <2>3. Path(stack')
    BY <1>a, <2>1, <2>2, PathTop
  <2>4. /\ Top' = f /\ Len(stack') = Len(stack)
        /\ \A n \in 1..(Len(stack) - 1) : stack'[n] = stack[n]
    BY <1>a, <2>1, <2>2, AfterTop
  <2>5. QED
    BY <1>a, <2>1, <2>2, <2>3, <2>4 DEF TreeInv, NodesFormTree
<1>6. CASE SelectPoint
  <2> DEFINE o == Top.octant
             next == (o + 1) % 8
             run == Top.children[o]
             f == [Top EXCEPT !.octant = next]
             g == [Top EXCEPT !.children[o] = run \ {Least(run)}, !.octant = next]
  <2>1. /\ Building /\ status = "select" /\ status' = "select" /\ nodes' = nodes
        /\ o \in Octant /\ (stack' = WithTop(f) \/ stack' = WithTop(g))
    BY <1>6 DEF SelectPoint, Building, ControlInv
  <2>2. next \in 0..8
    BY <2>1 DEF Octant
  <2>3. f \in Frame /\ g \in Frame /\ f.key = Top.key /\ g.key = Top.key
    BY <1>a, <2>1, <2>2, NextFrames DEF Frame
  <2> HIDE DEF f, g
  <2>4. PICK h \in Frame : stack' = WithTop(h) /\ h.key = Top.key
    BY <2>1, <2>3
  <2>5. Path(stack')
    BY <1>a, <2>1, <2>4, PathTop
  <2>6. /\ Top' = h /\ Len(stack') = Len(stack)
        /\ \A n \in 1..(Len(stack) - 1) : stack'[n] = stack[n]
    BY <1>a, <2>1, <2>4, AfterTop
  <2>7. QED
    BY <1>a, <2>1, <2>4, <2>5, <2>6 DEF TreeInv, NodesFormTree
<1>7. CASE EndSelect
  <2> DEFINE f == [Top EXCEPT !.octant = 0]
  <2>1. /\ Building /\ status = "select" /\ status' = "descend"
        /\ nodes' = nodes \cup {NodeRange} /\ Written = MaxPointsPerNode /\ stack' = WithTop(f)
    BY <1>7 DEF EndSelect, Building
  <2>2. f \in Frame /\ f.key = Top.key
    BY <1>a, <2>1 DEF Frame
  <2> HIDE DEF f
  <2>3. Path(stack')
    BY <1>a, <2>1, <2>2, PathTop
  <2>4. /\ Top' = f /\ Len(stack') = Len(stack)
        /\ \A n \in 1..(Len(stack) - 1) : stack'[n] = stack[n]
    BY <1>a, <2>1, <2>2, AfterTop
  <2>5. /\ NodesFormTree'
        /\ \A n \in 1..(Len(stack) - 1) : Waiting(nodes', stack[n])
        /\ \A o \in Octant : Child(Top.key, o) \notin NodeKeys(nodes')
    BY <1>a, <2>1, NodeAdded
  <2>6. NodeRange \in nodes' /\ NodeRange.key = f.key /\ NodeRange.count = MaxPointsPerNode
    BY <2>1, <2>2 DEF NodeRange
  <2>7. Top.key.level < MaxOctreeDepth
    BY <2>1 DEF TreeInv
  <2>8. Waiting(nodes', f)
    BY <2>2, <2>5, <2>6, <2>7 DEF Waiting
  <2>9. QED
    BY <2>1, <2>3, <2>4, <2>5, <2>8 DEF TreeInv
<1>8. CASE Descend
  <2> DEFINE o == Top.octant
             run == Top.children[o]
             f == [Top EXCEPT !.children[o] = {}, !.octant = o + 1]
             g == Call(Child(Top.key, o), run, OctantBox(Top.box, o), Len(order))
  <2>1. /\ Building /\ status = "descend" /\ nodes' = nodes /\ o < 8 /\ Waiting(nodes, Top)
        /\ \/ stack' = WithTop(f) /\ status' = status
           \/ stack' = Append(WithTop(f), g) /\ status' = "assign"
    BY <1>8 DEF Descend, Building, TreeInv
  <2>2. o \in Octant /\ o + 1 \in 0..8
    BY <1>a, <2>1 DEF Frame, Octant
  <2>3. f \in Frame /\ g \in Frame
    BY <1>a, <2>1, <2>2, NextFrames
  <2>4. f.key = Top.key /\ f.octant = o + 1 /\ g.key = Child(Top.key, o)
    BY <1>a, <2>1 DEF Frame, Call
  <2>5. Waiting(nodes, f) /\ g.key \notin NodeKeys(nodes) /\ Top.key.level < MaxOctreeDepth
    <3>1. \A p \in Octant : p >= o + 1 => p >= o
      BY <2>2 DEF Octant
    <3>2. o >= o
      BY <2>2 DEF Octant
    <3> HIDE DEF f, g
    <3>3. QED
      BY <2>1, <2>2, <2>4, <3>1, <3>2 DEF Waiting
  <2> HIDE DEF f, g
  <2>6. CASE stack' = WithTop(f) /\ status' = status
    <3>1. Path(stack')
      BY <1>a, <2>1, <2>3, <2>4, <2>6, PathTop
    <3>2. /\ Top' = f /\ Len(stack') = Len(stack)
          /\ \A n \in 1..(Len(stack) - 1) : stack'[n] = stack[n]
      BY <1>a, <2>1, <2>3, <2>6, AfterTop
    <3>3. QED
      BY <1>a, <2>1, <2>5, <2>6, <3>1, <3>2 DEF TreeInv, NodesFormTree
  <2>7. CASE stack' = Append(WithTop(f), g) /\ status' = "assign"
    <3>1. /\ Path(stack') /\ Top' = g
          /\ Len(stack') = Len(stack) + 1 /\ stack'[Len(stack)] = f
          /\ \A n \in 1..(Len(stack) - 1) : stack'[n] = stack[n]
      BY <1>a, <2>1, <2>2, <2>3, <2>4, <2>5, <2>7, PathPush
    <3>2. \A n \in 1..(Len(stack') - 1) : Waiting(nodes, stack'[n])
      BY <1>a, <2>1, <2>5, <3>1
    <3>3. QED
      BY <1>a, <2>1, <2>5, <2>7, <3>1, <3>2 DEF TreeInv, NodesFormTree
  <2>8. QED
    BY <2>1, <2>6, <2>7
<1>9. CASE EndDescend
  <2>1. /\ Building /\ status = "descend" /\ nodes' = nodes /\ stack' = Callers
        /\ status' = IF Len(stack) = 1 THEN "done" ELSE "descend"
    BY <1>9 DEF EndDescend, Return, Building
  <2>2. NodesFormTree'
    BY <1>a, <2>1 DEF NodesFormTree
  <2>3. CASE Len(stack) = 1
    BY <2>1, <2>2, <2>3 DEF TreeInv
  <2>4. CASE Len(stack) # 1
    <3>1. /\ Path(stack') /\ Len(stack') = Len(stack) - 1 /\ Len(stack) >= 2
          /\ Top' = stack[Len(stack) - 1]
          /\ \A n \in 1..(Len(stack) - 1) : stack'[n] = stack[n]
      BY <1>a, <2>1, <2>4, PathPop
    <3>2. Waiting(nodes', Top') /\ \A n \in 1..(Len(stack') - 1) : Waiting(nodes', stack'[n])
      BY <1>a, <2>1, <3>1
    <3>3. QED
      BY <2>1, <2>2, <2>4, <3>1, <3>2 DEF TreeInv
  <2>5. QED
    BY <2>3, <2>4
<1>10. CASE Fail
  BY <1>10 DEF Fail, TreeInv, NodesFormTree
<1>11. CASE UNCHANGED vars
  BY <1>11 DEF vars, TreeInv, NodesFormTree, Top
<1>12. QED
  BY <1>1, <1>2, <1>3, <1>4, <1>5, <1>6, <1>7, <1>8, <1>9, <1>10, <1>11 DEF Next, Step

\* Whenever the build stops, the nodes written are an octree: each key is
\* used once, is legal and not too deep, and the node above it is full
\* (assign, VoxelKey::child).
THEOREM NodesAreOctree == Spec => []NodesFormTree
<1>1. Spec => [](TypeOK /\ ControlInv /\ TreeInv)
  BY InitControl, StepControl, InitTree, StepTree, PTL DEF Spec
<1>2. TreeInv => NodesFormTree
  BY DEF TreeInv
<1>3. QED
  BY <1>1, <1>2, PTL

-----------------------------------------------------------------------------
\* The cube is divided without a remainder down to the greatest depth.
LEMMA GridOfLevel == ASSUME NEW l \in 0..MaxOctreeDepth PROVE RootSide % 2 ^ l = 0
<1>0. RootSide \in Nat /\ MaxOctreeDepth \in Nat /\ RootSide % 2 ^ MaxOctreeDepth = 0
  BY LodAssumption, GridAssumption
<1> DEFINE Uneven == {m \in Nat : m <= MaxOctreeDepth /\ RootSide % 2 ^ (MaxOctreeDepth - m) # 0}
<1>1. Uneven = {}
  <2>1. SUFFICES ASSUME Uneven # {} PROVE FALSE
    OBVIOUS
  <2>2. PICK m \in Uneven : \A n \in Uneven : m <= n
    BY <2>1, LeastElement
  <2> DEFINE k == MaxOctreeDepth - m
  <2>3. m \in Nat /\ m <= MaxOctreeDepth /\ RootSide % 2 ^ k # 0
    OBVIOUS
  <2>4. m # 0
    BY <1>0, <2>3
  <2>5. m - 1 \in Nat /\ m - 1 <= MaxOctreeDepth /\ m - 1 \notin Uneven
    <3>1. m - 1 \in Nat /\ m - 1 <= MaxOctreeDepth /\ ~(m <= m - 1)
      BY <1>0, <2>3, <2>4
    <3> HIDE DEF Uneven
    <3>2. QED
      BY <2>2, <3>1
  <2>6. MaxOctreeDepth - (m - 1) = k + 1 /\ k \in Nat
    BY <1>0, <2>3
  <2>7. RootSide % 2 ^ (k + 1) = 0
    BY <2>5, <2>6
  <2>8. 2 ^ k \in Nat \ {0} /\ 2 ^ (k + 1) = 2 * 2 ^ k
    BY <2>6, PowerDoubles
  <2> DEFINE P == 2 ^ k
  <2>9. P \in Nat \ {0} /\ RootSide % (2 * P) = 0 /\ RootSide % P # 0
    BY <2>3, <2>7, <2>8
  <2> HIDE DEF P
  <2>10. QED
    BY <1>0, <2>9, EvenParts
<1>2. MaxOctreeDepth - l \in Nat /\ MaxOctreeDepth - l <= MaxOctreeDepth
      /\ MaxOctreeDepth - (MaxOctreeDepth - l) = l
  BY <1>0
<1>3. QED
  BY <1>1, <1>2

\* A voxel is cut into its octants by the planes through its centre.
LEMMA SideHalves ==
  ASSUME NEW l \in Nat, l < MaxOctreeDepth
  PROVE  VoxelSide(l + 1) \in Nat /\ VoxelSide(l) = 2 * VoxelSide(l + 1)
<1>1. RootSide \in Nat /\ MaxOctreeDepth \in Nat /\ l + 1 \in 0..MaxOctreeDepth
  BY LodAssumption
<1> DEFINE P == 2 ^ l
<1>2. P \in Nat \ {0} /\ 2 ^ (l + 1) = 2 * P
  BY PowerDoubles
<1>3. RootSide % (2 * P) = 0
  BY <1>1, <1>2, GridOfLevel
<1> HIDE DEF P
<1>4. RootSide \div P = 2 * (RootSide \div (2 * P)) /\ RootSide \div (2 * P) \in Nat
  BY <1>1, <1>2, <1>3, EvenParts
<1>5. VoxelSide(l) = RootSide \div P /\ VoxelSide(l + 1) = RootSide \div (2 * P)
  BY <1>2 DEF VoxelSide, VoxelsPerAxis, P
<1>6. QED
  BY <1>4, <1>5

LEMMA OctantIsChild ==
  ASSUME NEW k \in Key, NEW o \in Octant, k.level >= 0, k.level < MaxOctreeDepth
  PROVE  OctantBox(VoxelBounds(k), o) = VoxelBounds(Child(k, o))
<1> DEFINE s == VoxelSide(k.level + 1)
           b == VoxelBounds(k)
<1>1. k.level \in Nat /\ s \in Nat /\ VoxelSide(k.level) = 2 * s
  BY SideHalves DEF Key
<1>2. ASSUME NEW a \in Axis
      PROVE  /\ b.min[a] = k.pos[a] * (2 * s) /\ b.max[a] = (k.pos[a] + 1) * (2 * s)
             /\ Center(b)[a] = (2 * k.pos[a] + 1) * s
  <2>1. b.min[a] = k.pos[a] * (2 * s) /\ b.max[a] = (k.pos[a] + 1) * (2 * s)
    BY <1>1 DEF VoxelBounds, Box
  <2>2. Center(b)[a] = (b.min[a] + b.max[a]) \div 2
    BY DEF Center
  <2> DEFINE x == k.pos[a]
  <2>3. x \in Int
    BY DEF Key
  <2> HIDE DEF x, s, b
  <2>4. x * (2 * s) + (x + 1) * (2 * s) = 2 * ((2 * x + 1) * s) /\ (2 * x + 1) * s \in Int
    BY <1>1, <2>3
  <2> DEFINE z == (2 * x + 1) * s
  <2> HIDE DEF z
  <2>5. (2 * z) \div 2 = z
    BY <2>4 DEF z
  <2>6. QED
    BY <2>1, <2>2, <2>4, <2>5 DEF x, z
<1>3. /\ Child(k, o).level = k.level + 1
      /\ \A a \in Axis : Child(k, o).pos[a] = 2 * k.pos[a] + OctantBit(o, a)
  BY DEF Child
<1>4. /\ VoxelBounds(Child(k, o)).min = [a \in Axis |-> (2 * k.pos[a] + OctantBit(o, a)) * s]
      /\ VoxelBounds(Child(k, o)).max = [a \in Axis |-> (2 * k.pos[a] + OctantBit(o, a) + 1) * s]
  BY <1>3 DEF VoxelBounds, Box
<1> HIDE DEF s, b
<1>5. ASSUME NEW a \in Axis
      PROVE  /\ OctantBox(b, o).min[a] = (2 * k.pos[a] + OctantBit(o, a)) * s
             /\ OctantBox(b, o).max[a] = (2 * k.pos[a] + OctantBit(o, a) + 1) * s
  <2>1. /\ OctantBox(b, o).min[a] = IF OctantBit(o, a) = 0 THEN b.min[a] ELSE Center(b)[a]
        /\ OctantBox(b, o).max[a] = IF OctantBit(o, a) = 0 THEN Center(b)[a] ELSE b.max[a]
    BY DEF OctantBox, Box
  <2> DEFINE x == k.pos[a]
  <2>2. x \in Int /\ OctantBit(o, a) \in {0, 1}
    BY BitType DEF Key
  <2> HIDE DEF x
  <2>3. /\ (2 * x + 0) * s = x * (2 * s)
        /\ (2 * x + 1 + 1) * s = (x + 1) * (2 * s)
    BY <1>1, <2>2
  <2>4. CASE OctantBit(o, a) = 0
    <3>1. 2 * x + 0 + 1 = 2 * x + 1
      BY <2>2
    <3>2. QED
      BY <1>2, <2>1, <2>3, <2>4, <3>1 DEF x
  <2>5. CASE OctantBit(o, a) = 1
    BY <1>2, <2>1, <2>3, <2>5 DEF x
  <2>6. QED
    BY <2>2, <2>4, <2>5
<1>6. OctantBox(b, o) = Box(OctantBox(b, o).min, OctantBox(b, o).max)
      /\ OctantBox(b, o).min = [a \in Axis |-> OctantBox(b, o).min[a]]
      /\ OctantBox(b, o).max = [a \in Axis |-> OctantBox(b, o).max[a]]
  BY DEF OctantBox, Box
<1>7. VoxelBounds(Child(k, o))
        = Box(VoxelBounds(Child(k, o)).min, VoxelBounds(Child(k, o)).max)
  BY DEF VoxelBounds, Box
<1>8. OctantBox(b, o).min = VoxelBounds(Child(k, o)).min
      /\ OctantBox(b, o).max = VoxelBounds(Child(k, o)).max
  BY <1>4, <1>5, <1>6
<1>9. QED
  BY <1>6, <1>7, <1>8 DEF b

\* A point of a voxel lies in the octant child_octant names.
LEMMA InChildOctant ==
  ASSUME NEW b \in BoxType, NEW p \in Position, ContainsXyz(b, p)
  PROVE  ContainsXyz(OctantBox(b, ChildOctant(b, p)), p)
<1> DEFINE bit(a) == IF p[a] >= Center(b)[a] THEN 1 ELSE 0
           o == ChildOctant(b, p)
<1>1. \A a \in Axis : bit(a) \in {0, 1}
  OBVIOUS
<1>2. o = bit(1) + 2 * bit(2) + 4 * bit(3)
  BY DEF ChildOctant
<1>3. \A a \in Axis : OctantBit(o, a) = bit(a)
  <2> HIDE DEF bit, o
  <2>1. 1 \in Axis /\ 2 \in Axis /\ 3 \in Axis /\ \A a \in Axis : a = 1 \/ a = 2 \/ a = 3
    BY DEF Axis
  <2>2. o \in Octant
    BY <1>1, <1>2, <2>1 DEF Octant
  <2>3. OctantBit(o, 1) = o % 2 /\ OctantBit(o, 2) = (o \div 2) % 2 /\ OctantBit(o, 3) = (o \div 4) % 2
    BY <2>2 DEF OctantBit, Octant
  <2>4. o % 2 = bit(1) /\ (o \div 2) % 2 = bit(2) /\ (o \div 4) % 2 = bit(3)
    <3>1. bit(1) \in {0, 1} /\ bit(2) \in {0, 1} /\ bit(3) \in {0, 1}
      BY <1>1, <2>1
    <3>2. \A x, y, z \in {0, 1} : LET n == x + 2 * y + 4 * z IN
            n % 2 = x /\ (n \div 2) % 2 = y /\ (n \div 4) % 2 = z
      OBVIOUS
    <3>3. QED
      BY <1>2, <3>1, <3>2
  <2>5. QED
    BY <2>1, <2>3, <2>4
<1>4. ASSUME NEW a \in Axis
      PROVE  OctantBox(b, o).min[a] <= p[a] /\ p[a] <= OctantBox(b, o).max[a]
  <2>1. /\ OctantBox(b, o).min[a] = IF bit(a) = 0 THEN b.min[a] ELSE Center(b)[a]
        /\ OctantBox(b, o).max[a] = IF bit(a) = 0 THEN Center(b)[a] ELSE b.max[a]
    BY <1>3 DEF OctantBox, Box
  <2>2. b.min[a] <= p[a] /\ p[a] <= b.max[a]
    BY DEF ContainsXyz
  <2>3. b.min[a] \in Nat /\ b.max[a] \in Nat /\ p[a] \in Nat /\ RootSide \in Nat
    BY LodAssumption DEF BoxType, Position
  <2>4. Center(b)[a] \in Int
    BY <2>3 DEF Center
  <2>5. QED
    BY <2>1, <2>2, <2>3, <2>4
<1>5. QED
  BY <1>4 DEF ContainsXyz

-----------------------------------------------------------------------------
\* A frame's box is the voxel of its key, and what it holds lies there; what
\* it holds for an octant lies in that octant.
Placed(cloud, frame) ==
  /\ frame.box = VoxelBounds(frame.key)
  /\ \A i \in Held(frame) : ContainsXyz(frame.box, cloud[i])
  /\ \A o \in Octant : \A i \in frame.children[o] :
       ContainsXyz(OctantBox(frame.box, o), cloud[i])

Located(cloud, ns, o) ==
  \A n \in ns : \A j \in 1..Len(o) :
    Covers(n, j) => ContainsXyz(VoxelBounds(n.key), cloud[o[j]])

\* A written point lies in the voxel of its node, or of the running call
\* when the node is not written yet.
PlaceInv ==
  /\ \A n \in 1..Len(stack) : Placed(points, stack[n])
  /\ Located(points, nodes, order)
  /\ status \in {"copy", "select"} =>
       \A j \in 1..Len(order) : j > Top.start => ContainsXyz(Top.box, points[order[j]])

LEMMA PlaceTop ==
  ASSUME TypeOK, PlaceInv, stack # <<>>, NEW f \in Frame, Placed(points, f), stack' = WithTop(f)
  PROVE  \A n \in 1..Len(stack') : Placed(points, stack'[n])
<1>1. /\ Len(stack') = Len(stack) /\ Len(stack) \in Nat /\ Len(stack) >= 1
      /\ stack'[Len(stack)] = f
      /\ \A n \in 1..(Len(stack) - 1) : stack'[n] = stack[n]
  BY AfterTop, StackParts, StackWithTop
<1>2. QED
  BY <1>1 DEF PlaceInv

LEMMA PlacePush ==
  ASSUME TypeOK, PlaceInv, stack # <<>>, NEW f \in Frame, NEW g \in Frame,
         Placed(points, f), Placed(points, g), stack' = Append(WithTop(f), g)
  PROVE  \A n \in 1..Len(stack') : Placed(points, stack'[n])
<1>1. /\ Len(stack') = Len(stack) + 1 /\ Len(stack) \in Nat /\ Len(stack) >= 1
      /\ stack'[Len(stack)] = f /\ stack'[Len(stack) + 1] = g
      /\ \A n \in 1..(Len(stack) - 1) : stack'[n] = stack[n]
  BY AfterPush, StackParts
<1>2. QED
  BY <1>1 DEF PlaceInv

LEMMA PlacePop ==
  ASSUME TypeOK, PlaceInv, stack # <<>>, stack' = Callers
  PROVE  \A n \in 1..Len(stack') : Placed(points, stack'[n])
<1>1. /\ Len(stack') = Len(stack) - 1 /\ Len(stack) \in Nat /\ Len(stack) >= 1
      /\ \A n \in 1..(Len(stack) - 1) : stack'[n] = stack[n]
  BY StackParts
<1>2. QED
  BY <1>1 DEF PlaceInv

\* The running call writes one of its points.
LEMMA PlaceWritten ==
  ASSUME TypeOK, ControlInv, TileInv, PlaceInv, status \in {"copy", "select"}, stack # <<>>,
         NEW i \in DOMAIN points, ContainsXyz(Top.box, points[i])
  PROVE  LET o == Append(order, i) IN
         /\ Located(points, nodes, o)
         /\ \A j \in 1..Len(o) : j > Top.start => ContainsXyz(Top.box, points[o[j]])
<1> DEFINE o == Append(order, i)
<1>1. /\ Len(o) = Len(order) + 1 /\ Len(order) \in Nat /\ o[Len(order) + 1] = i
      /\ \A j \in 1..Len(order) : o[j] = order[j]
  <2>1. order \in Seq(DOMAIN points)
    BY DEF TypeOK
  <2>2. QED
    BY <2>1, AppendProperties, LenProperties
<1> HIDE DEF o
<1>2. Top.start \in Nat /\ Top.start <= Len(order)
  BY StackParts DEF Frame, ControlInv, Top
<1>3. \A n \in nodes : ~ Covers(n, Len(order) + 1)
  <2>1. \A n \in nodes : n.start + n.count <= Top.start
    BY DEF TileInv, Tiles
  <2>2. \A n \in nodes : n.start \in Nat /\ n.count \in Nat
    BY DEF TypeOK, NodeRanges
  <2>3. QED
    BY <1>1, <1>2, <2>1, <2>2 DEF Covers
<1>4. Located(points, nodes, o)
  BY <1>1, <1>3 DEF PlaceInv, Located
<1>5. \A j \in 1..Len(o) : j > Top.start => ContainsXyz(Top.box, points[o[j]])
  BY <1>1 DEF PlaceInv
<1>6. QED
  BY <1>4, <1>5 DEF o

\* The running call writes its node.
LEMMA PlaceNode ==
  ASSUME TypeOK, PlaceInv, status \in {"copy", "select"}, stack # <<>>
  PROVE  Located(points, nodes \cup {NodeRange}, order)
<1>1. Placed(points, Top)
  BY StackParts DEF PlaceInv, Top
<1>2. /\ NodeRange.key = Top.key /\ NodeRange.start = Top.start
      /\ Top.box = VoxelBounds(Top.key)
  BY <1>1 DEF NodeRange, Placed
<1>3. Top.start \in Nat /\ Len(order) \in Nat
  BY StackParts, LenProperties DEF TypeOK, Frame
<1>4. \A j \in 1..Len(order) :
        Covers(NodeRange, j) => ContainsXyz(VoxelBounds(NodeRange.key), points[order[j]])
  BY <1>2, <1>3 DEF PlaceInv, Covers
<1>5. QED
  BY <1>4 DEF PlaceInv, Located

LEMMA InitPlace == Init => PlaceInv
<1> SUFFICES ASSUME Init PROVE PlaceInv
  OBVIOUS
<1> DEFINE f == Call(Root, DOMAIN points, RootCube, 0)
<1>1. f.key = Root /\ f.run = DOMAIN points /\ f.box = RootCube /\ f.children = NoChildren
  BY DEF Call
<1>2. stack = <<f>> /\ nodes = {} /\ status = "assign" /\ points \in Seq(Position)
  BY LodAssumption DEF Init
<1> HIDE DEF f
<1>3. Len(stack) = 1 /\ stack[1] = f
  BY <1>2
<1>4. Held(f) = DOMAIN points
  BY <1>1 DEF Held, NoChildren
<1>5. RootCube = VoxelBounds(Root)
  <2>1. 2 ^ 0 = 1 /\ RootSide \in Nat
    BY LodAssumption
  <2>2. VoxelSide(0) = RootSide
    BY <2>1 DEF VoxelSide, VoxelsPerAxis
  <2>3. 0 * RootSide = 0 /\ (0 + 1) * RootSide = RootSide
    BY <2>1
  <2>4. QED
    BY <2>2, <2>3 DEF RootCube, VoxelBounds, Root, Box
<1>6. \A i \in DOMAIN points : ContainsXyz(RootCube, points[i])
  <2>1. \A i \in DOMAIN points : points[i] \in Position
    BY <1>2
  <2>2. RootSide \in Nat
    BY LodAssumption
  <2>3. QED
    BY <2>1, <2>2 DEF ContainsXyz, RootCube, Box, Position
<1>7. Placed(points, f)
  BY <1>1, <1>4, <1>5, <1>6 DEF Placed, NoChildren
<1>8. QED
  BY <1>2, <1>3, <1>7 DEF PlaceInv, Located

LEMMA StepPlace ==
  ASSUME TypeOK, ControlInv, TileInv, TreeInv, PlaceInv, [Next]_vars PROVE PlaceInv'
<1>0. points' = points /\ points \in Seq(Position)
  BY LodAssumption
     DEF TypeOK, Next, Step, StartLeaf, CopyPoint, EndLeaf, TooDeep, Partition, SelectPoint, EndSelect,
         Descend, EndDescend, Fail, vars
<1>a. ASSUME Building
      PROVE  /\ stack # <<>> /\ Top \in Frame /\ Placed(points, Top)
             /\ Top.run \subseteq Held(Top) /\ Top.run \in SUBSET DOMAIN points
             /\ \A o \in Octant : Top.children[o] \subseteq Held(Top)
             /\ \A i \in Held(Top) : ContainsXyz(Top.box, points[i])
  <2>1. stack # <<>>
    BY <1>a DEF ControlInv
  <2>2. Top \in Frame /\ Placed(points, Top)
    BY <2>1, StackParts DEF PlaceInv, Top
  <2>3. QED
    BY <2>1, <2>2, HeldParts DEF Placed, Frame
<1>1. CASE StartLeaf
  <2>1. /\ Building /\ Top.start = Len(order) /\ stack' = stack /\ order' = order /\ nodes' = nodes
        /\ Top' = Top
    BY <1>1 DEF StartLeaf, Building, TileInv, Top
  <2>2. \A j \in 1..Len(order) : ~(j > Top.start)
    <3>1. Len(order) \in Nat
      BY LenProperties DEF TypeOK
    <3>2. QED
      BY <2>1, <3>1
  <2>3. QED
    BY <1>0, <2>1, <2>2 DEF PlaceInv
<1>2. CASE CopyPoint
  <2> DEFINE p == Least(Top.run)
             f == [Top EXCEPT !.run = Top.run \ {p}]
  <2>1. /\ Building /\ status = "copy" /\ nodes' = nodes
        /\ order' = Append(order, p) /\ stack' = WithTop(f) /\ Top.run # {}
    BY <1>2 DEF CopyPoint, Building
  <2>2. p \in Top.run /\ p \in DOMAIN points
    BY <1>a, <2>1, LeastOfRun
  <2>3. /\ f \in Frame /\ f.start = Top.start /\ f.box = Top.box /\ f.key = Top.key
        /\ f.children = Top.children /\ f.run = Top.run \ {p}
    BY <1>a, <2>1 DEF Frame
  <2> HIDE DEF f, p
  <2>4. Placed(points, f)
    <3>1. Held(f) \subseteq Held(Top)
      BY <2>3 DEF Held
    <3>2. QED
      BY <1>a, <2>1, <2>3, <3>1 DEF Placed
  <2>5. \A n \in 1..Len(stack') : Placed(points, stack'[n])
    BY <1>a, <2>1, <2>3, <2>4, PlaceTop
  <2>6. /\ Located(points, nodes, order')
        /\ \A j \in 1..Len(order') : j > Top.start => ContainsXyz(Top.box, points[order'[j]])
    BY <1>a, <2>1, <2>2, PlaceWritten
  <2>7. Top' = f
    BY <1>a, <2>1, <2>3, AfterTop
  <2>8. QED
    BY <1>0, <2>1, <2>3, <2>5, <2>6, <2>7 DEF PlaceInv
<1>3. CASE EndLeaf
  <2>1. /\ Building /\ status = "copy" /\ status' \in {"done", "descend"} /\ order' = order
        /\ nodes' = nodes \cup {NodeRange} /\ stack' = Callers
    BY <1>3 DEF EndLeaf, Return, Building
  <2>2. \A n \in 1..Len(stack') : Placed(points, stack'[n])
    BY <1>a, <2>1, PlacePop
  <2>3. Located(points, nodes', order)
    BY <1>a, <2>1, PlaceNode
  <2>4. QED
    BY <1>0, <2>1, <2>2, <2>3 DEF PlaceInv
<1>4. CASE TooDeep
  BY <1>0, <1>4 DEF TooDeep, PlaceInv
<1>5. CASE Partition
  <2> DEFINE f == [Top EXCEPT !.run = {},
               !.children = [q \in Octant |->
                  {i \in Top.run : ChildOctant(Top.box, points[i]) = q}]]
  <2>1. /\ Building /\ status = "assign" /\ nodes' = nodes /\ order' = order /\ stack' = WithTop(f)
    BY <1>5 DEF Partition, Building
  <2>2. f \in Frame
    <3>1. 0 \in Octant
      BY DEF Octant
    <3>2. QED
      BY <1>a, <2>1, <3>1, NextFrames
  <2>3. /\ f.start = Top.start /\ f.box = Top.box /\ f.key = Top.key /\ f.run = {}
        /\ \A q \in Octant : f.children[q] = {i \in Top.run : ChildOctant(Top.box, points[i]) = q}
    BY <1>a, <2>1 DEF Frame
  <2> HIDE DEF f
  <2>4. Placed(points, f)
    <3>1. \A i \in Top.run : ContainsXyz(Top.box, points[i])
      BY <1>a, <2>1
    <3>2. Held(f) \subseteq Top.run
      BY <2>3 DEF Held
    <3>3. ASSUME NEW q \in Octant, NEW i \in f.children[q]
          PROVE  ContainsXyz(OctantBox(Top.box, q), points[i])
      <4>1. i \in Top.run /\ ChildOctant(Top.box, points[i]) = q
        BY <2>3, <3>3
      <4>2. points[i] \in Position /\ Top.box \in BoxType
        BY <1>0, <1>a, <2>1, <4>1 DEF Frame, BoxType
      <4>3. QED
        BY <3>1, <4>1, <4>2, InChildOctant
    <3>4. f.box = VoxelBounds(f.key)
      BY <1>a, <2>1, <2>3 DEF Placed
    <3>5. QED
      BY <2>3, <3>1, <3>2, <3>3, <3>4 DEF Placed
  <2>5. \A n \in 1..Len(stack') : Placed(points, stack'[n])
    BY <1>a, <2>1, <2>2, <2>4, PlaceTop
  <2>6. Top' = f
    BY <1>a, <2>1, <2>2, AfterTop
  <2>7. \A j \in 1..Len(order) : ~(j > Top.start)
    <3>1. Len(order) \in Nat /\ Top.start = Len(order)
      BY <2>1, LenProperties DEF TypeOK, TileInv
    <3>2. QED
      BY <3>1
  <2>8. QED
    BY <1>0, <2>1, <2>3, <2>5, <2>6, <2>7 DEF PlaceInv
<1>6. CASE SelectPoint
  <2> DEFINE o == Top.octant
             next == (o + 1) % 8
             run == Top.children[o]
             p == Least(run)
             f == [Top EXCEPT !.octant = next]
             g == [Top EXCEPT !.children[o] = run \ {p}, !.octant = next]
  <2>1. /\ Building /\ status = "select" /\ nodes' = nodes /\ o \in Octant
        /\ \/ stack' = WithTop(f) /\ order' = order
           \/ stack' = WithTop(g) /\ order' = Append(order, p) /\ run # {}
    BY <1>6 DEF SelectPoint, Building, ControlInv
  <2>2. next \in 0..8 /\ run \in SUBSET DOMAIN points
    BY <1>a, <2>1 DEF Octant, Frame
  <2>3. f \in Frame /\ g \in Frame
    BY <1>a, <2>1, <2>2, NextFrames
  <2>4. /\ f.box = Top.box /\ f.key = Top.key /\ f.start = Top.start
        /\ f.run = Top.run /\ f.children = Top.children
    BY <1>a, <2>1 DEF Frame
  <2>5. /\ g.box = Top.box /\ g.key = Top.key /\ g.start = Top.start /\ g.run = Top.run
        /\ \A q \in Octant : g.children[q] \subseteq Top.children[q]
    BY <1>a, <2>1 DEF Frame
  <2> HIDE DEF f, g, next
  <2>6. Placed(points, f) /\ Placed(points, g)
    <3>1. Held(f) \subseteq Held(Top) /\ Held(g) \subseteq Held(Top)
      BY <2>4, <2>5 DEF Held
    <3>2. QED
      BY <1>a, <2>1, <2>4, <2>5, <3>1 DEF Placed
  <2>7. CASE stack' = WithTop(f) /\ order' = order
    <3>1. \A n \in 1..Len(stack') : Placed(points, stack'[n])
      BY <1>a, <2>1, <2>3, <2>6, <2>7, PlaceTop
    <3>2. Top' = f
      BY <1>a, <2>1, <2>3, <2>7, AfterTop
    <3>3. QED
      BY <1>0, <2>1, <2>4, <2>7, <3>1, <3>2 DEF PlaceInv
  <2>8. CASE stack' = WithTop(g) /\ order' = Append(order, p) /\ run # {}
    <3>1. \A n \in 1..Len(stack') : Placed(points, stack'[n])
      BY <1>a, <2>1, <2>3, <2>6, <2>8, PlaceTop
    <3>2. Top' = g
      BY <1>a, <2>1, <2>3, <2>8, AfterTop
    <3>3. p \in run /\ p \in DOMAIN points
      BY <2>2, <2>8, LeastOfRun
    <3>4. ContainsXyz(Top.box, points[p])
      BY <1>a, <2>1, <3>3
    <3> HIDE DEF p
    <3>5. /\ Located(points, nodes, order')
          /\ \A j \in 1..Len(order') : j > Top.start => ContainsXyz(Top.box, points[order'[j]])
      BY <1>a, <2>1, <2>8, <3>3, <3>4, PlaceWritten
    <3>6. QED
      BY <1>0, <2>1, <2>5, <3>1, <3>2, <3>5 DEF PlaceInv
  <2>9. QED
    BY <2>1, <2>7, <2>8
<1>7. CASE EndSelect
  <2> DEFINE f == [Top EXCEPT !.octant = 0]
  <2>1. /\ Building /\ status = "select" /\ status' = "descend" /\ order' = order
        /\ nodes' = nodes \cup {NodeRange} /\ stack' = WithTop(f)
    BY <1>7 DEF EndSelect, Building
  <2>2. /\ f \in Frame /\ f.key = Top.key /\ f.box = Top.box /\ f.run = Top.run
        /\ f.children = Top.children
    BY <1>a, <2>1 DEF Frame
  <2> HIDE DEF f
  <2>3. Placed(points, f)
    BY <1>a, <2>1, <2>2 DEF Placed, Held
  <2>4. \A n \in 1..Len(stack') : Placed(points, stack'[n])
    BY <1>a, <2>1, <2>2, <2>3, PlaceTop
  <2>5. Located(points, nodes', order)
    BY <1>a, <2>1, PlaceNode
  <2>6. QED
    BY <1>0, <2>1, <2>4, <2>5 DEF PlaceInv
<1>8. CASE Descend
  <2> DEFINE o == Top.octant
             run == Top.children[o]
             f == [Top EXCEPT !.children[o] = {}, !.octant = o + 1]
             g == Call(Child(Top.key, o), run, OctantBox(Top.box, o), Len(order))
  <2>1. /\ Building /\ status = "descend" /\ nodes' = nodes /\ order' = order /\ o < 8
        /\ status' \in {"descend", "assign"}
        /\ stack' = WithTop(f) \/ stack' = Append(WithTop(f), g)
    BY <1>8 DEF Descend, Building
  <2>2. o \in Octant /\ o + 1 \in 0..8
    BY <1>a, <2>1 DEF Frame, Octant
  <2>3. f \in Frame /\ g \in Frame
    BY <1>a, <2>1, <2>2, NextFrames
  <2>4. /\ f.key = Top.key /\ f.box = Top.box /\ f.run = Top.run
        /\ \A q \in Octant : f.children[q] \subseteq Top.children[q]
    BY <1>a, <2>1 DEF Frame
  <2>5. /\ g.key = Child(Top.key, o) /\ g.box = OctantBox(Top.box, o) /\ g.run = run
        /\ g.children = NoChildren
    BY DEF Call
  <2> HIDE DEF f, g
  <2>6. Placed(points, f)
    <3>1. Held(f) \subseteq Held(Top)
      BY <2>4 DEF Held
    <3>2. QED
      BY <1>a, <2>1, <2>4, <3>1 DEF Placed
  <2>7. Placed(points, g)
    <3>1. Top.key \in Key /\ Top.key.level >= 0 /\ Top.key.level < MaxOctreeDepth
      <4>1. Waiting(nodes, Top) /\ Path(stack)
        BY <2>1 DEF TreeInv
      <4>2. ValidKey(Top.key)
        BY <1>a, <2>1, <4>1, StackParts DEF Path, Top
      <4>3. QED
        BY <1>a, <2>1, <4>1, <4>2 DEF Waiting, ValidKey, Frame
    <3>2. g.box = VoxelBounds(g.key)
      BY <1>a, <2>1, <2>2, <2>5, <3>1, OctantIsChild DEF Placed
    <3>3. Held(g) = run /\ \A q \in Octant : g.children[q] = {}
      BY <2>5 DEF Held, NoChildren
    <3>4. \A i \in run : ContainsXyz(g.box, points[i])
      BY <1>a, <2>1, <2>2, <2>5 DEF Placed
    <3>5. QED
      BY <3>2, <3>3, <3>4 DEF Placed
  <2>8. \A n \in 1..Len(stack') : Placed(points, stack'[n])
    BY <1>a, <2>1, <2>3, <2>6, <2>7, PlaceTop, PlacePush
  <2>9. QED
    BY <1>0, <2>1, <2>8 DEF PlaceInv
<1>9. CASE EndDescend
  <2>1. /\ Building /\ status' \in {"done", "descend"} /\ order' = order
        /\ nodes' = nodes /\ stack' = Callers
    BY <1>9 DEF EndDescend, Return, Building
  <2>2. \A n \in 1..Len(stack') : Placed(points, stack'[n])
    BY <1>a, <2>1, PlacePop
  <2>3. QED
    BY <1>0, <2>1, <2>2 DEF PlaceInv
<1>10. CASE Fail
  BY <1>0, <1>10 DEF Fail, PlaceInv
<1>11. CASE UNCHANGED vars
  BY <1>11 DEF vars, PlaceInv, Top
<1>12. QED
  BY <1>1, <1>2, <1>3, <1>4, <1>5, <1>6, <1>7, <1>8, <1>9, <1>10, <1>11 DEF Next, Step

\* The source points already lie on the grid of the stored points.
OnGrid ==
  /\ Scale \in Nat \ {0}
  /\ \A c \in Clouds : \A i \in DOMAIN c : \A a \in Axis : c[i][a] % Scale = 0

\* Every point can be found: when the source points are on the grid of the
\* file, a bounded query that selects a stored point selects the node that
\* holds it (child_octant and Bounds::octant against VoxelKey::bounds).
THEOREM PointsFound == Spec => [](OnGrid => PointsFindable)
<1>1. TypeOK /\ PlaceInv => (OnGrid => PointsFindable)
  <2> SUFFICES ASSUME TypeOK, PlaceInv, OnGrid, NEW n \in nodes, NEW j \in DOMAIN order, Covers(n, j)
               PROVE  LET p == Quantized(points[order[j]]) IN
                      BoundsSelected(n.key, Within(Box(p, p)))
    BY DEF PointsFindable
  <2> DEFINE x == points[order[j]]
             p == Quantized(x)
  <2>1. points \in Seq(Position) /\ points \in Clouds /\ order \in Seq(DOMAIN points)
    BY LodAssumption DEF TypeOK
  <2>2. order[j] \in DOMAIN points /\ j \in 1..Len(order)
    BY <2>1, LenProperties
  <2>3. x \in Position /\ RootSide \in Nat
    BY <2>1, <2>2, LodAssumption
  <2>4. ASSUME NEW a \in Axis PROVE p[a] = x[a]
    <3>1. x[a] \in Nat /\ x[a] % Scale = 0 /\ Scale \in Nat \ {0}
      BY <2>1, <2>2, <2>3 DEF Position, OnGrid
    <3> DEFINE y == x[a]
    <3>2. p[a] = Scale * ((2 * y + Scale) \div (2 * Scale))
      BY DEF Quantized
    <3>3. y \in Nat /\ y % Scale = 0
      BY <3>1
    <3> HIDE DEF y, p, x
    <3>4. PICK q \in Nat : y = q * Scale
      <4>1. y \div Scale \in Nat /\ y = (y \div Scale) * Scale
        BY <3>1, <3>3, Z3
      <4>2. QED
        BY <4>1
    <3> DEFINE d == 2 * Scale
               z == 2 * y + Scale
    <3>5. d \in Nat \ {0} /\ z \in Int /\ q * d <= z /\ z < (q + 1) * d
      BY <3>1, <3>3, <3>4
    <3>6. z \div d = q
      <4> HIDE DEF d, z
      <4>1. QED
        BY <3>5, Quotient
    <3>7. QED
      BY <3>1, <3>2, <3>4, <3>6 DEF y
  <2>5. ContainsXyz(VoxelBounds(n.key), x)
    BY <2>2 DEF PlaceInv, Located
  <2> HIDE DEF x, p
  <2>7. Intersects(VoxelBounds(n.key), Box(p, p))
    BY <2>4, <2>5 DEF Intersects, ContainsXyz, Box
  <2>8. BoundsSelected(n.key, Within(Box(p, p)))
    BY <2>7 DEF BoundsSelected, Within
  <2>9. QED
    BY <2>8 DEF p, x
<1>2. Spec => [](TypeOK /\ ControlInv /\ TileInv /\ TreeInv /\ PlaceInv)
  BY InitControl, StepControl, InitTile, StepTile, InitTree, StepTree, InitPlace, StepPlace, PTL
     DEF Spec
<1>3. QED
  BY <1>1, <1>2, PTL

-----------------------------------------------------------------------------
\* A refused cloud was refused at the running call's run.
RefusedInv ==
  /\ IsFiniteSet(nodes)
  /\ status = "refused" =>
       /\ stack # <<>>
       /\ Top.key.level >= MaxOctreeDepth /\ Cardinality(Top.run) > MaxPointsPerNode

LEMMA InitRefused == Init => RefusedInv
BY FS_EmptySet DEF Init, RefusedInv

LEMMA StepRefused == ASSUME TypeOK, ControlInv, RefusedInv, [Next]_vars PROVE RefusedInv'
<1>1. IsFiniteSet(nodes')
  <2>1. nodes' = nodes \/ nodes' = nodes \cup {NodeRange}
    BY DEF Next, Step, StartLeaf, CopyPoint, EndLeaf, TooDeep, Partition, SelectPoint, EndSelect,
           Descend, EndDescend, Fail, vars
  <2>2. IsFiniteSet(nodes \cup {NodeRange})
    BY FS_AddElement DEF RefusedInv
  <2>3. QED
    BY <2>1, <2>2 DEF RefusedInv
<1>2. CASE TooDeep
  <2>1. /\ stack # <<>> /\ stack' = stack /\ Top' = Top /\ ~ Fits(Top.run)
        /\ Top.key.level >= MaxOctreeDepth
    BY <1>2 DEF TooDeep, ControlInv, Building, Top
  <2>2. Top.run \in SUBSET DOMAIN points
    BY <2>1, StackParts DEF Frame
  <2>3. Cardinality(Top.run) \in Nat /\ MaxPointsPerNode \in Nat
    BY <2>2, RunSize, LodAssumption
  <2>4. QED
    BY <1>1, <2>1, <2>3 DEF RefusedInv, Fits
<1>3. CASE Next /\ ~ TooDeep
  <2>1. status' # "refused"
    BY <1>3 DEF Next, Step, StartLeaf, CopyPoint, EndLeaf, Partition, SelectPoint, EndSelect,
                Descend, EndDescend, Fail, Return
  <2>2. QED
    BY <1>1, <2>1 DEF RefusedInv
<1>4. CASE UNCHANGED vars
  BY <1>4 DEF vars, RefusedInv, Top
<1>5. QED
  BY <1>2, <1>3, <1>4

\* The nodes of the callers, one per level.
LEMMA CallersNodes ==
  ASSUME TypeOK, TreeInv, RefusedInv, status = "refused"
  PROVE  Cardinality(nodes) >= Len(stack) - 1
<1> DEFINE d == Len(stack) - 1
           f == [n \in 1..d |-> CHOOSE m \in nodes : m.key = stack[n].key]
<1>1. d \in Nat /\ stack # <<>>
  BY StackParts DEF RefusedInv
<1>2. Path(stack) /\ \A n \in 1..d : Waiting(nodes, stack[n])
  BY DEF TreeInv
<1>3. \A n \in 1..d : f[n] \in nodes /\ f[n].key.level = n - 1
  <2> TAKE n \in 1..d
  <2>1. \E m \in nodes : m.key = stack[n].key
    BY <1>2 DEF Waiting
  <2>2. f[n] \in nodes /\ f[n].key = stack[n].key
    BY <2>1
  <2>3. stack[n].key.level = n - 1
    BY <1>1, <1>2 DEF Path
  <2>4. QED
    BY <2>2, <2>3
<1> HIDE DEF d
<1>4. f \in [1..d -> nodes]
  BY <1>3
<1> HIDE DEF f
<1>5. \A m, n \in 1..d : f[m] = f[n] => m = n
  BY <1>1, <1>3
<1>6. f \in Injection(1..d, nodes)
  BY <1>4, <1>5, Fun_IsInj
<1>7. Cardinality(1..d) <= Cardinality(nodes)
  BY <1>6, FS_Injection DEF RefusedInv
<1>8. Cardinality(1..d) = d
  BY <1>1, FS_Interval
<1>9. Cardinality(nodes) \in Nat
  BY FS_CardinalityType DEF RefusedInv
<1>10. QED
  BY <1>1, <1>7, <1>8, <1>9 DEF d

\* A build is refused only for a crowd: more than max_points_per_node points
\* in one voxel of MAX_OCTREE_DEPTH, under a full node on every level above
\* (assign).
THEOREM RefusedForACrowd == Spec => []RefusedOnlyIfCrowded
<1>1. TypeOK /\ TreeInv /\ PlaceInv /\ RefusedInv => RefusedOnlyIfCrowded
  <2> SUFFICES ASSUME TypeOK, TreeInv, PlaceInv, RefusedInv, status = "refused"
               PROVE  RefusedOnlyIfCrowded
    BY DEF RefusedOnlyIfCrowded
  <2> DEFINE d == Len(stack)
  <2>1. /\ d \in Nat /\ d >= 1 /\ Top \in Frame /\ Path(stack) /\ NodesFormTree
        /\ Top.key \notin NodeKeys(nodes) /\ Top.key \in Key
        /\ \A n \in 1..(d - 1) : Waiting(nodes, stack[n])
    BY StackParts DEF RefusedInv, TreeInv, Frame
  <2>2. Top.key.level = d - 1 /\ d - 1 = MaxOctreeDepth
    <3>1. Top.key.level = d - 1 /\ d - 1 <= MaxOctreeDepth
      BY <2>1 DEF Path, Top
    <3>2. MaxOctreeDepth \in Nat /\ Top.key.level >= MaxOctreeDepth
      BY LodAssumption DEF RefusedInv
    <3>3. QED
      BY <2>1, <3>1, <3>2
  <2>3. Cardinality({i \in DOMAIN points : ContainsXyz(VoxelBounds(Top.key), points[i])})
          > MaxPointsPerNode
    <3> DEFINE crowd == {i \in DOMAIN points : ContainsXyz(VoxelBounds(Top.key), points[i])}
    <3>1. Placed(points, Top) /\ Top.run \in SUBSET DOMAIN points /\ Top.run \subseteq Held(Top)
      BY <2>1 DEF PlaceInv, Top, Frame, Held
    <3>2. Top.run \subseteq crowd /\ crowd \in SUBSET DOMAIN points
      BY <3>1 DEF Placed
    <3> HIDE DEF crowd
    <3>3. IsFiniteSet(crowd)
      <4>1. points \in Seq(Position)
        BY LodAssumption DEF TypeOK
      <4>2. DOMAIN points = 1..Len(points) /\ Len(points) \in Nat
        BY <4>1, LenProperties
      <4>3. IsFiniteSet(DOMAIN points)
        BY <4>2, FS_Interval
      <4>4. QED
        BY <3>2, <4>3, FS_Subset
    <3>4. Cardinality(Top.run) <= Cardinality(crowd) /\ Cardinality(crowd) \in Nat
      BY <3>2, <3>3, FS_Subset, FS_CardinalityType
    <3>5. Cardinality(Top.run) \in Nat /\ MaxPointsPerNode \in Nat
          /\ Cardinality(Top.run) > MaxPointsPerNode
      BY <3>1, RunSize, LodAssumption DEF RefusedInv
    <3>6. QED
      BY <3>4, <3>5 DEF crowd
  <2>4. ASSUME NEW n \in nodes, InSubtree(Top.key, n.key) PROVE n.count = MaxPointsPerNode
    <3> DEFINE l == n.key.level
    <3>1. n.key \in Key /\ ValidKey(n.key) /\ n.key # Top.key
      BY <2>1 DEF NodesFormTree, TypeOK, NodeRanges, NodeKeys
    <3>2. l \in Nat /\ l <= d - 1
      BY <2>2, <2>4, <3>1 DEF InSubtree, ValidKey, Key
    <3>3. l + 1 \in 1..d /\ d \in 1..d /\ l + 1 <= d
      BY <2>1, <3>2
    <3>4. InSubtree(Top.key, stack[l + 1].key) /\ stack[l + 1].key.level = l
      <4>1. \A i, j \in 1..d : i <= j => InSubtree(stack[j].key, stack[i].key)
        BY <2>1 DEF Path
      <4>2. \A i \in 1..d : stack[i].key.level = i - 1
        BY <2>1 DEF Path
      <4>3. (l + 1) - 1 = l
        BY <3>2
      <4> HIDE DEF l, d
      <4>4. QED
        BY <3>3, <4>1, <4>2, <4>3 DEF Top, d
    <3>5. stack[l + 1].key \in Key
      <4>1. stack \in Seq(Frame)
        BY DEF TypeOK
      <4>2. stack[l + 1] \in Frame
        BY <3>3, <4>1
      <4>3. QED
        BY <4>2 DEF Frame
    <3>6. stack[l + 1].key = n.key
      <4>1. \A a \in Axis : stack[l + 1].key.pos[a] = n.key.pos[a]
        BY <2>4, <3>4 DEF InSubtree
      <4> HIDE DEF l
      <4>2. QED
        BY <3>1, <3>4, <3>5, <4>1 DEF Key, l
    <3>7. l + 1 \in 1..(d - 1)
      <4>1. l + 1 # d
        BY <3>1, <3>6 DEF Top
      <4>2. QED
        BY <2>1, <3>2, <3>3, <4>1
    <3>8. PICK m \in nodes : m.key = n.key /\ m.count = MaxPointsPerNode
      BY <2>1, <3>6, <3>7 DEF Waiting
    <3>9. m = n
      BY <2>1, <3>8 DEF NodesFormTree
    <3>10. QED
      BY <3>8, <3>9
  <2>5. Cardinality(nodes) >= MaxOctreeDepth
    BY <2>2, CallersNodes
  <2>6. QED
    BY <2>2, <2>3, <2>4, <2>5 DEF RefusedOnlyIfCrowded
<1>2. Spec => [](TypeOK /\ ControlInv /\ TileInv /\ TreeInv /\ PlaceInv /\ RefusedInv)
  BY InitControl, StepControl, InitTile, StepTile, InitTree, StepTree, InitPlace, StepPlace,
     InitRefused, StepRefused, PTL DEF Spec
<1>3. QED
  BY <1>1, <1>2, PTL
=============================================================================

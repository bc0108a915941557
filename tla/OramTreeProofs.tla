---------------------------- MODULE OramTreeProofs ----------------------------
(***************************************************************************)
(* Lemmas about the tree and about sets of slots that the proofs of both   *)
(* ORAM protocols cite.                                                    *)
(***************************************************************************)
EXTENDS OramTree, FiniteSetTheorems, WellFoundedInduction, TLAPS

-------------------------------------------------------------------------------
(* Induction, as a statement about sets.                                   *)
LEMMA Induction ==
  ASSUME NEW S, 0 \in S, \A k \in Nat : k \in S => k + 1 \in S
  PROVE  Nat \subseteq S
<1>. DEFINE R == OpToRel(<, Nat)
            T == Nat \ S
<1>. SUFFICES ASSUME T # {} PROVE FALSE
  OBVIOUS
<1>1. IsWellFoundedOn(R, Nat)
  BY NatLessThanWellFounded
<1>2. \A x \in Nat, y \in Nat : x < y => << x, y >> \in R
  BY DEF OpToRel
<1>. HIDE DEF R
<1>3. PICK j \in T : \A i \in T : ~(<< i, j >> \in R)
  <2>1. T \subseteq Nat
    OBVIOUS
  <2>. HIDE DEF T
  <2>. QED  BY <1>1, <2>1, WFMin
<1>4. j \in Nat /\ j # 0
  OBVIOUS
<1>5. j - 1 \in Nat /\ j - 1 < j /\ j - 1 + 1 = j
  BY <1>4
<1>6. j - 1 \notin T
  BY <1>2, <1>3, <1>4, <1>5, Zenon
<1>. QED  BY <1>5, <1>6

-------------------------------------------------------------------------------
(* Powers of two, up to the number of leaves. *)
LEMMA Powers ==
  /\ 2 ^ 0 = 1
  /\ \A k \in 0 .. LEVEL : 2 ^ k \in Nat \ {0}
  /\ \A k \in 0 .. LEVEL - 1 : 2 ^ (k + 1) = 2 * 2 ^ k
<1>. DEFINE S == { k \in Nat : k <= LEVEL => 2 ^ k \in Nat \ {0} }
<1>1. 0 \in S
  BY PowerAssumption
<1>2. ASSUME NEW k \in Nat, k \in S
      PROVE  k + 1 \in S
  <2>. SUFFICES ASSUME k + 1 <= LEVEL PROVE 2 ^ (k + 1) \in Nat \ {0}
    OBVIOUS
  <2>1. k \in 0 .. LEVEL - 1
    BY LevelAssumption
  <2>2. 2 ^ (k + 1) = 2 * 2 ^ k
    BY <2>1, PowerAssumption
  <2>3. 2 ^ k \in Nat \ {0}
    BY <1>2, <2>1, LevelAssumption
  <2>. QED  BY <2>2, <2>3
<1>3. Nat \subseteq S
  <2>. HIDE DEF S
  <2>. QED  BY <1>1, <1>2, Induction
<1>. QED  BY <1>3, PowerAssumption, LevelAssumption

(* The tree has a leaf. *)
LEMMA PathPositive == PATH \in Nat \ {0}
<1>1. LEVEL - 1 \in 0 .. LEVEL
  BY LevelAssumption
<1>. QED  BY <1>1, Powers DEF PATH

(* Two labels that agree after a shift agree after every longer one: paths *)
(* that share a bucket share all the buckets above it.                     *)
LEMMA Halves ==
  ASSUME NEW p \in Nat, NEW d \in Nat \ {0}
  PROVE  p \div (2 * d) = (p \div d) \div 2
<1>. DEFINE q == p \div d
            r == p % d
<1>1. q \in Nat /\ r \in 0 .. d - 1 /\ p = d * q + r
  OBVIOUS
<1>. QED  BY <1>1

LEMMA Nested ==
  ASSUME NEW p \in Path, NEW q \in Path, NEW m \in Level, NEW l \in Level,
         l <= m, NodeAt(p, m) = NodeAt(q, m)
  PROVE  NodeAt(p, l) = NodeAt(q, l)
<1>. DEFINE At(x, k) == x \div 2 ^ (LEVEL - 1 - k)
            S == { d \in Nat : d <= m => At(p, m - d) = At(q, m - d) }
<1>1. 0 \in S
  BY DEF NodeAt, Level
<1>2. ASSUME NEW d \in Nat, d \in S
      PROVE  d + 1 \in S
  <2>. SUFFICES ASSUME d + 1 <= m PROVE At(p, m - (d + 1)) = At(q, m - (d + 1))
    OBVIOUS
  <2>. DEFINE k == LEVEL - 1 - (m - d)
  <2>1. k \in 0 .. LEVEL - 1 /\ LEVEL - 1 - (m - (d + 1)) = k + 1
    BY LevelAssumption DEF Level
  <2>2. p \div 2 ^ k = q \div 2 ^ k
    <3>1. m \in Nat /\ d <= m
      BY DEF Level
    <3>2. At(p, m - d) = At(q, m - d)
      <4>. HIDE DEF At
      <4>. QED  BY <1>2, <3>1
    <3>. QED  BY <3>2, Zenon
  <2>3. 2 ^ k \in Nat \ {0} /\ 2 ^ (k + 1) = 2 * 2 ^ k
    BY <2>1, Powers, LevelAssumption
  <2>4. p \in Nat /\ q \in Nat
    BY PathPositive DEF Path
  <2>. HIDE DEF k
  <2>5. /\ p \div (2 * 2 ^ k) = (p \div 2 ^ k) \div 2
        /\ q \div (2 * 2 ^ k) = (q \div 2 ^ k) \div 2
    BY <2>3, <2>4, Halves
  <2>. QED  BY <2>1, <2>2, <2>3, <2>5
<1>3. Nat \subseteq S
  <2>. HIDE DEF S
  <2>. QED  BY <1>1, <1>2, Induction
<1>4. m - l \in Nat /\ m - l <= m /\ m - (m - l) = l
  BY DEF Level
<1>. QED  BY <1>3, <1>4 DEF NodeAt

(* The sums of the first elements of t, as a recursive function. *)
LEMMA Sums ==
  ASSUME NEW n \in Nat, NEW t \in [ 1 .. n -> Int ]
  PROVE  \E f : f = [ i \in 0 .. n |-> IF i = 0 THEN 0 ELSE f[i - 1] + t[i] ]
<1>. DEFINE Solves(h, k) ==
              /\ h \in [ 0 .. k -> Int ] /\ h[0] = 0
              /\ \A i \in 1 .. k : h[i] = h[i - 1] + t[i]
            S == { k \in Nat : k <= n => \E h : Solves(h, k) }
<1>1. 0 \in S
  <2>1. Solves([ i \in 0 .. 0 |-> 0 ], 0)
    OBVIOUS
  <2>. QED  BY <2>1
<1>2. ASSUME NEW k \in Nat, k \in S
      PROVE  k + 1 \in S
  <2>. SUFFICES ASSUME k + 1 <= n PROVE \E h : Solves(h, k + 1)
    <3>. HIDE DEF Solves
    <3>. QED  OBVIOUS
  <2>1. PICK h : Solves(h, k)
    <3>. HIDE DEF Solves
    <3>. QED  BY <1>2
  <2>. DEFINE f == [ i \in 0 .. k + 1 |-> IF i = k + 1 THEN h[k] + t[k + 1] ELSE h[i] ]
  <2>2. h[k] + t[k + 1] \in Int
    BY <2>1
  <2>3. f \in [ 0 .. k + 1 -> Int ] /\ f[0] = 0
    BY <2>1, <2>2
  <2>4. ASSUME NEW i \in 1 .. k + 1
        PROVE  f[i] = f[i - 1] + t[i]
    <3>1. f[i - 1] = h[i - 1]
      OBVIOUS
    <3>2. CASE i = k + 1
      <4>1. i - 1 = k /\ f[i] = h[k] + t[k + 1]
        BY <3>2
      <4>. HIDE DEF f
      <4>. QED  BY <3>1, <3>2, <4>1, Zenon
    <3>3. CASE i # k + 1
      <4>1. f[i] = h[i] /\ i \in 1 .. k
        BY <3>3
      <4>. HIDE DEF f
      <4>. QED  BY <2>1, <3>1, <4>1, Zenon
    <3>. QED  BY <3>2, <3>3
  <2>. HIDE DEF f
  <2>. QED  BY <2>3, <2>4
<1>3. n \in S
  <2>. HIDE DEF S
  <2>. QED  BY <1>1, <1>2, Induction
<1>4. PICK h : Solves(h, n)
  BY <1>3
<1>5. h = [ i \in 0 .. n |-> IF i = 0 THEN 0 ELSE h[i - 1] + t[i] ]
  BY <1>4
<1>. QED  BY <1>5

(* reverse_lex, one digit at a time: Reversed(n)[i] is what the first i     *)
(* digits of n contribute.                                                 *)
Depth == LEVEL - 1

Digit(n, i) == (n \div 2 ^ i) % 2

Reversed(n) ==
  CHOOSE f : f = [ i \in 0 .. LEVEL - 1 |->
    IF i = 0 THEN 0
    ELSE f[i - 1] + [ j \in 1 .. LEVEL - 1 |->
                      ((n \div 2 ^ (j - 1)) % 2) * 2 ^ (LEVEL - 1 - j) ][i] ]

LEMMA DepthType == Depth \in Nat /\ LEVEL = Depth + 1 /\ PATH = 2 ^ Depth
BY LevelAssumption DEF Depth, PATH

LEMMA PowerType == \A k \in 0 .. LEVEL : 2 ^ k \in Nat \ {0}
BY Powers, Zenon

LEMMA PowerNext == \A k \in 0 .. Depth : 2 ^ (k + 1) = 2 * 2 ^ k
BY Powers, Zenon DEF Depth

LEMMA DigitType ==
  ASSUME NEW n \in Nat, NEW i \in 0 .. LEVEL
  PROVE  Digit(n, i) \in 0 .. 1
<1>1. PICK d \in Nat \ {0} : d = 2 ^ i
  BY PowerType, Zenon
<1>. QED  BY <1>1 DEF Digit

LEMMA Reverses ==
  ASSUME NEW n \in Nat
  PROVE  /\ reverse_lex(n) = Reversed(n)[Depth]
         /\ Reversed(n)[0] = 0
         /\ \A i \in 1 .. Depth :
              Reversed(n)[i] = Reversed(n)[i - 1] + Digit(n, i - 1) * 2 ^ (Depth - i)
<1>. DEFINE bit == [ j \in 1 .. LEVEL - 1 |-> ((n \div 2 ^ (j - 1)) % 2) * 2 ^ (LEVEL - 1 - j) ]
            IsRev(f) == f = [ i \in 0 .. LEVEL - 1 |-> IF i = 0 THEN 0 ELSE f[i - 1] + bit[i] ]
            rev == CHOOSE f : IsRev(f)
<1>1. rev = Reversed(n)
  BY Zenon DEF Reversed
<1>2. reverse_lex(n) = rev[Depth]
  BY Zenon DEF reverse_lex, Depth
<1>3. ASSUME NEW i \in 1 .. Depth
      PROVE  bit[i] = Digit(n, i - 1) * 2 ^ (Depth - i) /\ bit[i] \in Int
  <2>1. i - 1 \in 0 .. LEVEL /\ Depth - i \in 0 .. LEVEL
    BY DepthType
  <2>2. bit[i] = Digit(n, i - 1) * 2 ^ (Depth - i)
    BY Zenon DEF Digit, Depth
  <2>3. Digit(n, i - 1) \in 0 .. 1 /\ 2 ^ (Depth - i) \in Nat \ {0}
    BY <2>1, DigitType, PowerType, Zenon
  <2>. HIDE DEF bit
  <2>. QED  BY <2>2, <2>3
<1>4. bit \in [ 1 .. Depth -> Int ]
  <2>1. bit = [ i \in 1 .. Depth |-> bit[i] ]
    BY DEF bit, Depth
  <2>. HIDE DEF bit
  <2>. QED  BY <1>3, <2>1
<1>. HIDE DEF bit
<1>5. \E f : f = [ i \in 0 .. Depth |-> IF i = 0 THEN 0 ELSE f[i - 1] + bit[i] ]
  BY <1>4, DepthType, Sums
<1>6. \E f : IsRev(f)
  BY <1>5, Zenon DEF Depth
<1>7. IsRev(rev)
  <2>. HIDE DEF IsRev
  <2>. QED  BY <1>6
<1>8. rev = [ i \in 0 .. Depth |-> IF i = 0 THEN 0 ELSE rev[i - 1] + bit[i] ]
  <2>. HIDE DEF rev
  <2>. QED  BY <1>7, Zenon DEF Depth
<1>. HIDE DEF rev, IsRev
<1>9. \A i \in 0 .. Depth : rev[i] = IF i = 0 THEN 0 ELSE rev[i - 1] + bit[i]
  BY <1>8
<1>10. rev[0] = 0 /\ \A i \in 1 .. Depth : rev[i] = rev[i - 1] + bit[i]
  BY <1>9, DepthType
<1>. QED  BY <1>1, <1>2, <1>3, <1>10, Zenon

(* What the digits after the first l add up to is less than the last of    *)
(* the first is worth.                                                     *)
LEMMA ReversedStep ==
  ASSUME NEW n \in Nat, NEW i \in 0 .. Depth - 1
  PROVE  /\ Digit(n, i) \in 0 .. 1
         /\ 2 ^ (Depth - (i + 1)) \in Nat \ {0}
         /\ 2 ^ (Depth - i) = 2 * 2 ^ (Depth - (i + 1))
         /\ Reversed(n)[i + 1] = Reversed(n)[i] + Digit(n, i) * 2 ^ (Depth - (i + 1))
<1>1. /\ i \in 0 .. LEVEL /\ Depth - (i + 1) \in 0 .. LEVEL /\ Depth - (i + 1) \in 0 .. Depth
      /\ (Depth - (i + 1)) + 1 = Depth - i
      /\ i + 1 \in 1 .. Depth /\ (i + 1) - 1 = i
  BY DepthType
<1>2. Digit(n, i) \in 0 .. 1 /\ 2 ^ (Depth - (i + 1)) \in Nat \ {0}
  BY <1>1, DigitType, PowerType, Zenon
<1>3. 2 ^ ((Depth - (i + 1)) + 1) = 2 * 2 ^ (Depth - (i + 1))
  BY <1>1, PowerNext, Zenon
<1>4. Reversed(n)[i + 1] = Reversed(n)[(i + 1) - 1] + Digit(n, (i + 1) - 1) * 2 ^ (Depth - (i + 1))
  BY <1>1, Reverses
<1>. QED  BY <1>1, <1>2, <1>3, <1>4, Zenon

LEMMA ReversedType ==
  ASSUME NEW n \in Nat
  PROVE  \A i \in 0 .. Depth : Reversed(n)[i] \in Nat
<1>. DEFINE S == { i \in Nat : i <= Depth => Reversed(n)[i] \in Nat }
<1>1. 0 \in S
  BY Reverses
<1>2. ASSUME NEW i \in Nat, i \in S
      PROVE  i + 1 \in S
  <2>. SUFFICES ASSUME i + 1 <= Depth PROVE Reversed(n)[i + 1] \in Nat
    OBVIOUS
  <2>1. i \in 0 .. Depth - 1 /\ i <= Depth
    BY DepthType
  <2>2. PICK b \in 0 .. 1, w \in Nat \ {0} : Reversed(n)[i + 1] = Reversed(n)[i] + b * w
    BY <2>1, ReversedStep
  <2>3. Reversed(n)[i] \in Nat
    BY <1>2, <2>1
  <2>. QED  BY <2>2, <2>3
<1>3. Nat \subseteq S
  <2>. HIDE DEF S
  <2>. QED  BY <1>1, <1>2, Induction
<1>. QED  BY <1>3, DepthType

LEMMA ReversedBelow ==
  ASSUME NEW n \in Nat, NEW l \in 0 .. Depth
  PROVE  \A i \in l .. Depth :
           /\ Reversed(n)[l] <= Reversed(n)[i]
           /\ Reversed(n)[i] <= Reversed(n)[l] + 2 ^ (Depth - l) - 2 ^ (Depth - i)
<1>. DEFINE Below(i) == /\ Reversed(n)[l] <= Reversed(n)[i]
                        /\ Reversed(n)[i] <= Reversed(n)[l] + 2 ^ (Depth - l) - 2 ^ (Depth - i)
            S == { d \in Nat : l + d <= Depth => Below(l + d) }
<1>1. PICK r \in Nat, u \in Nat : r = Reversed(n)[l] /\ u = 2 ^ (Depth - l)
  <2>1. Depth - l \in 0 .. LEVEL
    BY DepthType
  <2>. QED  BY <2>1, ReversedType, PowerType, Zenon
<1>2. 0 \in S
  <2>1. l + 0 = l
    OBVIOUS
  <2>2. r <= r /\ r <= r + u - u
    OBVIOUS
  <2>3. Below(l + 0)
    BY <1>1, <2>1, <2>2, Zenon
  <2>. HIDE DEF Below
  <2>. QED  BY <2>3
<1>3. ASSUME NEW d \in Nat, d \in S
      PROVE  d + 1 \in S
  <2>. SUFFICES ASSUME l + (d + 1) <= Depth PROVE Below(l + (d + 1))
    <3>. HIDE DEF Below
    <3>. QED  OBVIOUS
  <2>1. PICK i : i = l + d /\ i \in 0 .. Depth /\ i \in 0 .. Depth - 1 /\ l + (d + 1) = i + 1
    BY DepthType
  <2>3. PICK b \in 0 .. 1, w \in Nat \ {0} :
          /\ w = 2 ^ (Depth - (i + 1)) /\ 2 ^ (Depth - i) = 2 * w
          /\ Reversed(n)[i + 1] = Reversed(n)[i] + b * w
    BY <2>1, ReversedStep
  <2>4. PICK x \in Nat : x = Reversed(n)[i]
    BY <2>1, ReversedType, Zenon
  <2>5. Below(i)
    <3>. HIDE DEF Below
    <3>. QED  BY <1>3, <2>1
  <2>6. r <= x /\ x <= r + u - 2 * w
    BY <1>1, <2>3, <2>4, <2>5, Zenon
  <2>7. r <= x + b * w /\ x + b * w <= r + u - w
    BY <2>6
  <2>. QED  BY <1>1, <2>1, <2>3, <2>4, <2>7, Zenon
<1>4. Nat \subseteq S
  <2>. HIDE DEF S
  <2>. QED  BY <1>2, <1>3, Induction
<1>5. ASSUME NEW i \in l .. Depth
      PROVE  Below(i)
  <2>1. i - l \in Nat /\ l + (i - l) = i /\ i <= Depth
    BY DepthType
  <2>2. i - l \in S
    BY <1>4, <2>1
  <2>. HIDE DEF Below
  <2>. QED  BY <2>1, <2>2
<1>. QED  BY <1>5

(* The path of an eviction is a path of the tree: the digits of the count, *)
(* in reverse order, are those of a label.                                 *)
LEMMA ReverseLexType ==
  ASSUME NEW n \in Nat
  PROVE  reverse_lex(n) \in Path
<1>1. 0 \in 0 .. Depth /\ Depth \in 0 .. Depth /\ Depth - 0 = Depth /\ Depth - Depth = 0
  BY DepthType
<1>2. PICK x \in Nat : x = reverse_lex(n) /\ x = Reversed(n)[Depth]
  BY <1>1, Reverses, ReversedType, Zenon
<1>3. Reversed(n)[Depth] <= Reversed(n)[0] + 2 ^ (Depth - 0) - 2 ^ (Depth - Depth)
  BY <1>1, ReversedBelow
<1>4. x <= 0 + PATH - 1
  BY <1>1, <1>2, <1>3, Reverses, Powers, DepthType, Zenon
<1>. QED  BY <1>2, <1>4, PathPositive DEF Path

LEMMA EvictedPath == \A g \in Path : reverse_lex(g) \in Path
<1>1. \A g \in Path : g \in Nat
  BY PathPositive DEF Path
<1>. QED  BY <1>1, ReverseLexType, Zenon

-------------------------------------------------------------------------------
(* The tree: a bucket on a path knows its level, and no path has two of it. *)
LEMMA NodeAtLevel ==
  ASSUME NEW p \in Path, NEW l \in Level
  PROVE  /\ NodeAt(p, l) \in Node
         /\ NodeAt(p, l) \in OnPath(p)
         /\ NodeAt(p, l)[1] = l
BY DEF NodeAt, Node, OnPath

(* The buckets of a path are buckets of the tree, each at a level.         *)
LEMMA OnPathLevel ==
  ASSUME NEW p \in Path, NEW n \in OnPath(p)
  PROVE  /\ n \in Node
         /\ n[1] \in Level
         /\ n = NodeAt(p, n[1])
BY DEF NodeAt, Node, OnPath

(* A bucket of the tree is at a level.                                     *)
LEMMA NodeLevel ==
  ASSUME NEW n \in Node
  PROVE  n[1] \in Level
<1>1. PICK p \in Path, l \in Level : n = NodeAt(p, l)
  BY DEF Node
<1>. QED  BY <1>1, NodeAtLevel

(* The root and the leaves are levels.                                     *)
LEMMA FirstAndLast ==
  /\ 0 \in Path
  /\ 0 \in Level
  /\ LEVEL - 1 \in Level
BY LevelAssumption, PathPositive DEF Path, Level

(* A counter taken modulo m stays below it.                                *)
LEMMA ModType ==
  ASSUME NEW m \in Nat \ {0}, NEW k \in Nat
  PROVE  k % m \in 0 .. m - 1
OBVIOUS

(* k finite sets of at most size elements have at most k * size in all.   *)
LEMMA UnionSize ==
  ASSUME NEW k \in Nat, NEW size \in Nat, NEW F,
         \A j \in 0 .. k - 1 : IsFiniteSet(F[j]) /\ Cardinality(F[j]) <= size
  PROVE  Cardinality(UNION { F[j] : j \in 0 .. k - 1 }) <= k * size
<1>. DEFINE J == 0 .. k - 1
            U == UNION { F[j] : j \in J }
            D == J \X (1 .. size)
<1>1. size \in Nat /\ k * size \in Nat
  OBVIOUS
<1>2. CASE U = {}
  BY <1>1, <1>2, FS_EmptySet
<1>3. CASE U # {}
  <2>1. PICK d : d \in U
    BY <1>3
  <2>. DEFINE Lists(h, j) == h \in [1 .. size -> U] /\ \A s \in F[j] : \E i \in 1 .. size : h[i] = s
  <2>2. ASSUME NEW j \in J
        PROVE  \E h : Lists(h, j)
    <3>1. /\ F[j] \subseteq U
          /\ IsFiniteSet(F[j])
          /\ Cardinality(F[j]) \in Nat
          /\ Cardinality(F[j]) <= size
      BY FS_CardinalityType
    <3>2. PICK b : b \in Bijection(1 .. Cardinality(F[j]), F[j])
      BY <3>1, FS_CardinalityType DEF ExistsBijection
    <3>3. PICK c \in Nat : c = Cardinality(F[j])
      BY <3>1
    <3>4. /\ \A i \in 1 .. c : b[i] \in F[j]
          /\ \A s \in F[j] : \E i \in 1 .. c : b[i] = s
      BY <3>2, <3>3 DEF Bijection, Surjection, Injection
    <3>. DEFINE h == [i \in 1 .. size |-> IF i <= c THEN b[i] ELSE d]
    <3>5. h \in [1 .. size -> U]
      <4>1. \A i \in 1 .. size : i <= c => i \in 1 .. c
        BY <1>1, <3>3
      <4>2. \A i \in 1 .. size : (IF i <= c THEN b[i] ELSE d) \in U
        BY <2>1, <3>1, <3>4, <4>1
      <4>. HIDE DEF U
      <4>. QED  BY <4>2
    <3>6. ASSUME NEW s \in F[j]
          PROVE  \E i \in 1 .. size : h[i] = s
      <4>1. PICK i \in 1 .. c : b[i] = s
        BY <3>4
      <4>2. i \in 1 .. size /\ i <= c
        BY <1>1, <3>1, <3>3
      <4>. QED  BY <4>1, <4>2
    <3>. QED  BY <3>5, <3>6
  <2>. DEFINE H0 == [j \in J |-> CHOOSE h : Lists(h, j)]
              g == [x \in D |-> H0[x[1]][x[2]]]
  <2>3. \A j \in J : Lists(H0[j], j)
    <3>. HIDE DEF Lists
    <3>. QED  BY <2>2
  <2>. HIDE DEF H0
  <2>4. g \in Surjection(D, U)
    <3>1. \A x \in D : H0[x[1]][x[2]] \in U
      <4>1. \A j \in J : H0[j] \in [1 .. size -> U]
        BY <2>3
      <4>2. \A x \in D : x[1] \in J /\ x[2] \in 1 .. size
        OBVIOUS
      <4>. HIDE DEF U, J, D
      <4>. QED  BY <4>1, <4>2
    <3>2. g \in [D -> U]
      BY <3>1
    <3>3. ASSUME NEW s \in U
          PROVE  \E x \in D : g[x] = s
      <4>1. PICK j \in J : s \in F[j]
        OBVIOUS
      <4>2. PICK i \in 1 .. size : H0[j][i] = s
        BY <2>3, <4>1
      <4>3. << j, i >> \in D
        OBVIOUS
      <4>. QED  BY <4>2, <4>3
    <3>. QED  BY <3>2, <3>3 DEF Surjection
  <2>5. IsFiniteSet(D) /\ Cardinality(D) = k * size
    <3>1. IsFiniteSet(J) /\ Cardinality(J) = k
      <4>1. 0 \in Int /\ k - 1 \in Int
        OBVIOUS
      <4>2. /\ IsFiniteSet(0 .. k - 1)
            /\ Cardinality(0 .. k - 1) = IF 0 > k - 1 THEN 0 ELSE k - 1 - 0 + 1
        BY <4>1, FS_Interval, Zenon
      <4>3. Cardinality(0 .. k - 1) = k
        <5>. DEFINE c == Cardinality(0 .. k - 1)
        <5>1. c = IF 0 > k - 1 THEN 0 ELSE k - 1 - 0 + 1
          BY <4>2, Zenon
        <5>. HIDE DEF c, U, D, g
        <5>2. c = k
          BY <5>1
        <5>. QED  BY <5>2, Zenon DEF c
      <4>. QED  BY <4>2, <4>3, Zenon DEF J
    <3>2. IsFiniteSet(1 .. size) /\ Cardinality(1 .. size) = size
      BY <1>1, FS_Interval
    <3>3. IsFiniteSet(D) /\ Cardinality(D) = Cardinality(J) * Cardinality(1 .. size)
      <4>. HIDE DEF J
      <4>. QED  BY <3>1, <3>2, FS_Product
    <3>. HIDE DEF D, J
    <3>. QED  BY <3>1, <3>2, <3>3
  <2>6. Cardinality(U) <= k * size
    <3>1. g \in Surjection(D, U)
      BY <2>4
    <3>2. IsFiniteSet(D) /\ Cardinality(D) = k * size
      BY <2>5
    <3>. HIDE DEF g, D, U
    <3>. QED  BY <3>1, <3>2, FS_Surjection
  <2>. QED  BY <2>6
<1>. QED  BY <1>2, <1>3

(* There are finitely many slots that hold one of finitely many blocks.    *)
LEMMA RecordsFinite ==
  ASSUME NEW B, IsFiniteSet(B)
  PROVE  IsFiniteSet([addr : B, label : Path])
<1>. DEFINE P == B \X Path
            f == [x \in P |-> [addr |-> x[1], label |-> x[2]]]
<1>1. IsFiniteSet(Path)
  <2>1. PATH - 1 \in Int
    BY PathPositive
  <2>. QED  BY <2>1, FS_Interval DEF Path
<1>2. IsFiniteSet(P)
  BY <1>1, FS_Product
<1>3. f \in Surjection(P, [addr : B, label : Path])
  <2>1. f \in [P -> [addr : B, label : Path]]
    OBVIOUS
  <2>2. ASSUME NEW s \in [addr : B, label : Path]
        PROVE  \E x \in P : f[x] = s
    <3>1. << s.addr, s.label >> \in P
      OBVIOUS
    <3>2. f[<< s.addr, s.label >>] = s
      BY <3>1
    <3>. QED  BY <3>1, <3>2
  <2>. QED  BY <2>1, <2>2 DEF Surjection
<1>. HIDE DEF P, f
<1>. QED  BY <1>2, <1>3, FS_Surjection

(* What the cardinalities of two finite sets obey.                         *)
LEMMA SetCounts ==
  ASSUME NEW S, IsFiniteSet(S), NEW T, IsFiniteSet(T)
  PROVE  /\ Cardinality(S) \in Nat /\ Cardinality(T) \in Nat
         /\ Cardinality(S \cup T) <= Cardinality(S) + Cardinality(T)
         /\ T \subseteq S => /\ Cardinality(T) <= Cardinality(S)
                             /\ Cardinality(S \ T) = Cardinality(S) - Cardinality(T)
<1>1. IsFiniteSet(S) /\ IsFiniteSet(T) /\ Cardinality(S) \in Nat /\ Cardinality(T) \in Nat
  BY FS_CardinalityType
<1>2. Cardinality(S \cup T) = Cardinality(S) + Cardinality(T) - Cardinality(S \cap T)
  BY <1>1, FS_Union
<1>3. Cardinality(S \cap T) \in Nat
  BY <1>1, FS_Intersection, FS_CardinalityType
<1>4. ASSUME T \subseteq S
      PROVE  Cardinality(T) <= Cardinality(S) /\ Cardinality(S \ T) = Cardinality(S) - Cardinality(T)
  <2>1. S \cap T = T
    BY <1>4
  <2>2. Cardinality(S \ T) = Cardinality(S) - Cardinality(S \cap T)
    BY <1>1, FS_Difference
  <2>3. Cardinality(T) <= Cardinality(S)
    BY <1>1, <1>4, FS_Subset
  <2>. QED  BY <2>1, <2>2, <2>3
<1>5. Cardinality(S \cup T) <= Cardinality(S) + Cardinality(T)
  BY <1>1, <1>2, <1>3
<1>. QED  BY <1>1, <1>4, <1>5

(* One element less or one element more.                                   *)
LEMMA OneElement ==
  ASSUME NEW S, IsFiniteSet(S), NEW s
  PROVE  /\ Cardinality(S \cup {s}) <= Cardinality(S) + 1
         /\ s \in S => Cardinality(S \ {s}) = Cardinality(S) - 1
<1>1. Cardinality(S) \in Nat
  BY FS_CardinalityType
<1>2. Cardinality(S \cup {s}) <= Cardinality(S) + 1
  <2>1. Cardinality(S \cup {s}) = IF s \in S THEN Cardinality(S) ELSE Cardinality(S) + 1
    BY FS_AddElement, Zenon
  <2>. QED  BY <1>1, <2>1
<1>3. ASSUME s \in S
      PROVE  Cardinality(S \ {s}) = Cardinality(S) - 1
  BY <1>3, FS_RemoveElement
<1>. QED  BY <1>2, <1>3
===============================================================================

--------------------------- MODULE ArithmeticProofs ---------------------------
(***************************************************************************)
(* Proofs about the activation record of a rank (FawWindow), the order of  *)
(* the evictions (EvictOrder) and the addresses of the position map        *)
(* (PosmapAddr), for every size of the record, of the window, of the tree  *)
(* and of the map, as theorems of AllSpec, the composition that TLC checks. *)
(***************************************************************************)
EXTENDS MCArithmetic, OramTreeProofs

-------------------------------------------------------------------------------
(* Quotient and remainder are unique. *)
LEMMA DivUnique ==
  ASSUME NEW d \in Nat \ {0}, NEW q \in Int, NEW r \in 0 .. d - 1
  PROVE  (d * q + r) \div d = q /\ (d * q + r) % d = r
<1>. DEFINE a == d * q + r
            p == a \div d
            s == a % d
<1>1. a \in Int /\ p \in Int /\ s \in 0 .. d - 1 /\ a = d * p + s
  OBVIOUS
<1>2. d * (p - q) = r - s /\ r - s < d /\ s - r < d
  BY <1>1
<1>. HIDE DEF p, s
<1>3. ~ (p - q >= 1) /\ ~ (p - q <= -1)
  BY <1>1, <1>2
<1>4. p = q /\ s = r
  BY <1>1, <1>2, <1>3
<1>. QED  BY <1>4 DEF p, s

LEMMA DivMod ==
  ASSUME NEW d \in Nat \ {0}, NEW g \in Nat
  PROVE  g \div d \in Nat /\ g % d \in 0 .. d - 1 /\ g = d * (g \div d) + (g % d)
OBVIOUS

(* Numbers less than d apart with the same remainder are the same.         *)
LEMMA ModUnique ==
  ASSUME NEW d \in Nat \ {0}, NEW a \in Nat, NEW b \in Nat, a % d = b % d,
         a - b < d, b - a < d
  PROVE  a = b
<1>. DEFINE q == a \div d
            p == b \div d
            r == a % d
<1>1. /\ q \in Int /\ p \in Int /\ r \in 0 .. d - 1
      /\ a = d * q + r /\ b = d * p + r
  OBVIOUS
<1>. HIDE DEF q, p, r
<1>2. d * (p - q) = b - a
  BY <1>1
<1>3. ~ (p - q >= 1) /\ ~ (p - q <= -1)
  BY <1>1, <1>2
<1>. QED  BY <1>1, <1>3

-------------------------------------------------------------------------------
(* A power of a sum. *)
LEMMA PowerSum ==
  ASSUME NEW i \in Nat, NEW k \in Nat, i + k <= LEVEL
  PROVE  2 ^ (i + k) = 2 ^ i * 2 ^ k
<1>. DEFINE S == { d \in Nat : i + d <= LEVEL => 2 ^ (i + d) = 2 ^ i * 2 ^ d }
<1>1. PICK b \in Nat \ {0} : b = 2 ^ i
  BY PowerType, LevelAssumption
<1>2. 0 \in S
  <2>1. i + 0 = i /\ b = b * 1
    OBVIOUS
  <2>. QED  BY <1>1, <2>1, Powers
<1>3. ASSUME NEW d \in Nat, d \in S
      PROVE  d + 1 \in S
  <2>. SUFFICES ASSUME i + (d + 1) <= LEVEL PROVE 2 ^ (i + (d + 1)) = 2 ^ i * 2 ^ (d + 1)
    OBVIOUS
  <2>1. /\ d \in 0 .. LEVEL - 1 /\ i + d \in 0 .. LEVEL - 1 /\ i + (d + 1) = (i + d) + 1
        /\ i + d <= LEVEL /\ d \in 0 .. LEVEL
    BY LevelAssumption
  <2>2. 2 ^ (d + 1) = 2 * 2 ^ d /\ 2 ^ ((i + d) + 1) = 2 * 2 ^ (i + d)
    BY <2>1, Powers, Zenon
  <2>3. 2 ^ (i + d) = b * 2 ^ d
    BY <1>1, <1>3, <2>1
  <2>4. PICK c \in Nat \ {0} : c = 2 ^ d
    BY <2>1, PowerType
  <2>5. 2 * (b * c) = b * (2 * c)
    OBVIOUS
  <2>. QED  BY <1>1, <2>1, <2>2, <2>3, <2>4, <2>5, Zenon
<1>4. Nat \subseteq S
  <2>. HIDE DEF S
  <2>. QED  BY <1>2, <1>3, Induction
<1>. QED  BY <1>4

(* A multiple of 2^l does not show in the digits below l.                  *)
LEMMA SameDigit ==
  ASSUME NEW g \in Nat, NEW m \in Nat, NEW l \in 0 .. Depth, NEW i \in 0 .. l - 1
  PROVE  Digit(g + 2 ^ l * m, i) = Digit(g, i)
<1>1. /\ i \in Nat /\ l - i \in Nat /\ i + (l - i) = l /\ l <= LEVEL /\ i \in 0 .. LEVEL
      /\ l - i - 1 \in 0 .. Depth /\ (l - i - 1) + 1 = l - i /\ l - i - 1 \in 0 .. LEVEL
  BY DepthType
<1>2. PICK p \in Nat \ {0}, h \in Nat \ {0} : p = 2 ^ i /\ h = 2 ^ (l - i - 1)
  BY <1>1, PowerType
<1>3. 2 ^ (l - i) = 2 * h
  BY <1>1, <1>2, PowerNext, Zenon
<1>4. 2 ^ l = p * (2 * h)
  <2>1. 2 ^ (i + (l - i)) = 2 ^ i * 2 ^ (l - i)
    BY <1>1, PowerSum
  <2>. QED  BY <1>1, <1>2, <1>3, <2>1, Zenon
<1>5. PICK q \in Nat, r \in 0 .. p - 1 : g = p * q + r
  <2>1. g \div p \in Nat /\ g % p \in 0 .. p - 1 /\ g = p * (g \div p) + (g % p)
    BY DivMod
  <2>. QED  BY <2>1
<1>6. PICK k \in Nat : k = h * m
  OBVIOUS
<1>7. g + p * (2 * h) * m = p * (q + 2 * k) + r
  BY <1>5, <1>6
<1>8. (p * q + r) \div p = q /\ (p * (q + 2 * k) + r) \div p = q + 2 * k
  <2>1. q \in Int /\ q + 2 * k \in Int
    OBVIOUS
  <2>. QED  BY <2>1, DivUnique, Zenon
<1>9. (q + 2 * k) % 2 = q % 2
  OBVIOUS
<1>. QED  BY <1>2, <1>4, <1>5, <1>7, <1>8, <1>9, Zenon DEF Digit

(* Nor in what these digits contribute to the reversal.                    *)
LEMMA SameReversed ==
  ASSUME NEW g \in Nat, NEW m \in Nat, NEW l \in 0 .. Depth
  PROVE  Reversed(g + 2 ^ l * m)[l] = Reversed(g)[l]
<1>. DEFINE k == g + 2 ^ l * m
            S == { i \in Nat : i <= l => Reversed(k)[i] = Reversed(g)[i] }
<1>1. k \in Nat
  <2>1. 2 ^ l \in Nat
    BY DepthType, PowerType
  <2>. QED  BY <2>1
<1>2. \A i \in 0 .. l - 1 : Digit(k, i) = Digit(g, i)
  BY SameDigit
<1>. HIDE DEF k
<1>3. 0 \in S
  <2>1. Reversed(k)[0] = Reversed(g)[0]
    BY <1>1, Reverses, Zenon
  <2>. QED  BY <2>1
<1>4. ASSUME NEW i \in Nat, i \in S
      PROVE  i + 1 \in S
  <2>. SUFFICES ASSUME i + 1 <= l PROVE Reversed(k)[i + 1] = Reversed(g)[i + 1]
    OBVIOUS
  <2>1. i \in 0 .. Depth - 1 /\ i \in 0 .. l - 1 /\ i <= l
    BY DepthType
  <2>2. Reversed(k)[i] = Reversed(g)[i]
    BY <1>4, <2>1
  <2>3. /\ Reversed(k)[i + 1] = Reversed(k)[i] + Digit(k, i) * 2 ^ (Depth - (i + 1))
        /\ Reversed(g)[i + 1] = Reversed(g)[i] + Digit(g, i) * 2 ^ (Depth - (i + 1))
    BY <1>1, <2>1, ReversedStep
  <2>. QED  BY <1>2, <2>1, <2>2, <2>3, Zenon
<1>5. Nat \subseteq S
  <2>. HIDE DEF S
  <2>. QED  BY <1>3, <1>4, Induction
<1>. QED  BY <1>5 DEF k

(* What the first l digits contribute is the offset of a bucket of level   *)
(* l, and the path of the label goes through that bucket.                  *)
LEMMA ReversedOffset ==
  ASSUME NEW g \in Nat
  PROVE  \A l \in 0 .. Depth : \E u \in Nat : Reversed(g)[l] = 2 ^ (Depth - l) * u
<1>. DEFINE S == { l \in Nat : l <= Depth => \E u \in Nat : Reversed(g)[l] = 2 ^ (Depth - l) * u }
<1>1. 0 \in S
  <2>1. Depth - 0 = Depth /\ Depth \in 0 .. LEVEL
    BY DepthType
  <2>2. 2 ^ (Depth - 0) \in Nat
    BY <2>1, PowerType
  <2>3. 2 ^ (Depth - 0) * 0 = 0
    BY <2>2
  <2>. QED  BY <2>3, Reverses
<1>2. ASSUME NEW l \in Nat, l \in S
      PROVE  l + 1 \in S
  <2>. SUFFICES ASSUME l + 1 <= Depth
                PROVE  \E u \in Nat : Reversed(g)[l + 1] = 2 ^ (Depth - (l + 1)) * u
    OBVIOUS
  <2>1. l \in 0 .. Depth - 1 /\ l <= Depth
    BY DepthType
  <2>2. PICK u \in Nat : Reversed(g)[l] = 2 ^ (Depth - l) * u
    BY <1>2, <2>1
  <2>3. PICK b \in 0 .. 1, w \in Nat \ {0} :
          /\ w = 2 ^ (Depth - (l + 1)) /\ 2 ^ (Depth - l) = 2 * w
          /\ Reversed(g)[l + 1] = Reversed(g)[l] + b * w
    BY <2>1, ReversedStep
  <2>4. (2 * w) * u + b * w = w * (2 * u + b) /\ 2 * u + b \in Nat
    OBVIOUS
  <2>. QED  BY <2>2, <2>3, <2>4, Zenon
<1>3. Nat \subseteq S
  <2>. HIDE DEF S
  <2>. QED  BY <1>1, <1>2, Induction
<1>. QED  BY <1>3, DepthType

LEMMA BucketOf ==
  ASSUME NEW g \in Nat, NEW l \in 0 .. Depth, NEW u \in Nat,
         Reversed(g)[l] = 2 ^ (Depth - l) * u
  PROVE  NodeAt(reverse_lex(g), l) = << l, u >>
<1>1. /\ Depth \in l .. Depth /\ Depth - l \in 0 .. LEVEL /\ Depth - Depth = 0
      /\ Depth \in 0 .. Depth
  BY DepthType
<1>2. PICK w \in Nat \ {0}, x \in Nat : w = 2 ^ (Depth - l) /\ x = Reversed(g)[Depth]
  BY <1>1, PowerType, ReversedType
<1>3. /\ Reversed(g)[l] <= Reversed(g)[Depth]
      /\ Reversed(g)[Depth] <= Reversed(g)[l] + 2 ^ (Depth - l) - 2 ^ (Depth - Depth)
  BY <1>1, ReversedBelow
<1>4. w * u <= x /\ x <= w * u + w - 1
  BY <1>1, <1>2, <1>3, Powers, Zenon
<1>5. PICK r \in 0 .. w - 1 : x = w * u + r
  <2>1. x - w * u \in 0 .. w - 1 /\ x = w * u + (x - w * u)
    BY <1>4
  <2>. QED  BY <2>1
<1>6. x \div w = u
  BY <1>5, DivUnique
<1>7. NodeAt(reverse_lex(g), l) = << l, x \div w >>
  BY <1>2, Reverses, Zenon DEF NodeAt, Depth
<1>. QED  BY <1>6, <1>7

(* Every bucket of level l is on the path of one of the first 2^l counts.  *)
LEMMA OffsetTurn ==
  \A l \in 0 .. Depth : \A u \in 0 .. 2 ^ l - 1 : \E w \in 0 .. 2 ^ l - 1 :
    Reversed(w)[l] = 2 ^ (Depth - l) * u
<1>. DEFINE Found(l) == \A u \in 0 .. 2 ^ l - 1 : \E w \in 0 .. 2 ^ l - 1 :
                          Reversed(w)[l] = 2 ^ (Depth - l) * u
            S == { l \in Nat : l <= Depth => Found(l) }
<1>1. 0 \in S
  <2>1. Depth - 0 = Depth /\ Depth \in 0 .. LEVEL
    BY DepthType
  <2>2. 2 ^ (Depth - 0) \in Nat /\ 2 ^ 0 = 1
    BY <2>1, PowerType, Powers
  <2>3. 2 ^ (Depth - 0) * 0 = 0 /\ \A u \in 0 .. 2 ^ 0 - 1 : u = 0
    BY <2>2
  <2>4. 0 \in 0 .. 2 ^ 0 - 1
    BY <2>2
  <2>5. Reversed(0)[0] = 0
    BY Reverses
  <2>6. Found(0)
    BY <2>3, <2>4, <2>5, Zenon
  <2>. HIDE DEF Found
  <2>. QED  BY <2>6
<1>2. ASSUME NEW l \in Nat, l \in S
      PROVE  l + 1 \in S
  <2>. SUFFICES ASSUME l + 1 <= Depth, NEW u \in 0 .. 2 ^ (l + 1) - 1
                PROVE  \E w \in 0 .. 2 ^ (l + 1) - 1 :
                         Reversed(w)[l + 1] = 2 ^ (Depth - (l + 1)) * u
    OBVIOUS
  <2>1. l \in 0 .. Depth - 1 /\ l <= Depth /\ l \in 0 .. Depth /\ l \in 0 .. LEVEL
    BY DepthType
  <2>2. PICK p \in Nat \ {0} : p = 2 ^ l /\ 2 ^ (l + 1) = 2 * p
    BY <2>1, PowerType, PowerNext
  <2>3. PICK v \in 0 .. p - 1, b \in 0 .. 1 : u = 2 * v + b
    <3>1. u \div 2 \in 0 .. p - 1 /\ u % 2 \in 0 .. 1 /\ u = 2 * (u \div 2) + (u % 2)
      <4>1. u \in Nat /\ u <= 2 * p - 1
        BY <2>2
      <4>. QED  BY <4>1
    <3>. QED  BY <3>1
  <2>4. Found(l)
    <3>. HIDE DEF Found
    <3>. QED  BY <1>2, <2>1
  <2>5. PICK x \in 0 .. p - 1 : Reversed(x)[l] = 2 ^ (Depth - l) * v
    BY <2>2, <2>4
  <2>6. PICK w : w = x + p * b /\ w \in 0 .. 2 * p - 1 /\ w \in Nat /\ w = p * b + x
    OBVIOUS
  <2>7. Reversed(w)[l] = Reversed(x)[l]
    <3>1. Reversed(x + 2 ^ l * b)[l] = Reversed(x)[l]
      <4>1. x \in Nat /\ b \in Nat
        OBVIOUS
      <4>. QED  BY <2>1, <4>1, SameReversed
    <3>. QED  BY <2>2, <2>6, <3>1, Zenon
  <2>8. Digit(w, l) = b
    <3>1. (p * b + x) \div p = b
      BY DivUnique
    <3>2. b % 2 = b
      OBVIOUS
    <3>. QED  BY <2>2, <2>6, <3>1, <3>2, Zenon DEF Digit
  <2>9. PICK h \in Nat \ {0} :
          /\ h = 2 ^ (Depth - (l + 1)) /\ 2 ^ (Depth - l) = 2 * h
          /\ Reversed(w)[l + 1] = Reversed(w)[l] + Digit(w, l) * h
    BY <2>1, <2>6, ReversedStep
  <2>10. (2 * h) * v + b * h = h * u
    BY <2>3
  <2>11. Reversed(w)[l + 1] = 2 ^ (Depth - (l + 1)) * u
    BY <2>5, <2>7, <2>8, <2>9, <2>10, Zenon
  <2>. QED  BY <2>2, <2>6, <2>11, Zenon
<1>3. Nat \subseteq S
  <2>. HIDE DEF S
  <2>. QED  BY <1>1, <1>2, Induction
<1>4. \A l \in 0 .. Depth : Found(l)
  <2>. HIDE DEF Found
  <2>. QED  BY <1>3, DepthType
<1>. QED  BY <1>4, Zenon

LEMMA FirstTurn ==
  ASSUME NEW n \in Node
  PROVE  \E w \in Nat : w < 2 ^ n[1] /\ n \in OnPath(reverse_lex(w))
<1>1. PICK p \in Path, l \in Level : n = NodeAt(p, l)
  BY DEF Node
<1>2. l \in 0 .. Depth /\ l \in 0 .. LEVEL /\ Depth - l \in 0 .. LEVEL /\ l + (Depth - l) = Depth
  BY DepthType DEF Level
<1>3. PICK a \in Nat \ {0}, d \in Nat \ {0} : a = 2 ^ l /\ d = 2 ^ (Depth - l)
  BY <1>2, PowerType
<1>4. PATH = d * a
  <2>1. l \in Nat /\ Depth - l \in Nat /\ l + (Depth - l) <= LEVEL
    BY <1>2, DepthType
  <2>2. 2 ^ (l + (Depth - l)) = 2 ^ l * 2 ^ (Depth - l)
    BY <2>1, PowerSum
  <2>3. a * d = d * a
    OBVIOUS
  <2>. QED  BY <1>2, <1>3, <2>2, <2>3, DepthType, Zenon
<1>5. PICK u \in 0 .. a - 1 : u = p \div d
  <2>1. p \in Nat /\ p < d * a
    BY <1>4, PathPositive DEF Path
  <2>2. PICK u \in Nat, r \in 0 .. d - 1 : u = p \div d /\ p = d * u + r
    <3>1. p \div d \in Nat /\ p % d \in 0 .. d - 1 /\ p = d * (p \div d) + (p % d)
      BY <2>1, DivMod
    <3>. QED  BY <3>1
  <2>3. ~ (u >= a)
    <3>. SUFFICES ASSUME u >= a PROVE FALSE
      OBVIOUS
    <3>1. d * u >= d * a
      OBVIOUS
    <3>. QED  BY <2>1, <2>2, <3>1
  <2>. QED  BY <2>2, <2>3
<1>6. n = << l, u >>
  BY <1>1, <1>3, <1>5, Zenon DEF NodeAt, Depth
<1>7. PICK w \in 0 .. a - 1 : Reversed(w)[l] = 2 ^ (Depth - l) * u
  BY <1>2, <1>3, <1>5, OffsetTurn
<1>8. w \in Nat /\ u \in Nat /\ w < a
  OBVIOUS
<1>9. NodeAt(reverse_lex(w), l) = n
  BY <1>2, <1>6, <1>7, <1>8, BucketOf, Zenon
<1>10. n \in OnPath(reverse_lex(w)) /\ n[1] = l
  BY <1>6, <1>9 DEF OnPath
<1>. QED  BY <1>3, <1>8, <1>10

(* And 2^l counts after its turn it is its turn again.                     *)
LEMMA NextTurn ==
  ASSUME NEW n \in Node, NEW g \in Nat, n \in OnPath(reverse_lex(g))
  PROVE  n \in OnPath(reverse_lex(g + 2 ^ n[1]))
<1>1. PICK l \in Level : n = NodeAt(reverse_lex(g), l)
  BY DEF OnPath
<1>2. l \in 0 .. Depth /\ l \in 0 .. LEVEL /\ n[1] = l
  BY <1>1, DepthType DEF Level, NodeAt
<1>3. PICK u \in Nat : Reversed(g)[l] = 2 ^ (Depth - l) * u
  BY <1>2, ReversedOffset
<1>4. PICK a \in Nat : a = 2 ^ l
  BY <1>2, PowerType
<1>5. Reversed(g + a)[l] = Reversed(g)[l]
  <2>1. Reversed(g + 2 ^ l * 1)[l] = Reversed(g)[l]
    <3>1. 1 \in Nat
      OBVIOUS
    <3>. QED  BY <1>2, <3>1, SameReversed
  <2>2. a * 1 = a
    OBVIOUS
  <2>. QED  BY <1>4, <2>1, <2>2, Zenon
<1>6. g + a \in Nat
  OBVIOUS
<1>7. NodeAt(reverse_lex(g + a), l) = << l, u >>
  <2>1. Reversed(g + a)[l] = 2 ^ (Depth - l) * u
    BY <1>3, <1>5, Zenon
  <2>. QED  BY <1>2, <1>6, <2>1, BucketOf
<1>8. NodeAt(reverse_lex(g), l) = << l, u >>
  BY <1>2, <1>3, BucketOf
<1>. QED  BY <1>1, <1>2, <1>4, <1>7, <1>8, Zenon DEF OnPath

-------------------------------------------------------------------------------
(* The count may be taken modulo PATH. *)
LEMMA ReverseLexWraps ==
  ASSUME NEW g \in Nat
  PROVE  reverse_lex(g % PATH) = reverse_lex(g)
<1>1. PICK q \in Nat, r \in Nat : r = g % PATH /\ g = r + PATH * q
  <2>1. /\ g \div PATH \in Nat /\ g % PATH \in 0 .. PATH - 1
        /\ g = PATH * (g \div PATH) + (g % PATH)
    BY PathPositive, DivMod
  <2>2. g % PATH \in Nat
    BY <2>1, PathPositive
  <2>3. PATH * (g \div PATH) + (g % PATH) = (g % PATH) + PATH * (g \div PATH)
    BY <2>1, <2>2, PathPositive
  <2>. QED  BY <2>1, <2>2, <2>3, Zenon
<1>2. Depth \in 0 .. Depth
  BY DepthType
<1>3. Reversed(r + 2 ^ Depth * q)[Depth] = Reversed(r)[Depth]
  BY <1>2, SameReversed
<1>. QED  BY <1>1, <1>3, DepthType, Reverses, Zenon

(* The loop of the function, digit by digit: the digits that a label lacks *)
(* add less than one.                                                      *)
LEMMA BitPowers == \A k \in 0 .. BITS : 2 ^ k \in Nat \ {0} /\ 2 ^ (k + 1) = 2 * 2 ^ k
<1>. DEFINE S == { k \in Nat : k <= BITS => 2 ^ k \in Nat \ {0} }
<1>1. 0 \in S
  BY PowerAssumption
<1>2. ASSUME NEW k \in Nat, k \in S
      PROVE  k + 1 \in S
  <2>. SUFFICES ASSUME k + 1 <= BITS PROVE 2 ^ (k + 1) \in Nat \ {0}
    OBVIOUS
  <2>1. k \in 0 .. BITS /\ k <= BITS
    BY CountAssumption
  <2>2. 2 ^ (k + 1) = 2 * 2 ^ k /\ 2 ^ k \in Nat \ {0}
    BY <1>2, <2>1, CountAssumption
  <2>. QED  BY <2>2
<1>3. Nat \subseteq S
  <2>. HIDE DEF S
  <2>. QED  BY <1>1, <1>2, Induction
<1>. QED  BY <1>3, CountAssumption

LEMMA AddedDigit ==
  ASSUME NEW rev \in Nat, NEW b \in 0 .. 1, NEW i \in 0 .. BITS - 1
  PROVE  /\ i < Depth => AddBit(rev, b, i) = rev + b * 2 ^ (Depth - (i + 1))
         /\ i >= Depth => AddBit(rev, b, i) = rev
<1>1. ASSUME i < Depth
      PROVE  AddBit(rev, b, i) = rev + b * 2 ^ (Depth - (i + 1))
  <2>1. i <= LEVEL - 2 /\ LEVEL - 2 - i = Depth - (i + 1)
    BY <1>1, DepthType
  <2>. QED  BY <2>1, Zenon DEF AddBit
<1>2. ASSUME i >= Depth
      PROVE  AddBit(rev, b, i) = rev
  <2>1. ~ (i <= LEVEL - 2) /\ i - Depth \in 0 .. BITS /\ i - (LEVEL - 2) = (i - Depth) + 1
    BY <1>2, DepthType, CountAssumption
  <2>2. PICK d \in Nat : d = 2 ^ (i - (LEVEL - 2)) /\ d >= 2
    <3>1. 2 ^ (i - Depth) \in Nat \ {0} /\ 2 ^ ((i - Depth) + 1) = 2 * 2 ^ (i - Depth)
      BY <2>1, BitPowers
    <3>. QED  BY <2>1, <3>1
  <2>3. (rev * d + b) \div d = rev
    <3>1. d \in Nat \ {0} /\ b \in 0 .. d - 1 /\ rev \in Int
      BY <2>2
    <3>2. (d * rev + b) \div d = rev
      BY <3>1, DivUnique
    <3>3. d * rev = rev * d
      OBVIOUS
    <3>. QED  BY <3>2, <3>3, Zenon
  <2>. QED  BY <2>1, <2>2, <2>3, Zenon DEF AddBit
<1>. QED  BY <1>1, <1>2

(* No count has a digit beyond the last.                                   *)
LEMMA NoMoreDigits ==
  ASSUME NEW g \in 0 .. MAX_G, BITS <= Depth
  PROVE  Reversed(g)[Depth] = Reversed(g)[BITS]
<1>. DEFINE S == { k \in Nat : BITS + k <= Depth => Reversed(g)[BITS + k] = Reversed(g)[BITS] }
<1>1. g \in Nat /\ BITS \in Nat /\ g < 2 ^ BITS /\ BITS \in 0 .. LEVEL
  BY CountAssumption, DepthType, PowerType
<1>2. 0 \in S
  <2>1. BITS + 0 = BITS
    BY <1>1
  <2>. QED  BY <2>1
<1>3. ASSUME NEW k \in Nat, k \in S
      PROVE  k + 1 \in S
  <2>. SUFFICES ASSUME BITS + (k + 1) <= Depth
                PROVE  Reversed(g)[BITS + (k + 1)] = Reversed(g)[BITS]
    OBVIOUS
  <2>1. PICK i \in 0 .. Depth - 1 : i = BITS + k /\ i + 1 = BITS + (k + 1) /\ i <= Depth
    BY <1>1, DepthType
  <2>2. Reversed(g)[i] = Reversed(g)[BITS]
    BY <1>3, <2>1
  <2>3. Digit(g, i) = 0
    <3>1. BITS + k <= LEVEL /\ k \in 0 .. LEVEL
      BY <1>1, <2>1, DepthType
    <3>2. PICK a \in Nat \ {0}, c \in Nat \ {0} : a = 2 ^ BITS /\ c = 2 ^ k
      BY <1>1, <3>1, PowerType
    <3>3. 2 ^ i = a * c
      BY <1>1, <2>1, <3>1, <3>2, PowerSum
    <3>4. PICK e \in Nat \ {0} : e = a * c /\ g \in 0 .. e - 1
      <4>1. a * c >= a
        OBVIOUS
      <4>. QED  BY <1>1, <3>2, <4>1
    <3>5. (e * 0 + g) \div e = 0
      BY <3>4, DivUnique
    <3>6. e * 0 + g = g /\ 0 % 2 = 0
      BY <1>1
    <3>. QED  BY <3>3, <3>4, <3>5, <3>6, Zenon DEF Digit
  <2>4. PICK x \in Nat, w \in Nat :
          x = Reversed(g)[i] /\ Reversed(g)[i + 1] = Reversed(g)[i] + Digit(g, i) * w
    <3>1. i \in 0 .. Depth
      BY DepthType
    <3>. QED  BY <1>1, <3>1, ReversedStep, ReversedType
  <2>5. x + 0 * w = x
    OBVIOUS
  <2>. QED  BY <2>1, <2>2, <2>3, <2>4, <2>5, Zenon
<1>4. Nat \subseteq S
  <2>. HIDE DEF S
  <2>. QED  BY <1>2, <1>3, Induction
<1>5. Depth - BITS \in Nat /\ BITS + (Depth - BITS) = Depth /\ Depth <= Depth
  BY <1>1, DepthType
<1>. QED  BY <1>4, <1>5

(* The loop computes what reverse_lex is.                                  *)
LEMMA LoopReverses ==
  ASSUME NEW g \in 0 .. MAX_G
  PROVE  reverse_lex_loop(g) = reverse_lex(g)
<1>. DEFINE Upto(i) == IF i <= Depth THEN i ELSE Depth
            IsLoop(f) == f = [ i \in 0 .. BITS |->
              IF i = 0 THEN 0 ELSE AddBit(f[i - 1], (g \div 2 ^ (i - 1)) % 2, i - 1) ]
            rev == CHOOSE f : IsLoop(f)
            G == [ i \in 0 .. BITS |-> Reversed(g)[Upto(i)] ]
<1>1. g \in Nat /\ BITS \in Nat
  BY CountAssumption
<1>2. reverse_lex_loop(g) = rev[BITS]
  BY Zenon DEF reverse_lex_loop
<1>3. ASSUME NEW i \in 0 .. BITS - 1
      PROVE  AddBit(Reversed(g)[Upto(i)], (g \div 2 ^ i) % 2, i) = Reversed(g)[Upto(i + 1)]
  <2>1. PICK b \in 0 .. 1 : b = (g \div 2 ^ i) % 2
    <3>1. PICK d \in Nat \ {0} : d = 2 ^ i
      <4>1. i \in 0 .. BITS
        BY <1>1
      <4>. QED  BY <4>1, BitPowers
    <3>. QED  BY <1>1, <3>1
  <2>2. Upto(i) \in 0 .. Depth
    BY DepthType
  <2>3. Reversed(g)[Upto(i)] \in Nat
    <3>. HIDE DEF Upto
    <3>. QED  BY <1>1, <2>2, ReversedType
  <2>4. CASE i < Depth
    <3>1. Upto(i) = i /\ Upto(i + 1) = i + 1 /\ i \in 0 .. Depth - 1
      BY <2>4, DepthType
    <3>2. Reversed(g)[i + 1] = Reversed(g)[i] + b * 2 ^ (Depth - (i + 1))
      BY <1>1, <2>1, <3>1, ReversedStep, Zenon DEF Digit
    <3>. HIDE DEF Upto
    <3>. QED  BY <2>1, <2>3, <2>4, <3>1, <3>2, AddedDigit, Zenon
  <2>5. CASE i >= Depth
    <3>1. Upto(i) = Depth /\ Upto(i + 1) = Depth
      BY <2>5, DepthType
    <3>2. Reversed(g)[Depth] \in Nat
      BY <2>3, <3>1, Zenon
    <3>3. AddBit(Reversed(g)[Depth], b, i) = Reversed(g)[Depth]
      BY <2>5, <3>2, AddedDigit
    <3>. HIDE DEF Upto
    <3>. QED  BY <2>1, <3>1, <3>3, Zenon
  <2>6. i < Depth \/ i >= Depth
    BY DepthType
  <2>. QED  BY <2>4, <2>5, <2>6, Zenon
<1>4. Reversed(g)[Upto(0)] = 0
  BY <1>1, Reverses, DepthType
<1>. HIDE DEF Upto
<1>5. IsLoop(G)
  <2>1. ASSUME NEW i \in 0 .. BITS
        PROVE  G[i] = IF i = 0 THEN 0 ELSE AddBit(G[i - 1], (g \div 2 ^ (i - 1)) % 2, i - 1)
    <3>1. CASE i = 0
      BY <1>4, <3>1
    <3>2. CASE i # 0
      <4>1. i - 1 \in 0 .. BITS - 1 /\ i - 1 \in 0 .. BITS /\ (i - 1) + 1 = i
        BY <1>1, <3>2
      <4>2. AddBit(Reversed(g)[Upto(i - 1)], (g \div 2 ^ (i - 1)) % 2, i - 1)
              = Reversed(g)[Upto((i - 1) + 1)]
        BY <1>3, <4>1
      <4>3. G[i] = Reversed(g)[Upto(i)] /\ G[i - 1] = Reversed(g)[Upto(i - 1)]
        BY <4>1
      <4>. HIDE DEF G
      <4>. QED  BY <3>2, <4>1, <4>2, <4>3, Zenon
    <3>. QED  BY <3>1, <3>2
  <2>2. G = [ i \in 0 .. BITS |-> G[i] ]
    OBVIOUS
  <2>. HIDE DEF G
  <2>3. [ i \in 0 .. BITS |-> G[i] ] = [ i \in 0 .. BITS |->
          IF i = 0 THEN 0 ELSE AddBit(G[i - 1], (g \div 2 ^ (i - 1)) % 2, i - 1) ]
    BY <2>1, Zenon
  <2>. QED  BY <2>2, <2>3, Zenon
<1>6. IsLoop(rev)
  <2>. HIDE DEF IsLoop, G
  <2>. QED  BY <1>5
<1>. HIDE DEF rev, G
<1>7. \A i \in 0 .. BITS :
        rev[i] = IF i = 0 THEN 0 ELSE AddBit(rev[i - 1], (g \div 2 ^ (i - 1)) % 2, i - 1)
  BY <1>6, Zenon
<1>. HIDE DEF IsLoop
<1>. DEFINE S == { i \in Nat : i <= BITS => rev[i] = Reversed(g)[Upto(i)] }
<1>8. 0 \in S
  <2>1. 0 \in 0 .. BITS
    BY <1>1
  <2>2. rev[0] = 0
    BY <1>7, <2>1, Zenon
  <2>. QED  BY <1>4, <2>2
<1>9. ASSUME NEW i \in Nat, i \in S
      PROVE  i + 1 \in S
  <2>. SUFFICES ASSUME i + 1 <= BITS PROVE rev[i + 1] = Reversed(g)[Upto(i + 1)]
    OBVIOUS
  <2>1. /\ i + 1 \in 0 .. BITS /\ (i + 1) - 1 = i /\ i \in 0 .. BITS - 1 /\ i <= BITS
        /\ i + 1 # 0
    BY <1>1
  <2>2. rev[i + 1] = AddBit(rev[i], (g \div 2 ^ i) % 2, i)
    BY <1>7, <2>1, Zenon
  <2>3. rev[i] = Reversed(g)[Upto(i)]
    BY <1>9, <2>1
  <2>. QED  BY <1>3, <2>1, <2>2, <2>3, Zenon
<1>10. rev[BITS] = Reversed(g)[Upto(BITS)]
  <2>1. Nat \subseteq S
    <3>. HIDE DEF S
    <3>. QED  BY <1>8, <1>9, Induction
  <2>. QED  BY <1>1, <2>1
<1>11. Reversed(g)[Upto(BITS)] = Reversed(g)[Depth]
  <2>1. CASE BITS <= Depth
    <3>1. Upto(BITS) = BITS
      BY <2>1, Zenon DEF Upto
    <3>. QED  BY <2>1, <3>1, NoMoreDigits, Zenon
  <2>2. CASE ~ (BITS <= Depth)
    BY <2>2, Zenon DEF Upto
  <2>. QED  BY <2>1, <2>2
<1>. QED  BY <1>1, <1>2, <1>10, <1>11, Reverses, Zenon

-------------------------------------------------------------------------------
(* The order of the evictions: each bucket has its next turn w evictions   *)
(* ahead, and the evictions it has waited and those it has still to wait   *)
(* are fewer than the buckets of its level.                                *)
TurnComes ==
  \A n \in Node : \E w \in Nat :
    idle[n] + w < 2 ^ n[1] /\ n \in OnPath(reverse_lex(ring_G + w))

OrderInv ==
  /\ ring_G \in 0 .. MAX_G
  /\ idle \in [ Node -> Nat ]
  /\ TurnComes

LEMMA OrderInitial == OrderInit => OrderInv
<1>. SUFFICES ASSUME OrderInit PROVE OrderInv
  OBVIOUS
<1>1. ring_G \in 0 .. MAX_G /\ idle \in [ Node -> Nat ] /\ \A n \in Node : idle[n] = 0
  BY CountAssumption DEF OrderInit
<1>2. ASSUME NEW n \in Node
      PROVE  \E w \in Nat : idle[n] + w < 2 ^ n[1] /\ n \in OnPath(reverse_lex(ring_G + w))
  <2>1. PICK w \in Nat : w < 2 ^ n[1] /\ n \in OnPath(reverse_lex(w))
    BY FirstTurn
  <2>2. ring_G + w = w /\ idle[n] + w = w
    BY <1>1 DEF OrderInit
  <2>. QED  BY <2>1, <2>2, Zenon
<1>. QED  BY <1>1, <1>2 DEF OrderInv, TurnComes

LEMMA OrderStep == OrderInv /\ ring_evict_path => OrderInv'
<1>. SUFFICES ASSUME OrderInv, ring_evict_path PROVE OrderInv'
  OBVIOUS
<1>. DEFINE path == OnPath(reverse_lex(ring_G))
<1>1. /\ ring_G \in 0 .. MAX_G /\ ring_G \in Nat /\ idle \in [ Node -> Nat ]
      /\ ring_G < MAX_G /\ ring_G' = ring_G + 1 /\ MAX_G \in Nat
  BY CountAssumption DEF OrderInv, ring_evict_path
<1>2. idle' = [ n \in Node |-> IF n \in path THEN 0 ELSE idle[n] + 1 ]
  <2>1. reverse_lex_loop(ring_G) = reverse_lex(ring_G)
    BY <1>1, LoopReverses
  <2>. QED  BY <2>1, Zenon DEF ring_evict_path
<1>3. ring_G' \in 0 .. MAX_G
  BY <1>1
<1>. HIDE DEF path
<1>4. idle' \in [ Node -> Nat ]
  <2>1. \A n \in Node : (IF n \in path THEN 0 ELSE idle[n] + 1) \in Nat
    BY <1>1
  <2>. QED  BY <1>2, <2>1
<1>5. ASSUME NEW n \in Node
      PROVE  \E w \in Nat : idle'[n] + w < 2 ^ n[1] /\ n \in OnPath(reverse_lex(ring_G' + w))
  <2>1. PICK w \in Nat : idle[n] + w < 2 ^ n[1] /\ n \in OnPath(reverse_lex(ring_G + w))
    BY DEF OrderInv, TurnComes
  <2>2. PICK a \in Nat \ {0} : a = 2 ^ n[1]
    <3>1. n[1] \in 0 .. LEVEL
      BY NodeLevel, LevelAssumption DEF Level
    <3>. QED  BY <3>1, PowerType
  <2>3. CASE n \in path
    <3>1. idle'[n] = 0
      BY <1>2, <2>3
    <3>2. n \in OnPath(reverse_lex(ring_G + a))
      BY <1>1, <2>2, <2>3, NextTurn DEF path
    <3>3. /\ a - 1 \in Nat /\ ring_G' + (a - 1) = ring_G + a
          /\ idle'[n] + (a - 1) < a
      BY <1>1, <3>1
    <3>. QED  BY <2>2, <3>2, <3>3, Zenon
  <2>4. CASE n \notin path
    <3>1. idle'[n] = idle[n] + 1
      BY <1>2, <2>4
    <3>2. w # 0
      <4>1. ring_G + 0 = ring_G
        BY <1>1
      <4>. QED  BY <2>1, <2>4, <4>1 DEF path
    <3>3. /\ w - 1 \in Nat /\ ring_G' + (w - 1) = ring_G + w
          /\ idle'[n] + (w - 1) = idle[n] + w
      BY <1>1, <3>1, <3>2
    <3>. QED  BY <2>1, <3>3, Zenon
  <2>. QED  BY <2>3, <2>4
<1>. QED  BY <1>3, <1>4, <1>5 DEF OrderInv, TurnComes

-------------------------------------------------------------------------------
(* The activation record: its activations lie in the window, at the cycles *)
(* in which the memory is updated.                                         *)
WindowInv ==
  /\ CYCLE_VAL \in 0 .. LIMIT /\ CYCLE_VAL % PROCESSOR_CLK_MULTIPLIER = 0
  /\ activation_record \in [ Entry -> { 0, 1 } ]
  /\ IsFiniteSet(acts)
  /\ \A a \in acts :
       /\ a \in Nat /\ a % PROCESSOR_CLK_MULTIPLIER = 0
       /\ a <= CYCLE_VAL /\ CYCLE_VAL - a <= T_FAW
  /\ RingIsWindow

LEMMA WindowSizes ==
  /\ T_FAW \in Nat \ {0} /\ PROCESSOR_CLK_MULTIPLIER \in Nat \ {0} /\ LIMIT \in Nat
  /\ BIG_ACTIVATION_WINDOW \in Nat \ {0}
  /\ BIG_ACTIVATION_WINDOW >= T_FAW + 2 * PROCESSOR_CLK_MULTIPLIER
  /\ T_FAW % PROCESSOR_CLK_MULTIPLIER = 0
BY WindowAssumption

(* The entry of a cycle. *)
LEMMA EntryOf ==
  ASSUME NEW a \in Nat
  PROVE  a % BIG_ACTIVATION_WINDOW \in Entry
BY WindowSizes, DivMod DEF Entry

(* A multiple of m is a multiple of m as far below as one period.          *)
LEMMA Multiple ==
  ASSUME NEW m \in Nat \ {0}, NEW a \in Nat, a % m = 0
  PROVE  \E k \in Nat : a = m * k
<1>1. a \div m \in Nat /\ a = m * (a \div m) + (a % m)
  BY DivMod
<1>2. m * (a \div m) + 0 = m * (a \div m)
  BY <1>1
<1>. QED  BY <1>1, <1>2, Zenon

LEMMA OnePeriod ==
  ASSUME NEW m \in Nat \ {0}, NEW a \in Nat, NEW c \in Nat, NEW t \in Nat,
         a % m = 0, c % m = 0, t % m = 0, c - t <= a, a < c + m - t
  PROVE  a = c - t
<1>1. PICK i \in Nat, j \in Nat, k \in Nat : a = m * i /\ c = m * j /\ t = m * k
  <2>1. (\E i \in Nat : a = m * i) /\ (\E j \in Nat : c = m * j) /\ (\E k \in Nat : t = m * k)
    BY Multiple
  <2>. QED  BY <2>1, Zenon
<1>2. m * (i - (j - k)) = a - (c - t)
  BY <1>1
<1>3. ~ (i - (j - k) >= 1) /\ ~ (i - (j - k) <= -1)
  BY <1>1, <1>2
<1>. QED  BY <1>1, <1>2, <1>3

(* The entries cleared are those of the activations that leave the window. *)
LEMMA ClearedEntries ==
  ASSUME WindowInv, NEW a \in acts
  PROVE  LET cycle == CYCLE_VAL + PROCESSOR_CLK_MULTIPLIER
         IN  a >= cycle - T_FAW <=> a % BIG_ACTIVATION_WINDOW \notin Cleared(cycle)
<1>. DEFINE M == PROCESSOR_CLK_MULTIPLIER
            W == BIG_ACTIVATION_WINDOW
            cycle == CYCLE_VAL + M
<1>1. /\ a \in Nat /\ a % M = 0 /\ a <= CYCLE_VAL /\ CYCLE_VAL - a <= T_FAW
      /\ CYCLE_VAL \in Nat /\ CYCLE_VAL % M = 0
  BY WindowSizes DEF WindowInv
<1>2. M \in Nat \ {0} /\ W \in Nat \ {0} /\ T_FAW \in Nat /\ T_FAW % M = 0 /\ W >= T_FAW + 2 * M
  BY WindowSizes
<1>. HIDE DEF M, W
<1>3. ASSUME a >= cycle - T_FAW, a % W \in Cleared(cycle)
      PROVE  FALSE
  <2>1. ~ (cycle < T_FAW + M)
    BY <1>3, Zenon DEF Cleared, M
  <2>2. PICK i \in 1 .. M : a % W = (cycle - T_FAW - i) % W
    <3>1. a % W \in { (cycle - T_FAW - i) % W : i \in 1 .. M }
      BY <1>3, <2>1, Zenon DEF Cleared, M, W
    <3>. QED  BY <3>1
  <2>3. PICK b \in Nat : b = cycle - T_FAW - i /\ a - b < W /\ b - a < W /\ a # b
    <3>1. cycle - T_FAW - i \in Nat
      BY <1>1, <1>2, <2>1
    <3>2. /\ a - (cycle - T_FAW - i) < W /\ (cycle - T_FAW - i) - a < W
          /\ a # cycle - T_FAW - i
      BY <1>1, <1>2, <1>3
    <3>. QED  BY <3>1, <3>2
  <2>. QED  BY <1>1, <1>2, <2>2, <2>3, ModUnique
<1>4. ASSUME ~ (a >= cycle - T_FAW)
      PROVE  a % W \in Cleared(cycle)
  <2>1. a = CYCLE_VAL - T_FAW
    <3>1. CYCLE_VAL - T_FAW <= a /\ a < CYCLE_VAL + M - T_FAW
      BY <1>1, <1>2, <1>4
    <3>. QED  BY <1>1, <1>2, <3>1, OnePeriod
  <2>2. ~ (cycle < T_FAW + M) /\ cycle - T_FAW - M = a /\ M \in 1 .. M
    BY <1>1, <1>2, <2>1
  <2>. QED  BY <2>2, Zenon DEF Cleared, M, W
<1>. QED  BY <1>3, <1>4, Zenon DEF M, W

LEMMA FlushKeeps == WindowInv /\ flush_activate_record => WindowInv'
<1>. SUFFICES ASSUME WindowInv, flush_activate_record PROVE WindowInv'
  OBVIOUS
<1>. DEFINE M == PROCESSOR_CLK_MULTIPLIER
            W == BIG_ACTIVATION_WINDOW
            cycle == CYCLE_VAL + M
<1>1. /\ cycle <= LIMIT /\ CYCLE_VAL' = cycle
      /\ activation_record' = [ e \in Entry |-> IF e \in Cleared(cycle) THEN 0 ELSE activation_record[e] ]
      /\ acts' = { a \in acts : a >= cycle - T_FAW }
  BY Zenon DEF flush_activate_record
<1>2. /\ CYCLE_VAL \in Nat /\ CYCLE_VAL % M = 0 /\ LIMIT \in Nat /\ M \in Nat \ {0} /\ T_FAW \in Nat
      /\ activation_record \in [ Entry -> { 0, 1 } ] /\ IsFiniteSet(acts)
      /\ \A a \in acts : a \in Nat /\ a % M = 0 /\ a <= CYCLE_VAL
      /\ { e \in Entry : activation_record[e] = 1 } = { a % W : a \in acts }
      /\ Cardinality(acts) <= 4
  BY WindowSizes DEF WindowInv, RingIsWindow
<1>3. \A a \in acts : a >= cycle - T_FAW <=> a % W \notin Cleared(cycle)
  BY ClearedEntries
<1>. HIDE DEF M, W
<1>4. CYCLE_VAL' \in 0 .. LIMIT /\ CYCLE_VAL' % M = 0
  <2>1. PICK k \in Nat : CYCLE_VAL = M * k
    BY <1>2, Multiple
  <2>2. cycle = M * (k + 1) + 0
    BY <1>2, <2>1
  <2>3. (M * (k + 1) + 0) % M = 0
    BY <1>2, DivUnique
  <2>4. cycle \in 0 .. LIMIT
    BY <1>1, <1>2
  <2>. QED  BY <1>1, <2>2, <2>3, <2>4, Zenon
<1>5. activation_record' \in [ Entry -> { 0, 1 } ]
  <2>. HIDE DEF cycle
  <2>. QED  BY <1>1, <1>2
<1>6. /\ acts' \subseteq acts
      /\ \A a \in acts' : a \in Nat /\ a % M = 0 /\ a <= CYCLE_VAL' /\ CYCLE_VAL' - a <= T_FAW
  BY <1>1, <1>2
<1>7. IsFiniteSet(acts') /\ Cardinality(acts') <= 4
  <2>1. /\ IsFiniteSet(acts') /\ Cardinality(acts') <= Cardinality(acts)
        /\ Cardinality(acts) \in Nat /\ Cardinality(acts') \in Nat
    BY <1>2, <1>6, FS_Subset, FS_CardinalityType
  <2>. QED  BY <1>2, <2>1
<1>8. { e \in Entry : activation_record'[e] = 1 } = { a % W : a \in acts' }
  <2>. HIDE DEF cycle
  <2>1. ASSUME NEW e \in Entry
        PROVE  activation_record'[e] = 1 <=> e \notin Cleared(cycle) /\ activation_record[e] = 1
    <3>1. activation_record'[e] = IF e \in Cleared(cycle) THEN 0 ELSE activation_record[e]
      BY <1>1
    <3>2. 0 # 1
      OBVIOUS
    <3>. QED  BY <3>1, <3>2, Zenon
  <2>2. ASSUME NEW e \in Entry, activation_record'[e] = 1
        PROVE  e \in { a % W : a \in acts' }
    <3>1. PICK a \in acts : e = a % W
      BY <1>2, <2>1, <2>2
    <3>2. a \in acts'
      BY <1>1, <1>3, <2>1, <2>2, <3>1
    <3>. QED  BY <3>1, <3>2
  <2>3. ASSUME NEW a \in acts'
        PROVE  a % W \in Entry /\ activation_record'[a % W] = 1
    <3>1. a \in acts /\ a % W \notin Cleared(cycle)
      BY <1>1, <1>3, <2>3
    <3>2. a % W \in { e \in Entry : activation_record[e] = 1 }
      BY <1>2, <3>1
    <3>. QED  BY <2>1, <3>1, <3>2
  <2>. QED  BY <2>2, <2>3
<1>. QED  BY <1>4, <1>5, <1>6, <1>7, <1>8 DEF WindowInv, RingIsWindow, M, W

(* As long as the count of cycles fits in an int, an activation counts     *)
(* every one that is still in the window.                                  *)
LEMMA ActivateCounts ==
  ASSUME WindowInv, record_activate, LIMIT < INT_MAX1
  PROVE  Cardinality(acts) <= 3 /\ CYCLE_VAL \notin acts
<1>. DEFINE W == BIG_ACTIVATION_WINDOW
            span == IF CYCLE_VAL >= T_FAW THEN T_FAW ELSE CYCLE_VAL
            K == { i \in 1 .. span : activation_record[(CYCLE_VAL - i) % W] = 1 }
<1>1. /\ CYCLE_VAL \in 0 .. LIMIT /\ LIMIT \in Nat /\ CYCLE_VAL \in Nat /\ T_FAW \in Nat
      /\ IsFiniteSet(acts)
      /\ \A a \in acts : a \in Nat /\ a <= CYCLE_VAL /\ CYCLE_VAL - a <= T_FAW
      /\ { e \in Entry : activation_record[e] = 1 } = { a % W : a \in acts }
  BY WindowSizes DEF WindowInv, RingIsWindow
<1>2. int(CYCLE_VAL) = CYCLE_VAL
  <2>1. INT_MAX1 \in Nat \ {0}
    BY WindowAssumption
  <2>2. /\ CYCLE_VAL + INT_MAX1 \in 0 .. 2 * INT_MAX1 - 1 /\ 2 * INT_MAX1 \in Nat \ {0}
        /\ (2 * INT_MAX1) * 0 + (CYCLE_VAL + INT_MAX1) = CYCLE_VAL + INT_MAX1
    BY <1>1, <2>1
  <2>3. ((2 * INT_MAX1) * 0 + (CYCLE_VAL + INT_MAX1)) % (2 * INT_MAX1) = CYCLE_VAL + INT_MAX1
    BY <2>2, DivUnique
  <2>4. (CYCLE_VAL + INT_MAX1) - INT_MAX1 = CYCLE_VAL
    BY <1>1, <2>1
  <2>. QED  BY <2>2, <2>3, <2>4, Zenon DEF int
<1>3. Cardinality(K) < 4
  <2>1. is_T_FAW_met(CYCLE_VAL)
    BY DEF record_activate
  <2>. QED  BY <1>2, <2>1, Zenon DEF is_T_FAW_met
<1>4. \A a \in acts : a % W \in Entry /\ activation_record[a % W] = 1
  BY <1>1
<1>5. CYCLE_VAL \notin acts
  <2>1. activation_record[CYCLE_VAL % W] = 0
    BY DEF record_activate
  <2>. QED  BY <1>4, <2>1
<1>6. ASSUME NEW a \in acts
      PROVE  CYCLE_VAL - a \in K
  <2>1. /\ a \in Nat /\ a # CYCLE_VAL /\ CYCLE_VAL - (CYCLE_VAL - a) = a
        /\ CYCLE_VAL - a \in 1 .. span
    BY <1>1, <1>5
  <2>2. activation_record[(CYCLE_VAL - (CYCLE_VAL - a)) % W] = 1
    BY <1>4, <2>1, Zenon
  <2>. HIDE DEF span
  <2>. QED  BY <2>1, <2>2
<1>7. IsFiniteSet(K) /\ Cardinality(K) \in Nat
  <2>1. span \in Nat
    BY <1>1
  <2>. HIDE DEF span
  <2>2. IsFiniteSet(1 .. span)
    BY <2>1, FS_Interval
  <2>3. K \subseteq 1 .. span
    OBVIOUS
  <2>. HIDE DEF K
  <2>. QED  BY <2>2, <2>3, FS_Subset, FS_CardinalityType
<1>. DEFINE f == [ a \in acts |-> CYCLE_VAL - a ]
<1>8. f \in Injection(acts, K)
  <2>. HIDE DEF K
  <2>1. f \in [ acts -> K ]
    BY <1>6
  <2>2. \A a, b \in acts : f[a] = f[b] => a = b
    BY <1>1
  <2>. HIDE DEF f
  <2>. QED  BY <2>1, <2>2 DEF Injection, IsInjective
<1>. HIDE DEF K, f
<1>9. Cardinality(acts) <= Cardinality(K)
  BY <1>7, <1>8, FS_Injection
<1>10. Cardinality(acts) \in Nat
  BY <1>1, FS_CardinalityType
<1>. QED  BY <1>3, <1>5, <1>7, <1>9, <1>10

LEMMA ActivateKeeps == WindowInv /\ record_activate /\ LIMIT < INT_MAX1 => WindowInv'
<1>. SUFFICES ASSUME WindowInv, record_activate, LIMIT < INT_MAX1 PROVE WindowInv'
  OBVIOUS
<1>. DEFINE W == BIG_ACTIVATION_WINDOW
            now == CYCLE_VAL % W
<1>1. /\ activation_record' = [ activation_record EXCEPT ![now] = 1 ]
      /\ acts' = acts \cup { CYCLE_VAL } /\ CYCLE_VAL' = CYCLE_VAL
  BY Zenon DEF record_activate
<1>2. /\ CYCLE_VAL \in 0 .. LIMIT /\ CYCLE_VAL \in Nat /\ T_FAW \in Nat
      /\ CYCLE_VAL % PROCESSOR_CLK_MULTIPLIER = 0
      /\ activation_record \in [ Entry -> { 0, 1 } ] /\ IsFiniteSet(acts)
      /\ \A a \in acts : /\ a \in Nat /\ a % PROCESSOR_CLK_MULTIPLIER = 0
                         /\ a <= CYCLE_VAL /\ CYCLE_VAL - a <= T_FAW
      /\ { e \in Entry : activation_record[e] = 1 } = { a % W : a \in acts }
  BY WindowSizes DEF WindowInv, RingIsWindow
<1>3. now \in Entry
  BY <1>2, EntryOf
<1>4. /\ IsFiniteSet(acts') /\ Cardinality(acts') <= 4
  <2>1. Cardinality(acts) <= 3 /\ CYCLE_VAL \notin acts
    BY ActivateCounts
  <2>2. /\ IsFiniteSet(acts \cup { CYCLE_VAL }) /\ Cardinality(acts) \in Nat
        /\ Cardinality(acts \cup { CYCLE_VAL }) = Cardinality(acts) + 1
    BY <1>2, <2>1, FS_AddElement, FS_CardinalityType
  <2>. QED  BY <1>1, <2>1, <2>2
<1>. HIDE DEF now
<1>5. activation_record' \in [ Entry -> { 0, 1 } ]
  BY <1>1, <1>2, <1>3
<1>6. \A a \in acts' : /\ a \in Nat /\ a % PROCESSOR_CLK_MULTIPLIER = 0
                       /\ a <= CYCLE_VAL' /\ CYCLE_VAL' - a <= T_FAW
  BY <1>1, <1>2
<1>7. { e \in Entry : activation_record'[e] = 1 } = { a % W : a \in acts' }
  <2>. HIDE DEF W
  <2>1. \A e \in Entry : activation_record'[e] = 1 <=> e = now \/ activation_record[e] = 1
    BY <1>1, <1>2, <1>3
  <2>2. { a % W : a \in acts' } = { a % W : a \in acts } \cup { now }
    BY <1>1 DEF now
  <2>. QED  BY <1>2, <1>3, <2>1, <2>2
<1>. QED  BY <1>1, <1>2, <1>4, <1>5, <1>6, <1>7, Zenon DEF WindowInv, RingIsWindow

LEMMA WindowInitial == Init => WindowInv
<1>. SUFFICES ASSUME Init PROVE WindowInv
  OBVIOUS
<1>1. CYCLE_VAL = 0 /\ activation_record = [ e \in Entry |-> 0 ] /\ acts = {}
  BY DEF Init
<1>2. IsFiniteSet(acts) /\ Cardinality(acts) = 0
  BY <1>1, FS_EmptySet
<1>3. 0 % PROCESSOR_CLK_MULTIPLIER = 0
  <2>1. PICK m \in Nat \ {0} : m = PROCESSOR_CLK_MULTIPLIER
    BY WindowSizes
  <2>. QED  BY <2>1
<1>4. { e \in Entry : activation_record[e] = 1 } = { a % BIG_ACTIVATION_WINDOW : a \in acts }
  BY <1>1
<1>. QED  BY <1>1, <1>2, <1>3, <1>4, WindowSizes DEF WindowInv, RingIsWindow

-------------------------------------------------------------------------------
(* The two records are parts of one composition for TLC: a step of one     *)
(* leaves the other alone.                                                 *)
LEMMA OrderKept == OrderInv /\ [AllNext]_all => OrderInv'
<1>. SUFFICES ASSUME OrderInv, [AllNext]_all PROVE OrderInv'
  OBVIOUS
<1>1. CASE UNCHANGED order
  BY <1>1 DEF order, OrderInv, TurnComes
<1>2. CASE EvictPath
  BY <1>2, OrderStep DEF EvictPath
<1>3. CASE RecordActivate \/ FlushRecord \/ NextAddr \/ UNCHANGED all
  <2>1. UNCHANGED order
    BY <1>3, Zenon DEF RecordActivate, FlushRecord, NextAddr, all
  <2>. QED  BY <1>1, <2>1
<1>. QED  BY <1>2, <1>3 DEF AllNext

LEMMA WindowKept == LIMIT < INT_MAX1 /\ WindowInv /\ [AllNext]_all => WindowInv'
<1>. SUFFICES ASSUME LIMIT < INT_MAX1, WindowInv, [AllNext]_all PROVE WindowInv'
  OBVIOUS
<1>1. CASE UNCHANGED vars
  BY <1>1 DEF vars, WindowInv, RingIsWindow
<1>2. CASE RecordActivate
  BY <1>2, ActivateKeeps DEF RecordActivate
<1>3. CASE FlushRecord
  BY <1>3, FlushKeeps DEF FlushRecord
<1>4. CASE EvictPath \/ NextAddr \/ UNCHANGED all
  <2>1. UNCHANGED vars
    BY <1>4, Zenon DEF EvictPath, NextAddr, all
  <2>. QED  BY <1>1, <2>1
<1>. QED  BY <1>2, <1>3, <1>4 DEF AllNext

(* The two invariants that the theorems below rest on; that of the record  *)
(* needs the count of cycles to fit in an int.                             *)
THEOREM Inductive == AllSpec => [](OrderInv /\ (LIMIT < INT_MAX1 => WindowInv))
<1>1. AllInit => OrderInv /\ WindowInv
  BY OrderInitial, WindowInitial DEF AllInit
<1>2. OrderInv /\ (LIMIT < INT_MAX1 => WindowInv) /\ [AllNext]_all
        => (OrderInv /\ (LIMIT < INT_MAX1 => WindowInv))'
  BY OrderKept, WindowKept
<1>. QED  BY <1>1, <1>2, PTL DEF AllSpec

(* A bucket of level l waits at most 2^l - 1 evictions for its turn, in a  *)
(* tree of any size and after any number of evictions: ring_evict_path     *)
(* spreads the evictions evenly over the buckets of each level.            *)
THEOREM TurnsComeRound == AllSpec => []InTurn
<1>1. OrderInv => InTurn
  <2>. SUFFICES ASSUME OrderInv, NEW n \in Node PROVE idle[n] < 2 ^ n[1]
    BY DEF InTurn
  <2>1. PICK w \in Nat : idle[n] + w < 2 ^ n[1]
    BY DEF OrderInv, TurnComes
  <2>2. n[1] \in 0 .. LEVEL
    BY NodeLevel, LevelAssumption DEF Level
  <2>3. idle[n] \in Nat /\ 2 ^ n[1] \in Nat
    BY <2>2, PowerType DEF OrderInv
  <2>. QED  BY <2>1, <2>3
<1>. QED  BY <1>1, Inductive, PTL

(* The label of an eviction is that of the count modulo PATH: that ring_G  *)
(* is never reduced does no harm.                                          *)
THEOREM CountMayWrap == AllSpec => []CountWraps
<1>1. OrderInv => CountWraps
  <2>. SUFFICES ASSUME OrderInv PROVE CountWraps
    OBVIOUS
  <2>1. ring_G \in 0 .. MAX_G /\ ring_G \in Nat
    BY CountAssumption DEF OrderInv
  <2>2. reverse_lex(ring_G % PATH) = reverse_lex(ring_G)
    BY <2>1, ReverseLexWraps
  <2>3. reverse_lex_loop(ring_G) = reverse_lex(ring_G)
    BY <2>1, LoopReverses
  <2>. QED  BY <2>2, <2>3, Zenon DEF CountWraps
<1>. QED  BY <1>1, Inductive, PTL

(* The record holds the activations of the window and no others, and never *)
(* more than four, as long as the count of cycles fits in an int: the test *)
(* of is_T_FAW_met is right for every window and size of the record.       *)
THEOREM WindowRight == LIMIT < INT_MAX1 /\ AllSpec => []RingIsWindow
<1>. SUFFICES ASSUME LIMIT < INT_MAX1 PROVE AllSpec => []RingIsWindow
  OBVIOUS
<1>1. OrderInv /\ (LIMIT < INT_MAX1 => WindowInv) => RingIsWindow
  BY DEF WindowInv
<1>. QED  BY <1>1, Inductive, PTL

-------------------------------------------------------------------------------
(* The addresses of the recursive position map (PosmapAddr).               *)

(* Orders of products. *)
LEMMA ProductOrder ==
  ASSUME NEW c \in Nat, NEW a \in Int, NEW b \in Int, a <= b
  PROVE  c * a <= c * b
<1>1. PICK d \in Nat : b = a + d
  <2>1. b - a \in Nat /\ b = a + (b - a)
    OBVIOUS
  <2>. QED  BY <2>1
<1>2. c * d >= 0
  OBVIOUS
<1>. QED  BY <1>1, <1>2

(* Dividing twice is dividing by the product.                              *)
LEMMA DivTwice ==
  ASSUME NEW a \in Nat, NEW d \in Nat \ {0}, NEW e \in Nat \ {0}
  PROVE  a \div (d * e) = (a \div d) \div e
<1>1. PICK q \in Nat, s \in 0 .. d - 1 : q = a \div d /\ a = d * q + s
  BY DivMod
<1>2. PICK u \in Nat, v \in 0 .. e - 1 : u = q \div e /\ q = e * u + v
  BY DivMod
<1>3. PICK f \in Nat \ {0} : f = d * e
  OBVIOUS
<1>4. PICK w \in Nat : w = d * v /\ w <= d * (e - 1)
  <2>1. d * v <= d * (e - 1)
    BY ProductOrder
  <2>. QED  BY <2>1
<1>5. w + s \in 0 .. f - 1
  <2>1. d * (e - 1) = d * e - d
    OBVIOUS
  <2>. QED  BY <1>3, <1>4, <2>1
<1>6. a = f * u + (w + s)
  <2>1. d * (e * u + v) = (d * e) * u + d * v
    OBVIOUS
  <2>2. d * q = f * u + w
    BY <1>2, <1>3, <1>4, <2>1, Zenon
  <2>3. f * u \in Int
    OBVIOUS
  <2>. QED  BY <1>1, <2>2, <2>3
<1>7. a \div f = u
  BY <1>5, <1>6, DivUnique
<1>. QED  BY <1>1, <1>2, <1>3, <1>7

(* The powers of X. *)
LEMMA XPowers ==
  /\ X ^ 0 = 1 /\ X ^ 1 = X
  /\ \A k \in 0 .. H : X ^ k \in Nat \ {0}
  /\ \A k \in 0 .. H - 1 : X ^ (k + 1) = X * X ^ k
<1>. DEFINE S == { k \in Nat : k <= H => X ^ k \in Nat \ {0} }
<1>1. 0 \in S
  BY PowerXAssumption
<1>2. ASSUME NEW k \in Nat, k \in S
      PROVE  k + 1 \in S
  <2>. SUFFICES ASSUME k + 1 <= H PROVE X ^ (k + 1) \in Nat \ {0}
    OBVIOUS
  <2>1. k \in 0 .. H - 1
    BY AddrAssumption
  <2>2. X ^ (k + 1) = X * X ^ k
    BY <2>1, PowerXAssumption
  <2>3. X ^ k \in Nat \ {0}
    BY <1>2, <2>1, AddrAssumption
  <2>. QED  BY <2>2, <2>3, AddrAssumption
<1>3. Nat \subseteq S
  <2>. HIDE DEF S
  <2>. QED  BY <1>1, <1>2, Induction
<1>4. X ^ 1 = X
  <2>1. 0 \in 0 .. H - 1 /\ 0 + 1 = 1 /\ X * 1 = X
    BY AddrAssumption
  <2>. QED  BY <2>1, PowerXAssumption, Zenon
<1>. QED  BY <1>3, <1>4, PowerXAssumption, AddrAssumption

LEMMA XPowerSum ==
  ASSUME NEW i \in Nat, NEW k \in Nat, i + k <= H
  PROVE  X ^ (i + k) = X ^ i * X ^ k
<1>. DEFINE S == { d \in Nat : i + d <= H => X ^ (i + d) = X ^ i * X ^ d }
<1>1. i \in 0 .. H
  BY AddrAssumption
<1>2. PICK b \in Nat \ {0} : b = X ^ i
  BY <1>1, XPowers, Zenon
<1>3. 0 \in S
  <2>1. i + 0 = i /\ b = b * 1
    OBVIOUS
  <2>. QED  BY <1>2, <2>1, XPowers
<1>4. ASSUME NEW d \in Nat, d \in S
      PROVE  d + 1 \in S
  <2>. SUFFICES ASSUME i + (d + 1) <= H PROVE X ^ (i + (d + 1)) = X ^ i * X ^ (d + 1)
    OBVIOUS
  <2>1. /\ d \in 0 .. H - 1 /\ i + d \in 0 .. H - 1 /\ i + (d + 1) = (i + d) + 1
        /\ i + d <= H /\ d \in 0 .. H
    BY AddrAssumption
  <2>2. X ^ (d + 1) = X * X ^ d /\ X ^ ((i + d) + 1) = X * X ^ (i + d)
    BY <2>1, XPowers, Zenon
  <2>3. X ^ (i + d) = b * X ^ d
    BY <1>2, <1>4, <2>1
  <2>4. PICK c \in Nat \ {0} : c = X ^ d
    BY <2>1, XPowers, Zenon
  <2>5. X * (b * c) = b * (X * c)
    BY AddrAssumption
  <2>. QED  BY <1>2, <2>1, <2>2, <2>3, <2>4, <2>5, Zenon
<1>5. Nat \subseteq S
  <2>. HIDE DEF S
  <2>. QED  BY <1>3, <1>4, Induction
<1>. QED  BY <1>5

-------------------------------------------------------------------------------
(* Level i has a block for every X^i data blocks begun.                    *)
LEMMA LevelSizes ==
  ASSUME NEW i \in 0 .. H - 1
  PROVE  /\ LevelSize(i) \in Nat \ {0}
         /\ \A r \in Nat : r < LevelSize(i) <=> X ^ i * r < BLOCK_ORG
<1>1. PICK p \in Nat \ {0} : p = X ^ i
  <2>1. i \in 0 .. H
    BY AddrAssumption
  <2>. QED  BY <2>1, XPowers, Zenon
<1>2. BLOCK_ORG \in Nat \ {0} /\ BLOCK_ORG + p - 1 \in Nat
  BY AddrAssumption
<1>3. PICK n \in Nat, m \in 0 .. p - 1 : n = LevelSize(i) /\ BLOCK_ORG + p - 1 = p * n + m
  <2>1. LevelSize(i) = (BLOCK_ORG + p - 1) \div p
    BY <1>1 DEF LevelSize
  <2>. QED  BY <1>2, <2>1, DivMod
<1>4. n # 0
  <2>. SUFFICES ASSUME n = 0 PROVE FALSE
    OBVIOUS
  <2>1. p * n = 0
    OBVIOUS
  <2>. QED  BY <1>2, <1>3, <2>1
<1>5. ASSUME NEW r \in Nat
      PROVE  r < n <=> p * r < BLOCK_ORG
  <2>1. CASE r < n
    <3>1. p * r <= p * (n - 1)
      <4>1. r <= n - 1 /\ n - 1 \in Int
        BY <2>1
      <4>. QED  BY <4>1, ProductOrder
    <3>2. p * (n - 1) = p * n - p
      OBVIOUS
    <3>. QED  BY <1>2, <1>3, <2>1, <3>1, <3>2
  <2>2. CASE r >= n
    <3>1. p * n <= p * r
      BY <2>2, ProductOrder
    <3>. QED  BY <1>2, <1>3, <2>2, <3>1
  <2>. QED  BY <2>1, <2>2
<1>. QED  BY <1>1, <1>3, <1>4, <1>5, Zenon

LEMMA DataSize == LevelSize(0) = BLOCK_ORG
<1>1. (1 * BLOCK_ORG + 0) \div 1 = BLOCK_ORG /\ BLOCK_ORG + 1 - 1 = 1 * BLOCK_ORG + 0
  <2>1. 1 \in Nat \ {0} /\ 0 \in 0 .. 1 - 1 /\ BLOCK_ORG \in Int
    BY AddrAssumption
  <2>2. BLOCK_ORG + 1 - 1 = 1 * BLOCK_ORG + 0
    BY <2>1
  <2>. QED  BY <2>1, <2>2, DivUnique
<1>. QED  BY <1>1, XPowers, Zenon DEF LevelSize

(* The array that oram_init fills. *)
LEMMA RangesFilled ==
  /\ DATAPOS_RANGE[0] = BLOCK_ORG
  /\ \A i \in 1 .. H - 1 : DATAPOS_RANGE[i] = DATAPOS_RANGE[i - 1] + LevelSize(i)
<1>. DEFINE IsRange(f) ==
              f = [ i \in 0 .. H - 1 |-> (IF i = 0 THEN 0 ELSE f[i - 1]) + LevelSize(i) ]
            t == [ i \in 1 .. H |-> LevelSize(i - 1) ]
<1>1. \A i \in 0 .. H - 1 : LevelSize(i) \in Int
  BY LevelSizes
<1>2. t \in [ 1 .. H -> Int ] /\ H \in Nat
  <2>1. \A i \in 1 .. H : i - 1 \in 0 .. H - 1
    BY AddrAssumption
  <2>. QED  BY <1>1, <2>1, AddrAssumption
<1>3. PICK f : f = [ i \in 0 .. H |-> IF i = 0 THEN 0 ELSE f[i - 1] + t[i] ]
  <2>. HIDE DEF t
  <2>. QED  BY <1>2, Sums
<1>. DEFINE g == [ i \in 0 .. H - 1 |-> f[i + 1] ]
<1>4. \A i \in 0 .. H - 1 : g[i] = (IF i = 0 THEN 0 ELSE g[i - 1]) + LevelSize(i)
  <2>. SUFFICES ASSUME NEW i \in 0 .. H - 1
                PROVE  g[i] = (IF i = 0 THEN 0 ELSE g[i - 1]) + LevelSize(i)
    OBVIOUS
  <2>1. i + 1 \in 1 .. H /\ i + 1 \in 0 .. H /\ i + 1 # 0 /\ (i + 1) - 1 = i /\ 0 \in 0 .. H
    BY AddrAssumption
  <2>2. g[i] = f[i + 1] /\ f[i + 1] = f[i] + t[i + 1] /\ t[i + 1] = LevelSize(i) /\ f[0] = 0
    BY <1>3, <2>1
  <2>3. CASE i = 0
    BY <2>2, <2>3
  <2>4. CASE i # 0
    <3>1. i - 1 \in 0 .. H - 1 /\ (i - 1) + 1 = i
      BY <2>4, AddrAssumption
    <3>2. g[i - 1] = f[i]
      BY <3>1
    <3>. HIDE DEF g
    <3>. QED  BY <2>2, <2>4, <3>2
  <2>. QED  BY <2>3, <2>4
<1>5. IsRange(g)
  <2>1. g = [ i \in 0 .. H - 1 |-> g[i] ]
    OBVIOUS
  <2>. HIDE DEF g
  <2>. QED  BY <1>4, <2>1
<1>6. IsRange(DATAPOS_RANGE)
  <2>1. DATAPOS_RANGE = CHOOSE r : IsRange(r)
    BY Zenon DEF DATAPOS_RANGE
  <2>. HIDE DEF IsRange, g
  <2>. QED  BY <1>5, <2>1
<1>7. \A i \in 0 .. H - 1 :
        DATAPOS_RANGE[i] = (IF i = 0 THEN 0 ELSE DATAPOS_RANGE[i - 1]) + LevelSize(i)
  BY <1>6
<1>8. 0 \in 0 .. H - 1 /\ \A i \in 1 .. H - 1 : i \in 0 .. H - 1 /\ i # 0
  BY AddrAssumption
<1>9. DATAPOS_RANGE[0] = 0 + LevelSize(0)
  BY <1>7, <1>8
<1>10. 0 + BLOCK_ORG = BLOCK_ORG
  BY AddrAssumption
<1>. QED  BY <1>7, <1>8, <1>9, <1>10, DataSize

LEMMA RangesGrow ==
  /\ \A i \in 0 .. H - 1 : DATAPOS_RANGE[i] \in Nat
  /\ \A i \in 0 .. H - 1 : \A j \in 0 .. i : DATAPOS_RANGE[j] <= DATAPOS_RANGE[i]
<1>. DEFINE S == { i \in Nat : i <= H - 1 =>
                     \A j \in 0 .. i : /\ DATAPOS_RANGE[j] \in Nat
                                        /\ DATAPOS_RANGE[j] <= DATAPOS_RANGE[i] }
<1>1. 0 \in S
  <2>1. \A j \in 0 .. 0 : j = 0
    OBVIOUS
  <2>. QED  BY <2>1, RangesFilled, AddrAssumption
<1>2. ASSUME NEW i \in Nat, i \in S
      PROVE  i + 1 \in S
  <2>. SUFFICES ASSUME i + 1 <= H - 1
                PROVE  \A j \in 0 .. i + 1 : /\ DATAPOS_RANGE[j] \in Nat
                                              /\ DATAPOS_RANGE[j] <= DATAPOS_RANGE[i + 1]
    OBVIOUS
  <2>1. i + 1 \in 1 .. H - 1 /\ i + 1 \in 0 .. H - 1 /\ (i + 1) - 1 = i /\ i <= H - 1
    BY AddrAssumption
  <2>2. DATAPOS_RANGE[i + 1] = DATAPOS_RANGE[i] + LevelSize(i + 1)
    BY <2>1, RangesFilled
  <2>3. LevelSize(i + 1) \in Nat
    BY <2>1, LevelSizes
  <2>4. \A j \in 0 .. i : DATAPOS_RANGE[j] \in Nat /\ DATAPOS_RANGE[j] <= DATAPOS_RANGE[i]
    BY <1>2, <2>1
  <2>5. i \in 0 .. i /\ \A j \in 0 .. i + 1 : j = i + 1 \/ j \in 0 .. i
    OBVIOUS
  <2>. QED  BY <2>2, <2>3, <2>4, <2>5
<1>3. Nat \subseteq S
  <2>. HIDE DEF S
  <2>. QED  BY <1>1, <1>2, Induction
<1>4. \A i \in 0 .. H - 1 : i \in S /\ i <= H - 1 /\ i \in 0 .. i
  <2>. HIDE DEF S
  <2>. QED  BY <1>3, AddrAssumption
<1>. QED  BY <1>4

(* The address of rank r in level l, and the level and the rank of an      *)
(* address.                                                                *)
Base(l) == IF l = 0 THEN 0 ELSE DATAPOS_RANGE[l - 1]

LEMMA BaseNext ==
  ASSUME NEW l \in 0 .. H - 1
  PROVE  Base(l) \in Nat /\ DATAPOS_RANGE[l] = Base(l) + LevelSize(l)
<1>1. CASE l = 0
  BY <1>1, RangesFilled, DataSize, AddrAssumption DEF Base
<1>2. CASE l # 0
  <2>1. l \in 1 .. H - 1 /\ l - 1 \in 0 .. H - 1
    BY <1>2, AddrAssumption
  <2>. QED  BY <1>2, <2>1, RangesFilled, RangesGrow, Zenon DEF Base
<1>. QED  BY <1>1, <1>2

LEMMA LevelIs ==
  ASSUME NEW l \in 0 .. H - 1, NEW a \in Nat, Base(l) <= a, a < DATAPOS_RANGE[l]
  PROVE  calc_datapos_level(a) = l /\ RankInLevel(a) = a - Base(l)
<1>. DEFINE In(i) == a < DATAPOS_RANGE[i] /\ \A j \in 0 .. i - 1 : a >= DATAPOS_RANGE[j]
<1>1. In(l)
  <2>. SUFFICES ASSUME NEW j \in 0 .. l - 1 PROVE a >= DATAPOS_RANGE[j]
    OBVIOUS
  <2>1. l # 0 /\ l - 1 \in 0 .. H - 1 /\ j \in 0 .. H - 1
    BY AddrAssumption
  <2>2. DATAPOS_RANGE[j] <= DATAPOS_RANGE[l - 1]
    BY <2>1, RangesGrow
  <2>3. DATAPOS_RANGE[l - 1] <= a
    BY <2>1 DEF Base
  <2>4. DATAPOS_RANGE[j] \in Nat /\ DATAPOS_RANGE[l - 1] \in Nat
    BY <2>1, RangesGrow
  <2>. QED  BY <2>2, <2>3, <2>4
<1>2. ASSUME NEW i \in 0 .. H - 1, In(i)
      PROVE  i = l
  <2>1. i \in Nat /\ l \in Nat
    BY AddrAssumption
  <2>2. DATAPOS_RANGE[i] \in Nat /\ DATAPOS_RANGE[l] \in Nat
    BY RangesGrow
  <2>3. ~(i < l)
    <3>. SUFFICES ASSUME i < l PROVE FALSE
      OBVIOUS
    <3>1. i \in 0 .. l - 1
      BY <2>1
    <3>. QED  BY <1>1, <1>2, <2>2, <3>1
  <2>4. ~(l < i)
    <3>. SUFFICES ASSUME l < i PROVE FALSE
      OBVIOUS
    <3>1. l \in 0 .. i - 1
      BY <2>1
    <3>. QED  BY <1>1, <1>2, <2>2, <3>1
  <2>. QED  BY <2>1, <2>3, <2>4
<1>3. calc_datapos_level(a) = CHOOSE i \in 0 .. H - 1 : In(i)
  BY Zenon DEF calc_datapos_level
<1>. HIDE DEF In
<1>4. calc_datapos_level(a) = l
  BY <1>1, <1>2, <1>3
<1>5. RankInLevel(a) = a - Base(l)
  <2>1. CASE l = 0
    BY <1>4, <2>1 DEF RankInLevel, Base
  <2>2. CASE l # 0
    BY <1>4, <2>2 DEF RankInLevel, Base
  <2>. QED  BY <2>1, <2>2
<1>. QED  BY <1>4, <1>5

LEMMA AddressOf ==
  ASSUME NEW l \in 0 .. H - 1, NEW r \in Nat, r < LevelSize(l)
  PROVE  /\ Base(l) + r \in Nat /\ Base(l) + r < DATAPOS_RANGE[H - 1]
         /\ calc_datapos_level(Base(l) + r) = l /\ RankInLevel(Base(l) + r) = r
<1>1. PICK b \in Nat : b = Base(l)
  BY BaseNext
<1>2. PICK n \in Nat : n = LevelSize(l)
  BY LevelSizes
<1>3. DATAPOS_RANGE[l] = b + n
  BY <1>1, <1>2, BaseNext
<1>4. b + r \in Nat /\ b <= b + r /\ b + r < DATAPOS_RANGE[l] /\ (b + r) - b = r
  BY <1>2, <1>3
<1>5. calc_datapos_level(b + r) = l /\ RankInLevel(b + r) = r
  BY <1>1, <1>4, LevelIs
<1>6. DATAPOS_RANGE[l] <= DATAPOS_RANGE[H - 1] /\ DATAPOS_RANGE[H - 1] \in Nat
  <2>1. H - 1 \in 0 .. H - 1 /\ l \in 0 .. H - 1
    BY AddrAssumption
  <2>. QED  BY <2>1, RangesGrow
<1>7. b + r < DATAPOS_RANGE[H - 1]
  BY <1>3, <1>4, <1>6
<1>. QED  BY <1>1, <1>4, <1>5, <1>7, Zenon

LEMMA HasLevel ==
  ASSUME NEW m \in 0 .. H - 1, NEW a \in Nat, a < DATAPOS_RANGE[m]
  PROVE  \E l \in 0 .. m : \E r \in Nat : r < LevelSize(l) /\ a = Base(l) + r
<1>. DEFINE Has(k) == \E l \in 0 .. k : \E r \in Nat : r < LevelSize(l) /\ a = Base(l) + r
            S == { k \in Nat : k <= H - 1 /\ a < DATAPOS_RANGE[k] => Has(k) }
<1>1. \A k \in 0 .. H - 1 : a >= Base(k) /\ a < DATAPOS_RANGE[k] => Has(k)
  <2>. SUFFICES ASSUME NEW k \in 0 .. H - 1, a >= Base(k), a < DATAPOS_RANGE[k]
                PROVE  Has(k)
    OBVIOUS
  <2>1. PICK b \in Nat : b = Base(k)
    BY BaseNext
  <2>2. PICK n \in Nat : n = LevelSize(k)
    BY LevelSizes
  <2>3. DATAPOS_RANGE[k] = b + n
    BY <2>1, <2>2, BaseNext
  <2>4. a - b \in Nat /\ a - b < n /\ a = b + (a - b) /\ k \in 0 .. k
    BY <2>1, <2>3
  <2>. QED  BY <2>1, <2>2, <2>4
<1>2. 0 \in S
  <2>1. 0 \in 0 .. H - 1 /\ Base(0) = 0 /\ a >= 0
    BY AddrAssumption DEF Base
  <2>. HIDE DEF Has
  <2>. QED  BY <1>1, <2>1
<1>3. ASSUME NEW k \in Nat, k \in S
      PROVE  k + 1 \in S
  <2>. SUFFICES ASSUME k + 1 <= H - 1, a < DATAPOS_RANGE[k + 1] PROVE Has(k + 1)
    OBVIOUS
  <2>1. /\ k + 1 \in 0 .. H - 1 /\ k \in 0 .. H - 1 /\ k <= H - 1 /\ k + 1 # 0
        /\ (k + 1) - 1 = k /\ 0 .. k \subseteq 0 .. k + 1
    BY AddrAssumption
  <2>2. Base(k + 1) = DATAPOS_RANGE[k]
    BY <2>1 DEF Base
  <2>3. CASE a >= DATAPOS_RANGE[k]
    <3>. HIDE DEF Has
    <3>. QED  BY <1>1, <2>1, <2>2, <2>3
  <2>4. CASE a < DATAPOS_RANGE[k]
    <3>1. Has(k)
      <4>. HIDE DEF Has
      <4>. QED  BY <1>3, <2>1, <2>4
    <3>. QED  BY <2>1, <3>1
  <2>5. DATAPOS_RANGE[k] \in Nat
    BY <2>1, RangesGrow
  <2>. QED  BY <2>3, <2>4, <2>5
<1>4. Nat \subseteq S
  <2>. HIDE DEF S
  <2>. QED  BY <1>2, <1>3, Induction
<1>. QED  BY <1>4, AddrAssumption

-------------------------------------------------------------------------------
(* The block of level pl that covers the address of rank r in level l is   *)
(* that of rank r divided by X^(pl - l).                                   *)
Up(r, k) == r \div X ^ k

LEMMA UpBelow ==
  ASSUME NEW l \in 0 .. H - 1, NEW pl \in l .. H - 1, NEW r \in Nat, r < LevelSize(l)
  PROVE  Up(r, pl - l) \in Nat /\ Up(r, pl - l) < LevelSize(pl)
<1>1. /\ l \in Nat /\ pl - l \in Nat /\ l + (pl - l) = pl /\ l + (pl - l) <= H
      /\ pl \in 0 .. H - 1 /\ l \in 0 .. H /\ pl - l \in 0 .. H
  BY AddrAssumption
<1>2. PICK p \in Nat \ {0}, d \in Nat \ {0} : p = X ^ l /\ d = X ^ (pl - l)
  BY <1>1, XPowers, Zenon
<1>3. X ^ pl = p * d
  <2>1. X ^ (l + (pl - l)) = X ^ l * X ^ (pl - l)
    BY <1>1, XPowerSum
  <2>. QED  BY <1>1, <1>2, <2>1, Zenon
<1>4. PICK q \in Nat, s \in 0 .. d - 1 : q = Up(r, pl - l) /\ r = d * q + s
  <2>1. Up(r, pl - l) = r \div d
    BY <1>2, Zenon DEF Up
  <2>. QED  BY <2>1, DivMod
<1>5. p * r < BLOCK_ORG
  <2>1. X ^ l * r < BLOCK_ORG
    BY LevelSizes
  <2>. QED  BY <1>2, <2>1, Zenon
<1>6. (p * d) * q <= p * r
  <2>1. d * q \in Int /\ d * q <= r
    BY <1>4
  <2>2. p * (d * q) <= p * r
    BY <2>1, ProductOrder
  <2>3. p * (d * q) = (p * d) * q
    OBVIOUS
  <2>. QED  BY <2>2, <2>3
<1>7. (p * d) * q < BLOCK_ORG
  <2>1. p * r \in Int /\ (p * d) * q \in Int /\ BLOCK_ORG \in Int
    BY AddrAssumption
  <2>. QED  BY <1>5, <1>6, <2>1
<1>8. X ^ pl * q < BLOCK_ORG
  BY <1>3, <1>7, Zenon
<1>. QED  BY <1>1, <1>4, <1>8, LevelSizes

LEMMA ParentAddress ==
  ASSUME NEW l \in 0 .. H - 1, NEW pl \in l + 1 .. H - 1, NEW r \in Nat, r < LevelSize(l)
  PROVE  calc_posact_addr(Base(l) + r, pl) = Base(pl) + Up(r, pl - l)
<1>1. calc_datapos_level(Base(l) + r) = l /\ RankInLevel(Base(l) + r) = r
  BY AddressOf
<1>2. pl \in l .. H - 1 /\ pl # 0 /\ pl - 1 \in 0 .. H - 1
  BY AddrAssumption
<1>3. PICK q \in Nat : q = Up(r, pl - l)
  BY <1>2, UpBelow
<1>4. PICK b \in Nat : b = DATAPOS_RANGE[pl - 1] /\ b = Base(pl)
  BY <1>2, RangesGrow DEF Base
<1>5. calc_posact_addr(Base(l) + r, pl) = BLOCK_ORG + (b - BLOCK_ORG + q)
  BY <1>1, <1>3, <1>4, RangesFilled, Zenon DEF calc_posact_addr, merkle_addr, Up
<1>6. BLOCK_ORG + (b - BLOCK_ORG + q) = b + q
  BY AddrAssumption
<1>. QED  BY <1>3, <1>4, <1>5, <1>6, Zenon

(* What holds of every address of a level below the last.                  *)
LEMMA TreeAt ==
  ASSUME NEW l \in 0 .. H - 2, NEW r \in Nat, r < LevelSize(l), addr = Base(l) + r
  PROVE  MapIsTree
<1>1. l \in 0 .. H - 1 /\ l + 1 \in l + 1 .. H - 1 /\ H - 2 \in Int /\ H - 1 \in Int /\ l \in Nat
  BY AddrAssumption
<1>2. calc_datapos_level(addr) = l /\ RankInLevel(addr) = r
  BY <1>1, AddressOf
<1>3. ASSUME NEW pl \in l + 1 .. H - 1
      PROVE  /\ pl \in 0 .. H - 1 /\ pl - l \in 0 .. H
             /\ Up(r, pl - l) \in Nat /\ Up(r, pl - l) < LevelSize(pl)
             /\ calc_posact_addr(addr, pl) = Base(pl) + Up(r, pl - l)
             /\ calc_posact_addr(addr, pl) < DATAPOS_RANGE[H - 1]
             /\ calc_datapos_level(calc_posact_addr(addr, pl)) = pl
             /\ RankInLevel(calc_posact_addr(addr, pl)) = Up(r, pl - l)
  <2>1. pl \in 0 .. H - 1 /\ pl \in l .. H - 1 /\ pl - l \in 0 .. H
    BY <1>1, AddrAssumption
  <2>2. Up(r, pl - l) \in Nat /\ Up(r, pl - l) < LevelSize(pl)
    BY <1>1, <2>1, UpBelow
  <2>3. calc_posact_addr(addr, pl) = Base(pl) + Up(r, pl - l)
    BY <1>1, ParentAddress
  <2>. QED  BY <2>1, <2>2, <2>3, AddressOf
<1>4. LevelMatches
  BY <1>2, <1>3 DEF LevelMatches, AddrLevel
<1>5. ParentsChain
  <2>. SUFFICES ASSUME NEW pl \in l + 1 .. H - 2
                PROVE  calc_posact_addr(addr, pl + 1)
                         = calc_posact_addr(calc_posact_addr(addr, pl), pl + 1)
    BY <1>2 DEF ParentsChain, AddrLevel
  <2>1. /\ pl \in l + 1 .. H - 1 /\ pl + 1 \in l + 1 .. H - 1 /\ pl \in 0 .. H - 1
        /\ pl + 1 \in pl + 1 .. H - 1 /\ (pl + 1) - pl = 1
        /\ (pl + 1) - l = (pl - l) + 1 /\ pl - l \in 0 .. H - 1 /\ pl - l \in 0 .. H
    BY <1>1, AddrAssumption
  <2>2. PICK q \in Nat : q = Up(r, pl - l)
    BY <1>3, <2>1
  <2>3. q < LevelSize(pl) /\ calc_posact_addr(addr, pl) = Base(pl) + q
    BY <1>3, <2>1, <2>2
  <2>4. calc_posact_addr(Base(pl) + q, pl + 1) = Base(pl + 1) + Up(q, 1)
    BY <2>1, <2>3, ParentAddress, Zenon
  <2>5. calc_posact_addr(addr, pl + 1) = Base(pl + 1) + Up(r, (pl - l) + 1)
    BY <1>3, <2>1, Zenon
  <2>6. Up(r, (pl - l) + 1) = Up(q, 1)
    <3>1. PICK d \in Nat \ {0} : d = X ^ (pl - l)
      BY <2>1, XPowers, Zenon
    <3>2. X \in Nat \ {0} /\ d * X = X * d
      BY AddrAssumption
    <3>3. X ^ ((pl - l) + 1) = d * X
      BY <2>1, <3>1, <3>2, XPowers, Zenon
    <3>4. r \div (d * X) = (r \div d) \div X
      BY <3>2, DivTwice
    <3>. QED  BY <2>2, <3>1, <3>3, <3>4, XPowers, Zenon DEF Up
  <2>. QED  BY <2>3, <2>4, <2>5, <2>6, Zenon
<1>6. OwnEntry
  <2>1. (l + 1) - l = 1 /\ (l + 1) - l - 1 = 0
    BY <1>1
  <2>2. RankInLevel(calc_posact_addr(addr, l + 1)) = r \div X
    BY <1>1, <1>3, <2>1, XPowers, Zenon DEF Up
  <2>3. merkle_offset(addr, l + 1) = r % X
    <3>1. r \div 1 = r
      OBVIOUS
    <3>. QED  BY <1>2, <2>1, <3>1, XPowers, Zenon DEF merkle_offset
  <2>4. r = X * (r \div X) + (r % X)
    BY AddrAssumption, DivMod
  <2>. QED  BY <1>2, <2>2, <2>3, <2>4, Zenon DEF OwnEntry, AddrLevel
<1>. QED  BY <1>4, <1>5, <1>6 DEF MapIsTree

AddrInv == addr \in 0 .. DATAPOS_RANGE[H - 2] - 1

LEMMA AddrKept == AddrInv /\ [AllNext]_all => AddrInv'
<1>. SUFFICES ASSUME AddrInv, [AllNext]_all PROVE AddrInv'
  OBVIOUS
<1>1. CASE UNCHANGED addr
  BY <1>1 DEF AddrInv
<1>2. CASE NextAddr
  <2>1. PICK n \in Nat : n = DATAPOS_RANGE[H - 2]
    <3>1. H - 2 \in 0 .. H - 1
      BY AddrAssumption
    <3>. QED  BY <3>1, RangesGrow
  <2>2. addr \in 0 .. n - 1 /\ addr' = (addr + 1) % n
    BY <1>2, <2>1 DEF AddrInv, NextAddr
  <2>3. addr' \in 0 .. n - 1
    BY <2>2
  <2>. QED  BY <2>1, <2>3 DEF AddrInv
<1>3. CASE RecordActivate \/ FlushRecord \/ EvictPath \/ UNCHANGED all
  <2>1. UNCHANGED addr
    BY <1>3, Zenon DEF RecordActivate, FlushRecord, EvictPath, all
  <2>. QED  BY <1>1, <2>1
<1>. QED  BY <1>2, <1>3 DEF AllNext

(* The blocks of the position map are a tree over the data blocks, for any *)
(* number of data blocks, of labels in a block and of levels: the block    *)
(* that calc_posact_addr names is of the level it was asked for, the       *)
(* blocks over an address are on one chain, and no two addresses share an  *)
(* entry.                                                                  *)
THEOREM MapRight == AllSpec => []MapIsTree
<1>1. AllInit => AddrInv
  <2>1. H - 2 \in 0 .. H - 1 /\ 0 \in 0 .. H - 2
    BY AddrAssumption
  <2>2. DATAPOS_RANGE[0] <= DATAPOS_RANGE[H - 2] /\ DATAPOS_RANGE[H - 2] \in Nat
    BY <2>1, RangesGrow
  <2>3. DATAPOS_RANGE[H - 2] >= 1
    BY <2>2, RangesFilled, AddrAssumption
  <2>. QED  BY <2>2, <2>3 DEF AllInit, AddrInv
<1>2. AddrInv /\ [AllNext]_all => AddrInv'
  BY AddrKept
<1>3. AddrInv => MapIsTree
  <2>. SUFFICES ASSUME AddrInv PROVE MapIsTree
    OBVIOUS
  <2>1. H - 2 \in 0 .. H - 1
    BY AddrAssumption
  <2>2. DATAPOS_RANGE[H - 2] \in Nat
    BY <2>1, RangesGrow
  <2>3. addr \in Nat /\ addr < DATAPOS_RANGE[H - 2]
    BY <2>2 DEF AddrInv
  <2>4. PICK l \in 0 .. H - 2 : \E r \in Nat : r < LevelSize(l) /\ addr = Base(l) + r
    BY <2>1, <2>3, HasLevel
  <2>. QED  BY <2>4, TreeAt
<1>. QED  BY <1>1, <1>2, <1>3, PTL DEF AllSpec
===============================================================================

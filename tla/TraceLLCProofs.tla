---------------------------- MODULE TraceLLCProofs ----------------------------
(***************************************************************************)
(* Proofs about TraceLLC and the queue it feeds, for every value of the    *)
(* constants: the cache and the queue do not fail, operations stay whole,  *)
(* the cache drops the block used the longest ago, and no request is lost. *)
(***************************************************************************)
EXTENDS TraceLLC, FiniteSetTheorems, WellFoundedInduction, TLAPS

-------------------------------------------------------------------------------
(* What the elements of oramQ obey.  The dummy accesses are in front, an   *)
(* operation is never cut, and behind a real element is at most the rest   *)
(* of the access it belongs to.                                            *)
Shape(q) ==
  /\ \A i, j \in DOMAIN q : i < j /\ q[j].dummy => q[i].dummy
  /\ \A i \in DOMAIN q : i > 1 /\ ~q[i].beginning => q[i - 1].dummy = q[i].dummy
  /\ \A i \in DOMAIN q : ~q[i].dummy => Len(q) - i < 2 * MAX_OPS

(* The ORAM is invoked with an empty queue only.                           *)
QueueInv ==
  /\ Shape(oramQ)
  /\ pc \in { "read", "invoke" } /\ ~skip_invokation => oramQ = << >>

(* The stamps of the ways are those of the last use of their blocks, none  *)
(* is in the future, and no block is in two ways.                          *)
CacheInv ==
  /\ \A j \in Way : LRU[j] <= cache_clk
  /\ \A j \in Way : LLC[j].valid => LLC[j].addr \in Addr /\ used[LLC[j].addr] = LRU[j]
  /\ \A i, j \in Way : LLC[i].valid /\ LLC[j].valid /\ LLC[i].addr = LLC[j].addr => i = j

(* The room that the queue needs: an access, and a dummy access in front.  *)
QueueFits == QUEUE_SIZE >= 4 * MAX_OPS

NoFailure == ~exited /\ (QueueFits => failure = "none")

Inv == TypeOK /\ QueueInv /\ CacheInv /\ NoFailure

(* Without turns used for evictions: which requests are owed.  A miss that  *)
(* waits is never the current request, and what is owed is what the flags   *)
(* and the position in the loop say, the write of a victim first.           *)
NoSkip == ~SKIP

Idle == ~(pc = "invoke" \/ (pc = "read" /\ ~no_miss_occured))

RequestInv ==
  /\ ~skip_invokation
  /\ waited_for_evicted # NONE =>
       waited_for_evicted.line > 0 /\ req.line = 0 /\ missed = { waited_for_evicted.line }
  /\ waited_for_evicted = NONE => missed \subseteq { req.line }
  /\ owed \subseteq { req.addr }
  /\ owed # {} => req.type = "W" /\ waited_for_evicted # NONE
  /\ Idle => owed = {} /\ (waited_for_evicted = NONE => missed = {})

-------------------------------------------------------------------------------
(* A set of natural numbers that is not empty has a least element.         *)
LEMMA Least ==
  ASSUME NEW S, S \subseteq Nat, S # {}
  PROVE  \E j \in S : \A i \in S : j <= i
<1>. DEFINE R == OpToRel(<, Nat)
<1>1. IsWellFoundedOn(R, Nat)
  BY NatLessThanWellFounded
<1>2. \A x \in Nat, y \in Nat : x < y => << x, y >> \in R
  BY DEF OpToRel
<1>. HIDE DEF R
<1>3. PICK j \in S : \A i \in S : ~(<< i, j >> \in R)
  BY <1>1, WFMin
<1>4. \A i \in S : ~(i < j)
  <2>. TAKE i \in S
  <2>1. i \in Nat /\ j \in Nat
    OBVIOUS
  <2>. QED  BY <1>2, <1>3, <2>1, Zenon
<1>5. \A i \in S : i \in Nat
  OBVIOUS
<1>6. j \in Nat
  OBVIOUS
<1>. QED  BY <1>4, <1>5, <1>6

(* Lowest picks the least way of a set of ways.                            *)
LEMMA LowestWay ==
  ASSUME NEW S \in SUBSET Way, S # {}
  PROVE  /\ Lowest(S) \in S
         /\ \A i \in S : Lowest(S) <= i
<1>1. S \subseteq Nat
  BY TraceAssumption DEF Way
<1>2. \E j \in S : \A i \in S : j <= i
  BY <1>1, Least
<1>. QED  BY <1>2 DEF Lowest

(* find_victim finds a way with the smallest stamp, if a stamp is below    *)
(* the clock.                                                              *)
LEMMA VictimWay ==
  ASSUME LRU \in [Way -> Nat], NEW clk \in Nat, \A j \in Way : LRU[j] < clk
  PROVE  /\ find_victim(clk) \in Way
         /\ \A i \in Way : LRU[find_victim(clk)] <= LRU[i]
<1>1. Older(clk) = Way /\ 0 \in Way
  BY TraceAssumption DEF Older, Way
<1>. DEFINE Stamps == { LRU[j] : j \in Way }
            V == { j \in Way : \A i \in Way : LRU[j] <= LRU[i] }
<1>2. Stamps \subseteq Nat /\ Stamps # {}
  BY <1>1
<1>3. PICK m \in Stamps : \A i \in Stamps : m <= i
  BY <1>2, Least
<1>4. V \in SUBSET Way /\ V # {}
  BY <1>3
<1>5. find_victim(clk) = Lowest(V)
  BY <1>1 DEF find_victim
<1>. HIDE DEF V
<1>6. Lowest(V) \in V
  BY <1>4, LowestWay
<1>. QED  BY <1>5, <1>6 DEF V

(* The elements of an access: none is more than 2 * MAX_OPS, all are dummy *)
(* or none is, and the first begins an operation.                          *)
LEMMA AccessElements ==
  ASSUME NEW ops \in Operations, NEW d \in BOOLEAN
  PROVE  /\ Access(d, ops) \in Seq(Element)
         /\ Len(Access(d, ops)) \in 1 .. 2 * MAX_OPS
         /\ \A i \in DOMAIN Access(d, ops) : Access(d, ops)[i].dummy = d
         /\ Access(d, ops)[1].beginning
<1>1. PICK n \in 1 .. MAX_OPS : ops \in [1 .. n -> { Forward, Eviction }]
  BY DEF Operations
<1>2. ops[1] = Forward
  BY DEF Operations
<1>3. Len(ops) = n /\ n \in Nat
  BY <1>1, QueueAssumption
<1>. DEFINE b == [ i \in 1 .. 2 * n |-> ops[(i + 1) \div 2][2 - (i % 2)] ]
<1>4. \A i \in 1 .. 2 * n : b[i] \in BOOLEAN
  <2>. TAKE i \in 1 .. 2 * n
  <2>1. (i + 1) \div 2 \in 1 .. n /\ 2 - (i % 2) \in 1 .. 2
    <3>1. i \in Nat /\ 1 <= i /\ i <= 2 * n
      BY <1>3
    <3>2. i % 2 \in 0 .. 1
      BY <3>1
    <3>3. (i + 1) \div 2 \in Int /\ 1 <= (i + 1) \div 2 /\ (i + 1) \div 2 <= n
      BY <1>3, <3>1
    <3>. QED  BY <1>3, <3>2, <3>3
  <2>2. ops[(i + 1) \div 2] \in { Forward, Eviction }
    BY <1>1, <2>1
  <2>3. \A k \in 1 .. 2 : Forward[k] \in BOOLEAN /\ Eviction[k] \in BOOLEAN
    <3>1. Forward \in Seq(BOOLEAN) /\ Len(Forward) = 2
      BY SMT DEF Forward
    <3>2. Eviction \in Seq(BOOLEAN) /\ Len(Eviction) = 2
      BY SMT DEF Eviction
    <3>. QED  BY SMTT(60), <3>1, <3>2
  <2>4. ops[(i + 1) \div 2][2 - (i % 2)] \in BOOLEAN
    BY <2>1, <2>2, <2>3, Zenon
  <2>. QED  BY <2>4
<1>5. b[1]
  <2>1. 1 \in 1 .. 2 * n
    BY <1>1, <1>3
  <2>3. (1 + 1) \div 2 = 1 /\ 2 - (1 % 2) = 1
    OBVIOUS
  <2>2. b[1] = ops[1][1]
    BY <2>1, <2>3
  <2>4. Forward[1]
    BY DEF Forward
  <2>. QED  BY <1>2, <2>2, <2>4, Zenon
<1>6. Access(d, ops) = [ i \in 1 .. 2 * n |-> [dummy |-> d, beginning |-> b[i]] ]
  BY <1>3 DEF Access
<1>. HIDE DEF b
<1>7. Access(d, ops) \in [1 .. 2 * n -> Element]
  BY <1>4, <1>6 DEF Element
<1>8. 2 * n \in Nat /\ 2 * n \in 1 .. 2 * MAX_OPS
  BY <1>1, <1>3, QueueAssumption
<1>9. Access(d, ops) \in Seq(Element) /\ Len(Access(d, ops)) = 2 * n
  BY <1>7, <1>8
<1>. QED  BY <1>5, <1>6, <1>8, <1>9

(* The rest of a queue has the shape of the queue.                         *)
LEMMA TailShape ==
  ASSUME NEW q \in Seq(Element), q # << >>, Shape(q)
  PROVE  Tail(q) \in Seq(Element) /\ Shape(Tail(q))
<1>. DEFINE r == Tail(q)
<1>1. /\ r \in Seq(Element) /\ Len(q) \in Nat /\ Len(r) = Len(q) - 1
      /\ DOMAIN q = 1 .. Len(q) /\ DOMAIN r = 1 .. Len(r)
      /\ \A i \in DOMAIN r : r[i] = q[i + 1]
  OBVIOUS
<1>. HIDE DEF r
<1>2. \A i \in DOMAIN r : i \in Nat /\ i >= 1 /\ i + 1 \in DOMAIN q
  BY <1>1
<1>3. \A i, j \in DOMAIN r : i < j /\ r[j].dummy => r[i].dummy
  <2>. SUFFICES ASSUME NEW i \in DOMAIN r, NEW j \in DOMAIN r, i < j, r[j].dummy
                PROVE  r[i].dummy
    OBVIOUS
  <2>1. i + 1 \in DOMAIN q /\ j + 1 \in DOMAIN q /\ i + 1 < j + 1
    BY <1>2
  <2>. QED  BY <1>1, <2>1, Zenon DEF Shape
<1>4. \A i \in DOMAIN r : i > 1 /\ ~r[i].beginning => r[i - 1].dummy = r[i].dummy
  <2>. SUFFICES ASSUME NEW i \in DOMAIN r, i > 1, ~r[i].beginning
                PROVE  r[i - 1].dummy = r[i].dummy
    OBVIOUS
  <2>1. /\ i + 1 \in DOMAIN q /\ i + 1 > 1 /\ (i + 1) - 1 = i
        /\ i - 1 \in DOMAIN r /\ (i - 1) + 1 = i
    BY <1>1, <1>2
  <2>2. q[(i + 1) - 1].dummy = q[i + 1].dummy
    BY <1>1, <2>1, Zenon DEF Shape
  <2>3. r[i - 1] = q[i]
    BY <1>1, <2>1, Zenon
  <2>. QED  BY <1>1, <2>1, <2>2, <2>3, Zenon
<1>5. \A i \in DOMAIN r : ~r[i].dummy => Len(r) - i < 2 * MAX_OPS
  <2>. SUFFICES ASSUME NEW i \in DOMAIN r, ~r[i].dummy
                PROVE  Len(r) - i < 2 * MAX_OPS
    OBVIOUS
  <2>1. Len(q) - (i + 1) < 2 * MAX_OPS
    BY <1>1, <1>2 DEF Shape
  <2>. QED  BY <1>1, <1>2, <2>1
<1>6. Shape(r)
  BY <1>3, <1>4, <1>5 DEF Shape
<1>. QED  BY <1>1, <1>6 DEF r

(* An access alone has the shape of a queue, and so has the empty queue.   *)
LEMMA AloneShape ==
  /\ Shape(<< >>)
  /\ \A ops \in Operations, d \in BOOLEAN : Shape(Access(d, ops))
<1>1. Shape(<< >>)
  BY DEF Shape
<1>2. ASSUME NEW ops \in Operations, NEW d \in BOOLEAN
      PROVE  Shape(Access(d, ops))
  <2>. DEFINE a == Access(d, ops)
  <2>1. /\ a \in Seq(Element) /\ Len(a) \in 1 .. 2 * MAX_OPS
        /\ \A i \in DOMAIN a : a[i].dummy = d
    BY AccessElements
  <2>. HIDE DEF a
  <2>2. \A i \in DOMAIN a : i \in 1 .. Len(a)
    BY <2>1
  <2>3. \A i, j \in DOMAIN a : i < j /\ a[j].dummy => a[i].dummy
    BY <2>1, Zenon
  <2>4. \A i \in DOMAIN a : i > 1 /\ ~a[i].beginning => a[i - 1].dummy = a[i].dummy
    <3>. SUFFICES ASSUME NEW i \in DOMAIN a, i > 1
                  PROVE  a[i - 1].dummy = a[i].dummy
      OBVIOUS
    <3>1. i - 1 \in DOMAIN a
      BY <2>1, <2>2
    <3>. QED  BY <2>1, <3>1, Zenon
  <2>5. \A i \in DOMAIN a : Len(a) - i < 2 * MAX_OPS
    BY <2>1, <2>2, QueueAssumption
  <2>6. Shape(a)
    BY <2>3, <2>4, <2>5 DEF Shape
  <2>. QED  BY <2>6 DEF a
<1>. QED  BY <1>1, <1>2

(* A dummy access goes to the front of a queue whose head is real, and     *)
(* finds an operation that begins there.                                   *)
LEMMA FrontShape ==
  ASSUME NEW q \in Seq(Element), q # << >>, Shape(q), Compared(Head(q)),
         NEW ops \in Operations
  PROVE  /\ Real(q) # {}
         /\ Len(q) <= 2 * MAX_OPS
         /\ EnqueueHead(q, Access(TRUE, ops)) = Access(TRUE, ops) \o q
         /\ Access(TRUE, ops) \o q \in Seq(Element)
         /\ Access(TRUE, ops) \o q # << >>
         /\ Shape(Access(TRUE, ops) \o q)
<1>. DEFINE a == Access(TRUE, ops)
            r == a \o q
<1>1. /\ a \in Seq(Element) /\ Len(a) \in 1 .. 2 * MAX_OPS
      /\ \A i \in DOMAIN a : a[i].dummy = TRUE
  BY AccessElements
<1>. HIDE DEF a
<1>2. /\ Len(q) \in Nat /\ Len(q) >= 1 /\ DOMAIN q = 1 .. Len(q) /\ 1 \in DOMAIN q
      /\ Len(a) \in Nat /\ DOMAIN a = 1 .. Len(a)
      /\ 2 * MAX_OPS \in Nat
  BY <1>1, QueueAssumption
<1>3. ~q[1].dummy /\ q[1].beginning
  <2>1. Head(q) = q[1]
    OBVIOUS
  <2>. QED  BY <2>1, Zenon DEF Compared
<1>4. \A i \in DOMAIN q : ~q[i].dummy
  <2>. SUFFICES ASSUME NEW i \in DOMAIN q
                PROVE  ~q[i].dummy
    OBVIOUS
  <2>1. i = 1 \/ 1 < i
    BY <1>2
  <2>. QED  BY <1>2, <1>3, <2>1, Zenon DEF Shape
<1>5. Len(q) <= 2 * MAX_OPS
  <2>1. Len(q) - 1 < 2 * MAX_OPS
    BY <1>2, <1>3 DEF Shape
  <2>. QED  BY <1>2, <2>1
<1>6. Real(q) = DOMAIN q
  BY <1>4, Zenon DEF Real
<1>7. EnqueueHead(q, a) = r
  <2>. DEFINE f == CHOOSE i \in Real(q) : \A j \in Real(q) : i <= j
  <2>1. f = 1
    <3>1. 1 \in Real(q) /\ \A j \in Real(q) : 1 <= j
      BY <1>2, <1>6
    <3>2. \A i \in Real(q) : (\A j \in Real(q) : i <= j) => i = 1
      BY <1>2, <1>6
    <3>. QED  BY <3>1, <3>2, Zenon
  <2>2. EnqueueHead(q, a) = SubSeq(q, 1, f - 1) \o a \o SubSeq(q, f, Len(q))
    BY <1>2, <1>6 DEF EnqueueHead
  <2>. HIDE DEF f
  <2>3. SubSeq(q, 1, 0) = << >> /\ SubSeq(q, 1, Len(q)) = q
    BY <1>2
  <2>4. EnqueueHead(q, a) = SubSeq(q, 1, 0) \o a \o SubSeq(q, 1, Len(q))
    BY <2>1, <2>2
  <2>5. << >> \o a = a
    BY <1>1
  <2>. QED  BY <2>3, <2>4, <2>5
<1>8. /\ r \in Seq(Element) /\ Len(r) = Len(a) + Len(q)
      /\ DOMAIN r = 1 .. Len(a) + Len(q)
      /\ \A i \in DOMAIN r : r[i] = IF i <= Len(a) THEN a[i] ELSE q[i - Len(a)]
  BY <1>1, <1>2
<1>. HIDE DEF r
<1>9. \A i \in DOMAIN r : i \in Nat /\ i >= 1
  BY <1>2, <1>8
<1>10. \A i \in DOMAIN r : IF i <= Len(a) THEN i \in DOMAIN a ELSE i - Len(a) \in DOMAIN q
  BY <1>2, <1>8
<1>11. \A i \in DOMAIN r : /\ i <= Len(a) => r[i].dummy
                           /\ ~(i <= Len(a)) => ~r[i].dummy
  <2>. TAKE i \in DOMAIN r
  <2>1. ASSUME i <= Len(a) PROVE r[i].dummy
    BY <1>1, <1>8, <1>10, <2>1, Zenon
  <2>2. ASSUME ~(i <= Len(a)) PROVE ~r[i].dummy
    BY <1>4, <1>8, <1>10, <2>2, Zenon
  <2>. QED  BY <2>1, <2>2
<1>12. \A i, j \in DOMAIN r : i < j /\ r[j].dummy => r[i].dummy
  <2>. SUFFICES ASSUME NEW i \in DOMAIN r, NEW j \in DOMAIN r, i < j, r[j].dummy
                PROVE  r[i].dummy
    OBVIOUS
  <2>1. j <= Len(a)
    BY <1>11
  <2>2. i <= Len(a)
    BY <1>2, <1>9, <2>1
  <2>. QED  BY <1>11, <2>2
<1>13. \A i \in DOMAIN r : i > 1 /\ ~r[i].beginning => r[i - 1].dummy = r[i].dummy
  <2>. SUFFICES ASSUME NEW i \in DOMAIN r, i > 1, ~r[i].beginning
                PROVE  r[i - 1].dummy = r[i].dummy
    OBVIOUS
  <2>1. CASE i <= Len(a)
    <3>1. i - 1 \in DOMAIN a /\ i \in DOMAIN a /\ i - 1 \in DOMAIN r /\ i - 1 <= Len(a)
      BY <1>2, <1>8, <2>1
    <3>2. r[i - 1] = a[i - 1] /\ r[i] = a[i]
      BY <1>8, <2>1, <3>1, Zenon
    <3>. QED  BY <1>1, <3>1, <3>2, Zenon
  <2>2. CASE i = Len(a) + 1
    <3>1. ~(i <= Len(a)) /\ i - Len(a) = 1
      BY <1>2, <2>2
    <3>2. r[i] = q[1]
      BY <1>8, <3>1, Zenon
    <3>. QED  BY <1>3, <3>2, Zenon
  <2>3. CASE i > Len(a) + 1
    <3>. DEFINE k == i - Len(a)
    <3>1. /\ ~(i <= Len(a)) /\ ~(i - 1 <= Len(a)) /\ i - 1 \in DOMAIN r
          /\ k \in DOMAIN q /\ k > 1 /\ (i - 1) - Len(a) = k - 1
      BY <1>2, <1>8, <2>3
    <3>. HIDE DEF k
    <3>2. r[i] = q[k] /\ r[i - 1] = q[k - 1]
      <4>1. r[i] = q[k]
        BY <1>8, <3>1, Zenon DEF k
      <4>2. r[i - 1] = q[k - 1]
        BY <1>8, <3>1
      <4>. QED  BY <4>1, <4>2
    <3>3. ~q[k].beginning
      BY <3>2
    <3>4. q[k - 1].dummy = q[k].dummy
      BY <3>1, <3>3, Zenon DEF Shape
    <3>. QED  BY <3>2, <3>4, Zenon
  <2>. QED  BY <1>2, <1>9, <2>1, <2>2, <2>3
<1>14. \A i \in DOMAIN r : ~r[i].dummy => Len(r) - i < 2 * MAX_OPS
  <2>. SUFFICES ASSUME NEW i \in DOMAIN r, ~r[i].dummy
                PROVE  Len(r) - i < 2 * MAX_OPS
    OBVIOUS
  <2>1. ~(i <= Len(a))
    BY <1>11
  <2>. QED  BY <1>2, <1>5, <1>8, <1>9, <2>1
<1>15. Shape(r)
  BY <1>12, <1>13, <1>14 DEF Shape
<1>16. r # << >>
  BY <1>2, <1>8
<1>. QED  BY <1>2, <1>5, <1>6, <1>7, <1>8, <1>15, <1>16 DEF a, r

-------------------------------------------------------------------------------
LEMMA InvInit == Init => Inv
<1>. SUFFICES ASSUME Init PROVE Inv
  OBVIOUS
<1>1. TypeOK
  <2>1. LLC \in [Way -> [valid : BOOLEAN, addr : Addr \cup {NONE}, dirty : BOOLEAN]]
    BY DEF Init
  <2>2. req \in Request
    BY DEF Init, Request, Type
  <2>3. QueueTypeOK
    <3>1. << >> \in Seq(Element)
      OBVIOUS
    <3>. QED  BY <3>1 DEF Init, QueueTypeOK, Failures
  <2>4. LRU \in [Way -> Nat] /\ used \in [Addr -> Nat]
    BY DEF Init
  <2>5. cache_clk \in Nat /\ tracectr \in 0 .. TRACE_SIZE
    BY TraceAssumption DEF Init
  <2>6. /\ no_miss_occured \in BOOLEAN /\ skip_invokation \in BOOLEAN /\ exited \in BOOLEAN
        /\ waited_for_evicted \in Request \cup {NONE}
        /\ pc \in { "turn", "cycle", "read", "invoke", "done" }
        /\ missed \subseteq Nat /\ owed \subseteq Addr
    BY DEF Init
  <2>. QED  BY <2>1, <2>2, <2>3, <2>4, <2>5, <2>6, Zenon DEF TypeOK
<1>2. QueueInv
  BY AloneShape DEF Init, QueueInv
<1>3. CacheInv
  <2>1. /\ \A j \in Way : LRU[j] = 0 /\ ~LLC[j].valid
        /\ cache_clk = 0
    BY DEF Init
  <2>. QED  BY <2>1 DEF CacheInv
<1>4. NoFailure
  BY DEF Init, NoFailure
<1>. QED  BY <1>1, <1>2, <1>3, <1>4 DEF Inv

(* What the fetch loop does to the queue.                                  *)
LEMMA FetchQueue ==
  ASSUME TypeOK, Shape(oramQ), Fetch
  PROVE  /\ QueueTypeOK' /\ Shape(oramQ)'
         /\ QueueFits => failure' = failure
<1>1. /\ oramQ \in Seq(Element) /\ oramQ # << >>
      /\ ring_dummy \in BOOLEAN /\ failure \in Failures
  BY DEF TypeOK, QueueTypeOK, Fetch, FetchHead, FetchDummy
<1>2. Tail(oramQ) \in Seq(Element) /\ Shape(Tail(oramQ))
  BY <1>1, TailShape
<1>3. CASE FetchHead
  <2>1. oramQ' = Tail(oramQ) /\ failure' = failure /\ ring_dummy' \in BOOLEAN
    BY <1>1, <1>3 DEF FetchHead
  <2>. QED  BY <1>1, <1>2, <2>1 DEF QueueTypeOK
<1>4. CASE \E ops \in Operations : FetchDummy(ops)
  <2>1. PICK ops \in Operations : FetchDummy(ops)
    BY <1>4
  <2>. DEFINE a == Access(TRUE, ops)
              r == a \o oramQ
  <2>2. Compared(Head(oramQ))
    BY <2>1 DEF FetchDummy
  <2>3. /\ Real(oramQ) # {} /\ Len(oramQ) <= 2 * MAX_OPS
        /\ EnqueueHead(oramQ, a) = r
        /\ r \in Seq(Element) /\ r # << >> /\ Shape(r)
    BY <1>1, <2>2, FrontShape
  <2>4. Tail(r) \in Seq(Element) /\ Shape(Tail(r))
    <3>. HIDE DEF r
    <3>. QED  BY <2>3, TailShape
  <2>5. QueueFits => ~Refused(oramQ, a)
    <3>1. Len(a) \in 1 .. 2 * MAX_OPS
      BY AccessElements
    <3>2. Len(oramQ) \in Nat
      BY <1>1
    <3>. HIDE DEF a
    <3>. QED  BY <2>3, <3>1, <3>2, QueueAssumption DEF QueueFits, Refused
  <2>. HIDE DEF a, r
  <2>6. oramQ' \in { Tail(oramQ), oramQ, Tail(r) }
    BY <2>1, <2>3 DEF FetchDummy, a
  <2>7. failure' \in { failure, "queue full" } /\ (QueueFits => failure' = failure)
    BY <2>1, <2>3, <2>5 DEF FetchDummy, a
  <2>8. ring_dummy' = TRUE
    BY <2>1 DEF FetchDummy
  <2>9. oramQ' \in Seq(Element) /\ Shape(oramQ)'
    BY <1>1, <1>2, <2>4, <2>6
  <2>. QED  BY <1>1, <2>7, <2>8, <2>9 DEF QueueTypeOK, Failures
<1>. QED  BY <1>3, <1>4 DEF Fetch

(* What an invocation of the ORAM does to an empty queue.                  *)
LEMMA AddToEmpty ==
  ASSUME TypeOK, oramQ = << >>, NEW ops \in Operations \cup { << >> }, AddAccess(ops)
  PROVE  /\ QueueTypeOK' /\ Shape(oramQ)'
         /\ QueueFits => failure' = failure
<1>. DEFINE a == Access(FALSE, ops)
<1>1. /\ a \in Seq(Element) /\ Shape(a)
      /\ Len(a) \in Nat /\ Len(a) <= 2 * MAX_OPS
  <2>1. CASE ops \in Operations
    <3>1. /\ a \in Seq(Element) /\ Shape(a) /\ Len(a) \in 1 .. 2 * MAX_OPS
      BY <2>1, AccessElements, AloneShape
    <3>. HIDE DEF a
    <3>. QED  BY <3>1, QueueAssumption
  <2>2. CASE ops = << >>
    <3>1. a = << >>
      BY <2>2 DEF Access
    <3>. HIDE DEF a
    <3>. QED  BY <3>1, AloneShape, QueueAssumption
  <2>. QED  BY <2>1, <2>2
<1>. HIDE DEF a
<1>2. Enqueue(oramQ, a) = a
  <2>1. << >> \o a = a
    BY <1>1
  <2>. QED  BY <2>1 DEF Enqueue
<1>3. QueueFits => ~Refused(oramQ, a)
  <2>1. Len(oramQ) = 0
    OBVIOUS
  <2>. QED  BY <1>1, <2>1, QueueAssumption DEF QueueFits, Refused
<1>4. oramQ' \in { << >>, a }
  <2>1. oramQ' = IF Refused(oramQ, a) THEN oramQ ELSE Enqueue(oramQ, a)
    BY Zenon DEF AddAccess, a
  <2>. QED  BY <1>2, <2>1
<1>5. /\ failure' \in { failure, "queue full" } /\ (QueueFits => failure' = failure)
      /\ ring_dummy' = ring_dummy
  <2>1. /\ failure' = IF Refused(oramQ, a) THEN "queue full" ELSE failure
        /\ ring_dummy' = ring_dummy
    BY Zenon DEF AddAccess, a
  <2>. QED  BY <1>3, <2>1
<1>6. oramQ' \in Seq(Element) /\ Shape(oramQ)'
  <2>1. << >> \in Seq(Element)
    OBVIOUS
  <2>. QED  BY <1>1, <1>4, <2>1, AloneShape
<1>. QED  BY <1>5, <1>6 DEF QueueTypeOK, TypeOK, Failures

(* A way is found for every line that misses.                              *)
LEMMA WayFound ==
  ASSUME TypeOK, CacheInv
  PROVE  /\ WayFor(Tick) \in Way /\ WayFor(Tick) # -1
         /\ Spots # {} => WayFor(Tick) \in Spots
         /\ Spots = {} => \A i \in Way : LRU[WayFor(Tick)] <= LRU[i]
<1>1. /\ LRU \in [Way -> Nat] /\ Tick \in Nat
      /\ \A j \in Way : LRU[j] < Tick
  BY DEF TypeOK, CacheInv, Tick
<1>2. CASE Spots # {}
  <2>1. WayFor(Tick) = Lowest(Spots) /\ Spots \in SUBSET Way
    BY <1>2 DEF WayFor, Spots
  <2>2. Lowest(Spots) \in Spots
    BY <1>2, <2>1, LowestWay
  <2>3. WayFor(Tick) \in Way
    BY <2>1, <2>2
  <2>. QED  BY <1>2, <2>1, <2>2, <2>3, TraceAssumption DEF Way
<1>3. CASE Spots = {}
  <2>1. WayFor(Tick) = find_victim(Tick)
    BY <1>3 DEF WayFor
  <2>2. find_victim(Tick) \in Way /\ \A i \in Way : LRU[find_victim(Tick)] <= LRU[i]
    BY <1>1, VictimWay
  <2>3. WayFor(Tick) \in Way
    BY <2>1, <2>2
  <2>. QED  BY <1>3, <2>1, <2>2, <2>3, TraceAssumption DEF Way
<1>. QED  BY <1>2, <1>3

(* A line that misses.                                                     *)
LEMMA MissStep ==
  ASSUME Inv, NEW a \in Addr, NEW t \in Type, ReadMiss(a, t)
  PROVE  Inv'
<1>. DEFINE w == WayFor(Tick)
<1>1. TypeOK /\ CacheInv /\ QueueInv /\ NoFailure
  BY DEF Inv
<1>2. /\ w \in Way /\ w # -1
      /\ Hit(a) = {} /\ Tick \in Nat
      /\ \A j \in Way : LRU[j] < Tick
      /\ cache_clk' = Tick
  <2>1. w \in Way /\ w # -1
    BY <1>1, WayFound
  <2>2. Tick \in Nat /\ \A j \in Way : LRU[j] < Tick
    BY <1>1 DEF TypeOK, CacheInv, Tick
  <2>. HIDE DEF w
  <2>. QED  BY <2>1, <2>2 DEF ReadMiss
<1>3. /\ exited' = FALSE
      /\ LLC' = [LLC EXCEPT ![w] = [valid |-> TRUE, addr |-> a, dirty |-> Dirtied(t)]]
      /\ LRU' = [LRU EXCEPT ![w] = Tick]
      /\ used' = [used EXCEPT ![a] = Tick]
  BY <1>2 DEF ReadMiss, cache_fill
<1>4. UNCHANGED << skip_invokation, pc, oramQ, ring_dummy, failure >>
  BY DEF ReadMiss, queueVars
<1>. HIDE DEF w
<1>5. /\ Dirtied(t) \in BOOLEAN
      /\ LLC' \in [Way -> [valid : BOOLEAN, addr : Addr \cup {NONE}, dirty : BOOLEAN]]
      /\ LRU' \in [Way -> Nat] /\ used' \in [Addr -> Nat]
  <2>1. Dirtied(t) \in BOOLEAN
    BY TraceAssumption DEF Dirtied
  <2>2. [valid |-> TRUE, addr |-> a, dirty |-> Dirtied(t)]
           \in [valid : BOOLEAN, addr : Addr \cup {NONE}, dirty : BOOLEAN]
    BY <2>1
  <2>3. LLC \in [Way -> [valid : BOOLEAN, addr : Addr \cup {NONE}, dirty : BOOLEAN]]
    BY <1>1 DEF TypeOK
  <2>4. LRU \in [Way -> Nat] /\ used \in [Addr -> Nat]
    BY <1>1 DEF TypeOK
  <2>. QED  BY <1>2, <1>3, <2>1, <2>2, <2>3, <2>4
<1>. DEFINE victim == Replaced(Tick)
            r == [addr |-> a, type |-> t, line |-> Tick]
<1>6. victim \in Addr \cup {NONE} /\ r \in Request
  <2>1. victim \in Addr \cup {NONE}
    BY <1>1, <1>2 DEF Replaced, TypeOK, w
  <2>2. r \in Request
    BY <1>2 DEF Request
  <2>. QED  BY <2>1, <2>2
<1>7. /\ req' \in { r, [addr |-> victim, type |-> "W", line |-> 0] }
      /\ waited_for_evicted' \in { NONE, r }
      /\ no_miss_occured' = InWarmup(tracectr')
      /\ missed' \in { missed, missed \cup { Tick } }
      /\ owed' \in { owed, owed \cup ({ victim } \ {NONE}) }
  BY <1>2 DEF ReadMiss, Wait
<1>8. tracectr' \in 0 .. TRACE_SIZE
  <2>1. tracectr' = tracectr + 1 /\ tracectr < TRACE_SIZE
    BY DEF ReadMiss, more_trace
  <2>. QED  BY <1>1, <2>1, TraceAssumption DEF TypeOK
<1>. HIDE DEF victim, r
<1>9. TypeOK'
  <2>1. req' \in Request
    BY <1>6, <1>7 DEF Request, Type
  <2>2. waited_for_evicted' \in Request \cup {NONE}
    BY <1>6, <1>7
  <2>3. no_miss_occured' \in BOOLEAN
    BY <1>7 DEF InWarmup
  <2>4. missed' \subseteq Nat /\ owed' \subseteq Addr
    BY <1>1, <1>2, <1>6, <1>7 DEF TypeOK
  <2>5. QueueTypeOK' /\ skip_invokation' \in BOOLEAN
        /\ pc' \in { "turn", "cycle", "read", "invoke", "done" }
    BY <1>1, <1>4 DEF TypeOK, QueueTypeOK
  <2>6. cache_clk' \in Nat /\ exited' \in BOOLEAN
    BY <1>2, <1>3
  <2>. QED  BY <1>5, <1>8, <2>1, <2>2, <2>3, <2>4, <2>5, <2>6, Zenon DEF TypeOK
<1>10. QueueInv'
  BY <1>1, <1>4 DEF QueueInv
<1>11. CacheInv'
  <2>1. \A j \in Way : /\ j = w => LLC'[j] = [valid |-> TRUE, addr |-> a, dirty |-> Dirtied(t)] /\ LRU'[j] = Tick
                       /\ j # w => LLC'[j] = LLC[j] /\ LRU'[j] = LRU[j]
    BY <1>1, <1>3 DEF TypeOK
  <2>2. \A j \in Way : LLC[j].valid => LLC[j].addr # a
    BY <1>2 DEF Hit
  <2>3. \A j \in Way : LRU'[j] <= cache_clk'
    BY <1>1, <1>2, <2>1 DEF TypeOK, CacheInv, Tick
  <2>4. \A j \in Way : LLC'[j].valid => LLC'[j].addr \in Addr /\ used'[LLC'[j].addr] = LRU'[j]
    BY <1>1, <1>3, <2>1, <2>2 DEF TypeOK, CacheInv
  <2>5. \A i, j \in Way : LLC'[i].valid /\ LLC'[j].valid /\ LLC'[i].addr = LLC'[j].addr => i = j
    BY <1>1, <2>1, <2>2 DEF CacheInv
  <2>. QED  BY <2>3, <2>4, <2>5 DEF CacheInv
<1>12. NoFailure'
  BY <1>1, <1>3, <1>4 DEF NoFailure
<1>. QED  BY <1>9, <1>10, <1>11, <1>12 DEF Inv

(* A line that hits.                                                       *)
LEMMA HitStep ==
  ASSUME Inv, NEW a \in Addr, NEW t \in Type, ReadHit(a, t)
  PROVE  Inv'
<1>1. TypeOK /\ CacheInv /\ QueueInv /\ NoFailure
  BY DEF Inv
<1>2. /\ Tick \in Nat /\ cache_clk' = Tick
      /\ \A j \in Way : LRU[j] < Tick
      /\ LRU \in [Way -> Nat] /\ used \in [Addr -> Nat]
  BY <1>1 DEF TypeOK, CacheInv, Tick, ReadHit
<1>3. UNCHANGED << exited, waited_for_evicted, missed, owed, no_miss_occured,
                   skip_invokation, pc, oramQ, ring_dummy, failure >>
  BY DEF ReadHit, queueVars
<1>4. /\ tracectr' \in 0 .. TRACE_SIZE
      /\ req' \in Request
  <2>1. tracectr' = tracectr + 1 /\ tracectr < TRACE_SIZE
    BY DEF ReadHit, more_trace
  <2>2. req' = [addr |-> a, type |-> t, line |-> Tick]
    BY <1>2 DEF ReadHit
  <2>. QED  BY <1>1, <1>2, <2>1, <2>2, TraceAssumption DEF TypeOK, Request
<1>5. QueueInv' /\ NoFailure'
  BY <1>1, <1>3 DEF QueueInv, NoFailure
<1>6. /\ LLC' \in [Way -> [valid : BOOLEAN, addr : Addr \cup {NONE}, dirty : BOOLEAN]]
      /\ LRU' \in [Way -> Nat] /\ used' \in [Addr -> Nat]
      /\ CacheInv'
  <2>1. CASE Hit(a) = {}
    <3>1. LLC' = LLC /\ LRU' = LRU /\ used' = used
      BY <2>1 DEF ReadHit, cache_access
    <3>2. \A j \in Way : LRU[j] <= Tick
      BY <1>2
    <3>. QED  BY <1>1, <1>2, <3>1, <3>2 DEF TypeOK, CacheInv
  <2>2. CASE Hit(a) # {}
    <3>. DEFINE w == Lowest(Hit(a))
    <3>1. w \in Way /\ LLC[w].valid /\ LLC[w].addr = a
      <4>1. Hit(a) \in SUBSET Way
        BY DEF Hit
      <4>2. w \in Hit(a)
        BY <2>2, <4>1, LowestWay
      <4>. HIDE DEF w
      <4>. QED  BY <4>2 DEF Hit
    <3>2. /\ LLC' = [LLC EXCEPT ![w].dirty = @ \/ Dirtied(t)]
          /\ LRU' = [LRU EXCEPT ![w] = Tick]
          /\ used' = [used EXCEPT ![a] = Tick]
      BY <1>2, <2>2 DEF ReadHit, cache_access
    <3>. HIDE DEF w
    <3>3. /\ LLC' \in [Way -> [valid : BOOLEAN, addr : Addr \cup {NONE}, dirty : BOOLEAN]]
          /\ \A j \in Way : LLC'[j].valid = LLC[j].valid /\ LLC'[j].addr = LLC[j].addr
      <4>1. LLC \in [Way -> [valid : BOOLEAN, addr : Addr \cup {NONE}, dirty : BOOLEAN]]
        BY <1>1 DEF TypeOK
      <4>2. Dirtied(t) \in BOOLEAN
        BY TraceAssumption DEF Dirtied
      <4>. QED  BY <3>1, <3>2, <4>1, <4>2
    <3>4. LRU' \in [Way -> Nat] /\ used' \in [Addr -> Nat]
      BY <1>2, <3>2
    <3>5. \A j \in Way : /\ j = w => LRU'[j] = Tick
                         /\ j # w => LRU'[j] = LRU[j]
      BY <1>2, <3>2
    <3>6. \A j \in Way : LRU'[j] <= cache_clk'
      BY <1>2, <3>5
    <3>7. \A j \in Way : LLC'[j].valid => LLC'[j].addr \in Addr /\ used'[LLC'[j].addr] = LRU'[j]
      <4>. SUFFICES ASSUME NEW j \in Way, LLC[j].valid
                    PROVE  LLC[j].addr \in Addr /\ used'[LLC[j].addr] = LRU'[j]
        BY <3>3
      <4>1. LLC[j].addr \in Addr /\ used[LLC[j].addr] = LRU[j]
        BY <1>1 DEF CacheInv
      <4>2. j # w => LLC[j].addr # a
        BY <1>1, <3>1 DEF CacheInv
      <4>. QED  BY <1>2, <3>1, <3>2, <3>5, <4>1, <4>2
    <3>8. \A i, j \in Way : LLC'[i].valid /\ LLC'[j].valid /\ LLC'[i].addr = LLC'[j].addr => i = j
      BY <1>1, <3>3 DEF CacheInv
    <3>. QED  BY <3>3, <3>4, <3>6, <3>7, <3>8 DEF CacheInv
  <2>. QED  BY <2>1, <2>2
<1>7. TypeOK'
  <2>1. /\ QueueTypeOK' /\ skip_invokation' \in BOOLEAN /\ exited' \in BOOLEAN
        /\ no_miss_occured' \in BOOLEAN /\ waited_for_evicted' \in Request \cup {NONE}
        /\ pc' \in { "turn", "cycle", "read", "invoke", "done" }
        /\ missed' \subseteq Nat /\ owed' \subseteq Addr
    BY <1>1, <1>3 DEF TypeOK, QueueTypeOK
  <2>2. cache_clk' \in Nat
    BY <1>2
  <2>. QED  BY <1>4, <1>6, <2>1, <2>2, Zenon DEF TypeOK
<1>. QED  BY <1>5, <1>6, <1>7 DEF Inv

LEMMA InvNext == Inv /\ [Next]_vars => Inv'
<1>. SUFFICES ASSUME Inv, [Next]_vars PROVE Inv'
  OBVIOUS
<1>1. TypeOK /\ CacheInv /\ QueueInv /\ NoFailure
  BY DEF Inv
<1>2. Shape(oramQ)
  BY <1>1 DEF QueueInv
<1>. DEFINE Rest ==
       /\ cache_clk' \in Nat /\ tracectr' \in 0 .. TRACE_SIZE
       /\ no_miss_occured' \in BOOLEAN
       /\ req' \in Request /\ waited_for_evicted' \in Request \cup {NONE}
       /\ skip_invokation' \in BOOLEAN
       /\ pc' \in { "turn", "cycle", "read", "invoke", "done" }
       /\ missed' \subseteq Nat /\ owed' \subseteq Addr
       /\ \A j \in Way : LRU[j] <= cache_clk'
       /\ UNCHANGED cacheVars
     Queue ==
       /\ QueueTypeOK' /\ Shape(oramQ)'
       /\ QueueFits => failure' = failure
       /\ pc' \in { "read", "invoke" } /\ ~skip_invokation' => oramQ' = << >>
<1>3. ASSUME Rest, Queue
      PROVE  Inv'
  <2>1. /\ LLC' = LLC /\ LRU' = LRU /\ used' = used /\ exited' = exited
    BY <1>3 DEF cacheVars
  <2>2. CacheInv'
    BY <1>1, <1>3, <2>1 DEF CacheInv
  <2>3. NoFailure'
    BY <1>1, <1>3, <2>1 DEF NoFailure
  <2>4. QueueInv'
    BY <1>3 DEF QueueInv
  <2>5. /\ LLC' \in [Way -> [valid : BOOLEAN, addr : Addr \cup {NONE}, dirty : BOOLEAN]]
        /\ LRU' \in [Way -> Nat] /\ used' \in [Addr -> Nat] /\ exited' \in BOOLEAN
    BY <1>1, <2>1 DEF TypeOK
  <2>6. TypeOK'
    BY <1>3, <2>5, Zenon DEF TypeOK
  <2>. QED  BY <2>2, <2>3, <2>4, <2>6 DEF Inv
<1>4. /\ cache_clk \in Nat /\ tracectr \in 0 .. TRACE_SIZE /\ Tick \in Nat
      /\ no_miss_occured \in BOOLEAN
      /\ req \in Request /\ waited_for_evicted \in Request \cup {NONE}
      /\ skip_invokation \in BOOLEAN
      /\ pc \in { "turn", "cycle", "read", "invoke", "done" }
      /\ missed \subseteq Nat /\ owed \subseteq Addr
      /\ \A j \in Way : LRU[j] <= cache_clk /\ LRU[j] <= Tick
      /\ QueueTypeOK
  BY <1>1 DEF TypeOK, CacheInv, Tick
<1>5. ASSUME UNCHANGED << oramQ, ring_dummy, failure >>,
             pc' \in { "read", "invoke" } /\ ~skip_invokation' => oramQ = << >>
      PROVE  Queue
  BY <1>2, <1>4, <1>5 DEF QueueTypeOK
<1>6. CASE NewCycle
  <2>1. Rest
    BY <1>4, <1>6 DEF NewCycle, traceVars, requestVars
  <2>2. Queue
    BY <1>5, <1>6 DEF NewCycle, queueVars
  <2>. QED  BY <1>3, <2>1, <2>2
<1>7. CASE Turn
  <2>1. Rest
    BY <1>4, <1>7 DEF Turn, traceVars, requestVars
  <2>2. Queue
    <3>1. CASE skip_invokation' = FALSE /\ UNCHANGED queueVars
      BY <1>5, <1>7, <3>1 DEF Turn, queueVars
    <3>2. CASE skip_invokation' = TRUE /\ AddAccess(<< Forward >>)
      <4>1. << Forward >> \in Operations
        <5>1. 1 \in 1 .. MAX_OPS
          BY QueueAssumption
        <5>2. << Forward >> \in [1 .. 1 -> { Forward, Eviction }] /\ << Forward >>[1] = Forward
          OBVIOUS
        <5>. QED  BY <5>1, <5>2 DEF Operations
      <4>2. oramQ = << >>
        BY <1>7 DEF Turn
      <4>3. /\ QueueTypeOK' /\ Shape(oramQ)'
            /\ QueueFits => failure' = failure
        BY <1>1, <3>2, <4>1, <4>2, AddToEmpty
      <4>. QED  BY <3>2, <4>3
    <3>. QED  BY <1>7, <3>1, <3>2 DEF Turn
  <2>. QED  BY <1>3, <2>1, <2>2
<1>8. CASE Fetch
  <2>1. Rest
    BY <1>4, <1>8 DEF Fetch, traceVars, requestVars
  <2>2. Queue
    BY <1>1, <1>2, <1>8, FetchQueue DEF Fetch
  <2>. QED  BY <1>3, <2>1, <2>2
<1>9. CASE RestoreWaiting
  <2>1. Rest
    BY <1>4, <1>9 DEF RestoreWaiting
  <2>2. Queue
    BY <1>1, <1>5, <1>9 DEF RestoreWaiting, queueVars, QueueInv, At
  <2>. QED  BY <1>3, <2>1, <2>2
<1>10. CASE \E a \in Addr, t \in Type : ReadHit(a, t)
  BY <1>10, HitStep
<1>11. CASE \E a \in Addr, t \in Type : ReadMiss(a, t)
  BY <1>11, MissStep
<1>12. CASE TraceDone
  <2>1. Rest
    BY <1>4, <1>12 DEF TraceDone, requestVars
  <2>2. Queue
    BY <1>1, <1>5, <1>12 DEF TraceDone, queueVars, QueueInv, At
  <2>. QED  BY <1>3, <2>1, <2>2
<1>13. CASE invoke_oram
  <2>1. Rest
    <3>1. missed' \subseteq missed /\ owed' \subseteq owed
      BY <1>13 DEF invoke_oram
    <3>. QED  BY <1>4, <1>13, <3>1 DEF invoke_oram, traceVars
  <2>2. Queue
    <3>1. CASE skip_invokation
      BY <1>5, <1>13, <3>1 DEF invoke_oram, queueVars
    <3>2. CASE ~skip_invokation
      <4>1. oramQ = << >>
        BY <1>1, <1>13, <3>2 DEF invoke_oram, QueueInv, At
      <4>2. PICK ops \in Operations \cup { << >> } : AddAccess(ops)
        BY <1>13, <3>2 DEF invoke_oram
      <4>3. /\ QueueTypeOK' /\ Shape(oramQ)'
            /\ QueueFits => failure' = failure
        BY <1>1, <4>1, <4>2, AddToEmpty
      <4>. QED  BY <1>13, <4>3 DEF invoke_oram
    <3>. QED  BY <3>1, <3>2
  <2>. QED  BY <1>3, <2>1, <2>2
<1>14. CASE UNCHANGED vars
  BY <1>1, <1>14 DEF vars, Inv, TypeOK, QueueInv, CacheInv, NoFailure, QueueTypeOK
<1>. QED  BY <1>6, <1>7, <1>8, <1>9, <1>10, <1>11, <1>12, <1>13, <1>14 DEF Next

-------------------------------------------------------------------------------
(* Inv is an inductive invariant of the trace loop.                        *)
THEOREM Inductive == Spec => []Inv
<1>1. Init => Inv
  BY InvInit
<1>2. Inv /\ [Next]_vars => Inv'
  BY InvNext
<1>. QED  BY <1>1, <1>2, PTL DEF Spec

(* The variables keep their types, whatever the queue is asked to hold.    *)
THEOREM TypeCorrect == Spec => []TypeOK
<1>1. Inv => TypeOK
  BY DEF Inv
<1>. QED  BY <1>1, Inductive, PTL

(* A queue with room for an access and a dummy access in front never       *)
(* overflows, EnqueueHead never passes its end, and cache_fill always      *)
(* finds a way.                                                            *)
THEOREM Unfailing == Spec => [](QueueFits => NeverFails)
<1>1. Inv => (QueueFits => NeverFails)
  BY DEF Inv, NoFailure, NeverFails
<1>. QED  BY <1>1, Inductive, PTL

(* No dummy access comes into the middle of an operation, even in a queue  *)
(* too small for it.                                                       *)
THEOREM OperationsKept == Spec => []OperationsWhole
<1>1. Inv => OperationsWhole
  BY DEF Inv, QueueInv, Shape, OperationsWhole
<1>. QED  BY <1>1, Inductive, PTL

(* A fill drops the block whose last use is the longest ago.               *)
THEOREM OldestDropped == Spec => VictimIsOldest
<1>. DEFINE A == \A j, i \in Way :
                   LLC[j].valid /\ LLC[i].valid /\ LLC'[j].addr # LLC[j].addr =>
                     used[LLC[j].addr] <= used[LLC[i].addr]
<1>1. Inv /\ [Next]_vars => [A]_vars
  <2>. SUFFICES ASSUME Inv, Next, NEW j \in Way, NEW i \in Way, LLC[j].valid, LLC[i].valid,
                       LLC'[j].addr # LLC[j].addr
                PROVE  used[LLC[j].addr] <= used[LLC[i].addr]
    OBVIOUS
  <2>1. TypeOK /\ CacheInv
    BY DEF Inv
  <2>2. ASSUME UNCHANGED LLC
        PROVE  FALSE
    BY <2>2
  <2>3. ASSUME NEW a \in Addr, NEW t \in Type, ReadHit(a, t)
        PROVE  FALSE
    <3>1. CASE Hit(a) = {}
      BY <2>2, <2>3, <3>1 DEF ReadHit, cache_access
    <3>2. CASE Hit(a) # {}
      <4>1. PICK w : LLC' = [LLC EXCEPT ![w].dirty = @ \/ Dirtied(t)]
        BY <2>3, <3>2 DEF ReadHit, cache_access
      <4>2. LLC'[j].addr = LLC[j].addr
        BY <2>1, <4>1 DEF TypeOK
      <4>. QED  BY <4>2
    <3>. QED  BY <3>1, <3>2
  <2>4. ASSUME NEW a \in Addr, NEW t \in Type, ReadMiss(a, t)
        PROVE  used[LLC[j].addr] <= used[LLC[i].addr]
    <3>. DEFINE w == WayFor(Tick)
    <3>1. /\ w \in Way /\ w # -1
          /\ Spots # {} => w \in Spots
          /\ Spots = {} => \A k \in Way : LRU[w] <= LRU[k]
      BY <2>1, WayFound
    <3>2. LLC' = [LLC EXCEPT ![w] = [valid |-> TRUE, addr |-> a, dirty |-> Dirtied(t)]]
      BY <2>4, <3>1 DEF ReadMiss, cache_fill
    <3>. HIDE DEF w
    <3>3. j = w
      BY <2>1, <3>2 DEF TypeOK
    <3>4. Spots = {}
      BY <3>1, <3>3 DEF Spots
    <3>5. used[LLC[j].addr] = LRU[j] /\ used[LLC[i].addr] = LRU[i]
      BY <2>1 DEF CacheInv
    <3>. QED  BY <3>1, <3>3, <3>4, <3>5
  <2>5. CASE NewCycle \/ Turn \/ Fetch \/ RestoreWaiting \/ TraceDone \/ invoke_oram
    BY <2>2, <2>5 DEF NewCycle, Turn, Fetch, RestoreWaiting, TraceDone, invoke_oram, cacheVars
  <2>. QED  BY <2>3, <2>4, <2>5 DEF Next
<1>. QED  BY <1>1, Inductive, PTL DEF Spec, VictimIsOldest

-------------------------------------------------------------------------------
(* What SetToSeq makes of sets of no and of one element.                   *)
LEMMA SmallSeqs ==
  /\ SetToSeq({}) = << >>
  /\ \A x : SetToSeq({x}) = << x >>
<1>1. SetToSeq({}) = << >>
  <2>1. Cardinality({}) = 0
    BY FS_EmptySet
  <2>2. \A f \in [1 .. 0 -> {}] : f = << >>
    OBVIOUS
  <2>3. << >> \in [1 .. 0 -> {}] /\ IsInjective(<< >>)
    BY DEF IsInjective
  <2>. QED  BY <2>1, <2>2, <2>3 DEF SetToSeq
<1>2. ASSUME NEW x PROVE SetToSeq({x}) = << x >>
  <2>1. Cardinality({x}) = 1
    BY FS_Singleton
  <2>2. \A f \in [1 .. 1 -> {x}] : f = << x >>
    <3>. TAKE f \in [1 .. 1 -> {x}]
    <3>1. f = [i \in 1 .. 1 |-> x]
      OBVIOUS
    <3>2. << x >> = [i \in 1 .. 1 |-> x]
      OBVIOUS
    <3>. QED  BY <3>1, <3>2
  <2>3. << x >> \in [1 .. 1 -> {x}] /\ IsInjective(<< x >>)
    BY DEF IsInjective
  <2>. QED  BY <2>1, <2>2, <2>3 DEF SetToSeq
<1>. QED  BY <1>1, <1>2

(* pending in the states that RequestInv leaves.                           *)
AWrite(a) == [kind |-> "write", of |-> a]
AMiss(n) == [kind |-> "miss", of |-> n]

Owing(o, m) == SetToSeq({ AWrite(a) : a \in o }) \o SetToSeq({ AMiss(n) : n \in m })

LEMMA PendingCases ==
  /\ Owing({}, {}) = << >>
  /\ \A n : Owing({}, {n}) = << AMiss(n) >>
  /\ \A a, n : Owing({a}, {n}) = << AWrite(a), AMiss(n) >>
<1>1. \A a : { AWrite(b) : b \in {a} } = { AWrite(a) }
  OBVIOUS
<1>2. \A n : { AMiss(k) : k \in {n} } = { AMiss(n) }
  OBVIOUS
<1>3. { AWrite(b) : b \in {} } = {} /\ { AMiss(k) : k \in {} } = {}
  OBVIOUS
<1>4. << >> \o << >> = << >>
  OBVIOUS
<1>5. \A x : << >> \o << x >> = << x >>
  OBVIOUS
<1>6. ASSUME NEW x, NEW y PROVE << x >> \o << y >> = << x, y >>
  <2>1. << x >> \in Seq({x, y}) /\ << y >> \in Seq({x, y}) /\ << x, y >> \in Seq({x, y})
    OBVIOUS
  <2>. DEFINE s == << x >> \o << y >>
  <2>2. Len(<< x >>) = 1 /\ Len(<< y >>) = 1
    OBVIOUS
  <2>3. s \in Seq({x, y}) /\ Len(s) = 2 /\ s[1] = x /\ s[2] = y
    <3>1. s \in Seq({x, y}) /\ Len(s) = 2
      BY <2>1, <2>2
    <3>2. \A i \in 1 .. 2 : s[i] = IF i <= 1 THEN << x >>[i] ELSE << y >>[i - 1]
      BY <2>1, <2>2
    <3>3. s[1] = << x >>[1] /\ s[2] = << y >>[1]
      BY <3>2
    <3>. QED  BY <3>1, <3>3
  <2>. HIDE DEF s
  <2>4. s = << x, y >>
    <3>1. DOMAIN s = 1 .. 2 /\ s = [ i \in 1 .. 2 |-> s[i] ]
      BY <2>3
    <3>2. \A i \in 1 .. 2 : s[i] = << x, y >>[i]
      BY <2>3
    <3>3. << x, y >> = [ i \in 1 .. 2 |-> << x, y >>[i] ]
      OBVIOUS
    <3>. QED  BY <3>1, <3>2, <3>3
  <2>. QED  BY <2>4 DEF s
<1>7. Owing({}, {}) = << >>
  BY <1>3, <1>4, SmallSeqs DEF Owing
<1>8. ASSUME NEW n PROVE Owing({}, {n}) = << AMiss(n) >>
  BY <1>2, <1>3, <1>5, SmallSeqs DEF Owing
<1>9. ASSUME NEW a, NEW n PROVE Owing({a}, {n}) = << AWrite(a), AMiss(n) >>
  BY <1>1, <1>2, <1>6, SmallSeqs DEF Owing
<1>. QED  BY <1>7, <1>8, <1>9

LEMMA PendingIs == pending = Owing(owed, missed)
BY DEF pending, Owing, AWrite, AMiss

LEMMA RequestInit == NoSkip /\ Init => RequestInv
BY DEF NoSkip, Init, RequestInv, Idle

(* A line number is never 0, which stands for a write.                     *)
LEMMA LineOfRequest ==
  ASSUME TypeOK
  PROVE  /\ Tick \in Nat /\ Tick > 0
         /\ waited_for_evicted # NONE => waited_for_evicted \in Request
         /\ \A a \in Addr, t \in Type : [addr |-> a, type |-> t, line |-> Tick] # NONE
<1>1. Tick \in Nat /\ Tick > 0
  BY DEF TypeOK, Tick
<1>. QED  BY <1>1, TraceAssumption DEF TypeOK

(* Every step keeps RequestInv, and is a step of the stream of misses.     *)
LEMMA RequestNext ==
  ASSUME NoSkip, Inv, RequestInv, [Next]_vars
  PROVE  /\ RequestInv'
         /\ [Requests!Next]_pending
<1>1. TypeOK /\ CacheInv /\ NoFailure
  BY DEF Inv
<1>. DEFINE Stutter == UNCHANGED << owed, missed >>
<1>2. ASSUME Stutter
      PROVE  UNCHANGED pending
  BY <1>2 DEF pending
<1>3. CASE NewCycle \/ Turn \/ Fetch \/ TraceDone
  <2>1. UNCHANGED << req, waited_for_evicted, missed, owed >>
    BY <1>3 DEF NewCycle, Turn, Fetch, TraceDone, requestVars
  <2>2. skip_invokation' = FALSE
    BY <1>3 DEF NewCycle, Turn, Fetch, TraceDone, NoSkip, RequestInv
  <2>3. Idle' => Idle
    BY <1>3 DEF NewCycle, Turn, Fetch, TraceDone, Idle, At
  <2>4. RequestInv'
    BY <2>1, <2>2, <2>3 DEF RequestInv
  <2>. QED  BY <1>2, <2>1, <2>4
<1>4. CASE RestoreWaiting
  <2>1. /\ Idle /\ waited_for_evicted # NONE
        /\ req' = waited_for_evicted /\ waited_for_evicted' = NONE
        /\ UNCHANGED << missed, owed, skip_invokation >> /\ pc' = "invoke"
    BY <1>4 DEF RestoreWaiting, Idle, At
  <2>2. owed = {} /\ missed = { waited_for_evicted.line }
    BY <2>1 DEF RequestInv
  <2>3. RequestInv'
    BY <2>1, <2>2 DEF RequestInv, Idle
  <2>. QED  BY <1>2, <2>1, <2>3
<1>5. ASSUME NEW a \in Addr, NEW t \in Type, ReadHit(a, t)
      PROVE  RequestInv' /\ Stutter
  <2>1. /\ Idle /\ waited_for_evicted = NONE
        /\ UNCHANGED << waited_for_evicted, missed, owed, skip_invokation >>
    BY <1>5 DEF ReadHit, Idle, At
  <2>2. owed = {} /\ missed = {}
    BY <2>1 DEF RequestInv
  <2>. QED  BY <2>1, <2>2 DEF RequestInv
<1>6. ASSUME NEW a \in Addr, NEW t \in Type, ReadMiss(a, t)
      PROVE  RequestInv' /\ [Requests!Next]_pending
  <2>. DEFINE victim == Replaced(Tick)
              r == [addr |-> a, type |-> t, line |-> Tick]
  <2>1. /\ Idle /\ waited_for_evicted = NONE
        /\ cache_clk' = Tick
        /\ UNCHANGED << skip_invokation, pc >> /\ pc = "read"
    BY <1>6 DEF ReadMiss, Idle, At
  <2>2. owed = {} /\ missed = {} /\ ~skip_invokation
    BY <2>1 DEF RequestInv
  <2>3. Tick \in Nat /\ Tick > 0 /\ r # NONE
    BY <1>1, LineOfRequest
  <2>4. tracectr' \in Nat
    BY <1>1, <1>6, TraceAssumption DEF TypeOK, ReadMiss
  <2>5. /\ IF victim = NONE THEN req' = r
           ELSE req' = [addr |-> victim, type |-> "W", line |-> 0]
        /\ IF InWarmup(tracectr') \/ victim = NONE THEN waited_for_evicted' = NONE
           ELSE waited_for_evicted' = r
        /\ no_miss_occured' = InWarmup(tracectr')
        /\ missed' = IF InWarmup(tracectr') THEN missed ELSE missed \cup { Tick }
        /\ owed' = IF InWarmup(tracectr') THEN owed ELSE owed \cup ({ victim } \ {NONE})
    BY <1>6, <2>1, <2>3 DEF ReadMiss, Wait, InWarmup
  <2>. HIDE DEF victim, r
  <2>6. CASE InWarmup(tracectr')
    <3>1. RequestInv'
      BY <2>1, <2>2, <2>5, <2>6 DEF RequestInv
    <3>. QED  BY <1>2, <2>5, <2>6, <3>1
  <2>7. CASE ~InWarmup(tracectr') /\ victim = NONE
    <3>1. req'.line = Tick /\ waited_for_evicted' = NONE /\ missed' = { Tick } /\ owed' = {}
      BY <2>2, <2>5, <2>7 DEF r
    <3>2. ~Idle'
      BY <2>1, <2>5, <2>7 DEF Idle
    <3>3. RequestInv'
      BY <2>1, <2>2, <3>1, <3>2 DEF RequestInv
    <3>4. pending = << >> /\ pending' = << AMiss(Tick) >>
      <4>1. pending = Owing({}, {})
        BY <2>2, PendingIs
      <4>2. pending' = Owing({}, { Tick })
        BY <3>1, PendingIs DEF pending, Owing, AWrite, AMiss
      <4>. QED  BY <4>1, <4>2, PendingCases
    <3>5. Requests!Miss
      BY <3>4 DEF Requests!Miss, AMiss
    <3>. QED  BY <3>3, <3>5 DEF Requests!Next
  <2>8. CASE ~InWarmup(tracectr') /\ victim # NONE
    <3>1. /\ req'.addr = victim /\ req'.type = "W" /\ req'.line = 0
          /\ waited_for_evicted' = r /\ missed' = { Tick } /\ owed' = { victim }
      BY <2>2, <2>5, <2>8
    <3>2. r.line = Tick
      BY DEF r
    <3>3. ~Idle'
      BY <2>1, <2>5, <2>8 DEF Idle
    <3>4. RequestInv'
      BY <2>1, <2>2, <2>3, <3>1, <3>2, <3>3 DEF RequestInv
    <3>5. pending = << >> /\ pending' = << AWrite(victim), AMiss(Tick) >>
      <4>1. pending = Owing({}, {})
        BY <2>2, PendingIs
      <4>2. pending' = Owing({ victim }, { Tick })
        BY <3>1 DEF pending, Owing, AWrite, AMiss
      <4>. QED  BY <4>1, <4>2, PendingCases
    <3>6. Requests!DirtyMiss
      BY <3>5 DEF Requests!DirtyMiss, AMiss, AWrite
    <3>. QED  BY <3>4, <3>6 DEF Requests!Next
  <2>. QED  BY <2>6, <2>7, <2>8
<1>7. CASE invoke_oram
  <2>1. /\ ~skip_invokation /\ skip_invokation' = FALSE
        /\ UNCHANGED << req, waited_for_evicted >>
        /\ missed' = missed \ { req.line }
        /\ owed' = IF req.type = "W" THEN owed \ { req.addr } ELSE owed
    BY <1>7 DEF invoke_oram, RequestInv
  <2>2. owed' = {}
    BY <2>1 DEF RequestInv
  <2>3. CASE waited_for_evicted = NONE
    <3>1. owed = {} /\ missed' = {} /\ missed \subseteq { req.line }
      BY <2>1, <2>3 DEF RequestInv
    <3>2. RequestInv'
      BY <2>1, <2>2, <2>3, <3>1 DEF RequestInv
    <3>3. CASE missed = {}
      BY <1>2, <2>2, <3>1, <3>2, <3>3
    <3>4. CASE missed = { req.line }
      <4>1. pending = << AMiss(req.line) >>
        BY <3>1, <3>4, PendingIs, PendingCases
      <4>2. pending' = Owing({}, {})
        BY <2>2, <3>1 DEF pending, Owing, AWrite, AMiss
      <4>3. pending' = Tail(pending) /\ pending # << >>
        BY <4>1, <4>2, PendingCases
      <4>. QED  BY <3>2, <4>3 DEF Requests!Next, Requests!Serve
    <3>. QED  BY <3>1, <3>3, <3>4
  <2>4. CASE waited_for_evicted # NONE
    <3>. DEFINE n == waited_for_evicted.line
    <3>1. n > 0 /\ req.line = 0 /\ missed = { n }
      BY <2>4 DEF RequestInv
    <3>2. n # 0
      <4>1. n \in Nat
        BY <1>1, <2>4, LineOfRequest DEF Request
      <4>. HIDE DEF n
      <4>. QED  BY <3>1, <4>1
    <3>3. missed' = { n }
      BY <2>1, <3>1, <3>2
    <3>4. RequestInv'
      BY <2>1, <2>2, <2>4, <3>1, <3>3 DEF RequestInv
    <3>. HIDE DEF n
    <3>5. CASE owed = {}
      BY <1>2, <2>2, <3>1, <3>3, <3>4, <3>5
    <3>6. CASE owed = { req.addr }
      <4>1. pending = << AWrite(req.addr), AMiss(n) >>
        BY <3>1, <3>6, PendingIs, PendingCases
      <4>2. pending' = Owing({}, { n })
        BY <2>2, <3>3 DEF pending, Owing, AWrite, AMiss
      <4>3. pending' = Tail(pending) /\ pending # << >>
        BY <4>1, <4>2, PendingCases
      <4>. QED  BY <3>4, <4>3 DEF Requests!Next, Requests!Serve
    <3>. QED  BY <3>5, <3>6 DEF RequestInv
  <2>. QED  BY <2>3, <2>4
<1>8. CASE UNCHANGED vars
  BY <1>2, <1>8 DEF vars, RequestInv, Idle
<1>. QED  BY <1>2, <1>3, <1>4, <1>5, <1>6, <1>7, <1>8 DEF Next

(* Without turns used for background evictions or dummy accesses of Path   *)
(* ORAM, the trace loop implements MissStream: it starts with nothing      *)
(* pending, and every step is one of the stream or none.                   *)
THEOREM Refinement == NoSkip /\ Spec => ImplementsMissStream
<1>1. NoSkip /\ Init => RequestInv /\ Requests!Init
  <2>1. Init => pending = << >>
    BY PendingIs, PendingCases DEF Init
  <2>. QED  BY <2>1, RequestInit DEF Requests!Init
<1>2. NoSkip /\ [Next]_vars => NoSkip'
  BY DEF NoSkip
<1>3. NoSkip /\ Inv /\ RequestInv /\ [Next]_vars => RequestInv' /\ [Requests!Next]_pending
  BY RequestNext
<1>. QED  BY <1>1, <1>2, <1>3, Inductive, PTL DEF Spec, ImplementsMissStream, Requests!Spec

===============================================================================

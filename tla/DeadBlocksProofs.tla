--------------------------- MODULE DeadBlocksProofs ---------------------------
(***************************************************************************)
(* Proofs about DeadBlocks: the loops and what they keep, the bookkeeping  *)
(* of the slots and the blocks of a bucket (IInv), and from there the      *)
(* types, BudgetKept and what the checks of an access find; then who has   *)
(* which slot (Linked) and, for as long as that can be told, OneHolder.    *)
(***************************************************************************)
EXTENDS DeadBlocks, FiniteSetTheorems, SequenceTheorems, WellFoundedInduction, TLAPS

-------------------------------------------------------------------------------
(* Induction, as a statement about sets.                                   *)
LEMMA Induction ==
  ASSUME NEW S, 0 \in S, \A k \in Nat : k \in S => k + 1 \in S
  PROVE  Nat \subseteq S
<1>. DEFINE R == OpToRel(<, Nat)
            T == Nat \ S
<1>. SUFFICES ASSUME T # {} PROVE FALSE
  OBVIOUS
<1>1. IsWellFoundedOn(R, Nat)
  BY NatLessThanWellFounded
<1>2. \A x \in Nat, y \in Nat : x < y => << x, y >> \in R
  BY DEF OpToRel
<1>. HIDE DEF R
<1>3. PICK j \in T : \A i \in T : ~(<< i, j >> \in R)
  <2>1. T \subseteq Nat
    OBVIOUS
  <2>. HIDE DEF T
  <2>. QED  BY <1>1, <2>1, WFMin
<1>4. j \in Nat /\ j # 0
  OBVIOUS
<1>5. j - 1 \in Nat /\ j - 1 < j /\ j - 1 + 1 = j
  BY <1>4
<1>6. j - 1 \notin T
  BY <1>2, <1>3, <1>4, <1>5, Zenon
<1>. QED  BY <1>5, <1>6

(* A loop of n rounds, as the function of the states after every round:    *)
(* X[k] is a set that the state is in after k rounds.                      *)
Steps(n, X, step) == \A k \in 1 .. n : step[k] \in [ X[k - 1] -> X[k] ]
Loop(n, X, x0, step, f) ==
  /\ f = [ k \in 0 .. n |-> f[k] ]
  /\ f[0] = x0
  /\ \A k \in 1 .. n : f[k] = step[k][f[k - 1]]
  /\ \A k \in 0 .. n : f[k] \in X[k]

LEMMA Iterates ==
  ASSUME NEW n, NEW X, NEW x0, NEW step, n \in Nat, x0 \in X[0], Steps(n, X, step)
  PROVE  \E f : Loop(n, X, x0, step, f)
<1>. USE DEF Steps
<1>. DEFINE Up(f, d) ==
              /\ f = [ k \in 0 .. d |-> f[k] ]
              /\ f[0] = x0
              /\ \A k \in 1 .. d : f[k] = step[k][f[k - 1]]
              /\ \A k \in 0 .. d : f[k] \in X[k]
            S == { d \in Nat : d <= n => \E f : Up(f, d) }
<1>1. 0 \in S
  <2>. DEFINE f == [ k \in 0 .. 0 |-> x0 ]
  <2>1. f = [ k \in 0 .. 0 |-> f[k] ] /\ f[0] = x0 /\ \A k \in 0 .. 0 : f[k] \in X[k]
    OBVIOUS
  <2>2. \A k \in 1 .. 0 : f[k] = step[k][f[k - 1]]
    OBVIOUS
  <2>. HIDE DEF f
  <2>3. Up(f, 0)
    BY <2>1, <2>2
  <2>. QED  BY <2>3
<1>2. ASSUME NEW d \in Nat, d \in S
      PROVE  d + 1 \in S
  <2>. SUFFICES ASSUME d + 1 <= n PROVE \E f : Up(f, d + 1)
    OBVIOUS
  <2>1. PICK g : Up(g, d)
    BY <1>2
  <2>. DEFINE f == [ k \in 0 .. d + 1 |-> IF k = d + 1 THEN step[d + 1][g[d]] ELSE g[k] ]
  <2>2. f = [ k \in 0 .. d + 1 |-> f[k] ]
    OBVIOUS
  <2>3. \A k \in 0 .. d : f[k] = g[k]
    OBVIOUS
  <2>4. f[d + 1] = step[d + 1][g[d]] /\ f[d] = g[d] /\ (d + 1) - 1 = d /\ f[0] = g[0]
    OBVIOUS
  <2>. HIDE DEF f
  <2>5. \A k \in 1 .. d + 1 : k # d + 1 => k \in 1 .. d /\ k - 1 \in 0 .. d /\ k \in 0 .. d
    OBVIOUS
  <2>6. \A k \in 1 .. d + 1 : f[k] = step[k][f[k - 1]]
    BY <2>1, <2>3, <2>4, <2>5
  <2>7. \A k \in 0 .. d + 1 : f[k] \in X[k]
    <3>1. g[d] \in X[d] /\ d + 1 \in 1 .. n
      BY <2>1
    <3>2. step[d + 1][g[d]] \in X[d + 1]
      BY <2>4, <3>1
    <3>3. \A k \in 0 .. d + 1 : k = d + 1 \/ k \in 0 .. d
      OBVIOUS
    <3>. QED  BY <2>1, <2>3, <2>4, <3>2, <3>3
  <2>8. Up(f, d + 1)
    BY <2>1, <2>2, <2>4, <2>6, <2>7
  <2>. QED  BY <2>8
<1>3. Nat \subseteq S
  <2>. HIDE DEF S
  <2>. QED  BY <1>1, <1>2, Induction
<1>4. n \in S
  <2>. HIDE DEF S
  <2>. QED  BY <1>3
<1>. QED  BY <1>4 DEF Loop

LEMMA Stays ==
  ASSUME NEW n \in Nat, NEW X, NEW g, g[0] \in X[0],
         \A k \in 1 .. n : g[k - 1] \in X[k - 1] => g[k] \in X[k]
  PROVE  g[n] \in X[n]
<1>. DEFINE S == { k \in Nat : k <= n => g[k] \in X[k] }
<1>1. 0 \in S
  OBVIOUS
<1>2. ASSUME NEW k \in Nat, k \in S
      PROVE  k + 1 \in S
  <2>. SUFFICES ASSUME k + 1 <= n PROVE g[k + 1] \in X[k + 1]
    OBVIOUS
  <2>1. k + 1 \in 1 .. n /\ (k + 1) - 1 = k /\ k <= n
    OBVIOUS
  <2>2. g[k] \in X[k]
    BY <1>2, <2>1
  <2>. QED  BY <2>1, <2>2
<1>3. Nat \subseteq S
  <2>. HIDE DEF S
  <2>. QED  BY <1>1, <1>2, Induction
<1>. QED  BY <1>3

(* The loops of the module. *)
LEMMA ReadAllStays ==
  ASSUME NEW b, NEW js, Len(js) \in Nat, NEW X, NEW m \in X[0],
         \A k \in 1 .. Len(js) : \A n \in X[k - 1] : Read(n, b, js[k]) \in X[k]
  PROVE  ReadAll(m, b, js) \in X[Len(js)]
<1>. DEFINE L == Len(js)
            step == [ k \in 1 .. L |-> [ n \in X[k - 1] |-> Read(n, b, js[k]) ] ]
            IsRun(g) == g = [ k \in 0 .. L |-> IF k = 0 THEN m ELSE Read(g[k - 1], b, js[k]) ]
            run == CHOOSE g : IsRun(g)
<1>1. \E g : IsRun(g)
  <2>1. \A k \in 1 .. L : step[k] \in [ X[k - 1] -> X[k] ]
    OBVIOUS
  <2>. HIDE DEF step
  <2>2. PICK f : Loop(L, X, m, step, f)
    <3>1. L \in Nat /\ m \in X[0] /\ Steps(L, X, step)
      BY <2>1 DEF Steps
    <3>. HIDE DEF L
    <3>. QED  BY <3>1, Iterates, Zenon
  <2>3. ASSUME NEW k \in 0 .. L
        PROVE  f[k] = IF k = 0 THEN m ELSE Read(f[k - 1], b, js[k])
    <3>. SUFFICES ASSUME k # 0 PROVE f[k] = Read(f[k - 1], b, js[k])
      BY <2>2 DEF Loop
    <3>1. k \in 1 .. L /\ k - 1 \in 0 .. L
      OBVIOUS
    <3>2. f[k - 1] \in X[k - 1]
      BY <2>2, <3>1 DEF Loop
    <3>. QED  BY <2>2, <3>1, <3>2 DEF step, Loop
  <2>4. f = [ k \in 0 .. L |-> IF k = 0 THEN m ELSE Read(f[k - 1], b, js[k]) ]
    BY <2>2, <2>3 DEF Loop
  <2>. QED  BY <2>4
<1>2. IsRun(run)
  <2>. HIDE DEF IsRun
  <2>. QED  BY <1>1
<1>3. ReadAll(m, b, js) = run[L]
  BY DEF ReadAll
<1>. HIDE DEF run
<1>4. run[0] \in X[0]
  BY <1>2
<1>5. ASSUME NEW k \in 1 .. L, run[k - 1] \in X[k - 1]
      PROVE  run[k] \in X[k]
  <2>1. run[k] = Read(run[k - 1], b, js[k])
    <3>1. k \in 0 .. L /\ k # 0
      OBVIOUS
    <3>. HIDE DEF L
    <3>. QED  BY <1>2, <3>1
  <2>. QED  BY <1>5, <2>1
<1>. HIDE DEF IsRun
<1>6. run[L] \in X[L]
  BY <1>4, <1>5, Stays
<1>. QED  BY <1>3, <1>6

LEMMA GatherStays ==
  ASSUME NEW b, LZ \in Nat, NEW X, NEW m \in X[0],
         \A k \in 1 .. LZ : \A n \in X[k - 1] : RememberDead(n, << b, k - 1 >>) \in X[k]
  PROVE  gather_dead(m, b) \in X[LZ]
<1>. DEFINE L == LZ
            step == [ k \in 1 .. L |-> [ n \in X[k - 1] |-> RememberDead(n, << b, k - 1 >>) ] ]
            IsRun(g) == g = [ k \in 0 .. L |-> IF k = 0 THEN m ELSE RememberDead(g[k - 1], << b, k - 1 >>) ]
            run == CHOOSE g : IsRun(g)
<1>1. \E g : IsRun(g)
  <2>1. \A k \in 1 .. L : step[k] \in [ X[k - 1] -> X[k] ]
    OBVIOUS
  <2>. HIDE DEF step
  <2>2. PICK f : Loop(L, X, m, step, f)
    <3>1. L \in Nat /\ m \in X[0] /\ Steps(L, X, step)
      BY <2>1 DEF Steps
    <3>. HIDE DEF L
    <3>. QED  BY <3>1, Iterates, Zenon
  <2>3. ASSUME NEW k \in 0 .. L
        PROVE  f[k] = IF k = 0 THEN m ELSE RememberDead(f[k - 1], << b, k - 1 >>)
    <3>. SUFFICES ASSUME k # 0 PROVE f[k] = RememberDead(f[k - 1], << b, k - 1 >>)
      BY <2>2 DEF Loop
    <3>1. k \in 1 .. L /\ k - 1 \in 0 .. L
      OBVIOUS
    <3>2. f[k - 1] \in X[k - 1]
      BY <2>2, <3>1 DEF Loop
    <3>. QED  BY <2>2, <3>1, <3>2 DEF step, Loop
  <2>4. f = [ k \in 0 .. L |-> IF k = 0 THEN m ELSE RememberDead(f[k - 1], << b, k - 1 >>) ]
    BY <2>2, <2>3 DEF Loop
  <2>. QED  BY <2>4
<1>2. IsRun(run)
  <2>. HIDE DEF IsRun
  <2>. QED  BY <1>1
<1>3. gather_dead(m, b) = run[L]
  BY DEF gather_dead
<1>. HIDE DEF run
<1>4. run[0] \in X[0]
  BY <1>2
<1>5. ASSUME NEW k \in 1 .. L, run[k - 1] \in X[k - 1]
      PROVE  run[k] \in X[k]
  <2>1. run[k] = RememberDead(run[k - 1], << b, k - 1 >>)
    <3>1. k \in 0 .. L /\ k # 0
      OBVIOUS
    <3>. HIDE DEF L
    <3>. QED  BY <1>2, <3>1
  <2>. QED  BY <1>5, <2>1
<1>. HIDE DEF IsRun
<1>6. run[L] \in X[L]
  BY <1>4, <1>5, Stays
<1>. QED  BY <1>3, <1>6

LEMMA ShadowStays ==
  ASSUME NEW m, Len(m.shadowQ) \in Nat, NEW X, m \in X[0],
         \A k \in 1 .. Len(m.shadowQ) : \A n \in X[k - 1] : ShadowMove(n) \in X[k]
  PROVE  ShadowIn(m) \in X[Len(m.shadowQ)]
<1>. DEFINE L == Len(m.shadowQ)
            step == [ k \in 1 .. L |-> [ n \in X[k - 1] |-> ShadowMove(n) ] ]
            IsRun(g) == g = [ k \in 0 .. L |-> IF k = 0 THEN m ELSE ShadowMove(g[k - 1]) ]
            run == CHOOSE g : IsRun(g)
<1>1. \E g : IsRun(g)
  <2>1. \A k \in 1 .. L : step[k] \in [ X[k - 1] -> X[k] ]
    OBVIOUS
  <2>. HIDE DEF step
  <2>2. PICK f : Loop(L, X, m, step, f)
    <3>1. L \in Nat /\ m \in X[0] /\ Steps(L, X, step)
      BY <2>1 DEF Steps
    <3>. HIDE DEF L
    <3>. QED  BY <3>1, Iterates, Zenon
  <2>3. ASSUME NEW k \in 0 .. L
        PROVE  f[k] = IF k = 0 THEN m ELSE ShadowMove(f[k - 1])
    <3>. SUFFICES ASSUME k # 0 PROVE f[k] = ShadowMove(f[k - 1])
      BY <2>2 DEF Loop
    <3>1. k \in 1 .. L /\ k - 1 \in 0 .. L
      OBVIOUS
    <3>2. f[k - 1] \in X[k - 1]
      BY <2>2, <3>1 DEF Loop
    <3>. QED  BY <2>2, <3>1, <3>2 DEF step, Loop
  <2>4. f = [ k \in 0 .. L |-> IF k = 0 THEN m ELSE ShadowMove(f[k - 1]) ]
    BY <2>2, <2>3 DEF Loop
  <2>. QED  BY <2>4
<1>2. IsRun(run)
  <2>. HIDE DEF IsRun
  <2>. QED  BY <1>1
<1>3. ShadowIn(m) = run[L]
  BY DEF ShadowIn
<1>. HIDE DEF run
<1>4. run[0] \in X[0]
  BY <1>2
<1>5. ASSUME NEW k \in 1 .. L, run[k - 1] \in X[k - 1]
      PROVE  run[k] \in X[k]
  <2>1. run[k] = ShadowMove(run[k - 1])
    <3>1. k \in 0 .. L /\ k # 0
      OBVIOUS
    <3>. HIDE DEF L
    <3>. QED  BY <1>2, <3>1
  <2>. QED  BY <1>5, <2>1
<1>. HIDE DEF IsRun
<1>6. run[L] \in X[L]
  BY <1>4, <1>5, Stays
<1>. QED  BY <1>3, <1>6

LEMMA BorrowStays ==
  ASSUME NEW w, NEW b, NEW js, Len(js) \in Nat, NEW X, [ m |-> w.m, n |-> 0 ] \in X[0],
         \A k \in 1 .. Len(js) : \A a \in X[k - 1] : Claim(a, b, js, k) \in X[k]
  PROVE  \E a \in X[Len(js)] : Borrow(w, b, js) = [ m |-> a.m, got |-> w.got \o SubSeq(js, 1, a.n) ]
<1>. DEFINE L == Len(js)
            step == [ k \in 1 .. L |-> [ n \in X[k - 1] |-> Claim(n, b, js, k) ] ]
            IsRun(g) == g = [ k \in 0 .. L |-> IF k = 0 THEN [ m |-> w.m, n |-> 0 ] ELSE Claim(g[k - 1], b, js, k) ]
            run == CHOOSE g : IsRun(g)
<1>1. \E g : IsRun(g)
  <2>1. \A k \in 1 .. L : step[k] \in [ X[k - 1] -> X[k] ]
    OBVIOUS
  <2>. HIDE DEF step
  <2>2. PICK f : Loop(L, X, [ m |-> w.m, n |-> 0 ], step, f)
    <3>1. L \in Nat /\ [ m |-> w.m, n |-> 0 ] \in X[0] /\ Steps(L, X, step)
      BY <2>1 DEF Steps
    <3>. HIDE DEF L
    <3>. QED  BY <3>1, Iterates, Zenon
  <2>3. ASSUME NEW k \in 0 .. L
        PROVE  f[k] = IF k = 0 THEN [ m |-> w.m, n |-> 0 ] ELSE Claim(f[k - 1], b, js, k)
    <3>. SUFFICES ASSUME k # 0 PROVE f[k] = Claim(f[k - 1], b, js, k)
      BY <2>2 DEF Loop
    <3>1. k \in 1 .. L /\ k - 1 \in 0 .. L
      OBVIOUS
    <3>2. f[k - 1] \in X[k - 1]
      BY <2>2, <3>1 DEF Loop
    <3>. QED  BY <2>2, <3>1, <3>2 DEF step, Loop
  <2>4. f = [ k \in 0 .. L |-> IF k = 0 THEN [ m |-> w.m, n |-> 0 ] ELSE Claim(f[k - 1], b, js, k) ]
    BY <2>2, <2>3 DEF Loop
  <2>. QED  BY <2>4
<1>2. IsRun(run)
  <2>. HIDE DEF IsRun
  <2>. QED  BY <1>1
<1>3. Borrow(w, b, js) = [ m |-> run[L].m, got |-> w.got \o SubSeq(js, 1, run[L].n) ]
  BY DEF Borrow
<1>. HIDE DEF run
<1>4. run[0] \in X[0]
  BY <1>2
<1>5. ASSUME NEW k \in 1 .. L, run[k - 1] \in X[k - 1]
      PROVE  run[k] \in X[k]
  <2>1. run[k] = Claim(run[k - 1], b, js, k)
    <3>1. k \in 0 .. L /\ k # 0
      OBVIOUS
    <3>. HIDE DEF L
    <3>. QED  BY <1>2, <3>1
  <2>. QED  BY <1>5, <2>1
<1>. HIDE DEF IsRun
<1>6. run[L] \in X[L]
  BY <1>4, <1>5, Stays
<1>. QED  BY <1>3, <1>6

-------------------------------------------------------------------------------
(* The slots of a level, and how the operations change them.               *)
Mem ==
  [ slot : [ Bucket -> [ Offset -> Slot ] ], allctr : [ Bucket -> Int ],
    deadQ : Seq(Place), shadowQ : Seq(Place), taken : BOOLEAN ]

(* n has the blocks of m, the redirections of m, the states of m but for    *)
(* that of p, and the queues and counters of m.                            *)
SameBlocks(m, n) ==
  \A c \in Bucket, i \in Offset : /\ n.slot[c][i].isReal = m.slot[c][i].isReal
                                  /\ n.slot[c][i].valid = m.slot[c][i].valid
SameRemotes(m, n) ==
  \A c \in Bucket, i \in Offset : n.slot[c][i].remote = m.slot[c][i].remote
OneState(m, n, p, state) ==
  \A c \in Bucket, i \in Offset :
    n.slot[c][i].dd = IF << c, i >> = p THEN state ELSE m.slot[c][i].dd
SameQueues(m, n) ==
  n.allctr = m.allctr /\ n.deadQ = m.deadQ /\ n.shadowQ = m.shadowQ /\ n.taken = m.taken

LEMMA Constants ==
  /\ BUCKETS \in Nat \ {0} /\ LZ \in Nat \ {0} /\ RING_A \in Nat \ {0} /\ DEADQ_SIZE \in Nat \ {0}
  /\ RING_Z \in Nat /\ S_INC \in Nat /\ SHADQ_SIZE \in Nat /\ REMOTE_CAP \in Nat /\ RING_Z < LZ
  /\ Own \subseteq Offset /\ 0 \in Bucket /\ Place \subseteq Bucket \X Offset
<1>1. /\ BUCKETS \in Nat \ {0} /\ LZ \in Nat \ {0} /\ RING_A \in Nat \ {0} /\ DEADQ_SIZE \in Nat \ {0}
      /\ RING_Z \in Nat /\ S_INC \in Nat /\ SHADQ_SIZE \in Nat /\ REMOTE_CAP \in Nat /\ RING_Z < LZ
  BY DeadAssumption
<1>2. Own \subseteq Offset /\ 0 \in Bucket
  BY <1>1 DEF Own, Offset, Bucket
<1>. QED  BY <1>1, <1>2 DEF Place

LEMMA NewSlots ==
  ASSUME NEW m \in Mem, NEW u \in [ Bucket -> [ Offset -> Slot ] ]
  PROVE  /\ [ m EXCEPT !.slot = u ] \in Mem /\ [ m EXCEPT !.slot = u ].slot = u
         /\ SameQueues(m, [ m EXCEPT !.slot = u ])
<1>. DEFINE V == [ Bucket -> [ Offset -> Slot ] ]
            A == [ Bucket -> Int ]
            Q == Seq(Place)
<1>1. m \in [ slot : V, allctr : A, deadQ : Q, shadowQ : Q, taken : BOOLEAN ] /\ u \in V
  BY DEF Mem
<1>. HIDE DEF V, A, Q
<1>2. [ m EXCEPT !.slot = u ] \in [ slot : V, allctr : A, deadQ : Q, shadowQ : Q, taken : BOOLEAN ]
  BY <1>1
<1>3. [ m EXCEPT !.slot = u ].slot = u /\ SameQueues(m, [ m EXCEPT !.slot = u ])
  BY <1>1 DEF SameQueues
<1>. QED  BY <1>2, <1>3 DEF Mem, V, A, Q

LEMMA SetDdFacts ==
  ASSUME NEW m \in Mem, NEW p \in Bucket \X Offset, NEW state \in DeadState
  PROVE  /\ SetDd(m, p, state) \in Mem
         /\ SameBlocks(m, SetDd(m, p, state)) /\ SameRemotes(m, SetDd(m, p, state))
         /\ OneState(m, SetDd(m, p, state), p, state) /\ SameQueues(m, SetDd(m, p, state))
<1>1. PICK b \in Bucket, j \in Offset : p = << b, j >> /\ p[1] = b /\ p[2] = j
  OBVIOUS
<1>. DEFINE n == SetDd(m, p, state)
            t == [ m.slot[b] EXCEPT ![j] = [ @ EXCEPT !.dd = state ] ]
<1>2. n = [ m EXCEPT !.slot = [ m.slot EXCEPT ![b] = t ] ]
  BY <1>1 DEF SetDd
<1>3. m.slot[b] \in [ Offset -> Slot ] /\ m.slot \in [ Bucket -> [ Offset -> Slot ] ]
  BY DEF Mem
<1>4. t \in [ Offset -> Slot ]
  BY <1>3 DEF Slot
<1>5. /\ t[j].dd = state /\ t[j].isReal = m.slot[b][j].isReal /\ t[j].valid = m.slot[b][j].valid
      /\ t[j].remote = m.slot[b][j].remote /\ \A i \in Offset : i # j => t[i] = m.slot[b][i]
  BY <1>3 DEF Slot
<1>. HIDE DEF t
<1>6. /\ n.slot = [ m.slot EXCEPT ![b] = t ] /\ n \in Mem /\ SameQueues(m, n)
  <2>1. [ m.slot EXCEPT ![b] = t ] \in [ Bucket -> [ Offset -> Slot ] ]
    BY <1>3, <1>4
  <2>. HIDE DEF n
  <2>. QED  BY <1>2, <2>1, NewSlots, Zenon
<1>7. \A c \in Bucket : n.slot[c] = IF c = b THEN t ELSE m.slot[c]
  BY <1>3, <1>6
<1>. HIDE DEF n
<1>8. SameBlocks(m, n) /\ SameRemotes(m, n) /\ OneState(m, n, p, state)
  BY <1>1, <1>5, <1>7 DEF SameBlocks, SameRemotes, OneState
<1>. QED  BY <1>6, <1>8 DEF n

SameStates(m, n) == \A c \in Bucket, i \in Offset : n.slot[c][i].dd = m.slot[c][i].dd
OneRemote(m, n, b, j, r) ==
  \A c \in Bucket, i \in Offset :
    n.slot[c][i].remote = IF c = b /\ i = j THEN r ELSE m.slot[c][i].remote

LEMMA SetRemoteFacts ==
  ASSUME NEW m \in Mem, NEW b \in Bucket, NEW j \in Offset, NEW r \in Place \cup { NONE }
  PROVE  \A n : n = [ m EXCEPT !.slot[b][j].remote = r ] =>
           n \in Mem /\ SameBlocks(m, n) /\ SameStates(m, n) /\ OneRemote(m, n, b, j, r) /\ SameQueues(m, n)
<1>. DEFINE n == [ m EXCEPT !.slot[b][j].remote = r ]
            t == [ m.slot[b] EXCEPT ![j] = [ @ EXCEPT !.remote = r ] ]
<1>2. n = [ m EXCEPT !.slot = [ m.slot EXCEPT ![b] = t ] ]
  OBVIOUS
<1>3. m.slot[b] \in [ Offset -> Slot ] /\ m.slot \in [ Bucket -> [ Offset -> Slot ] ]
  BY DEF Mem
<1>4. t \in [ Offset -> Slot ]
  BY <1>3 DEF Slot
<1>5. /\ t[j].remote = r /\ t[j].isReal = m.slot[b][j].isReal /\ t[j].valid = m.slot[b][j].valid
      /\ t[j].dd = m.slot[b][j].dd /\ \A i \in Offset : i # j => t[i] = m.slot[b][i]
  BY <1>3 DEF Slot
<1>. HIDE DEF t
<1>6. n.slot = [ m.slot EXCEPT ![b] = t ] /\ n \in Mem /\ SameQueues(m, n)
  <2>. DEFINE u == [ m.slot EXCEPT ![b] = t ]
  <2>1. u \in [ Bucket -> [ Offset -> Slot ] ]
    BY <1>3, <1>4
  <2>2. n = [ m EXCEPT !.slot = u ]
    BY <1>2
  <2>. HIDE DEF u, n
  <2>3. /\ [ m EXCEPT !.slot = u ] \in Mem /\ [ m EXCEPT !.slot = u ].slot = u
        /\ SameQueues(m, [ m EXCEPT !.slot = u ])
    BY <2>1, NewSlots, Zenon
  <2>4. n.slot = u /\ n \in Mem /\ SameQueues(m, n)
    BY <2>2, <2>3, Zenon
  <2>. QED  BY <2>4 DEF u
<1>. HIDE DEF n
<1>7. \A c \in Bucket : n.slot[c] = IF c = b THEN t ELSE m.slot[c]
  BY <1>3, <1>6, Zenon
<1>8. SameBlocks(m, n) /\ SameStates(m, n) /\ OneRemote(m, n, b, j, r)
  BY <1>5, <1>7 DEF SameBlocks, SameStates, OneRemote
<1>. QED  BY <1>6, <1>8, Zenon DEF n

(* n is m with p at the end of the queue.                                  *)
Pushed(m, n, p) ==
  /\ n \in Mem /\ SameBlocks(m, n) /\ SameRemotes(m, n) /\ OneState(m, n, p, "REMEMBERED")
  /\ n.allctr = [ m.allctr EXCEPT ![p[1]] = @ + 1 ]
  /\ n.deadQ = Append(m.deadQ, p) /\ n.taken = m.taken
Shadowed(m, n, p) ==
  /\ n \in Mem /\ n.slot = m.slot /\ n.allctr = m.allctr /\ n.deadQ = m.deadQ
  /\ n.shadowQ = Append(m.shadowQ, p) /\ n.taken = m.taken

LEMMA Push ==
  ASSUME NEW m \in Mem, NEW p \in Place, NEW n,
         n = [ SetDd(m, p, "REMEMBERED") EXCEPT !.allctr[p[1]] = @ + 1, !.deadQ = Append(@, p) ]
  PROVE  Pushed(m, n, p) /\ n.shadowQ = m.shadowQ
<1>. DEFINE d == SetDd(m, p, "REMEMBERED")
<1>1. /\ d \in Mem /\ SameBlocks(m, d) /\ SameRemotes(m, d) /\ OneState(m, d, p, "REMEMBERED")
      /\ SameQueues(m, d)
  BY SetDdFacts, Constants DEF DeadState
<1>. HIDE DEF d
<1>2. n = [ d EXCEPT !.allctr = [ d.allctr EXCEPT ![p[1]] = d.allctr[p[1]] + 1 ], !.deadQ = Append(d.deadQ, p) ]
  BY DEF d
<1>3. /\ d.slot \in [ Bucket -> [ Offset -> Slot ] ] /\ d.allctr \in [ Bucket -> Int ]
      /\ d.deadQ \in Seq(Place) /\ d.shadowQ \in Seq(Place) /\ d.taken \in BOOLEAN
      /\ p[1] \in Bucket
  BY <1>1 DEF Mem, Place
<1>4. /\ n.slot = d.slot /\ n.shadowQ = d.shadowQ /\ n.taken = d.taken
      /\ n.allctr = [ d.allctr EXCEPT ![p[1]] = d.allctr[p[1]] + 1 ] /\ n.deadQ = Append(d.deadQ, p)
  BY <1>1, <1>2 DEF Mem
<1>5. [ d.allctr EXCEPT ![p[1]] = d.allctr[p[1]] + 1 ] \in [ Bucket -> Int ]
  BY <1>3
<1>6. Append(d.deadQ, p) \in Seq(Place)
  BY <1>3
<1>7. n \in Mem
  <2>1. n = [ slot |-> d.slot, allctr |-> n.allctr, deadQ |-> n.deadQ, shadowQ |-> d.shadowQ, taken |-> d.taken ]
    BY <1>1, <1>2, <1>4 DEF Mem
  <2>. QED  BY <1>3, <1>4, <1>5, <1>6, <2>1 DEF Mem
<1>. QED  BY <1>1, <1>4, <1>7 DEF Pushed, SameBlocks, SameRemotes, OneState, SameQueues

LEMMA RememberFacts ==
  ASSUME NEW m \in Mem, NEW p \in Place, NEW n, n = Remember(m, p)
  PROVE  \/ n = m /\ (m.allctr[p[1]] >= REMOTE_CAP \/ Len(m.deadQ) >= DEADQ_SIZE)
         \/ /\ m.allctr[p[1]] < REMOTE_CAP /\ Len(m.deadQ) < DEADQ_SIZE
            /\ Pushed(m, n, p) /\ n.shadowQ = m.shadowQ
         \/ /\ m.allctr[p[1]] < REMOTE_CAP /\ Len(m.deadQ) >= DEADQ_SIZE
            /\ Len(m.shadowQ) < SHADQ_SIZE /\ Shadowed(m, n, p)
<1>1. /\ p[1] \in Bucket /\ m.allctr[p[1]] \in Int /\ Len(m.deadQ) \in Nat /\ Len(m.shadowQ) \in Nat
      /\ m.shadowQ \in Seq(Place)
  BY DEF Mem, Place
<1>2. CASE m.allctr[p[1]] >= REMOTE_CAP
  BY <1>2 DEF Remember
<1>3. CASE ~(m.allctr[p[1]] >= REMOTE_CAP) /\ Len(m.deadQ) < DEADQ_SIZE
  <2>1. n = [ SetDd(m, p, "REMEMBERED") EXCEPT !.allctr[p[1]] = @ + 1, !.deadQ = Append(@, p) ]
    BY <1>3 DEF Remember
  <2>2. Pushed(m, n, p) /\ n.shadowQ = m.shadowQ
    BY <2>1, Push, Zenon
  <2>. QED  BY <1>1, <1>3, <2>2, Constants
<1>4. CASE ~(m.allctr[p[1]] >= REMOTE_CAP) /\ ~(Len(m.deadQ) < DEADQ_SIZE)
  <2>1. CASE Len(m.shadowQ) < SHADQ_SIZE
    <3>1. n = [ m EXCEPT !.shadowQ = Append(m.shadowQ, p) ]
      BY <1>4, <2>1 DEF Remember
    <3>2. Append(m.shadowQ, p) \in Seq(Place)
      BY <1>1
    <3>3. Shadowed(m, n, p)
      BY <3>1, <3>2 DEF Mem, Shadowed
    <3>. QED  BY <1>1, <1>4, <2>1, <3>3, Constants
  <2>2. CASE ~(Len(m.shadowQ) < SHADQ_SIZE)
    BY <1>1, <1>4, <2>2, Constants DEF Remember
  <2>. QED  BY <2>1, <2>2
<1>. QED  BY <1>2, <1>3, <1>4

(* n is m without the redirection of slot j of bucket b to p.              *)
Unlinked(m, n, b, j, p) ==
  /\ n \in Mem /\ SameBlocks(m, n) /\ OneRemote(m, n, b, j, NONE) /\ OneState(m, n, p, "DEAD")
  /\ n.allctr = [ m.allctr EXCEPT ![p[1]] = @ - 1 ]
  /\ n.deadQ = m.deadQ /\ n.shadowQ = m.shadowQ /\ n.taken = m.taken

LEMMA RemoteAccess ==
  ASSUME NEW m \in Mem, NEW b \in Bucket, NEW j \in Offset, NEW p \in Place,
         m.slot[b][j].remote = p
  PROVE  \E n : Unlinked(m, n, b, j, p) /\ remote_access(m, b, j) = Remember(n, p)
<1>. DEFINE u == [ m EXCEPT !.slot[b][j].remote = NONE ]
            d == SetDd(u, p, "DEAD")
            n == [ d EXCEPT !.allctr[p[1]] = @ - 1 ]
<1>1. u \in Mem /\ SameBlocks(m, u) /\ SameStates(m, u) /\ OneRemote(m, u, b, j, NONE) /\ SameQueues(m, u)
  <2>. HIDE DEF u
  <2>1. NONE \in Place \cup { NONE }
    OBVIOUS
  <2>. QED  BY <2>1, SetRemoteFacts, Zenon DEF u
<1>2. remote_access(m, b, j) = Remember(n, p)
  BY DEF remote_access
<1>. HIDE DEF u
<1>3. /\ d \in Mem /\ SameBlocks(u, d) /\ SameRemotes(u, d) /\ OneState(u, d, p, "DEAD")
      /\ SameQueues(u, d)
  <2>1. p \in Bucket \X Offset /\ "DEAD" \in DeadState
    BY Constants DEF DeadState
  <2>. QED  BY <1>1, <2>1, SetDdFacts, Zenon
<1>. HIDE DEF d
<1>4. /\ d.slot \in [ Bucket -> [ Offset -> Slot ] ] /\ d.allctr \in [ Bucket -> Int ]
      /\ d.deadQ \in Seq(Place) /\ d.shadowQ \in Seq(Place) /\ d.taken \in BOOLEAN
      /\ p[1] \in Bucket
  BY <1>3 DEF Mem, Place
<1>5. [ d.allctr EXCEPT ![p[1]] = d.allctr[p[1]] - 1 ] \in [ Bucket -> Int ]
  BY <1>4
<1>6. /\ n.slot = d.slot /\ n.shadowQ = d.shadowQ /\ n.taken = d.taken /\ n.deadQ = d.deadQ
      /\ n.allctr = [ d.allctr EXCEPT ![p[1]] = d.allctr[p[1]] - 1 ]
      /\ n = [ slot |-> n.slot, allctr |-> n.allctr, deadQ |-> n.deadQ, shadowQ |-> n.shadowQ, taken |-> n.taken ]
  <2>. DEFINE a == [ d.allctr EXCEPT ![p[1]] = d.allctr[p[1]] - 1 ]
  <2>1. n = [ d EXCEPT !.allctr = a ]
    OBVIOUS
  <2>. HIDE DEF a, n
  <2>. QED  BY <1>3, <2>1 DEF Mem, a
<1>7. n \in Mem
  <2>. HIDE DEF n
  <2>. QED  BY <1>4, <1>5, <1>6 DEF Mem
<1>. HIDE DEF n
<1>8. Unlinked(m, n, b, j, p)
  <2>1. SameBlocks(m, n)
    BY <1>1, <1>3, <1>6 DEF SameBlocks
  <2>2. OneRemote(m, n, b, j, NONE)
    BY <1>1, <1>3, <1>6 DEF OneRemote, SameRemotes
  <2>3. OneState(m, n, p, "DEAD")
    BY <1>1, <1>3, <1>6 DEF OneState, SameStates
  <2>. QED  BY <1>1, <1>3, <1>6, <1>7, <2>1, <2>2, <2>3 DEF Unlinked, SameQueues
<1>. QED  BY <1>2, <1>8

(* n is m with slot j of bucket b redirected to the head of the queue.      *)
Allocated(m, n, b, j) ==
  /\ n \in Mem /\ SameBlocks(m, n) /\ OneRemote(m, n, b, j, Head(m.deadQ))
  /\ OneState(m, n, Head(m.deadQ), "ALLOCATED")
  /\ n.allctr = m.allctr /\ n.deadQ = Tail(m.deadQ) /\ n.shadowQ = m.shadowQ
  /\ n.taken = (m.taken \/ dd(m, Head(m.deadQ)) \in { "ALLOCATED", "REFRESHED" })

LEMMA RemoteAllocate ==
  ASSUME NEW m \in Mem, NEW b \in Bucket, NEW j \in Offset, m.deadQ # << >>
  PROVE  Allocated(m, remote_allocate(m, b, j), b, j) /\ Head(m.deadQ) \in Place
<1>. DEFINE p == Head(m.deadQ)
            d == SetDd(m, p, "ALLOCATED")
            u == [ d EXCEPT !.slot[b][j].remote = p ]
            t == m.taken \/ dd(m, p) \in { "ALLOCATED", "REFRESHED" }
            n == remote_allocate(m, b, j)
<1>1. m.deadQ \in Seq(Place) /\ p \in Place /\ Tail(m.deadQ) \in Seq(Place) /\ t \in BOOLEAN
  BY DEF Mem
<1>2. /\ d \in Mem /\ SameBlocks(m, d) /\ SameRemotes(m, d) /\ OneState(m, d, p, "ALLOCATED")
      /\ SameQueues(m, d)
  <2>1. p \in Bucket \X Offset /\ "ALLOCATED" \in DeadState
    BY <1>1, Constants DEF DeadState
  <2>. HIDE DEF p
  <2>. QED  BY <2>1, SetDdFacts, Zenon
<1>3. n = [ d EXCEPT !.deadQ = Tail(d.deadQ), !.taken = d.taken \/ dd(m, p) \in { "ALLOCATED", "REFRESHED" },
                     !.slot[b][j].remote = p ]
  BY DEF remote_allocate
<1>. HIDE DEF d, p
<1>4. /\ u \in Mem /\ SameBlocks(d, u) /\ SameStates(d, u) /\ OneRemote(d, u, b, j, p) /\ SameQueues(d, u)
  <2>1. p \in Place \cup { NONE }
    BY <1>1
  <2>. HIDE DEF u
  <2>. QED  BY <1>2, <2>1, SetRemoteFacts, Zenon DEF u
<1>5. /\ n.slot = u.slot /\ n.allctr = u.allctr /\ n.deadQ = Tail(d.deadQ) /\ n.shadowQ = u.shadowQ
      /\ n.taken = (d.taken \/ dd(m, p) \in { "ALLOCATED", "REFRESHED" })
      /\ n = [ slot |-> n.slot, allctr |-> n.allctr, deadQ |-> n.deadQ, shadowQ |-> n.shadowQ, taken |-> n.taken ]
  BY <1>2, <1>3 DEF Mem
<1>. HIDE DEF u, n
<1>6. /\ u.slot \in [ Bucket -> [ Offset -> Slot ] ] /\ u.allctr \in [ Bucket -> Int ] /\ u.shadowQ \in Seq(Place)
  BY <1>4 DEF Mem
<1>7. n.deadQ = Tail(m.deadQ) /\ n.taken = t /\ n.allctr = m.allctr /\ n.shadowQ = m.shadowQ
  BY <1>2, <1>4, <1>5 DEF SameQueues
<1>8. n \in Mem
  BY <1>1, <1>5, <1>6, <1>7 DEF Mem
<1>9. SameBlocks(m, n)
  <2>1. SameBlocks(m, d) /\ SameBlocks(d, u) /\ n.slot = u.slot
    BY <1>2, <1>4, <1>5
  <2>. QED  BY <2>1 DEF SameBlocks
<1>10. OneRemote(m, n, b, j, p)
  BY <1>2, <1>4, <1>5 DEF OneRemote, SameRemotes
<1>11. OneState(m, n, p, "ALLOCATED")
  BY <1>2, <1>4, <1>5 DEF OneState, SameStates
<1>. QED  BY <1>1, <1>7, <1>8, <1>9, <1>10, <1>11 DEF Allocated, p, n

WithBucket(m, n, b, t) ==
  /\ n \in Mem /\ SameQueues(m, n)
  /\ \A c \in Bucket : n.slot[c] = IF c = b THEN t ELSE m.slot[c]

LEMMA NewBucket ==
  ASSUME NEW m \in Mem, NEW b \in Bucket, NEW t \in [ Offset -> Slot ]
  PROVE  WithBucket(m, [ m EXCEPT !.slot[b] = t ], b, t)
<1>. DEFINE n == [ m EXCEPT !.slot[b] = t ]
            u == [ m.slot EXCEPT ![b] = t ]
<1>1. m.slot \in [ Bucket -> [ Offset -> Slot ] ]
  BY DEF Mem
<1>2. u \in [ Bucket -> [ Offset -> Slot ] ] /\ \A c \in Bucket : u[c] = IF c = b THEN t ELSE m.slot[c]
  BY <1>1
<1>3. n = [ m EXCEPT !.slot = u ]
  OBVIOUS
<1>. HIDE DEF u, n
<1>4. /\ [ m EXCEPT !.slot = u ] \in Mem /\ [ m EXCEPT !.slot = u ].slot = u
      /\ SameQueues(m, [ m EXCEPT !.slot = u ])
  BY <1>2, NewSlots, Zenon
<1>5. n \in Mem /\ n.slot = u /\ SameQueues(m, n)
  BY <1>3, <1>4, Zenon
<1>. QED  BY <1>2, <1>5, Zenon DEF n, WithBucket

(* n is m with the slots js of bucket b in place.                          *)
InPlace(m, n, b, js) ==
  /\ n \in Mem /\ SameBlocks(m, n) /\ SameQueues(m, n)
  /\ \A c \in Bucket, i \in Offset :
       /\ n.slot[c][i].remote = IF c = b /\ i \in js THEN NONE ELSE m.slot[c][i].remote
       /\ n.slot[c][i].dd = IF c = b /\ i \in js THEN "REFRESHED" ELSE m.slot[c][i].dd

LEMMA InplaceAllocate ==
  ASSUME NEW m \in Mem, NEW b \in Bucket, NEW js
  PROVE  InPlace(m, inplace_allocate(m, b, js), b, js)
<1>. DEFINE t == [ i \in Offset |-> IF i \in js THEN [ m.slot[b][i] EXCEPT !.remote = NONE, !.dd = "REFRESHED" ]
                                    ELSE m.slot[b][i] ]
            n == inplace_allocate(m, b, js)
<1>1. n = [ m EXCEPT !.slot[b] = t ]
  BY DEF inplace_allocate
<1>2. m.slot[b] \in [ Offset -> Slot ]
  BY DEF Mem
<1>3. ASSUME NEW i \in Offset
      PROVE  /\ t[i] \in Slot /\ t[i].isReal = m.slot[b][i].isReal /\ t[i].valid = m.slot[b][i].valid
             /\ t[i].remote = IF i \in js THEN NONE ELSE m.slot[b][i].remote
             /\ t[i].dd = IF i \in js THEN "REFRESHED" ELSE m.slot[b][i].dd
  <2>1. m.slot[b][i] \in Slot
    BY <1>2
  <2>2. t[i] = IF i \in js THEN [ m.slot[b][i] EXCEPT !.remote = NONE, !.dd = "REFRESHED" ] ELSE m.slot[b][i]
    OBVIOUS
  <2>. HIDE DEF t
  <2>3. CASE i \in js
    BY <2>1, <2>2, <2>3 DEF Slot, DeadState
  <2>4. CASE i \notin js
    BY <2>1, <2>2, <2>4, Zenon
  <2>. QED  BY <2>3, <2>4
<1>4. t \in [ Offset -> Slot ]
  BY <1>3
<1>. HIDE DEF t, n
<1>5. /\ n \in Mem /\ SameQueues(m, n)
      /\ \A c \in Bucket : n.slot[c] = IF c = b THEN t ELSE m.slot[c]
  <2>1. WithBucket(m, n, b, t)
    BY <1>1, <1>4, NewBucket, Zenon
  <2>. QED  BY <2>1, Zenon DEF WithBucket
<1>6. SameBlocks(m, n)
  BY <1>3, <1>5 DEF SameBlocks
<1>7. ASSUME NEW c \in Bucket, NEW i \in Offset
      PROVE  /\ n.slot[c][i].remote = IF c = b /\ i \in js THEN NONE ELSE m.slot[c][i].remote
             /\ n.slot[c][i].dd = IF c = b /\ i \in js THEN "REFRESHED" ELSE m.slot[c][i].dd
  <2>1. CASE c = b
    BY <1>3, <1>5, <2>1
  <2>2. CASE c # b
    BY <1>5, <2>2
  <2>. QED  BY <2>1, <2>2
<1>. QED  BY <1>5, <1>6, <1>7 DEF InPlace, n

(* n is m with other blocks in bucket b.                                    *)
Reblocked(m, n, b, v, r) ==
  /\ n \in Mem /\ SameRemotes(m, n) /\ SameStates(m, n) /\ SameQueues(m, n)
  /\ \A c \in Bucket, i \in Offset :
       /\ n.slot[c][i].valid = IF c = b THEN v[i] ELSE m.slot[c][i].valid
       /\ n.slot[c][i].isReal = IF c = b THEN r[i] ELSE m.slot[c][i].isReal

(* n is m but for the blocks.                                               *)
SameLinks(m, n) == n \in Mem /\ SameRemotes(m, n) /\ SameStates(m, n) /\ SameQueues(m, n)

LEMMA NewBlocks ==
  ASSUME NEW m \in Mem, NEW b \in Bucket, NEW v \in [ Offset -> BOOLEAN ], NEW r \in [ Offset -> BOOLEAN ]
  PROVE  \A n : n = [ m EXCEPT !.slot[b] = [ i \in Offset |->
                        [ m.slot[b][i] EXCEPT !.valid = v[i], !.isReal = r[i] ] ] ] => Reblocked(m, n, b, v, r)
<1>. DEFINE t == [ i \in Offset |-> [ m.slot[b][i] EXCEPT !.valid = v[i], !.isReal = r[i] ] ]
            n == [ m EXCEPT !.slot[b] = t ]
<1>1. m.slot[b] \in [ Offset -> Slot ]
  BY DEF Mem
<1>2. ASSUME NEW i \in Offset
      PROVE  /\ t[i] \in Slot /\ t[i].isReal = r[i] /\ t[i].valid = v[i]
             /\ t[i].remote = m.slot[b][i].remote /\ t[i].dd = m.slot[b][i].dd
  BY <1>1 DEF Slot
<1>3. t \in [ Offset -> Slot ]
  BY <1>2
<1>. HIDE DEF t
<1>4. /\ n \in Mem /\ SameQueues(m, n)
      /\ \A c \in Bucket : n.slot[c] = IF c = b THEN t ELSE m.slot[c]
  <2>. HIDE DEF n
  <2>1. n = [ m EXCEPT !.slot[b] = t ]
    BY DEF n
  <2>2. WithBucket(m, n, b, t)
    BY <1>3, <2>1, NewBucket, Zenon
  <2>. QED  BY <2>2, Zenon DEF WithBucket
<1>. HIDE DEF n
<1>5. SameRemotes(m, n) /\ SameStates(m, n)
  BY <1>2, <1>4 DEF SameRemotes, SameStates
<1>6. ASSUME NEW c \in Bucket, NEW i \in Offset
      PROVE  /\ n.slot[c][i].valid = IF c = b THEN v[i] ELSE m.slot[c][i].valid
             /\ n.slot[c][i].isReal = IF c = b THEN r[i] ELSE m.slot[c][i].isReal
  <2>1. CASE c = b
    BY <1>2, <1>4, <2>1
  <2>2. CASE c # b
    BY <1>4, <2>2
  <2>. QED  BY <2>1, <2>2
<1>7. Reblocked(m, n, b, v, r)
  BY <1>4, <1>5, <1>6 DEF Reblocked
<1>. QED  BY <1>7, Zenon DEF n, t

LEMMA DequeueFacts ==
  ASSUME NEW m \in Mem, m.shadowQ # << >>, NEW n, n = Dequeue(m)
  PROVE  /\ Head(m.shadowQ) \in Place /\ n.shadowQ = Tail(m.shadowQ)
         /\ \/ dd(m, Head(m.shadowQ)) = "DEAD" /\ Pushed(m, n, Head(m.shadowQ))
            \/ /\ dd(m, Head(m.shadowQ)) # "DEAD" /\ n \in Mem /\ n.slot = m.slot
               /\ n.allctr = m.allctr /\ n.deadQ = m.deadQ /\ n.taken = m.taken
<1>. DEFINE p == Head(m.shadowQ)
            u == [ m EXCEPT !.shadowQ = Tail(m.shadowQ) ]
<1>1. p \in Place /\ Tail(m.shadowQ) \in Seq(Place)
  BY DEF Mem
<1>2. /\ u \in Mem /\ u.slot = m.slot /\ u.allctr = m.allctr /\ u.deadQ = m.deadQ
      /\ u.taken = m.taken /\ u.shadowQ = Tail(m.shadowQ)
  BY <1>1 DEF Mem
<1>3. /\ dd(m, p) = "DEAD" =>
           n = [ SetDd(u, p, "REMEMBERED") EXCEPT !.allctr[p[1]] = @ + 1, !.deadQ = Append(@, p) ]
      /\ dd(m, p) # "DEAD" => n = u
  BY <1>2 DEF Dequeue, dd
<1>. HIDE DEF u, p
<1>4. CASE dd(m, p) = "DEAD"
  <2>1. Pushed(u, n, p) /\ n.shadowQ = u.shadowQ
    BY <1>1, <1>2, <1>3, <1>4, Push, Zenon
  <2>2. Pushed(m, n, p)
    BY <1>2, <2>1 DEF Pushed, SameBlocks, SameRemotes, OneState
  <2>. QED  BY <1>1, <1>2, <1>4, <2>1, <2>2 DEF p
<1>5. CASE dd(m, p) # "DEAD"
  BY <1>1, <1>2, <1>3, <1>5 DEF p
<1>. QED  BY <1>4, <1>5

-------------------------------------------------------------------------------
(* Every slot that a bucket has lent is paid for by its allctr: those that  *)
(* wait in the queue, those that another slot is redirected to, and those   *)
(* that are marked as lent although neither is so any more.                 *)
At(q, b) == { i \in 1 .. Len(q) : q[i][1] = b }
Count(q, b) == Cardinality(At(q, b))
Lent(m, b) ==
  { q \in Bucket \X Offset : \E i \in Own : m.slot[q[1]][q[2]].remote = << b, i >> }
Lost(m, b) ==
  { j \in Own : /\ dd(m, << b, j >>) \in { "REMEMBERED", "ALLOCATED" }
                /\ << b, j >> \notin Range(m.deadQ)
                /\ \A c \in Bucket, i \in Offset : m.slot[c][i].remote # << b, j >> }
Owed(m, b) == Count(m.deadQ, b) + Cardinality(Lent(m, b)) + Cardinality(Lost(m, b))

LEMMA CountType ==
  ASSUME NEW q \in Seq(Place), NEW b
  PROVE  IsFiniteSet(At(q, b)) /\ Count(q, b) \in Nat /\ Count(q, b) <= Len(q)
<1>1. Len(q) \in Nat /\ 1 \in Int
  OBVIOUS
<1>2. IsFiniteSet(1 .. Len(q)) /\ Cardinality(1 .. Len(q)) = Len(q)
  <2>. DEFINE n == Len(q)
  <2>1. n \in Nat /\ 1 \in Int
    BY <1>1
  <2>. HIDE DEF n
  <2>2. IsFiniteSet(1 .. n) /\ Cardinality(1 .. n) = n
    BY <2>1, FS_Interval
  <2>. QED  BY <2>2 DEF n
<1>3. At(q, b) \in SUBSET (1 .. Len(q))
  BY DEF At
<1>4. IsFiniteSet(At(q, b)) /\ Cardinality(At(q, b)) <= Len(q)
  BY <1>2, <1>3, FS_Subset
<1>. QED  BY <1>4, FS_CardinalityType DEF Count

LEMMA CountAppend ==
  ASSUME NEW q \in Seq(Place), NEW p \in Place, NEW b
  PROVE  Count(Append(q, p), b) = Count(q, b) + IF p[1] = b THEN 1 ELSE 0
<1>. DEFINE L == Len(q)
            a == Append(q, p)
<1>1. /\ L \in Nat /\ Len(a) = L + 1 /\ a[L + 1] = p
      /\ \A i \in 1 .. L : a[i] = q[i]
  OBVIOUS
<1>2. IsFiniteSet(At(q, b)) /\ L + 1 \notin At(q, b)
  <2>1. IsFiniteSet(At(q, b))
    BY CountType, Zenon
  <2>2. L + 1 \notin At(q, b)
    BY <1>1 DEF At
  <2>. QED  BY <2>1, <2>2
<1>. HIDE DEF a
<1>3. CASE p[1] = b
  <2>1. At(a, b) = At(q, b) \cup { L + 1 }
    BY <1>1, <1>3 DEF At
  <2>2. Cardinality(At(q, b) \cup { L + 1 }) = Cardinality(At(q, b)) + 1
    BY <1>2, FS_AddElement
  <2>. QED  BY <1>3, <2>1, <2>2 DEF Count, a
<1>4. CASE p[1] # b
  <2>1. At(a, b) = At(q, b)
    BY <1>1, <1>4 DEF At
  <2>2. Count(q, b) \in Nat
    BY CountType
  <2>. QED  BY <1>4, <2>1, <2>2 DEF Count, a
<1>. QED  BY <1>3, <1>4

LEMMA CountTail ==
  ASSUME NEW q \in Seq(Place), q # << >>, NEW b
  PROVE  Count(q, b) = Count(Tail(q), b) + IF Head(q)[1] = b THEN 1 ELSE 0
<1>. DEFINE L == Len(q)
            t == Tail(q)
            f == [ i \in At(t, b) |-> i + 1 ]
            U == At(q, b) \ { 1 }
<1>1. /\ L \in Nat \ {0} /\ t \in Seq(Place) /\ Len(t) = L - 1 /\ Head(q) = q[1]
      /\ \A i \in 1 .. L - 1 : t[i] = q[i + 1]
  OBVIOUS
<1>2. IsFiniteSet(At(t, b)) /\ IsFiniteSet(At(q, b)) /\ Count(t, b) \in Nat /\ Count(q, b) \in Nat
  BY <1>1, CountType
<1>. HIDE DEF t
<1>3. f \in Bijection(At(t, b), U)
  <2>1. f \in [ At(t, b) -> U ]
    BY <1>1 DEF At
  <2>2. \A i \in At(t, b), k \in At(t, b) : f[i] = f[k] => i = k
    BY DEF At
  <2>3. ASSUME NEW k \in U
        PROVE  k - 1 \in At(t, b) /\ f[k - 1] = k
    BY <1>1 DEF At
  <2>. QED  BY <2>1, <2>2, <2>3 DEF Bijection, Injection, Surjection, IsInjective
<1>4. Cardinality(U) = Count(t, b)
  <2>1. ExistsBijection(At(t, b), U)
    BY <1>3 DEF ExistsBijection
  <2>. QED  BY <1>2, <2>1, FS_Bijection DEF Count
<1>5. 1 \in At(q, b) <=> Head(q)[1] = b
  BY <1>1 DEF At
<1>6. Cardinality(U) = IF 1 \in At(q, b) THEN Count(q, b) - 1 ELSE Count(q, b)
  BY <1>2, FS_RemoveElement DEF Count
<1>. QED  BY <1>2, <1>4, <1>5, <1>6 DEF t

LEMMA Ranges ==
  ASSUME NEW q \in Seq(Place), NEW p \in Place
  PROVE  /\ Range(Append(q, p)) = Range(q) \cup { p }
         /\ q # << >> => Range(q) = Range(Tail(q)) \cup { Head(q) } /\ Head(q) \in Place
         /\ Range(q) \subseteq Place
<1>1. \A t \in Seq(Place) : Range(t) = { t[i] : i \in 1 .. Len(t) }
  BY DEF Range
<1>2. Range(Append(q, p)) = Range(q) \cup { p }
  <2>. DEFINE a == Append(q, p)
  <2>1. /\ a \in Seq(Place) /\ Len(a) = Len(q) + 1 /\ Len(q) \in Nat /\ a[Len(q) + 1] = p
        /\ \A i \in 1 .. Len(q) : a[i] = q[i]
    OBVIOUS
  <2>. HIDE DEF a
  <2>2. Range(a) = { a[i] : i \in 1 .. Len(a) } /\ Range(q) = { q[i] : i \in 1 .. Len(q) }
    BY <1>1, <2>1
  <2>3. { a[i] : i \in 1 .. Len(a) } = { q[i] : i \in 1 .. Len(q) } \cup { p }
    BY <2>1
  <2>. QED  BY <2>2, <2>3 DEF a
<1>3. ASSUME q # << >>
      PROVE  Range(q) = Range(Tail(q)) \cup { Head(q) } /\ Head(q) \in Place
  <2>. DEFINE t == Tail(q)
  <2>1. /\ t \in Seq(Place) /\ Len(t) = Len(q) - 1 /\ Len(q) \in Nat \ {0} /\ Head(q) = q[1]
        /\ \A i \in 1 .. Len(t) : t[i] = q[i + 1]
    BY <1>3
  <2>0. Head(q) \in Place
    <3>1. Len(q) \in Nat \ {0} /\ Head(q) = q[1] /\ q \in [ 1 .. Len(q) -> Place ]
      BY <2>1
    <3>. QED  BY <3>1
  <2>. HIDE DEF t
  <2>2. Range(t) = { t[i] : i \in 1 .. Len(t) } /\ Range(q) = { q[i] : i \in 1 .. Len(q) }
    BY <1>1, <2>1
  <2>3. \A i \in 1 .. Len(q) : i = 1 \/ (i - 1 \in 1 .. Len(t) /\ t[i - 1] = q[i])
    BY <2>1
  <2>4. \A i \in 1 .. Len(t) : i + 1 \in 1 .. Len(q) /\ t[i] = q[i + 1]
    BY <2>1
  <2>5. { q[i] : i \in 1 .. Len(q) } = { t[i] : i \in 1 .. Len(t) } \cup { q[1] }
    <3>1. 1 \in 1 .. Len(q)
      BY <2>1
    <3>2. \A i \in 1 .. Len(t) : t[i] \in { q[k] : k \in 1 .. Len(q) }
      BY <2>4, Zenon
    <3>3. \A i \in 1 .. Len(q) : q[i] = q[1] \/ q[i] \in { t[k] : k \in 1 .. Len(t) }
      BY <2>3, Zenon
    <3>. HIDE DEF t
    <3>4. { t[i] : i \in 1 .. Len(t) } \cup { q[1] } \subseteq { q[i] : i \in 1 .. Len(q) }
      BY <3>1, <3>2, Zenon
    <3>5. { q[i] : i \in 1 .. Len(q) } \subseteq { t[i] : i \in 1 .. Len(t) } \cup { q[1] }
      BY <3>3, Zenon
    <3>. QED  BY <3>4, <3>5, Zenon
  <2>6. Range(q) = Range(t) \cup { Head(q) }
    BY <2>1, <2>2, <2>5, Zenon
  <2>. QED  BY <2>0, <2>6 DEF t
<1>4. Range(q) \subseteq Place
  BY <1>1
<1>. QED  BY <1>2, <1>3, <1>4

LEMMA OwedTypes ==
  ASSUME NEW m \in Mem, NEW b \in Bucket
  PROVE  /\ IsFiniteSet(Lent(m, b)) /\ IsFiniteSet(Lost(m, b))
         /\ Count(m.deadQ, b) \in Nat /\ Count(m.shadowQ, b) \in Nat
         /\ Cardinality(Lent(m, b)) \in Nat /\ Cardinality(Lost(m, b)) \in Nat
         /\ m.allctr[b] \in Int
<1>1. IsFiniteSet(Bucket) /\ IsFiniteSet(Offset) /\ IsFiniteSet(Own)
  BY Constants, FS_Interval DEF Bucket, Offset, Own
<1>2. IsFiniteSet(Bucket \X Offset)
  BY <1>1, FS_Product
<1>3. IsFiniteSet(Lent(m, b)) /\ IsFiniteSet(Lost(m, b))
  <2>1. Lent(m, b) \in SUBSET (Bucket \X Offset) /\ Lost(m, b) \in SUBSET Own
    BY DEF Lent, Lost
  <2>. QED  BY <1>1, <1>2, <2>1, FS_Subset
<1>4. m.deadQ \in Seq(Place) /\ m.shadowQ \in Seq(Place) /\ m.allctr[b] \in Int
  BY DEF Mem
<1>. QED  BY <1>3, <1>4, CountType, FS_CardinalityType

LEMMA OwedPush ==
  ASSUME NEW m \in Mem, NEW p \in Place, NEW n, Pushed(m, n, p), NEW b \in Bucket
  PROVE  Owed(n, b) <= Owed(m, b) + IF p[1] = b THEN 1 ELSE 0
<1>1. n \in Mem /\ m.deadQ \in Seq(Place) /\ n.deadQ = Append(m.deadQ, p)
  BY DEF Pushed, Mem
<1>2. Count(n.deadQ, b) = Count(m.deadQ, b) + IF p[1] = b THEN 1 ELSE 0
  BY <1>1, CountAppend
<1>3. Lent(n, b) = Lent(m, b)
  <2>1. \A q \in Bucket \X Offset : n.slot[q[1]][q[2]].remote = m.slot[q[1]][q[2]].remote
    BY DEF Pushed, SameRemotes
  <2>. QED  BY <2>1 DEF Lent
<1>4. Lost(n, b) \in SUBSET Lost(m, b)
  <2>1. Range(n.deadQ) = Range(m.deadQ) \cup { p }
    BY <1>1, Ranges
  <2>. SUFFICES ASSUME NEW j \in Lost(n, b) PROVE j \in Lost(m, b)
    OBVIOUS
  <2>2. /\ j \in Own /\ dd(n, << b, j >>) \in { "REMEMBERED", "ALLOCATED" }
        /\ << b, j >> \notin Range(n.deadQ)
        /\ \A c \in Bucket, i \in Offset : n.slot[c][i].remote # << b, j >>
    BY DEF Lost
  <2>3. << b, j >> # p /\ << b, j >> \notin Range(m.deadQ) /\ j \in Offset
    BY <2>1, <2>2, Constants
  <2>4. dd(m, << b, j >>) = dd(n, << b, j >>)
    BY <2>3 DEF Pushed, OneState, dd
  <2>5. \A c \in Bucket, i \in Offset : m.slot[c][i].remote # << b, j >>
    BY <2>2 DEF Pushed, SameRemotes
  <2>. QED  BY <2>2, <2>3, <2>4, <2>5 DEF Lost
<1>5. Cardinality(Lost(n, b)) <= Cardinality(Lost(m, b))
  BY <1>4, OwedTypes, FS_Subset
<1>. QED  BY <1>1, <1>2, <1>3, <1>5, OwedTypes DEF Owed

LEMMA OwedSame ==
  ASSUME NEW m, NEW n, SameRemotes(m, n), SameStates(m, n), n.deadQ = m.deadQ, NEW b \in Bucket
  PROVE  Owed(n, b) = Owed(m, b)
<1>1. Lent(n, b) = Lent(m, b)
  BY DEF Lent, SameRemotes
<1>2. \A j \in Own : dd(n, << b, j >>) = dd(m, << b, j >>)
  BY Constants DEF SameStates, dd
<1>3. Lost(n, b) = Lost(m, b)
  BY <1>2 DEF Lost, SameRemotes
<1>. QED  BY <1>1, <1>3 DEF Owed

LEMMA OwedDead ==
  ASSUME NEW m \in Mem, NEW n \in Mem, NEW p, SameRemotes(m, n), OneState(m, n, p, "DEAD"),
         n.deadQ = m.deadQ, NEW b \in Bucket
  PROVE  Owed(n, b) <= Owed(m, b)
<1>1. Lent(n, b) = Lent(m, b)
  BY DEF Lent, SameRemotes
<1>2. Lost(n, b) \in SUBSET Lost(m, b)
  <2>. SUFFICES ASSUME NEW j \in Lost(n, b) PROVE j \in Lost(m, b)
    OBVIOUS
  <2>1. /\ j \in Own /\ dd(n, << b, j >>) \in { "REMEMBERED", "ALLOCATED" }
        /\ << b, j >> \notin Range(m.deadQ) /\ j \in Offset
        /\ \A c \in Bucket, i \in Offset : m.slot[c][i].remote # << b, j >>
    BY Constants DEF Lost, SameRemotes
  <2>2. dd(n, << b, j >>) = IF << b, j >> = p THEN "DEAD" ELSE dd(m, << b, j >>)
    BY <2>1 DEF OneState, dd
  <2>3. dd(m, << b, j >>) = dd(n, << b, j >>)
    BY <2>1, <2>2
  <2>. QED  BY <2>1, <2>3 DEF Lost
<1>3. Cardinality(Lost(n, b)) <= Cardinality(Lost(m, b))
  BY <1>2, OwedTypes, FS_Subset
<1>. QED  BY <1>1, <1>3, OwedTypes DEF Owed

LEMMA OwedUnlink ==
  ASSUME NEW m \in Mem, NEW b \in Bucket, NEW j \in Offset, NEW p \in Place,
         m.slot[b][j].remote = p, NEW n, Unlinked(m, n, b, j, p), NEW c \in Bucket
  PROVE  Owed(n, c) <= Owed(m, c) - IF p[1] = c THEN 1 ELSE 0
<1>1. n \in Mem /\ n.deadQ = m.deadQ
  BY DEF Unlinked
<1>2. Lent(n, c) = Lent(m, c) \ { << b, j >> }
  <2>1. \A d \in Bucket, i \in Offset :
          n.slot[d][i].remote = IF d = b /\ i = j THEN NONE ELSE m.slot[d][i].remote
    BY DEF Unlinked, OneRemote
  <2>2. \A i : NONE # << c, i >>
    BY DEF NONE
  <2>3. ASSUME NEW d \in Bucket, NEW i \in Offset
        PROVE  << d, i >> \in Lent(n, c) <=> << d, i >> \in Lent(m, c) /\ << d, i >> # << b, j >>
    BY <2>1, <2>2 DEF Lent
  <2>4. Lent(n, c) \subseteq Bucket \X Offset /\ Lent(m, c) \subseteq Bucket \X Offset
    BY DEF Lent
  <2>. QED  BY <2>3, <2>4
<1>3. << b, j >> \in Lent(m, c) <=> p[1] = c
  <2>1. p = << p[1], p[2] >> /\ p[2] \in Own
    BY DEF Place
  <2>2. << b, j >> \in Lent(m, c) <=> \E i \in Own : m.slot[b][j].remote = << c, i >>
    BY DEF Lent
  <2>. QED  BY <2>1, <2>2
<1>4. Cardinality(Lent(n, c)) = Cardinality(Lent(m, c)) - IF p[1] = c THEN 1 ELSE 0
  <2>1. Cardinality(Lent(n, c)) =
          IF << b, j >> \in Lent(m, c) THEN Cardinality(Lent(m, c)) - 1 ELSE Cardinality(Lent(m, c))
    BY <1>2, OwedTypes, FS_RemoveElement
  <2>. QED  BY <1>3, <2>1, OwedTypes
<1>5. Lost(n, c) \in SUBSET Lost(m, c)
  <2>. SUFFICES ASSUME NEW i \in Lost(n, c) PROVE i \in Lost(m, c)
    OBVIOUS
  <2>1. /\ i \in Own /\ dd(n, << c, i >>) \in { "REMEMBERED", "ALLOCATED" }
        /\ << c, i >> \notin Range(m.deadQ) /\ i \in Offset
        /\ \A d \in Bucket, k \in Offset : n.slot[d][k].remote # << c, i >>
    BY <1>1, Constants DEF Lost
  <2>2. dd(n, << c, i >>) = IF << c, i >> = p THEN "DEAD" ELSE dd(m, << c, i >>)
    BY <2>1 DEF Unlinked, OneState, dd
  <2>3. dd(m, << c, i >>) = dd(n, << c, i >>) /\ << c, i >> # p
    BY <2>1, <2>2
  <2>4. \A d \in Bucket, k \in Offset : m.slot[d][k].remote # << c, i >>
    BY <2>1, <2>3 DEF Unlinked, OneRemote
  <2>. QED  BY <2>1, <2>3, <2>4 DEF Lost
<1>6. Cardinality(Lost(n, c)) <= Cardinality(Lost(m, c))
  BY <1>5, OwedTypes, FS_Subset
<1>. QED  BY <1>1, <1>4, <1>6, OwedTypes DEF Owed

(* What leaves Lent because its redirection ends may join Lost.            *)
Cleared(m, n, b, js) ==
  /\ n \in Mem /\ n.deadQ = m.deadQ
  /\ \A d \in Bucket, i \in Offset :
       /\ n.slot[d][i].remote = IF d = b /\ i \in js THEN NONE ELSE m.slot[d][i].remote
       /\ n.slot[d][i].dd \in { m.slot[d][i].dd, "REFRESHED" }

LEMMA OwedCleared ==
  ASSUME NEW m \in Mem, NEW b \in Bucket, NEW js, NEW n, Cleared(m, n, b, js), NEW c \in Bucket
  PROVE  Owed(n, c) <= Owed(m, c)
<1>. DEFINE X == { q \in Lent(m, c) : q[1] = b /\ q[2] \in js }
            f == [ q \in X |-> m.slot[q[1]][q[2]].remote[2] ]
            Y == { f[q] : q \in X }
<1>1. /\ n \in Mem /\ n.deadQ = m.deadQ
      /\ \A d \in Bucket, i \in Offset :
           /\ n.slot[d][i].remote = IF d = b /\ i \in js THEN NONE ELSE m.slot[d][i].remote
           /\ n.slot[d][i].dd \in { m.slot[d][i].dd, "REFRESHED" }
  BY DEF Cleared
<1>2. Lent(n, c) = Lent(m, c) \ X
  <2>2. \A i : NONE # << c, i >>
    BY DEF NONE
  <2>3. ASSUME NEW d \in Bucket, NEW i \in Offset
        PROVE  << d, i >> \in Lent(n, c) <=> << d, i >> \in Lent(m, c) /\ ~(d = b /\ i \in js)
    BY <1>1, <2>2 DEF Lent
  <2>4. Lent(n, c) \subseteq Bucket \X Offset /\ Lent(m, c) \subseteq Bucket \X Offset
    BY DEF Lent
  <2>. QED  BY <2>3, <2>4
<1>3. IsFiniteSet(X) /\ Cardinality(Lent(n, c)) = Cardinality(Lent(m, c)) - Cardinality(X)
  <2>1. X \in SUBSET Lent(m, c) /\ Lent(m, c) \cap X = X
    OBVIOUS
  <2>. HIDE DEF X
  <2>2. IsFiniteSet(X)
    BY <2>1, OwedTypes, FS_Subset
  <2>3. Cardinality(Lent(m, c) \ X) = Cardinality(Lent(m, c)) - Cardinality(Lent(m, c) \cap X)
    BY OwedTypes, FS_Difference
  <2>. QED  BY <1>2, <2>1, <2>2, <2>3
<1>4. IsFiniteSet(Y) /\ Cardinality(Y) <= Cardinality(X)
  <2>1. f \in Surjection(X, Y)
    BY DEF Surjection
  <2>. HIDE DEF X, f, Y
  <2>. QED  BY <1>3, <2>1, FS_Surjection
<1>5. Lost(n, c) \in SUBSET (Lost(m, c) \cup Y)
  <2>. SUFFICES ASSUME NEW i \in Lost(n, c), i \notin Lost(m, c) PROVE i \in Y
    OBVIOUS
  <2>1. /\ i \in Own /\ dd(n, << c, i >>) \in { "REMEMBERED", "ALLOCATED" }
        /\ << c, i >> \notin Range(m.deadQ) /\ i \in Offset
        /\ \A d \in Bucket, k \in Offset : n.slot[d][k].remote # << c, i >>
    BY <1>1, Constants DEF Lost
  <2>2. dd(m, << c, i >>) = dd(n, << c, i >>)
    BY <1>1, <2>1 DEF dd
  <2>3. PICK d \in Bucket, k \in Offset : m.slot[d][k].remote = << c, i >>
    BY <2>1, <2>2 DEF Lost
  <2>4. d = b /\ k \in js
    BY <1>1, <2>1, <2>3
  <2>5. << d, k >> \in X
    BY <2>1, <2>3, <2>4 DEF Lent
  <2>6. f[<< d, k >>] = i
    BY <2>3, <2>5
  <2>. HIDE DEF X, f
  <2>. QED  BY <2>5, <2>6
<1>6. Cardinality(Lost(n, c)) <= Cardinality(Lost(m, c)) + Cardinality(Y)
  <2>. HIDE DEF Y
  <2>1. /\ IsFiniteSet(Lost(m, c) \cup Y)
        /\ Cardinality(Lost(m, c) \cup Y) = Cardinality(Lost(m, c)) + Cardinality(Y) - Cardinality(Lost(m, c) \cap Y)
    BY <1>4, OwedTypes, FS_Union
  <2>2. Cardinality(Lost(m, c) \cap Y) \in Nat /\ Cardinality(Y) \in Nat
    BY <1>4, OwedTypes, FS_Intersection, FS_CardinalityType
  <2>3. Cardinality(Lost(n, c)) <= Cardinality(Lost(m, c) \cup Y)
    BY <1>5, <2>1, FS_Subset
  <2>. QED  BY <1>1, <2>1, <2>2, <2>3, OwedTypes
<1>7. Cardinality(Y) \in Nat /\ Cardinality(X) \in Nat
  BY <1>3, <1>4, FS_CardinalityType
<1>. HIDE DEF X, Y
<1>. QED  BY <1>1, <1>3, <1>4, <1>6, <1>7, OwedTypes DEF Owed

LEMMA OwedInPlace ==
  ASSUME NEW m \in Mem, NEW b \in Bucket, NEW js, NEW n, InPlace(m, n, b, js), NEW c \in Bucket
  PROVE  Owed(n, c) <= Owed(m, c)
<1>1. Cleared(m, n, b, js)
  BY DEF Cleared, InPlace, SameQueues
<1>. QED  BY <1>1, OwedCleared, Zenon

LEMMA OwedAllocate ==
  ASSUME NEW m \in Mem, NEW b \in Bucket, NEW j \in Offset, m.deadQ # << >>,
         NEW n, Allocated(m, n, b, j), NEW c \in Bucket
  PROVE  Owed(n, c) <= Owed(m, c)
<1>. DEFINE u == [ m EXCEPT !.slot[b][j].remote = NONE ]
            p == Head(m.deadQ)
<1>1. /\ u \in Mem /\ SameBlocks(m, u) /\ SameStates(m, u) /\ OneRemote(m, u, b, j, NONE)
      /\ SameQueues(m, u)
  <2>1. NONE \in Place \cup { NONE }
    OBVIOUS
  <2>. HIDE DEF u
  <2>. QED  BY <2>1, SetRemoteFacts, Zenon DEF u
<1>. HIDE DEF u, p
<1>2. /\ n \in Mem /\ n.deadQ = Tail(m.deadQ) /\ m.deadQ \in Seq(Place) /\ u.deadQ = m.deadQ
      /\ Range(m.deadQ) = Range(Tail(m.deadQ)) \cup { p } /\ p \in Place
  <2>1. n \in Mem /\ n.deadQ = Tail(m.deadQ) /\ m.deadQ \in Seq(Place) /\ u.deadQ = m.deadQ
    BY <1>1 DEF Allocated, Mem, SameQueues
  <2>. QED  BY <2>1, Ranges DEF p
<1>3. \A d \in Bucket, i \in Offset :
        /\ u.slot[d][i].remote = IF d = b /\ i = j THEN NONE ELSE m.slot[d][i].remote
        /\ n.slot[d][i].remote = IF d = b /\ i = j THEN p ELSE m.slot[d][i].remote
        /\ u.slot[d][i].dd = m.slot[d][i].dd
        /\ n.slot[d][i].dd = IF << d, i >> = p THEN "ALLOCATED" ELSE m.slot[d][i].dd
  BY <1>1 DEF Allocated, OneRemote, SameStates, OneState, p
<1>4. Owed(u, c) <= Owed(m, c)
  <2>1. Cleared(m, u, b, { j })
    BY <1>1, <1>2, <1>3 DEF Cleared
  <2>. QED  BY <2>1, OwedCleared, Zenon
<1>5. Count(u.deadQ, c) = Count(n.deadQ, c) + IF p[1] = c THEN 1 ELSE 0
  BY <1>2, CountTail DEF p
<1>6. Lent(n, c) = IF p[1] = c THEN Lent(u, c) \cup { << b, j >> } ELSE Lent(u, c)
  <2>1. p = << p[1], p[2] >> /\ p[2] \in Own
    BY <1>2 DEF Place
  <2>2. \A i : NONE # << c, i >>
    BY DEF NONE
  <2>3. ASSUME NEW d \in Bucket, NEW i \in Offset
        PROVE  << d, i >> \in Lent(n, c) <=>
                 IF d = b /\ i = j THEN p[1] = c ELSE << d, i >> \in Lent(u, c)
    BY <1>3, <2>1 DEF Lent
  <2>4. << b, j >> \notin Lent(u, c)
    BY <1>3, <2>2 DEF Lent
  <2>5. Lent(n, c) \subseteq Bucket \X Offset /\ Lent(u, c) \subseteq Bucket \X Offset
    BY DEF Lent
  <2>. QED  BY <2>3, <2>4, <2>5
<1>7. << b, j >> \notin Lent(u, c)
  <2>1. \A i : NONE # << c, i >>
    BY DEF NONE
  <2>. QED  BY <1>3, <2>1 DEF Lent
<1>8. Cardinality(Lent(n, c)) = Cardinality(Lent(u, c)) + IF p[1] = c THEN 1 ELSE 0
  <2>1. Cardinality(Lent(u, c) \cup { << b, j >> }) = Cardinality(Lent(u, c)) + 1
    BY <1>1, <1>7, OwedTypes, FS_AddElement
  <2>2. Cardinality(Lent(u, c)) \in Nat
    BY <1>1, OwedTypes
  <2>3. CASE p[1] = c
    BY <1>6, <2>1, <2>3
  <2>4. CASE p[1] # c
    BY <1>6, <2>2, <2>4
  <2>. QED  BY <2>3, <2>4
<1>9. Lost(n, c) \in SUBSET Lost(u, c)
  <2>. SUFFICES ASSUME NEW i \in Lost(n, c) PROVE i \in Lost(u, c)
    OBVIOUS
  <2>1. /\ i \in Own /\ dd(n, << c, i >>) \in { "REMEMBERED", "ALLOCATED" } /\ i \in Offset
        /\ << c, i >> \notin Range(n.deadQ)
        /\ \A d \in Bucket, k \in Offset : n.slot[d][k].remote # << c, i >>
    BY Constants DEF Lost
  <2>2. << c, i >> # p
    BY <1>3, <2>1
  <2>3. << c, i >> \notin Range(u.deadQ) /\ dd(u, << c, i >>) = dd(n, << c, i >>)
    BY <1>2, <1>3, <2>1, <2>2 DEF dd
  <2>4. \A d \in Bucket, k \in Offset : u.slot[d][k].remote # << c, i >>
    <3>1. NONE # << c, i >>
      BY DEF NONE
    <3>. QED  BY <1>3, <2>1, <3>1
  <2>. QED  BY <2>1, <2>3, <2>4 DEF Lost
<1>10. Cardinality(Lost(n, c)) <= Cardinality(Lost(u, c))
  BY <1>1, <1>9, OwedTypes, FS_Subset
<1>11. /\ Count(u.deadQ, c) \in Nat /\ Cardinality(Lent(u, c)) \in Nat /\ Cardinality(Lost(u, c)) \in Nat
       /\ Count(n.deadQ, c) \in Nat /\ Cardinality(Lent(n, c)) \in Nat /\ Cardinality(Lost(n, c)) \in Nat
       /\ Count(m.deadQ, c) \in Nat /\ Cardinality(Lent(m, c)) \in Nat /\ Cardinality(Lost(m, c)) \in Nat
  BY <1>1, <1>2, OwedTypes
<1>12. Owed(n, c) <= Owed(u, c)
  <2>. DEFINE x == Cardinality(Lost(n, c))
              y == Cardinality(Lost(u, c))
              z == Cardinality(Lent(u, c))
              k == Count(u.deadQ, c)
              a == Cardinality(Lent(n, c))
              q == Count(n.deadQ, c)
              d == IF p[1] = c THEN 1 ELSE 0
  <2>1. Owed(n, c) = q + a + x /\ Owed(u, c) = k + z + y
    BY DEF Owed
  <2>2. x \in Nat /\ y \in Nat /\ z \in Nat /\ k \in Nat /\ x <= y /\ q \in Nat /\ d \in Nat
    BY <1>10, <1>11
  <2>3. a = z + d /\ k = q + d
    BY <1>5, <1>8
  <2>. HIDE DEF x, y, z, k, a, q, d
  <2>. QED  BY <2>1, <2>2, <2>3
<1>. QED  BY <1>4, <1>11, <1>12 DEF Owed

-------------------------------------------------------------------------------
(* What holds of the slots, the queues and the counters at every moment of  *)
(* an access, whatever the constants are.                                  *)
Fits(m) == Len(m.deadQ) <= DEADQ_SIZE /\ Len(m.shadowQ) <= SHADQ_SIZE
Paid(m) == \A b \in Bucket : Owed(m, b) <= m.allctr[b]
Capped(m) ==
  \A b \in Bucket : m.allctr[b] + Count(m.shadowQ, b) <= REMOTE_CAP + SHADQ_SIZE
Good(m) == m \in Mem /\ Fits(m) /\ Paid(m) /\ Capped(m)

LEMMA SameBlocksChain ==
  ASSUME NEW m, NEW n, NEW o, SameBlocks(m, n), SameBlocks(n, o)
  PROVE  SameBlocks(m, o)
BY DEF SameBlocks

LEMMA SameBlocksSelf ==
  \A m, n : n.slot = m.slot => SameBlocks(m, n) /\ SameRemotes(m, n) /\ SameStates(m, n)
BY DEF SameBlocks, SameRemotes, SameStates

LEMMA Lengths ==
  ASSUME NEW m \in Mem
  PROVE  /\ m.deadQ \in Seq(Place) /\ m.shadowQ \in Seq(Place)
         /\ Len(m.deadQ) \in Nat /\ Len(m.shadowQ) \in Nat
         /\ m.allctr \in [ Bucket -> Int ]
         /\ \A q \in Seq(Place), p \in Place :
              /\ Append(q, p) \in Seq(Place) /\ Len(Append(q, p)) = Len(q) + 1
              /\ q # << >> => Tail(q) \in Seq(Place) /\ Len(Tail(q)) = Len(q) - 1 /\ Len(q) > 0
BY DEF Mem

LEMMA PaidPush ==
  ASSUME NEW m \in Mem, NEW p \in Place, NEW n, Pushed(m, n, p), Paid(m)
  PROVE  Paid(n)
<1>. SUFFICES ASSUME NEW b \in Bucket PROVE Owed(n, b) <= n.allctr[b]
  BY DEF Paid
<1>1. n \in Mem /\ p[1] \in Bucket
  BY DEF Pushed, Place
<1>2. m.allctr \in [ Bucket -> Int ] /\ n.allctr = [ m.allctr EXCEPT ![p[1]] = @ + 1 ]
  BY Lengths DEF Pushed
<1>3. n.allctr[b] = m.allctr[b] + IF p[1] = b THEN 1 ELSE 0
  BY <1>1, <1>2
<1>4. Owed(n, b) <= Owed(m, b) + IF p[1] = b THEN 1 ELSE 0
  BY OwedPush
<1>5. Owed(m, b) <= m.allctr[b]
  BY DEF Paid
<1>6. Owed(m, b) \in Nat /\ Owed(n, b) \in Nat /\ m.allctr[b] \in Int
  BY <1>1, OwedTypes DEF Owed
<1>. QED  BY <1>3, <1>4, <1>5, <1>6

LEMMA GoodRemember ==
  ASSUME NEW m, Good(m), NEW p \in Place, NEW n, n = Remember(m, p)
  PROVE  Good(n) /\ SameBlocks(m, n)
<1>1. m \in Mem /\ p[1] \in Bucket
  BY DEF Good, Place
<1>2. CASE n = m
  BY <1>2, SameBlocksSelf
<1>3. CASE /\ m.allctr[p[1]] < REMOTE_CAP /\ Len(m.deadQ) < DEADQ_SIZE
           /\ Pushed(m, n, p) /\ n.shadowQ = m.shadowQ
  <2>1. n \in Mem /\ SameBlocks(m, n)
    BY <1>3 DEF Pushed
  <2>2. Paid(n)
    BY <1>1, <1>3, PaidPush DEF Good
  <2>3. Fits(n)
    BY <1>1, <1>3, <2>1, Lengths, Constants DEF Good, Fits, Pushed
  <2>4. Capped(n)
    <3>. SUFFICES ASSUME NEW b \in Bucket
                  PROVE  n.allctr[b] + Count(n.shadowQ, b) <= REMOTE_CAP + SHADQ_SIZE
      BY DEF Capped
    <3>1. m.allctr \in [ Bucket -> Int ] /\ n.allctr = [ m.allctr EXCEPT ![p[1]] = @ + 1 ]
      BY <1>1, <1>3, Lengths DEF Pushed
    <3>2. n.allctr[b] = m.allctr[b] + (IF p[1] = b THEN 1 ELSE 0) /\ m.allctr[b] \in Int
      BY <1>1, <3>1
    <3>3. Count(m.shadowQ, b) \in Nat /\ Count(m.shadowQ, b) <= SHADQ_SIZE
      BY <1>1, Lengths, CountType, Constants DEF Good, Fits
    <3>4. m.allctr[b] + Count(m.shadowQ, b) <= REMOTE_CAP + SHADQ_SIZE
      BY DEF Good, Capped
    <3>. QED  BY <1>3, <3>2, <3>3, <3>4, Constants
  <2>. QED  BY <2>1, <2>2, <2>3, <2>4 DEF Good
<1>4. CASE /\ m.allctr[p[1]] < REMOTE_CAP /\ Len(m.shadowQ) < SHADQ_SIZE /\ Shadowed(m, n, p)
  <2>1. n \in Mem /\ SameBlocks(m, n) /\ SameRemotes(m, n) /\ SameStates(m, n)
        /\ n.deadQ = m.deadQ /\ n.allctr = m.allctr
    BY <1>4, SameBlocksSelf DEF Shadowed
  <2>2. Paid(n)
    BY <2>1, OwedSame DEF Good, Paid
  <2>3. Fits(n)
    BY <1>1, <1>4, <2>1, Lengths, Constants DEF Good, Fits, Shadowed
  <2>4. Capped(n)
    <3>. SUFFICES ASSUME NEW b \in Bucket
                  PROVE  n.allctr[b] + Count(n.shadowQ, b) <= REMOTE_CAP + SHADQ_SIZE
      BY DEF Capped
    <3>1. Count(n.shadowQ, b) = Count(m.shadowQ, b) + IF p[1] = b THEN 1 ELSE 0
      BY <1>1, <1>4, Lengths, CountAppend DEF Shadowed
    <3>2. Count(n.shadowQ, b) \in Nat /\ Count(n.shadowQ, b) <= SHADQ_SIZE
      BY <2>1, <2>3, Lengths, CountType, Constants DEF Fits
    <3>3. m.allctr[b] + Count(m.shadowQ, b) <= REMOTE_CAP + SHADQ_SIZE
      BY DEF Good, Capped
    <3>4. Count(m.shadowQ, b) \in Nat /\ m.allctr[b] \in Int
      BY <1>1, OwedTypes
    <3>. QED  BY <1>4, <2>1, <3>1, <3>2, <3>3, <3>4, Constants
  <2>. QED  BY <2>1, <2>2, <2>3, <2>4 DEF Good
<1>. QED  BY <1>1, <1>2, <1>3, <1>4, RememberFacts

LEMMA GoodRead ==
  ASSUME NEW m, Good(m), NEW b \in Bucket, NEW j \in Offset
  PROVE  Good(Read(m, b, j)) /\ SameBlocks(m, Read(m, b, j))
<1>. DEFINE p == m.slot[b][j].remote
<1>1. m \in Mem /\ p \in Place \cup { NONE }
  BY DEF Good, Mem, Slot
<1>2. CASE p # NONE
  <2>1. p \in Place /\ p[1] \in Bucket
    BY <1>1, <1>2 DEF Place
  <2>2. PICK u : Unlinked(m, u, b, j, p) /\ remote_access(m, b, j) = Remember(u, p)
    BY <1>1, <2>1, RemoteAccess
  <2>. HIDE DEF p
  <2>3. /\ u \in Mem /\ SameBlocks(m, u) /\ u.deadQ = m.deadQ /\ u.shadowQ = m.shadowQ
        /\ m.allctr \in [ Bucket -> Int ] /\ u.allctr = [ m.allctr EXCEPT ![p[1]] = @ - 1 ]
    BY <1>1, <2>2, Lengths DEF Unlinked
  <2>4. \A c \in Bucket : u.allctr[c] = m.allctr[c] - (IF p[1] = c THEN 1 ELSE 0) /\ m.allctr[c] \in Int
    BY <2>1, <2>3
  <2>5. Paid(u)
    <3>. SUFFICES ASSUME NEW c \in Bucket PROVE Owed(u, c) <= u.allctr[c]
      BY DEF Paid
    <3>1. Owed(u, c) <= Owed(m, c) - IF p[1] = c THEN 1 ELSE 0
      BY <1>1, <2>1, <2>2, OwedUnlink DEF p
    <3>2. Owed(m, c) <= m.allctr[c]
      BY DEF Good, Paid
    <3>3. Owed(m, c) \in Nat /\ Owed(u, c) \in Nat
      BY <1>1, <2>3, OwedTypes DEF Owed
    <3>. QED  BY <2>4, <3>1, <3>2, <3>3
  <2>6. Fits(u)
    BY <2>3 DEF Fits, Good
  <2>7. Capped(u)
    <3>. SUFFICES ASSUME NEW c \in Bucket
                  PROVE  u.allctr[c] + Count(u.shadowQ, c) <= REMOTE_CAP + SHADQ_SIZE
      BY DEF Capped
    <3>1. m.allctr[c] + Count(m.shadowQ, c) <= REMOTE_CAP + SHADQ_SIZE
      BY DEF Good, Capped
    <3>2. Count(m.shadowQ, c) \in Nat
      BY <1>1, OwedTypes
    <3>. QED  BY <2>3, <2>4, <3>1, <3>2, Constants
  <2>8. Good(u)
    BY <2>3, <2>5, <2>6, <2>7 DEF Good
  <2>9. Good(Remember(u, p)) /\ SameBlocks(u, Remember(u, p))
    BY <2>1, <2>8, GoodRemember
  <2>10. Read(m, b, j) = Remember(u, p)
    BY <1>2, <2>2 DEF Read, p
  <2>. QED  BY <2>3, <2>9, <2>10, SameBlocksChain
<1>3. CASE p = NONE
  <2>. DEFINE n == SetDd(m, << b, j >>, "DEAD")
  <2>1. Read(m, b, j) = n
    BY <1>3 DEF Read, inplace_access
  <2>2. /\ n \in Mem /\ SameBlocks(m, n) /\ SameRemotes(m, n) /\ OneState(m, n, << b, j >>, "DEAD")
        /\ SameQueues(m, n)
    <3>1. << b, j >> \in Bucket \X Offset /\ "DEAD" \in DeadState
      BY DEF DeadState
    <3>. QED  BY <1>1, <3>1, SetDdFacts, Zenon
  <2>. HIDE DEF n
  <2>3. n.deadQ = m.deadQ /\ n.allctr = m.allctr /\ n.shadowQ = m.shadowQ
    BY <2>2 DEF SameQueues
  <2>4. Paid(n)
    <3>. SUFFICES ASSUME NEW c \in Bucket PROVE Owed(n, c) <= n.allctr[c]
      BY DEF Paid
    <3>1. Owed(n, c) <= Owed(m, c)
      BY <1>1, <2>2, <2>3, OwedDead
    <3>2. Owed(m, c) <= m.allctr[c]
      BY DEF Good, Paid
    <3>3. Owed(m, c) \in Nat /\ Owed(n, c) \in Nat /\ m.allctr[c] \in Int
      BY <1>1, <2>2, OwedTypes DEF Owed
    <3>. QED  BY <2>3, <3>1, <3>2, <3>3
  <2>5. Fits(n) /\ Capped(n)
    BY <2>3 DEF Good, Fits, Capped
  <2>. QED  BY <2>1, <2>2, <2>4, <2>5 DEF Good
<1>. QED  BY <1>2, <1>3

LEMMA OwedNat ==
  ASSUME NEW m \in Mem, NEW b \in Bucket
  PROVE  Owed(m, b) \in Nat /\ m.allctr[b] \in Int
<1>1. /\ Count(m.deadQ, b) \in Nat /\ Cardinality(Lent(m, b)) \in Nat
      /\ Cardinality(Lost(m, b)) \in Nat /\ m.allctr[b] \in Int
  BY OwedTypes
<1>. QED  BY <1>1 DEF Owed

LEMMA GoodAllocate ==
  ASSUME NEW m, Good(m), NEW b \in Bucket, NEW j \in Offset, m.deadQ # << >>
  PROVE  Good(remote_allocate(m, b, j)) /\ SameBlocks(m, remote_allocate(m, b, j))
<1>. DEFINE n == remote_allocate(m, b, j)
<1>1. m \in Mem
  BY DEF Good
<1>2. Allocated(m, n, b, j)
  BY <1>1, RemoteAllocate
<1>. HIDE DEF n
<1>3. /\ n \in Mem /\ SameBlocks(m, n) /\ n.allctr = m.allctr /\ n.shadowQ = m.shadowQ
      /\ n.deadQ = Tail(m.deadQ)
  BY <1>2 DEF Allocated
<1>4. Paid(n)
  <2>. SUFFICES ASSUME NEW c \in Bucket PROVE Owed(n, c) <= n.allctr[c]
    BY DEF Paid
  <2>1. Owed(n, c) <= Owed(m, c)
    BY <1>1, <1>2, OwedAllocate
  <2>2. Owed(m, c) <= m.allctr[c]
    BY DEF Good, Paid
  <2>3. Owed(m, c) \in Nat /\ Owed(n, c) \in Nat /\ m.allctr[c] \in Int
    BY <1>1, <1>3, OwedNat
  <2>. QED  BY <1>3, <2>1, <2>2, <2>3
<1>5. Fits(n)
  <2>1. Len(n.deadQ) = Len(m.deadQ) - 1 /\ Len(m.deadQ) \in Nat
    BY <1>1, <1>3, Lengths
  <2>. QED  BY <1>3, <2>1, Constants DEF Good, Fits
<1>6. Capped(n)
  BY <1>3 DEF Good, Capped
<1>. QED  BY <1>3, <1>4, <1>5, <1>6 DEF Good, n

LEMMA GoodInPlace ==
  ASSUME NEW m, Good(m), NEW b \in Bucket, NEW js
  PROVE  Good(inplace_allocate(m, b, js)) /\ SameBlocks(m, inplace_allocate(m, b, js))
<1>. DEFINE n == inplace_allocate(m, b, js)
<1>1. m \in Mem
  BY DEF Good
<1>2. InPlace(m, n, b, js)
  BY <1>1, InplaceAllocate
<1>. HIDE DEF n
<1>3. /\ n \in Mem /\ SameBlocks(m, n) /\ n.allctr = m.allctr /\ n.shadowQ = m.shadowQ
      /\ n.deadQ = m.deadQ
  BY <1>2 DEF InPlace, SameQueues
<1>4. Paid(n)
  <2>. SUFFICES ASSUME NEW c \in Bucket PROVE Owed(n, c) <= n.allctr[c]
    BY DEF Paid
  <2>1. Owed(n, c) <= Owed(m, c)
    BY <1>1, <1>2, OwedInPlace
  <2>2. Owed(m, c) <= m.allctr[c]
    BY DEF Good, Paid
  <2>3. Owed(m, c) \in Nat /\ Owed(n, c) \in Nat /\ m.allctr[c] \in Int
    BY <1>1, <1>3, OwedNat
  <2>. QED  BY <1>3, <2>1, <2>2, <2>3
<1>. QED  BY <1>3, <1>4 DEF Good, Fits, Capped, n

LEMMA GoodReblocked ==
  ASSUME NEW m, Good(m), NEW b, NEW v, NEW r, NEW n, Reblocked(m, n, b, v, r)
  PROVE  Good(n)
<1>1. /\ n \in Mem /\ SameRemotes(m, n) /\ SameStates(m, n) /\ n.allctr = m.allctr
      /\ n.shadowQ = m.shadowQ /\ n.deadQ = m.deadQ
  BY DEF Reblocked, SameQueues
<1>2. Paid(n)
  BY <1>1, OwedSame DEF Good, Paid
<1>. QED  BY <1>1, <1>2 DEF Good, Fits, Capped

LEMMA GoodDequeue ==
  ASSUME NEW m, Good(m), m.shadowQ # << >>, Len(m.deadQ) < DEADQ_SIZE
  PROVE  /\ Good(Dequeue(m)) /\ SameBlocks(m, Dequeue(m))
         /\ Len(Dequeue(m).shadowQ) = Len(m.shadowQ) - 1
<1>. DEFINE n == Dequeue(m)
            p == Head(m.shadowQ)
<1>1. m \in Mem
  BY DEF Good
<1>2. /\ p \in Place /\ n.shadowQ = Tail(m.shadowQ)
      /\ \/ dd(m, p) = "DEAD" /\ Pushed(m, n, p)
         \/ /\ dd(m, p) # "DEAD" /\ n \in Mem /\ n.slot = m.slot
            /\ n.allctr = m.allctr /\ n.deadQ = m.deadQ /\ n.taken = m.taken
  BY <1>1, DequeueFacts
<1>3. \A b \in Bucket : Count(m.shadowQ, b) = Count(n.shadowQ, b) + IF p[1] = b THEN 1 ELSE 0
  BY <1>1, <1>2, CountTail, Lengths
<1>. HIDE DEF n, p
<1>4. n \in Mem
  BY <1>2 DEF Pushed
<1>5. Len(n.shadowQ) = Len(m.shadowQ) - 1
  BY <1>1, <1>2, Lengths
<1>6. CASE Pushed(m, n, p)
  <2>1. Paid(n)
    BY <1>1, <1>2, <1>6, PaidPush DEF Good
  <2>2. Fits(n)
    <3>1. Len(n.deadQ) = Len(m.deadQ) + 1
      BY <1>1, <1>2, <1>6, Lengths DEF Pushed
    <3>. QED  BY <1>1, <1>5, <3>1, Lengths, Constants DEF Good, Fits
  <2>3. Capped(n)
    <3>. SUFFICES ASSUME NEW b \in Bucket
                  PROVE  n.allctr[b] + Count(n.shadowQ, b) <= REMOTE_CAP + SHADQ_SIZE
      BY DEF Capped
    <3>1. m.allctr \in [ Bucket -> Int ] /\ n.allctr = [ m.allctr EXCEPT ![p[1]] = @ + 1 ] /\ p[1] \in Bucket
      BY <1>1, <1>2, <1>6, Lengths DEF Pushed, Place
    <3>2. n.allctr[b] = m.allctr[b] + (IF p[1] = b THEN 1 ELSE 0) /\ m.allctr[b] \in Int
      BY <3>1
    <3>3. m.allctr[b] + Count(m.shadowQ, b) <= REMOTE_CAP + SHADQ_SIZE
      BY DEF Good, Capped
    <3>4. Count(m.shadowQ, b) = Count(n.shadowQ, b) + IF p[1] = b THEN 1 ELSE 0
      BY <1>3
    <3>5. Count(m.shadowQ, b) \in Nat /\ Count(n.shadowQ, b) \in Nat
      BY <1>1, <1>4, OwedTypes
    <3>. QED  BY <3>2, <3>3, <3>4, <3>5, Constants
  <2>4. SameBlocks(m, n)
    BY <1>6 DEF Pushed
  <2>. QED  BY <1>4, <1>5, <2>1, <2>2, <2>3, <2>4 DEF Good, n
<1>7. CASE n.slot = m.slot /\ n.allctr = m.allctr /\ n.deadQ = m.deadQ
  <2>1. SameBlocks(m, n) /\ SameRemotes(m, n) /\ SameStates(m, n)
    BY <1>7, SameBlocksSelf
  <2>2. Paid(n)
    BY <1>7, <2>1, OwedSame DEF Good, Paid
  <2>3. Fits(n)
    BY <1>1, <1>5, <1>7, Lengths, Constants DEF Good, Fits
  <2>4. Capped(n)
    <3>. SUFFICES ASSUME NEW b \in Bucket
                  PROVE  n.allctr[b] + Count(n.shadowQ, b) <= REMOTE_CAP + SHADQ_SIZE
      BY DEF Capped
    <3>1. m.allctr[b] + Count(m.shadowQ, b) <= REMOTE_CAP + SHADQ_SIZE /\ n.allctr[b] = m.allctr[b]
      BY <1>7 DEF Good, Capped
    <3>2. Count(m.shadowQ, b) >= Count(n.shadowQ, b)
      <4>1. Count(n.shadowQ, b) \in Nat
        BY <1>4, OwedTypes
      <4>. QED  BY <1>3, <4>1
    <3>3. Count(m.shadowQ, b) \in Nat /\ Count(n.shadowQ, b) \in Nat /\ m.allctr[b] \in Int
      BY <1>1, <1>4, OwedTypes
    <3>. QED  BY <3>1, <3>2, <3>3, Constants
  <2>. QED  BY <1>4, <1>5, <2>1, <2>2, <2>3, <2>4 DEF Good, n
<1>. QED  BY <1>2, <1>6, <1>7

(* The order in which the slots of a set are visited.                       *)
Increasing(js, S) ==
  /\ js \in [ 1 .. Cardinality(S) -> S ]
  /\ \A k, l \in DOMAIN js : k < l => js[k] < js[l]

LEMMA IncreasingExists ==
  ASSUME NEW N \in Nat, NEW S \in SUBSET (0 .. N - 1)
  PROVE  \E js : Increasing(js, S)
<1>. DEFINE P == { d \in Nat : \A T \in SUBSET (0 .. d - 1) : \E js : Increasing(js, T) }
<1>1. 0 \in P
  <2>. SUFFICES ASSUME NEW T \in SUBSET (0 .. 0 - 1) PROVE \E js : Increasing(js, T)
    OBVIOUS
  <2>1. T = {}
    OBVIOUS
  <2>2. Cardinality(T) = 0
    BY <2>1, FS_EmptySet
  <2>. DEFINE js == [ k \in 1 .. 0 |-> k ]
  <2>3. Increasing(js, T)
    BY <2>2 DEF Increasing
  <2>. QED  BY <2>3
<1>2. ASSUME NEW d \in Nat, d \in P
      PROVE  d + 1 \in P
  <2>. SUFFICES ASSUME NEW T \in SUBSET (0 .. d) PROVE \E js : Increasing(js, T)
    OBVIOUS
  <2>. DEFINE U == T \ { d }
  <2>1. U \in SUBSET (0 .. d - 1)
    OBVIOUS
  <2>2. PICK g : Increasing(g, U)
    BY <1>2, <2>1
  <2>3. CASE d \notin T
    <3>1. U = T
      BY <2>3
    <3>. QED  BY <2>2, <3>1
  <2>4. CASE d \in T
    <3>1. IsFiniteSet(U) /\ Cardinality(U) \in Nat
      <4>1. IsFiniteSet(0 .. d - 1)
        BY FS_Interval
      <4>. QED  BY <2>1, <4>1, FS_Subset, FS_CardinalityType
    <3>2. T = U \cup { d } /\ d \notin U
      BY <2>4
    <3>3. Cardinality(T) = Cardinality(U) + 1
      BY <3>1, <3>2, FS_AddElement
    <3>. DEFINE n == Cardinality(U)
                js == [ k \in 1 .. n + 1 |-> IF k = n + 1 THEN d ELSE g[k] ]
    <3>4. g \in [ 1 .. n -> U ] /\ \A k, l \in 1 .. n : k < l => g[k] < g[l]
      BY <2>2 DEF Increasing
    <3>5. \A i \in U : i \in 0 .. d - 1
      BY <2>1
    <3>. HIDE DEF U
    <3>6. js \in [ 1 .. n + 1 -> T ]
      <4>. SUFFICES ASSUME NEW k \in 1 .. n + 1 PROVE js[k] \in T
        OBVIOUS
      <4>1. CASE k = n + 1
        BY <3>2, <4>1
      <4>2. CASE k # n + 1
        <5>1. k \in 1 .. n
          BY <3>1, <4>2
        <5>. QED  BY <3>2, <3>4, <4>2, <5>1
      <4>. QED  BY <4>1, <4>2
    <3>7. ASSUME NEW k \in 1 .. n + 1, NEW l \in 1 .. n + 1, k < l
          PROVE  js[k] < js[l]
      <4>1. k \in 1 .. n /\ js[k] = g[k] /\ g[k] \in U
        BY <3>1, <3>4, <3>7
      <4>2. CASE l = n + 1
        BY <3>5, <4>1, <4>2
      <4>3. CASE l # n + 1
        <5>1. l \in 1 .. n /\ js[l] = g[l]
          BY <3>1, <4>3
        <5>. QED  BY <3>4, <3>7, <4>1, <5>1
      <4>. QED  BY <4>2, <4>3
    <3>8. Increasing(js, T)
      BY <3>3, <3>6, <3>7 DEF Increasing
    <3>. QED  BY <3>8
  <2>. QED  BY <2>3, <2>4
<1>3. Nat \subseteq P
  <2>. HIDE DEF P
  <2>. QED  BY <1>1, <1>2, Induction
<1>4. N \in P
  <2>. HIDE DEF P
  <2>. QED  BY <1>3
<1>. QED  BY <1>4

(* js lists the elements of S, none of them twice.                          *)
Lists(js, S) ==
  /\ S \subseteq Offset /\ IsFiniteSet(S) /\ Cardinality(S) \in Nat
  /\ js \in Seq(S) /\ Len(js) = Cardinality(S) /\ js = [ k \in 1 .. Len(js) |-> js[k] ]
  /\ { js[k] : k \in 1 .. Len(js) } = S /\ Range(js) = S
  /\ \A k, l \in 1 .. Len(js) : js[k] = js[l] => k = l

LEMMA ListsSeq == \A js, S : Lists(js, S) => js \in Seq(Offset)
BY DEF Lists

LEMMA OffsetsFinite ==
  /\ IsFiniteSet(Offset)
  /\ \A S \in SUBSET Offset : IsFiniteSet(S) /\ Cardinality(S) \in Nat
<1>1. IsFiniteSet(Offset)
  BY Constants, FS_Interval DEF Offset
<1>. QED  BY <1>1, FS_Subset, FS_CardinalityType

LEMMA ListsInjective ==
  ASSUME NEW S \in SUBSET Offset, NEW js \in [ 1 .. Cardinality(S) -> S ],
         \A k, l \in 1 .. Cardinality(S) : js[k] = js[l] => k = l
  PROVE  Lists(js, S)
<1>. DEFINE n == Cardinality(S)
            R == { js[k] : k \in 1 .. n }
<1>1. IsFiniteSet(S) /\ n \in Nat
  BY OffsetsFinite
<1>2. IsFiniteSet(1 .. n) /\ Cardinality(1 .. n) = n
  BY <1>1, FS_Interval
<1>3. js \in Bijection(1 .. n, R)
  BY DEF Bijection, Injection, Surjection, IsInjective
<1>. HIDE DEF n
<1>4. IsFiniteSet(R) /\ Cardinality(R) = n
  <2>1. ExistsBijection(1 .. n, R)
    BY <1>3 DEF ExistsBijection
  <2>. QED  BY <1>2, <2>1, FS_Bijection
<1>5. R = S
  <2>1. R \in SUBSET S
    BY DEF n
  <2>. HIDE DEF R
  <2>. QED  BY <1>1, <1>4, <2>1, FS_Subset DEF n
<1>6. js \in Seq(S) /\ Len(js) = n /\ DOMAIN js = 1 .. n
  BY <1>1 DEF n
<1>7. Range(js) = S
  BY <1>5, <1>6 DEF Range
<1>8. \A k, l \in 1 .. n : js[k] = js[l] => k = l
  BY DEF n
<1>9. js = [ k \in 1 .. n |-> js[k] ]
  BY <1>6 DEF n
<1>. QED  BY <1>1, <1>5, <1>6, <1>7, <1>8, <1>9 DEF Lists, n

LEMMA InOrderLists ==
  ASSUME NEW S \in SUBSET Offset
  PROVE  Lists(InOrder(S), S)
<1>. DEFINE js == InOrder(S)
<1>1. \E g : Increasing(g, S)
  <2>. DEFINE N == LZ + S_INC
  <2>1. N \in Nat /\ S \in SUBSET (0 .. N - 1)
    BY Constants DEF Offset
  <2>. HIDE DEF N
  <2>. QED  BY <2>1, IncreasingExists, Zenon
<1>2. Increasing(js, S)
  BY <1>1 DEF Increasing, InOrder
<1>. HIDE DEF js
<1>3. js \in [ 1 .. Cardinality(S) -> S ] /\ Cardinality(S) \in Nat
  BY <1>2, OffsetsFinite DEF Increasing
<1>4. \A k, l \in 1 .. Cardinality(S) : js[k] = js[l] => k = l
  <2>. SUFFICES ASSUME NEW k \in 1 .. Cardinality(S), NEW l \in 1 .. Cardinality(S), k # l
                PROVE  js[k] # js[l]
    OBVIOUS
  <2>1. js[k] \in Int /\ js[l] \in Int
    <3>1. S \subseteq Int
      BY Constants DEF Offset
    <3>2. js[k] \in S /\ js[l] \in S
      BY <1>3
    <3>. QED  BY <3>1, <3>2
  <2>2. k < l \/ l < k
    BY <1>3
  <2>3. DOMAIN js = 1 .. Cardinality(S)
    BY <1>3
  <2>4. js[k] < js[l] \/ js[l] < js[k]
    BY <1>2, <2>2, <2>3 DEF Increasing
  <2>. QED  BY <2>1, <2>4
<1>. QED  BY <1>3, <1>4, ListsInjective DEF js

-------------------------------------------------------------------------------
(* The loops keep the bookkeeping and the blocks.                          *)
LEMMA GoodReadAll ==
  ASSUME NEW m, Good(m), NEW b \in Bucket, NEW js \in Seq(Offset)
  PROVE  Good(ReadAll(m, b, js)) /\ SameBlocks(m, ReadAll(m, b, js))
<1>. DEFINE Y == { n \in Mem : Good(n) /\ SameBlocks(m, n) }
            X == [ k \in 0 .. Len(js) |-> Y ]
<1>1. Len(js) \in Nat /\ \A k \in 1 .. Len(js) : js[k] \in Offset
  OBVIOUS
<1>2. m \in Y
  BY SameBlocksSelf DEF Good
<1>3. ASSUME NEW k \in 1 .. Len(js), NEW n \in Y
      PROVE  Read(n, b, js[k]) \in Y
  <2>1. Good(Read(n, b, js[k])) /\ SameBlocks(n, Read(n, b, js[k]))
    BY <1>1, GoodRead
  <2>. QED  BY <2>1, SameBlocksChain DEF Good
<1>. HIDE DEF Y
<1>4. m \in X[0] /\ \A k \in 1 .. Len(js) : \A n \in X[k - 1] : Read(n, b, js[k]) \in X[k]
  BY <1>1, <1>2, <1>3
<1>5. X[Len(js)] = Y
  BY <1>1
<1>. HIDE DEF X
<1>6. ReadAll(m, b, js) \in Y
  BY <1>1, <1>4, <1>5, ReadAllStays
<1>. QED  BY <1>6 DEF Y

LEMMA GoodGather ==
  ASSUME NEW m, Good(m), NEW b \in Bucket
  PROVE  Good(gather_dead(m, b)) /\ SameBlocks(m, gather_dead(m, b))
<1>. DEFINE Y == { n \in Mem : Good(n) /\ SameBlocks(m, n) }
            X == [ k \in 0 .. LZ |-> Y ]
<1>1. LZ \in Nat /\ \A k \in 1 .. LZ : << b, k - 1 >> \in Place
  BY Constants DEF Place, Own
<1>2. m \in Y
  BY SameBlocksSelf DEF Good
<1>3. ASSUME NEW k \in 1 .. LZ, NEW n \in Y
      PROVE  RememberDead(n, << b, k - 1 >>) \in Y
  <2>. DEFINE p == << b, k - 1 >>
  <2>1. Good(Remember(n, p)) /\ SameBlocks(n, Remember(n, p))
    BY <1>1, GoodRemember
  <2>2. Good(RememberDead(n, p)) /\ SameBlocks(m, RememberDead(n, p))
    BY <2>1, SameBlocksChain DEF RememberDead
  <2>. QED  BY <2>2 DEF Good
<1>. HIDE DEF Y
<1>4. m \in X[0] /\ \A k \in 1 .. LZ : \A n \in X[k - 1] : RememberDead(n, << b, k - 1 >>) \in X[k]
  BY <1>1, <1>2, <1>3
<1>5. X[LZ] = Y
  BY <1>1
<1>. HIDE DEF X
<1>6. gather_dead(m, b) \in Y
  BY <1>1, <1>4, <1>5, GatherStays
<1>. QED  BY <1>6 DEF Y

LEMMA GoodShadowIn ==
  ASSUME NEW m, Good(m)
  PROVE  Good(ShadowIn(m)) /\ SameBlocks(m, ShadowIn(m))
<1>. DEFINE L == Len(m.shadowQ)
            Y(k) == { n \in Mem : /\ Good(n) /\ SameBlocks(m, n)
                                  /\ Len(n.deadQ) >= DEADQ_SIZE \/ Len(n.shadowQ) = L - k }
            X == [ k \in 0 .. L |-> Y(k) ]
<1>1. L \in Nat
  BY Lengths DEF Good
<1>2. m \in Y(0)
  BY <1>1, SameBlocksSelf DEF Good
<1>3. ASSUME NEW k \in 1 .. L, NEW n \in Y(k - 1)
      PROVE  ShadowMove(n) \in Y(k)
  <2>1. CASE Len(n.deadQ) < DEADQ_SIZE
    <3>1. Len(n.shadowQ) = L - (k - 1) /\ Len(n.deadQ) \in Nat /\ n.shadowQ \in Seq(Place)
      BY <2>1, Lengths, Constants DEF Good
    <3>2. n.shadowQ # << >>
      BY <1>1, <3>1
    <3>3. /\ Good(Dequeue(n)) /\ SameBlocks(n, Dequeue(n))
          /\ Len(Dequeue(n).shadowQ) = Len(n.shadowQ) - 1
      BY <2>1, <3>2, GoodDequeue
    <3>4. ShadowMove(n) = Dequeue(n)
      BY <2>1 DEF ShadowMove
    <3>5. SameBlocks(m, Dequeue(n))
      BY <3>3, SameBlocksChain
    <3>6. Len(Dequeue(n).shadowQ) = L - k
      BY <1>1, <3>1, <3>3
    <3>. QED  BY <3>3, <3>4, <3>5, <3>6 DEF Good
  <2>2. CASE ~(Len(n.deadQ) < DEADQ_SIZE)
    <3>1. ShadowMove(n) = n /\ Len(n.deadQ) >= DEADQ_SIZE
      BY <2>2, Lengths, Constants DEF ShadowMove, Good
    <3>. QED  BY <3>1
  <2>. QED  BY <2>1, <2>2
<1>4. Y(L) \subseteq { n \in Mem : Good(n) /\ SameBlocks(m, n) }
  OBVIOUS
<1>. HIDE DEF Y
<1>5. m \in X[0] /\ \A k \in 1 .. L : \A n \in X[k - 1] : ShadowMove(n) \in X[k]
  BY <1>1, <1>2, <1>3
<1>6. X[L] = Y(L)
  BY <1>1
<1>. HIDE DEF X
<1>7. ShadowIn(m) \in Y(L)
  BY <1>1, <1>5, <1>6, ShadowStays
<1>. QED  BY <1>4, <1>7

(* Slots of the bucket's own get a place until the queue is empty.          *)
LEMMA GoodBorrow ==
  ASSUME NEW w, Good(w.m), NEW b \in Bucket, NEW js \in Seq(Offset)
  PROVE  \E a \in [ m : Mem, n : 0 .. Len(js) ] :
           /\ Borrow(w, b, js) = [ m |-> a.m, got |-> w.got \o SubSeq(js, 1, a.n) ]
           /\ Good(a.m) /\ SameBlocks(w.m, a.m)
           /\ (\A l \in 1 .. Len(js) : js[l] \in Own) => a.n = Len(js) \/ a.m.deadQ = << >>
           /\ w.m.deadQ = << >> => a.n = 0
<1>. DEFINE L == Len(js)
            AllOwn == \A l \in 1 .. L : js[l] \in Own
            Y(k) == { a \in [ m : Mem, n : 0 .. L ] :
                        /\ Good(a.m) /\ SameBlocks(w.m, a.m)
                        /\ AllOwn => a.n = k \/ a.m.deadQ = << >>
                        /\ w.m.deadQ = << >> => a.n = 0 /\ a.m.deadQ = << >> }
            X == [ k \in 0 .. L |-> Y(k) ]
<1>1. L \in Nat /\ \A k \in 1 .. L : js[k] \in Offset
  OBVIOUS
<1>2. [ m |-> w.m, n |-> 0 ] \in Y(0)
  <2>1. SameBlocks(w.m, w.m)
    BY SameBlocksSelf
  <2>. QED  BY <1>1, <2>1 DEF Good
<1>3. ASSUME NEW k \in 1 .. L, NEW a \in Y(k - 1)
      PROVE  Claim(a, b, js, k) \in Y(k)
  <2>0. /\ a \in [ m : Mem, n : 0 .. L ] /\ Good(a.m) /\ SameBlocks(w.m, a.m)
        /\ AllOwn => a.n = k - 1 \/ a.m.deadQ = << >>
        /\ w.m.deadQ = << >> => a.n = 0 /\ a.m.deadQ = << >>
    OBVIOUS
  <2>1. CASE a.n = k - 1 /\ Allocatable(a.m, js[k])
    <3>. DEFINE u == remote_allocate(a.m, b, js[k])
    <3>1. a.m.deadQ # << >>
      <4>1. a.m.deadQ \in Seq(Place)
        BY Lengths
      <4>2. CASE a.m.deadQ = << >>
        <5>1. 2 * Len(a.m.deadQ) = 0
          BY <4>2
        <5>. QED  BY <2>1, <4>2, <5>1, Constants DEF Allocatable
      <4>. QED  BY <4>2
    <3>2. Good(u) /\ SameBlocks(a.m, u)
      BY <1>1, <3>1, GoodAllocate
    <3>3. SameBlocks(w.m, u)
      BY <3>2, SameBlocksChain
    <3>4. Claim(a, b, js, k) = [ m |-> u, n |-> k ]
      BY <2>1 DEF Claim
    <3>. HIDE DEF u
    <3>5. u \in Mem
      BY <3>2 DEF Good
    <3>6. w.m.deadQ # << >>
      BY <2>0, <3>1
    <3>. HIDE DEF AllOwn
    <3>. QED  BY <1>1, <3>2, <3>3, <3>4, <3>5, <3>6
  <2>2. CASE ~(a.n = k - 1 /\ Allocatable(a.m, js[k]))
    <3>1. Claim(a, b, js, k) = a
      BY <2>2 DEF Claim
    <3>2. ASSUME AllOwn PROVE a.m.deadQ = << >>
      <4>1. js[k] \in Own
        BY <3>2
      <4>2. a.n = k - 1 => ~Allocatable(a.m, js[k])
        BY <2>2
      <4>3. js[k] < LZ
        BY <4>1, Constants DEF Own
      <4>. QED  BY <2>0, <3>2, <4>2, <4>3 DEF Allocatable
    <3>. HIDE DEF AllOwn
    <3>. QED  BY <2>0, <3>1, <3>2
  <2>. QED  BY <2>1, <2>2
<1>4. \A a \in Y(L) : /\ a \in [ m : Mem, n : 0 .. L ] /\ Good(a.m) /\ SameBlocks(w.m, a.m)
                      /\ AllOwn => a.n = L \/ a.m.deadQ = << >>
                      /\ w.m.deadQ = << >> => a.n = 0
  OBVIOUS
<1>. HIDE DEF Y
<1>5. \A k \in 0 .. L : X[k] = Y(k)
  OBVIOUS
<1>. HIDE DEF X
<1>6. [ m |-> w.m, n |-> 0 ] \in X[0] /\ X[L] = Y(L)
  BY <1>1, <1>2, <1>5
<1>7. PICK a \in Y(L) : Borrow(w, b, js) = [ m |-> a.m, got |-> w.got \o SubSeq(js, 1, a.n) ]
  <2>1. ASSUME NEW k \in 1 .. L, NEW a \in X[k - 1]
        PROVE  Claim(a, b, js, k) \in X[k]
    <3>1. k \in 0 .. L /\ k - 1 \in 0 .. L
      BY <1>1
    <3>2. a \in Y(k - 1) /\ X[k] = Y(k)
      BY <1>5, <3>1
    <3>. QED  BY <1>3, <3>2
  <2>2. \E a \in X[L] : Borrow(w, b, js) = [ m |-> a.m, got |-> w.got \o SubSeq(js, 1, a.n) ]
    BY <1>1, <1>6, <2>1, BorrowStays
  <2>. QED  BY <1>6, <2>2
<1>. QED  BY <1>4, <1>7

-------------------------------------------------------------------------------
(* The slots that a bucket gets when it is written.                        *)
LEMMA DistinctLists ==
  ASSUME NEW js \in Seq(Offset), \A k, l \in 1 .. Len(js) : js[k] = js[l] => k = l
  PROVE  Lists(js, { js[k] : k \in 1 .. Len(js) })
<1>. DEFINE n == Len(js)
            R == { js[k] : k \in 1 .. n }
<1>1. n \in Nat /\ js \in [ 1 .. n -> R ] /\ R \in SUBSET Offset
  OBVIOUS
<1>2. js \in Bijection(1 .. n, R)
  BY <1>1 DEF Bijection, Injection, Surjection, IsInjective
<1>3. \A k, l \in 1 .. n : js[k] = js[l] => k = l
  OBVIOUS
<1>. HIDE DEF n, R
<1>4. IsFiniteSet(1 .. n) /\ Cardinality(1 .. n) = n
  BY <1>1, FS_Interval
<1>5. Cardinality(R) = n
  <2>1. ExistsBijection(1 .. n, R)
    BY <1>2 DEF ExistsBijection
  <2>. QED  BY <1>4, <2>1, FS_Bijection
<1>6. Lists(js, R)
  BY <1>1, <1>3, <1>5, ListsInjective
<1>. QED  BY <1>6 DEF n, R

Apart(A, B) == A \cap B = {}
Joined(js, A, B, n) ==
  \E C \in SUBSET (A \cup B) : A \subseteq C /\ Lists(js, C) /\ Cardinality(C) = Cardinality(A) + n

LEMMA ListsJoin ==
  ASSUME NEW A, NEW B, NEW u, NEW v, Lists(u, A), Lists(v, B), Apart(A, B), NEW n \in 0 .. Len(v)
  PROVE  Joined(u \o SubSeq(v, 1, n), A, B, n)
<1>. USE DEF Apart, Joined
<1>. DEFINE t == SubSeq(v, 1, n)
            js == u \o t
            L == Len(u)
            C == { js[k] : k \in 1 .. Len(js) }
<1>1. /\ u \in Seq(Offset) /\ v \in Seq(Offset) /\ L \in Nat /\ Len(v) \in Nat /\ n \in Nat
      /\ \A k \in 1 .. L : u[k] \in A /\ u[k] \in Offset
      /\ \A k \in 1 .. Len(v) : v[k] \in B /\ v[k] \in Offset
      /\ \A k, l \in 1 .. L : u[k] = u[l] => k = l
      /\ \A k, l \in 1 .. Len(v) : v[k] = v[l] => k = l
      /\ { u[k] : k \in 1 .. L } = A /\ L = Cardinality(A)
  BY DEF Lists
<1>2. t \in Seq(Offset) /\ Len(t) = n /\ \A k \in 1 .. n : t[k] = v[k]
  BY <1>1
<1>. HIDE DEF t
<1>3. /\ js \in Seq(Offset) /\ Len(js) = L + n
      /\ \A k \in 1 .. L : js[k] = u[k]
      /\ \A k \in 1 .. L + n : k > L => js[k] = t[k - L]
  <2>1. u \in Seq(Offset) /\ t \in Seq(Offset) /\ Len(t) = n /\ L \in Nat /\ n \in Nat
    BY <1>1, <1>2
  <2>2. js \in Seq(Offset) /\ Len(js) = Len(u) + Len(t)
    BY <2>1
  <2>3. \A k \in 1 .. Len(u) + Len(t) : js[k] = IF k <= Len(u) THEN u[k] ELSE t[k - Len(u)]
    BY <2>1
  <2>. HIDE DEF js
  <2>. QED  BY <2>1, <2>2, <2>3
<1>. HIDE DEF js
<1>4. \A k \in 1 .. L + n : k \in 1 .. L \/ (k > L /\ k - L \in 1 .. n /\ k - L \in 1 .. Len(v))
  BY <1>1
<1>5. \A k \in 1 .. L + n : k > L => js[k] = v[k - L] /\ js[k] \in B
  BY <1>1, <1>2, <1>3, <1>4
<1>6. \A k \in 1 .. L : js[k] \in A
  BY <1>1, <1>3
<1>7. ASSUME NEW k \in 1 .. L + n, NEW l \in 1 .. L + n, js[k] = js[l]
      PROVE  k = l
  <2>1. CASE k \in 1 .. L /\ l \in 1 .. L
    BY <1>1, <1>3, <1>7, <2>1
  <2>2. CASE k > L /\ l > L
    <3>1. v[k - L] = v[l - L] /\ k - L \in 1 .. Len(v) /\ l - L \in 1 .. Len(v)
      BY <1>4, <1>5, <1>7, <2>2, <1>1
    <3>2. k - L = l - L
      BY <1>1, <3>1
    <3>. QED  BY <1>1, <3>2
  <2>3. CASE k \in 1 .. L /\ l > L
    BY <1>5, <1>6, <1>7, <2>3
  <2>4. CASE k > L /\ l \in 1 .. L
    BY <1>5, <1>6, <1>7, <2>4
  <2>. QED  BY <1>4, <2>1, <2>2, <2>3, <2>4
<1>8. Lists(js, C)
  <2>1. \A k, l \in 1 .. Len(js) : js[k] = js[l] => k = l
    BY <1>3, <1>7
  <2>2. js \in Seq(Offset)
    BY <1>3
  <2>. QED  BY <2>1, <2>2, DistinctLists
<1>9. C \in SUBSET (A \cup B)
  BY <1>3, <1>4, <1>5, <1>6
<1>10. A \subseteq C
  <2>1. \A k \in 1 .. L : k \in 1 .. Len(js) /\ js[k] = u[k]
    BY <1>1, <1>3
  <2>. QED  BY <1>1, <2>1
<1>11. Cardinality(C) = Cardinality(A) + n
  <2>1. Cardinality(C) = Len(js)
    BY <1>8 DEF Lists
  <2>. QED  BY <1>1, <1>3, <2>1
<1>. QED  BY <1>8, <1>9, <1>10, <1>11 DEF js, t

LEMMA SurplusLists == Lists(surplus_slot, LZ .. LZ + S_INC - 1) /\ Own \cup (LZ .. LZ + S_INC - 1) = Offset
<1>. DEFINE js == surplus_slot
<1>1. /\ LZ \in Nat /\ S_INC \in Nat /\ js = [ k \in 1 .. S_INC |-> LZ + k - 1 ]
  BY Constants DEF surplus_slot
<1>. HIDE DEF js
<1>2. js \in Seq(Offset) /\ Len(js) = S_INC
  BY <1>1 DEF Offset
<1>3. \A k, l \in 1 .. Len(js) : js[k] = js[l] => k = l
  BY <1>1, <1>2
<1>4. { js[k] : k \in 1 .. Len(js) } = LZ .. LZ + S_INC - 1
  <2>1. ASSUME NEW i \in LZ .. LZ + S_INC - 1 PROVE i - LZ + 1 \in 1 .. Len(js) /\ js[i - LZ + 1] = i
    BY <1>1, <1>2
  <2>2. ASSUME NEW k \in 1 .. Len(js) PROVE js[k] \in LZ .. LZ + S_INC - 1
    BY <1>1, <1>2
  <2>. QED  BY <2>1, <2>2
<1>5. Own \cup (LZ .. LZ + S_INC - 1) = Offset
  BY <1>1 DEF Own, Offset
<1>. QED  BY <1>2, <1>3, <1>4, <1>5, DistinctLists DEF js

(* A bucket cannot lose more slots than its allctr says.                    *)
Taken(m, b) == { j \in Own : ~Free(m, b, j) }

LEMMA TakenBound ==
  ASSUME NEW m, Good(m), NEW b \in Bucket
  PROVE  Cardinality(Taken(m, b)) <= REMOTE_CAP + SHADQ_SIZE
<1>. DEFINE q == m.deadQ
            f == [ i \in At(q, b) |-> q[i][2] ]
            g == [ e \in Lent(m, b) |-> m.slot[e[1]][e[2]].remote[2] ]
            F == { f[i] : i \in At(q, b) }
            G == { g[e] : e \in Lent(m, b) }
<1>1. /\ m \in Mem /\ q \in Seq(Place) /\ Owed(m, b) <= m.allctr[b]
      /\ m.allctr[b] + Count(m.shadowQ, b) <= REMOTE_CAP + SHADQ_SIZE
  BY Lengths DEF Good, Paid, Capped
<1>2. /\ IsFiniteSet(At(q, b)) /\ IsFiniteSet(Lent(m, b)) /\ IsFiniteSet(Lost(m, b))
      /\ Cardinality(At(q, b)) \in Nat /\ Cardinality(Lent(m, b)) \in Nat /\ Cardinality(Lost(m, b)) \in Nat
      /\ Count(m.shadowQ, b) \in Nat /\ m.allctr[b] \in Int
      /\ Owed(m, b) = Cardinality(At(q, b)) + Cardinality(Lent(m, b)) + Cardinality(Lost(m, b))
  BY <1>1, CountType, OwedTypes DEF Owed, Count
<1>3. IsFiniteSet(F) /\ Cardinality(F) <= Cardinality(At(q, b))
  <2>1. f \in Surjection(At(q, b), F)
    BY DEF Surjection
  <2>. HIDE DEF f, F
  <2>. QED  BY <1>2, <2>1, FS_Surjection
<1>4. IsFiniteSet(G) /\ Cardinality(G) <= Cardinality(Lent(m, b))
  <2>1. g \in Surjection(Lent(m, b), G)
    BY DEF Surjection
  <2>. HIDE DEF g, G
  <2>. QED  BY <1>2, <2>1, FS_Surjection
<1>5. Taken(m, b) \subseteq (F \cup G) \cup Lost(m, b)
  <2>. SUFFICES ASSUME NEW j \in Taken(m, b), j \notin Lost(m, b), j \notin G PROVE j \in F
    OBVIOUS
  <2>1. j \in Own /\ dd(m, << b, j >>) \in { "REMEMBERED", "ALLOCATED" }
    <3>1. j \in Own /\ j \in Offset /\ ~Free(m, b, j)
      BY Constants DEF Taken
    <3>2. dd(m, << b, j >>) \in DeadState
      BY <1>1, <3>1 DEF dd, Mem, Slot
    <3>. QED  BY <3>1, <3>2 DEF Free, DeadState
  <2>2. \A c \in Bucket, i \in Offset : m.slot[c][i].remote # << b, j >>
    <3>. SUFFICES ASSUME NEW c \in Bucket, NEW i \in Offset, m.slot[c][i].remote = << b, j >>
                  PROVE  FALSE
      OBVIOUS
    <3>1. << c, i >> \in Lent(m, b)
      BY <2>1 DEF Lent
    <3>2. g[<< c, i >>] = j
      <4>1. m.slot[c][i].remote[2] = j
        OBVIOUS
      <4>2. g[<< c, i >>] = m.slot[<< c, i >>[1]][<< c, i >>[2]].remote[2]
        BY <3>1
      <4>. QED  BY <4>1, <4>2
    <3>. HIDE DEF g
    <3>. QED  BY <3>1, <3>2
  <2>3. << b, j >> \in Range(q)
    BY <2>1, <2>2 DEF Lost
  <2>4. PICK i \in 1 .. Len(q) : q[i] = << b, j >>
    BY <1>1, <2>3 DEF Range
  <2>5. i \in At(q, b) /\ f[i] = j
    <3>1. q[i][1] = b /\ q[i][2] = j
      <4>. DEFINE x == q[i]
      <4>1. x = << b, j >>
        BY <2>4
      <4>. HIDE DEF x
      <4>2. x[1] = b /\ x[2] = j
        BY <4>1
      <4>. QED  BY <4>2 DEF x
    <3>2. i \in At(q, b)
      BY <2>4, <3>1 DEF At
    <3>3. f[i] = q[i][2]
      BY <3>2
    <3>. QED  BY <3>1, <3>2, <3>3
  <2>. HIDE DEF f
  <2>. QED  BY <2>5
<1>. HIDE DEF F, G, q
<1>6. /\ IsFiniteSet((F \cup G) \cup Lost(m, b))
      /\ Cardinality((F \cup G) \cup Lost(m, b)) <= Cardinality(F) + Cardinality(G) + Cardinality(Lost(m, b))
  <2>1. /\ IsFiniteSet(F \cup G)
        /\ Cardinality(F \cup G) = Cardinality(F) + Cardinality(G) - Cardinality(F \cap G)
    BY <1>3, <1>4, FS_Union
  <2>2. /\ IsFiniteSet((F \cup G) \cup Lost(m, b))
        /\ Cardinality((F \cup G) \cup Lost(m, b))
             = Cardinality(F \cup G) + Cardinality(Lost(m, b)) - Cardinality((F \cup G) \cap Lost(m, b))
    BY <1>2, <2>1, FS_Union
  <2>3. /\ Cardinality(F) \in Nat /\ Cardinality(G) \in Nat /\ Cardinality(F \cup G) \in Nat
        /\ Cardinality(F \cap G) \in Nat /\ Cardinality((F \cup G) \cap Lost(m, b)) \in Nat
    BY <1>3, <1>4, <2>1, FS_Intersection, FS_CardinalityType
  <2>. QED  BY <1>2, <2>1, <2>2, <2>3
<1>7. Cardinality(Taken(m, b)) \in Nat /\ Cardinality(Taken(m, b)) <= Cardinality((F \cup G) \cup Lost(m, b))
  BY <1>5, <1>6, FS_Subset, FS_CardinalityType
<1>8. /\ Cardinality(F) \in Nat /\ Cardinality(G) \in Nat /\ Cardinality((F \cup G) \cup Lost(m, b)) \in Nat
  BY <1>3, <1>4, <1>6, FS_CardinalityType
<1>9. REMOTE_CAP + SHADQ_SIZE \in Nat
  BY Constants
<1>10. m.allctr[b] <= REMOTE_CAP + SHADQ_SIZE
  BY <1>1, <1>2, <1>9
<1>. DEFINE x == Cardinality(F)
            y == Cardinality(G)
            z == Cardinality(Lost(m, b))
            k == Cardinality(At(q, b)) + Cardinality(Lent(m, b)) + z
<1>11. x \in Nat /\ y \in Nat /\ z \in Nat /\ x + y + z <= k /\ k <= m.allctr[b] /\ k \in Int
  BY <1>1, <1>2, <1>3, <1>4, <1>8
<1>12. Cardinality(Taken(m, b)) <= x + y + z
  BY <1>6, <1>7, <1>8, <1>11
<1>. HIDE DEF x, y, z, k
<1>. QED  BY <1>2, <1>7, <1>9, <1>10, <1>11, <1>12

(* What write_bucket finds: the slots O of the bucket's own and the slots G *)
(* in all.  It looks for others when it has all of its own.                 *)
Found(m, b, w, O, G) ==
  /\ Good(w.m) /\ SameBlocks(m, w.m)
  /\ O \subseteq Own /\ O \subseteq G /\ Lists(w.own, O) /\ Lists(w.got, G)
  /\ Cardinality(O) + REMOTE_CAP + SHADQ_SIZE >= LZ
  /\ Cardinality(O) = LZ \/ Cardinality(O) = Cardinality(G)

LEMMA WrittenFound ==
  ASSUME NEW m, Good(m), NEW b \in Bucket
  PROVE  \E O, G \in SUBSET Offset : Found(m, b, Written(m, b), O, G)
<1>. DEFINE F == { j \in Own : Free(m, b, j) }
            u == inplace(m, b)
            v == taken_slot(m, b)
            x == surplus_slot
            X == LZ .. LZ + S_INC - 1
            first == [ m |-> inplace_allocate(m, b, Range(u)), got |-> u ]
            own == Borrow(first, b, v)
            all == Borrow(own, b, x)
<1>1. Written(m, b) = [ m |-> all.m, own |-> own.got, got |-> all.got ]
  BY DEF Written
<1>2. Lists(u, F) /\ Lists(v, Taken(m, b)) /\ Lists(x, X)
  <2>1. F \in SUBSET Offset /\ Taken(m, b) \in SUBSET Offset
    BY Constants DEF Taken
  <2>. HIDE DEF F
  <2>2. u = InOrder(F) /\ v = InOrder(Taken(m, b))
    BY DEF inplace, taken_slot, Taken, F
  <2>. HIDE DEF u, v, x, X
  <2>3. Lists(u, F) /\ Lists(v, Taken(m, b))
    BY <2>1, <2>2, InOrderLists
  <2>. QED  BY <2>3, SurplusLists DEF x, X
<1>3. v \in Seq(Offset) /\ x \in Seq(Offset)
  BY <1>2, ListsSeq
<1>4. F \cap Taken(m, b) = {} /\ F \cup Taken(m, b) = Own /\ Own \cap X = {} /\ Own \subseteq Offset
  BY Constants DEF Taken, Own
<1>5. Good(first.m) /\ SameBlocks(m, first.m) /\ first.got = u
  BY GoodInPlace
<1>. HIDE DEF first, u, v, x, F, X
<1>6. PICK a \in [ m : Mem, n : 0 .. Len(v) ] :
        /\ own = [ m |-> a.m, got |-> first.got \o SubSeq(v, 1, a.n) ]
        /\ Good(a.m) /\ SameBlocks(first.m, a.m)
        /\ (\A l \in 1 .. Len(v) : v[l] \in Own) => a.n = Len(v) \/ a.m.deadQ = << >>
  BY <1>3, <1>5, GoodBorrow
<1>7. own.m = a.m /\ own.got = u \o SubSeq(v, 1, a.n) /\ a.n \in 0 .. Len(v)
  BY <1>5, <1>6
<1>8. PICK O \in SUBSET (F \cup Taken(m, b)) :
        /\ F \subseteq O /\ Lists(own.got, O) /\ Cardinality(O) = Cardinality(F) + a.n
  <2>. DEFINE T == Taken(m, b)
              k == a.n
  <2>1. /\ Lists(u, F) /\ Lists(v, T) /\ Apart(F, T) /\ k \in 0 .. Len(v)
        /\ own.got = u \o SubSeq(v, 1, k)
    BY <1>2, <1>4, <1>7 DEF Apart
  <2>. HIDE DEF own, T, k
  <2>2. Joined(u \o SubSeq(v, 1, k), F, T, k)
    BY <2>1, ListsJoin, Zenon
  <2>. QED  BY <2>1, <2>2, Zenon DEF T, k, Joined
<1>9. Good(own.m) /\ SameBlocks(m, own.m)
  BY <1>5, <1>6, <1>7, SameBlocksChain
<1>. HIDE DEF own
<1>10. PICK e \in [ m : Mem, n : 0 .. Len(x) ] :
         /\ all = [ m |-> e.m, got |-> own.got \o SubSeq(x, 1, e.n) ]
         /\ Good(e.m) /\ SameBlocks(own.m, e.m)
         /\ own.m.deadQ = << >> => e.n = 0
  BY <1>3, <1>9, GoodBorrow
<1>11. all.m = e.m /\ all.got = own.got \o SubSeq(x, 1, e.n) /\ e.n \in 0 .. Len(x)
  <2>1. all = [ m |-> e.m, got |-> own.got \o SubSeq(x, 1, e.n) ]
    BY <1>10
  <2>. HIDE DEF all
  <2>. QED  BY <2>1
<1>12. O \cap X = {}
  BY <1>4, <1>8
<1>. HIDE DEF all
<1>13. PICK G \in SUBSET (O \cup X) :
         O \subseteq G /\ Lists(all.got, G) /\ Cardinality(G) = Cardinality(O) + e.n
  <2>. DEFINE z == own.got
              k == e.n
  <2>1. /\ Lists(z, O) /\ Lists(x, X) /\ Apart(O, X) /\ k \in 0 .. Len(x)
        /\ all.got = z \o SubSeq(x, 1, k)
    BY <1>2, <1>8, <1>11, <1>12 DEF Apart
  <2>. HIDE DEF z, k
  <2>2. Joined(z \o SubSeq(x, 1, k), O, X, k)
    BY <2>1, ListsJoin, Zenon
  <2>. QED  BY <2>1, <2>2, Zenon DEF z, k, Joined
<1>14. Good(all.m) /\ SameBlocks(m, all.m)
  BY <1>9, <1>10, <1>11, SameBlocksChain
<1>15. /\ Cardinality(O) + REMOTE_CAP + SHADQ_SIZE >= LZ
       /\ Cardinality(O) = LZ \/ Cardinality(O) = Cardinality(G)
  <2>1. IsFiniteSet(F) /\ IsFiniteSet(Taken(m, b)) /\ Cardinality(F) \in Nat /\ Cardinality(Taken(m, b)) \in Nat
    BY <1>2 DEF Lists
  <2>2. Cardinality(Own) = Cardinality(F) + Cardinality(Taken(m, b)) - Cardinality({})
    <3>. DEFINE T == Taken(m, b)
    <3>1. F \cap T = {} /\ F \cup T = Own /\ IsFiniteSet(F) /\ IsFiniteSet(T)
      BY <1>4, <2>1
    <3>. HIDE DEF T
    <3>2. Cardinality(F \cup T) = Cardinality(F) + Cardinality(T) - Cardinality(F \cap T)
      BY <3>1, FS_Union
    <3>3. Cardinality(Own) = Cardinality(F) + Cardinality(T) - Cardinality({})
      BY <3>1, <3>2, Zenon
    <3>. QED  BY <3>3 DEF T
  <2>3. Cardinality(Own) = LZ
    <3>1. LZ - 1 \in Int /\ 0 \in Int /\ LZ \in Nat /\ LZ > 0
      BY Constants
    <3>. QED  BY <3>1, FS_Interval DEF Own
  <2>4. Cardinality({}) = 0
    BY FS_EmptySet
  <2>5. Cardinality(Taken(m, b)) <= REMOTE_CAP + SHADQ_SIZE
    BY TakenBound
  <2>6. a.n \in Nat /\ REMOTE_CAP \in Nat /\ SHADQ_SIZE \in Nat /\ LZ \in Nat
    BY <1>6, Constants
  <2>7. Cardinality(O) = Cardinality(F) + a.n
    BY <1>8
  <2>8. Cardinality(F) + Cardinality(Taken(m, b)) = LZ
    BY <2>1, <2>2, <2>3, <2>4
  <2>9. Cardinality(O) = LZ \/ Cardinality(O) = Cardinality(G)
    <3>1. Len(v) = Cardinality(Taken(m, b)) /\ \A l \in 1 .. Len(v) : v[l] \in Taken(m, b)
      BY <1>2 DEF Lists
    <3>2. \A l \in 1 .. Len(v) : v[l] \in Own
      BY <1>4, <3>1
    <3>3. CASE a.n = Len(v)
      BY <2>7, <2>8, <3>1, <3>3
    <3>4. CASE a.m.deadQ = << >>
      <4>1. e.n = 0
        BY <1>7, <1>10, <3>4
      <4>2. Cardinality(O) \in Nat
        BY <1>8 DEF Lists
      <4>. QED  BY <1>13, <4>1, <4>2
    <3>. QED  BY <1>6, <3>2, <3>3, <3>4
  <2>. QED  BY <2>1, <2>5, <2>6, <2>7, <2>8, <2>9
<1>16. O \subseteq Own /\ O \subseteq Offset /\ G \subseteq Offset
  BY <1>4, <1>8, <1>13 DEF Lists
<1>17. Found(m, b, Written(m, b), O, G)
  BY <1>1, <1>8, <1>13, <1>14, <1>15, <1>16 DEF Found
<1>. QED  BY <1>16, <1>17

(* n is m with bucket b written: its slots G hold blocks, R of them real.   *)
Rewritten(m, n, b, G, R) ==
  /\ Good(n)
  /\ \A c \in Bucket, i \in Offset :
       /\ n.slot[c][i].valid = IF c = b THEN m.slot[b][i].valid \/ i \in G ELSE m.slot[c][i].valid
       /\ n.slot[c][i].isReal = IF c = b THEN i \in R ELSE m.slot[c][i].isReal

LEMMA FillBlocks ==
  ASSUME NEW m \in Mem, NEW b \in Bucket, NEW G, NEW R
  PROVE  Reblocked(m, Fill(m, b, G, R), b, [ i \in Offset |-> m.slot[b][i].valid \/ i \in G ],
                   [ i \in Offset |-> i \in R ])
<1>. DEFINE v == [ i \in Offset |-> m.slot[b][i].valid \/ i \in G ]
            r == [ i \in Offset |-> i \in R ]
            p == [ i \in Offset |-> [ m.slot[b][i] EXCEPT !.valid = m.slot[b][i].valid \/ i \in G, !.isReal = i \in R ] ]
            q == [ i \in Offset |-> [ m.slot[b][i] EXCEPT !.valid = v[i], !.isReal = r[i] ] ]
            n == Fill(m, b, G, R)
<1>1. v \in [ Offset -> BOOLEAN ] /\ r \in [ Offset -> BOOLEAN ]
  <2>1. \A i \in Offset : (m.slot[b][i].valid \/ i \in G) \in BOOLEAN /\ (i \in R) \in BOOLEAN
    OBVIOUS
  <2>. QED  BY <2>1
<1>2. n = [ m EXCEPT !.slot[b] = p ]
  BY DEF Fill
<1>3. p = q
  <2>1. \A i \in Offset : v[i] = (m.slot[b][i].valid \/ i \in G) /\ r[i] = (i \in R)
    OBVIOUS
  <2>. HIDE DEF v, r
  <2>. QED  BY <2>1
<1>4. n = [ m EXCEPT !.slot[b] = q ]
  <2>. HIDE DEF p, q, n
  <2>. QED  BY <1>2, <1>3
<1>. HIDE DEF v, r, n
<1>5. Reblocked(m, n, b, v, r)
  BY <1>1, <1>4, NewBlocks, Zenon
<1>. QED  BY <1>5 DEF n, v, r

(* The slots that the bucket gets.                                         *)
Got(m, b) == Range(Written(m, b).got)

LEMMA WriteBucket ==
  ASSUME NEW m, Good(m), NEW b \in Bucket, NEW c \in Nat
  PROVE  \E G, R \in SUBSET Offset :
           /\ R \subseteq G
           /\ Rewritten(m, write_bucket(m, b, c).m, b, G, R)
           /\ write_bucket(m, b, c).s = Cardinality(G) - RING_Z
           /\ write_bucket(m, b, c).real = Cardinality(R)
           /\ Cardinality(R) <= c
           /\ Cardinality(R) \in { c, LZ, Cardinality(G) }
           /\ Cardinality(G) + REMOTE_CAP + SHADQ_SIZE >= LZ
           /\ G = Got(m, b)
<1>. DEFINE w == Written(m, b)
            k0 == IF c < Len(w.own) THEN c ELSE Len(w.own)
            R == { w.own[k] : k \in 1 .. k0 }
            v == [ i \in Offset |-> w.m.slot[b][i].valid \/ i \in Range(w.got) ]
            r == [ i \in Offset |-> i \in R ]
            n == Fill(w.m, b, Range(w.got), R)
            x == write_bucket(m, b, c)
<1>1. PICK O \in SUBSET Offset, G \in SUBSET Offset : Found(m, b, w, O, G)
  BY WrittenFound
<1>2. x.s = Len(w.got) - RING_Z /\ x.real = Cardinality(R) /\ x.m = ShadowIn(n)
  BY DEF write_bucket
<1>3. /\ Good(w.m) /\ SameBlocks(m, w.m) /\ Lists(w.own, O) /\ Lists(w.got, G) /\ O \subseteq G
      /\ Cardinality(O) + REMOTE_CAP + SHADQ_SIZE >= LZ
      /\ Cardinality(O) = LZ \/ Cardinality(O) = Cardinality(G)
      /\ Range(w.got) = G /\ Len(w.got) = Cardinality(G) /\ Len(w.own) = Cardinality(O)
      /\ Len(w.own) \in Nat
  BY <1>1 DEF Found, Lists
<1>4. k0 \in Nat /\ k0 <= c /\ k0 <= Len(w.own) /\ (k0 = c \/ k0 = Len(w.own))
  BY <1>3
<1>5. R \in SUBSET O /\ Cardinality(R) = k0
  <2>. DEFINE t == SubSeq(w.own, 1, k0)
              T == { t[k] : k \in 1 .. Len(t) }
  <2>. HIDE DEF k0
  <2>1. /\ w.own \in Seq(Offset) /\ { w.own[k] : k \in 1 .. Len(w.own) } = O
        /\ \A k, l \in 1 .. Len(w.own) : w.own[k] = w.own[l] => k = l
    <3>. DEFINE js == w.own
    <3>1. Lists(js, O)
      BY <1>3
    <3>. HIDE DEF js
    <3>2. js \in Seq(Offset)
      BY <3>1, ListsSeq
    <3>3. { js[k] : k \in 1 .. Len(js) } = O /\ \A k, l \in 1 .. Len(js) : js[k] = js[l] => k = l
      BY <3>1, Zenon DEF Lists
    <3>. QED  BY <3>2, <3>3 DEF js
  <2>2. t \in Seq(Offset) /\ Len(t) = k0 /\ \A k \in 1 .. k0 : t[k] = w.own[k] /\ k \in 1 .. Len(w.own)
    BY <1>3, <1>4, <2>1
  <2>. HIDE DEF t
  <2>3. \A k, l \in 1 .. Len(t) : t[k] = t[l] => k = l
    BY <2>1, <2>2
  <2>4. Lists(t, T)
    BY <2>2, <2>3, DistinctLists
  <2>5. T = R
    BY <2>2
  <2>6. Cardinality(T) = k0
    BY <2>2, <2>4 DEF Lists
  <2>7. R \in SUBSET O
    BY <2>1, <2>2
  <2>. QED  BY <2>5, <2>6, <2>7
<1>6. Reblocked(w.m, n, b, v, r)
  <2>. DEFINE u == w.m
              G1 == Range(w.got)
  <2>1. u \in Mem
    BY <1>3 DEF Good
  <2>2. v = [ i \in Offset |-> u.slot[b][i].valid \/ i \in G1 ] /\ n = Fill(u, b, G1, R)
    OBVIOUS
  <2>. HIDE DEF u, v, n, R, G1
  <2>3. Reblocked(u, Fill(u, b, G1, R), b, [ i \in Offset |-> u.slot[b][i].valid \/ i \in G1 ],
                  [ i \in Offset |-> i \in R ])
    BY <2>1, FillBlocks
  <2>. QED  BY <2>2, <2>3 DEF u
<1>. HIDE DEF n, k0
<1>7. Good(n)
  BY <1>3, <1>6, GoodReblocked
<1>8. Good(x.m) /\ SameBlocks(n, x.m)
  BY <1>2, <1>7, GoodShadowIn
<1>9. \A d \in Bucket, i \in Offset :
        /\ n.slot[d][i].valid = IF d = b THEN w.m.slot[b][i].valid \/ i \in G ELSE w.m.slot[d][i].valid
        /\ n.slot[d][i].isReal = IF d = b THEN i \in R ELSE w.m.slot[d][i].isReal
  <2>1. \A i \in Offset : v[i] = (w.m.slot[b][i].valid \/ i \in G) /\ r[i] = (i \in R)
    BY <1>3
  <2>. HIDE DEF v, r, R
  <2>. QED  BY <1>6, <2>1, Zenon DEF Reblocked
<1>10. Rewritten(m, x.m, b, G, R)
  <2>. HIDE DEF R
  <2>1. /\ Good(x.m)
        /\ \A d \in Bucket, i \in Offset : /\ x.m.slot[d][i].isReal = n.slot[d][i].isReal
                                          /\ x.m.slot[d][i].valid = n.slot[d][i].valid
        /\ \A d \in Bucket, i \in Offset : /\ w.m.slot[d][i].isReal = m.slot[d][i].isReal
                                          /\ w.m.slot[d][i].valid = m.slot[d][i].valid
    BY <1>3, <1>8, Zenon DEF SameBlocks
  <2>. QED  BY <1>9, <2>1 DEF Rewritten
<1>11. R \in SUBSET Offset /\ R \subseteq G
  BY <1>3, <1>5
<1>. HIDE DEF R
<1>12. /\ x.s = Cardinality(G) - RING_Z /\ x.real = Cardinality(R) /\ Cardinality(R) <= c
       /\ Cardinality(R) \in { c, LZ, Cardinality(G) }
  BY <1>2, <1>3, <1>4, <1>5
<1>13. Cardinality(G) + REMOTE_CAP + SHADQ_SIZE >= LZ
  <2>1. Cardinality(O) <= Cardinality(G) /\ Cardinality(O) \in Nat /\ Cardinality(G) \in Nat
    BY <1>3, FS_Subset DEF Lists
  <2>. QED  BY <1>3, <2>1, Constants
<1>14. G = Got(m, b)
  BY <1>3 DEF Got
<1>. QED  BY <1>10, <1>11, <1>12, <1>13, <1>14 DEF x

-------------------------------------------------------------------------------
(* The slots that hold a block, and what the parts of an access do to them. *)
Valid(m, b) == { j \in Offset : m.slot[b][j].valid }

(* Bucket b of n has the blocks V, R of them real, the others are as in m.  *)
Blocks(m, n, b, V, R) ==
  /\ Good(n)
  /\ \A c \in Bucket : /\ Valid(n, c) = IF c = b THEN V ELSE Valid(m, c)
                       /\ Reals(n, c) = IF c = b THEN R ELSE Reals(m, c)

LEMMA SameBlocksSets ==
  ASSUME NEW m, NEW n, SameBlocks(m, n)
  PROVE  \A c \in Bucket : Valid(n, c) = Valid(m, c) /\ Reals(n, c) = Reals(m, c)
BY DEF SameBlocks, Valid, Reals

LEMMA ReblockedSets ==
  ASSUME NEW m, Good(m), NEW b \in Bucket, NEW v, NEW r, NEW n, Reblocked(m, n, b, v, r)
  PROVE  Blocks(m, n, b, { i \in Offset : v[i] }, { i \in Offset : r[i] })
<1>1. Good(n)
  BY GoodReblocked
<1>2. \A c \in Bucket, i \in Offset :
        /\ n.slot[c][i].valid = IF c = b THEN v[i] ELSE m.slot[c][i].valid
        /\ n.slot[c][i].isReal = IF c = b THEN r[i] ELSE m.slot[c][i].isReal
  BY DEF Reblocked
<1>3. ASSUME NEW c \in Bucket
      PROVE  /\ Valid(n, c) = IF c = b THEN { i \in Offset : v[i] } ELSE Valid(m, c)
             /\ Reals(n, c) = IF c = b THEN { i \in Offset : r[i] } ELSE Reals(m, c)
  <2>1. CASE c = b
    BY <1>2, <2>1 DEF Valid, Reals
  <2>2. CASE c # b
    BY <1>2, <2>2 DEF Valid, Reals
  <2>. QED  BY <2>1, <2>2
<1>. QED  BY <1>1, <1>3, Zenon DEF Blocks

LEMMA ClearSlot ==
  ASSUME NEW m, Good(m), NEW b \in Bucket, NEW j \in Offset
  PROVE  \A n : n = [ m EXCEPT !.slot[b][j].valid = FALSE, !.slot[b][j].isReal = FALSE ] =>
           Blocks(m, n, b, Valid(m, b) \ { j }, Reals(m, b) \ { j }) /\ SameLinks(m, n)
<1>. DEFINE t == [ i \in Offset |-> IF i = j THEN [ m.slot[b][i] EXCEPT !.valid = FALSE, !.isReal = FALSE ]
                                    ELSE m.slot[b][i] ]
            v == [ i \in Offset |-> i # j /\ m.slot[b][i].valid ]
            r == [ i \in Offset |-> i # j /\ m.slot[b][i].isReal ]
            n == [ m EXCEPT !.slot[b][j].valid = FALSE, !.slot[b][j].isReal = FALSE ]
<1>1. m \in Mem /\ m.slot \in [ Bucket -> [ Offset -> Slot ] ] /\ m.slot[b] \in [ Offset -> Slot ]
  BY DEF Good, Mem
<1>2. n = [ m EXCEPT !.slot[b] = t ]
  <2>. DEFINE a == [ m.slot[b] EXCEPT ![j] = [ @ EXCEPT !.valid = FALSE ] ]
              e == [ a EXCEPT ![j] = [ @ EXCEPT !.isReal = FALSE ] ]
  <2>1. e = t
    BY <1>1 DEF Slot
  <2>2. n = [ [ m EXCEPT !.slot[b] = a ] EXCEPT !.slot[b] = [ [ m EXCEPT !.slot[b] = a ].slot[b] EXCEPT ![j] = [ @ EXCEPT !.isReal = FALSE ] ] ]
    OBVIOUS
  <2>. HIDE DEF a, t, n
  <2>3. [ m EXCEPT !.slot[b] = a ].slot[b] = a
    BY <1>1 DEF Mem
  <2>4. n = [ [ m EXCEPT !.slot[b] = a ] EXCEPT !.slot[b] = e ]
    BY <2>2, <2>3
  <2>. HIDE DEF e
  <2>5. [ [ m EXCEPT !.slot[b] = a ] EXCEPT !.slot[b] = e ] = [ m EXCEPT !.slot[b] = e ]
    BY <1>1 DEF Mem
  <2>. QED  BY <2>1, <2>4, <2>5
<1>3. ASSUME NEW i \in Offset
      PROVE  /\ t[i] \in Slot /\ t[i].valid = v[i] /\ t[i].isReal = r[i]
             /\ t[i].remote = m.slot[b][i].remote /\ t[i].dd = m.slot[b][i].dd
  <2>1. m.slot[b][i] \in Slot
    BY <1>1
  <2>2. CASE i = j
    BY <2>1, <2>2 DEF Slot
  <2>3. CASE i # j
    BY <2>1, <2>3 DEF Slot
  <2>. QED  BY <2>2, <2>3
<1>4. t \in [ Offset -> Slot ]
  BY <1>3
<1>5. { i \in Offset : v[i] } = Valid(m, b) \ { j } /\ { i \in Offset : r[i] } = Reals(m, b) \ { j }
  BY DEF Valid, Reals
<1>. HIDE DEF t, n, v, r
<1>6. /\ n \in Mem /\ SameQueues(m, n)
      /\ \A c \in Bucket : n.slot[c] = IF c = b THEN t ELSE m.slot[c]
  <2>1. WithBucket(m, n, b, t)
    BY <1>1, <1>2, <1>4, NewBucket, Zenon
  <2>. QED  BY <2>1, Zenon DEF WithBucket
<1>7. SameRemotes(m, n) /\ SameStates(m, n)
  BY <1>3, <1>6 DEF SameRemotes, SameStates
<1>8. ASSUME NEW c \in Bucket, NEW i \in Offset
      PROVE  /\ n.slot[c][i].valid = IF c = b THEN v[i] ELSE m.slot[c][i].valid
             /\ n.slot[c][i].isReal = IF c = b THEN r[i] ELSE m.slot[c][i].isReal
  <2>1. CASE c = b
    BY <1>3, <1>6, <2>1
  <2>2. CASE c # b
    BY <1>6, <2>2
  <2>. QED  BY <2>1, <2>2
<1>9. Reblocked(m, n, b, v, r)
  BY <1>6, <1>7, <1>8 DEF Reblocked
<1>10. Blocks(m, n, b, { i \in Offset : v[i] }, { i \in Offset : r[i] })
  BY <1>9, ReblockedSets
<1>11. SameLinks(m, n)
  BY <1>6, <1>7 DEF SameLinks
<1>. QED  BY <1>5, <1>10, <1>11, Zenon DEF n

LEMMA UnrealBlocks ==
  ASSUME NEW m, Good(m), NEW b \in Bucket
  PROVE  Blocks(m, Unreal(m, b), b, Valid(m, b), {}) /\ SameLinks(m, Unreal(m, b))
<1>. DEFINE v == [ i \in Offset |-> m.slot[b][i].valid ]
            r == [ i \in Offset |-> FALSE ]
            p == [ i \in Offset |-> [ m.slot[b][i] EXCEPT !.isReal = FALSE ] ]
            q == [ i \in Offset |-> [ m.slot[b][i] EXCEPT !.valid = v[i], !.isReal = r[i] ] ]
            n == Unreal(m, b)
<1>1. m \in Mem /\ m.slot[b] \in [ Offset -> Slot ]
  BY DEF Good, Mem
<1>2. n = [ m EXCEPT !.slot[b] = p ]
  BY DEF Unreal
<1>3. p = q
  BY <1>1 DEF Slot
<1>4. v \in [ Offset -> BOOLEAN ] /\ r \in [ Offset -> BOOLEAN ]
  BY <1>1 DEF Slot
<1>5. { i \in Offset : v[i] } = Valid(m, b) /\ { i \in Offset : r[i] } = {}
  BY DEF Valid
<1>6. n = [ m EXCEPT !.slot[b] = q ]
  <2>. HIDE DEF n, p, q
  <2>. QED  BY <1>2, <1>3
<1>. HIDE DEF n, v, r
<1>7. Reblocked(m, n, b, v, r)
  BY <1>1, <1>4, <1>6, NewBlocks, Zenon
<1>8. Blocks(m, n, b, { i \in Offset : v[i] }, { i \in Offset : r[i] })
  BY <1>7, ReblockedSets
<1>9. SameLinks(m, n)
  BY <1>7 DEF SameLinks, Reblocked
<1>. QED  BY <1>5, <1>8, <1>9, Zenon DEF n

LEMMA InvalidBlocks ==
  ASSUME NEW m, Good(m), NEW b \in Bucket
  PROVE  Blocks(m, Invalid(m, b), b, {}, Reals(m, b)) /\ SameLinks(m, Invalid(m, b))
<1>. DEFINE v == [ i \in Offset |-> FALSE ]
            r == [ i \in Offset |-> m.slot[b][i].isReal ]
            p == [ i \in Offset |-> [ m.slot[b][i] EXCEPT !.valid = FALSE ] ]
            q == [ i \in Offset |-> [ m.slot[b][i] EXCEPT !.valid = v[i], !.isReal = r[i] ] ]
            n == Invalid(m, b)
<1>1. m \in Mem /\ m.slot[b] \in [ Offset -> Slot ]
  BY DEF Good, Mem
<1>2. n = [ m EXCEPT !.slot[b] = p ]
  BY DEF Invalid
<1>3. p = q
  BY <1>1 DEF Slot
<1>4. v \in [ Offset -> BOOLEAN ] /\ r \in [ Offset -> BOOLEAN ]
  BY <1>1 DEF Slot
<1>5. { i \in Offset : v[i] } = {} /\ { i \in Offset : r[i] } = Reals(m, b)
  BY DEF Reals
<1>6. n = [ m EXCEPT !.slot[b] = q ]
  <2>. HIDE DEF n, p, q
  <2>. QED  BY <1>2, <1>3
<1>. HIDE DEF n, v, r
<1>7. Reblocked(m, n, b, v, r)
  BY <1>1, <1>4, <1>6, NewBlocks, Zenon
<1>8. Blocks(m, n, b, { i \in Offset : v[i] }, { i \in Offset : r[i] })
  BY <1>7, ReblockedSets
<1>9. SameLinks(m, n)
  BY <1>7 DEF SameLinks, Reblocked
<1>. QED  BY <1>5, <1>8, <1>9, Zenon DEF n

(* The reads of a bucket; VD is its valid dummies.                          *)
LEMMA ReadOrder ==
  ASSUME NEW m, NEW b, Cardinality(Reals(m, b)) <= RING_Z, NEW dummies \in DummyReads(m, b)
  PROVE  /\ InOrder(Reals(m, b)) \o dummies \in Seq(Offset)
         /\ InOrder(ValidDummies(m, b) \ Range(dummies)) \in Seq(Offset)
<1>. DEFINE R == Reals(m, b)
            D == ValidDummies(m, b)
            q == Quota(m, b)
<1>1. R \in SUBSET Offset /\ D \in SUBSET Offset /\ D \ Range(dummies) \in SUBSET Offset
  BY DEF Reals, ValidDummies
<1>. HIDE DEF R, D
<1>2. Lists(InOrder(R), R) /\ Lists(InOrder(D \ Range(dummies)), D \ Range(dummies))
  BY <1>1, InOrderLists
<1>3. InOrder(R) \in Seq(Offset) /\ InOrder(D \ Range(dummies)) \in Seq(Offset)
  BY <1>2 DEF Lists
<1>4. Cardinality(R) \in Nat
  BY <1>1, OffsetsFinite
<1>5. q \in Nat
  BY <1>4, Constants DEF Quota, R
<1>6. dummies \in [ 1 .. q -> D ]
  BY DEF DummyReads, D
<1>. HIDE DEF q
<1>7. dummies \in Seq(Offset)
  BY <1>1, <1>5, <1>6
<1>8. InOrder(R) \o dummies \in Seq(Offset)
  BY <1>3, <1>7
<1>. QED  BY <1>3, <1>8 DEF R, D

LEMMA ReshuffleRead ==
  ASSUME NEW m, Good(m), NEW b \in Bucket, Cardinality(Reals(m, b)) <= RING_Z,
         NEW dummies \in DummyReads(m, b)
  PROVE  Blocks(m, reshuffle_read(m, b, dummies), b, Valid(m, b), {})
<1>. DEFINE js == InOrder(Reals(m, b)) \o dummies
            u == ReadAll(m, b, js)
            n == Unreal(u, b)
<1>1. js \in Seq(Offset)
  BY ReadOrder
<1>2. reshuffle_read(m, b, dummies) = n
  BY DEF reshuffle_read
<1>. HIDE DEF js
<1>3. Good(u) /\ SameBlocks(m, u)
  BY <1>1, GoodReadAll
<1>. HIDE DEF u
<1>4. Blocks(u, n, b, Valid(u, b), {})
  BY <1>3, UnrealBlocks
<1>. HIDE DEF n
<1>. QED  BY <1>2, <1>3, <1>4, SameBlocksSets DEF Blocks

LEMMA EvictRead ==
  ASSUME NEW m, Good(m), NEW b \in Bucket, Cardinality(Reals(m, b)) <= RING_Z,
         NEW dummies \in DummyReads(m, b)
  PROVE  Blocks(m, evict_read(m, b, dummies), b, {}, {})
<1>. DEFINE js == InOrder(ValidDummies(m, b) \ Range(dummies))
            u == reshuffle_read(m, b, dummies)
            v == ReadAll(u, b, js)
            n == Invalid(v, b)
<1>1. js \in Seq(Offset)
  BY ReadOrder
<1>2. evict_read(m, b, dummies) = n
  BY DEF evict_read
<1>. HIDE DEF js
<1>3. Blocks(m, u, b, Valid(m, b), {})
  BY ReshuffleRead
<1>. HIDE DEF u
<1>4. Good(u)
  BY <1>3 DEF Blocks
<1>5. Good(v) /\ SameBlocks(u, v)
  BY <1>1, <1>4, GoodReadAll
<1>. HIDE DEF v
<1>6. Blocks(v, n, b, {}, Reals(v, b))
  BY <1>5, InvalidBlocks
<1>. HIDE DEF n
<1>. QED  BY <1>2, <1>3, <1>5, <1>6, SameBlocksSets DEF Blocks

(* The bucket after it is written, x being what write_bucket returns.       *)
Outcome(m, x, b, V, c, G, R) ==
  /\ R \subseteq G /\ Blocks(m, x.m, b, V \cup G, R)
  /\ x.s = Cardinality(G) - RING_Z /\ x.real = Cardinality(R) /\ Cardinality(R) <= c
  /\ Cardinality(R) \in { c, LZ, Cardinality(G) }
  /\ Cardinality(G) + REMOTE_CAP + SHADQ_SIZE >= LZ

LEMMA WriteBlocks ==
  ASSUME NEW m, NEW u, NEW b \in Bucket, NEW V, Blocks(m, u, b, V, {}), NEW c \in Nat
  PROVE  \E G, R \in SUBSET Offset : G = Got(u, b) /\ Outcome(m, write_bucket(u, b, c), b, V, c, G, R)
<1>. DEFINE x == write_bucket(u, b, c)
<1>1. Good(u)
  BY DEF Blocks
<1>2. PICK G \in SUBSET Offset, R \in SUBSET Offset :
        /\ R \subseteq G /\ Rewritten(u, x.m, b, G, R)
        /\ x.s = Cardinality(G) - RING_Z /\ x.real = Cardinality(R) /\ Cardinality(R) <= c
        /\ Cardinality(R) \in { c, LZ, Cardinality(G) }
        /\ Cardinality(G) + REMOTE_CAP + SHADQ_SIZE >= LZ
        /\ G = Got(u, b)
  BY <1>1, WriteBucket, Zenon
<1>. HIDE DEF x
<1>3. Blocks(m, x.m, b, V \cup G, R)
  <2>. DEFINE n == x.m
  <2>1. Rewritten(u, n, b, G, R) /\ Good(n)
    BY <1>2 DEF Rewritten
  <2>. HIDE DEF n
  <2>2. ASSUME NEW d \in Bucket, d = b
        PROVE  Valid(n, d) = V \cup G /\ Reals(n, d) = R
    <3>1. Valid(u, b) = V /\ \A i \in Offset : /\ n.slot[b][i].valid = (u.slot[b][i].valid \/ i \in G)
                                              /\ n.slot[b][i].isReal = (i \in R)
      BY <2>1 DEF Rewritten, Blocks
    <3>2. Valid(n, b) = Valid(u, b) \cup G
      BY <3>1 DEF Valid
    <3>3. Reals(n, b) = R
      BY <3>1 DEF Reals
    <3>. QED  BY <2>2, <3>1, <3>2, <3>3
  <2>3. ASSUME NEW d \in Bucket, d # b
        PROVE  Valid(n, d) = Valid(m, d) /\ Reals(n, d) = Reals(m, d)
    <3>1. \A i \in Offset : /\ n.slot[d][i].valid = u.slot[d][i].valid
                            /\ n.slot[d][i].isReal = u.slot[d][i].isReal
      BY <2>1, <2>3 DEF Rewritten
    <3>2. Valid(n, d) = Valid(u, d) /\ Reals(n, d) = Reals(u, d)
      BY <3>1 DEF Valid, Reals
    <3>. QED  BY <2>3, <3>2 DEF Blocks
  <2>. QED  BY <2>1, <2>2, <2>3 DEF Blocks, n
<1>. QED  BY <1>2, <1>3 DEF x, Outcome

-------------------------------------------------------------------------------
(* The inductive invariant: the bookkeeping of the slots, and that a bucket *)
(* has slots left for the reads up to its reshuffle and for the reshuffle.  *)
Stocked(m, b, reads) ==
  /\ Reals(m, b) \subseteq Valid(m, b) /\ Cardinality(Reals(m, b)) <= RING_Z
  /\ reads <= Cardinality(Valid(m, b)) - RING_Z
IInv ==
  /\ Good(mem) /\ count \in [ Bucket -> Nat ] /\ s \in [ Bucket -> Int ]
  /\ ring_G \in Nat /\ bucket \in Bucket
  /\ \A b \in Bucket : Stocked(mem, b, s[b] - count[b])

(* What a write leaves a bucket at least: what it lends is limited.         *)
Least(n) == n + RING_Z + REMOTE_CAP + SHADQ_SIZE >= LZ

LEMMA OtherStocked ==
  ASSUME NEW m, NEW n, NEW b, NEW V, NEW R, Blocks(m, n, b, V, R), NEW c \in Bucket, c # b,
         NEW x, Stocked(m, c, x)
  PROVE  Stocked(n, c, x)
<1>1. Valid(n, c) = Valid(m, c) /\ Reals(n, c) = Reals(m, c)
  BY DEF Blocks
<1>. QED  BY <1>1 DEF Stocked

LEMMA RewriteKeeps ==
  ASSUME IInv, NEW b \in Bucket, NEW u, NEW V \in SUBSET Offset, Blocks(mem, u, b, V, {}),
         NEW r \in 0 .. RING_Z, NEW c \in r .. RING_Z, Rewrite(b, u, c, r)
  PROVE  /\ Good(mem') /\ count' \in [ Bucket -> Nat ] /\ s' \in [ Bucket -> Int ]
         /\ \A d \in Bucket : Stocked(mem', d, s'[d] - count'[d])
         /\ \A d \in Bucket : d # b => s'[d] = s[d] /\ count'[d] = count[d]
         /\ count'[b] = 0
         /\ Least(s'[b]) /\ (failed' = failed \/ s'[b] <= 0)
<1>. DEFINE w == write_bucket(u, b, c)
<1>0. c \in Nat /\ c <= RING_Z /\ r \in Nat /\ r <= c
  BY Constants
<1>1. PICK G \in SUBSET Offset, R \in SUBSET Offset : Outcome(mem, w, b, V, c, G, R)
  BY <1>0, WriteBlocks
<1>2. /\ mem' = w.m /\ s' = [ s EXCEPT ![b] = w.s ] /\ count' = [ count EXCEPT ![b] = 0 ]
      /\ failed' = IF w.s < 0 THEN "few slots" ELSE IF w.real < r THEN "stash grew" ELSE failed
  BY DEF Rewrite, Fail
<1>. HIDE DEF w
<1>3. /\ Cardinality(G) \in Nat /\ Cardinality(R) \in Nat /\ w.s \in Int
      /\ Cardinality(V \cup G) \in Nat /\ Cardinality(G) <= Cardinality(V \cup G)
  <2>1. V \cup G \in SUBSET Offset /\ G \in SUBSET (V \cup G)
    OBVIOUS
  <2>2. IsFiniteSet(V \cup G) /\ Cardinality(V \cup G) \in Nat /\ Cardinality(G) \in Nat
        /\ Cardinality(R) \in Nat
    BY <2>1, OffsetsFinite
  <2>3. Cardinality(G) <= Cardinality(V \cup G)
    BY <2>1, <2>2, FS_Subset
  <2>. QED  BY <1>1, <2>2, <2>3, Constants DEF Outcome
<1>4. Good(mem') /\ Blocks(mem, mem', b, V \cup G, R)
  BY <1>1, <1>2 DEF Blocks, Outcome
<1>5. /\ count' \in [ Bucket -> Nat ] /\ s' \in [ Bucket -> Int ] /\ count'[b] = 0 /\ s'[b] = w.s
      /\ \A d \in Bucket : d # b => s'[d] = s[d] /\ count'[d] = count[d]
  BY <1>2, <1>3 DEF IInv
<1>6. ASSUME NEW d \in Bucket
      PROVE  Stocked(mem', d, s'[d] - count'[d])
  <2>1. CASE d = b
    <3>1. Valid(mem', b) = V \cup G /\ Reals(mem', b) = R
      BY <1>4 DEF Blocks
    <3>2. R \subseteq V \cup G /\ Cardinality(R) <= RING_Z
      BY <1>0, <1>1, <1>3, Constants DEF Outcome
    <3>3. s'[b] - count'[b] <= Cardinality(V \cup G) - RING_Z
      BY <1>1, <1>3, <1>5, Constants DEF Outcome
    <3>. QED  BY <2>1, <3>1, <3>2, <3>3 DEF Stocked
  <2>2. CASE d # b
    <3>1. Stocked(mem, d, s[d] - count[d]) /\ s'[d] = s[d] /\ count'[d] = count[d]
      BY <1>5, <2>2 DEF IInv
    <3>. DEFINE x == s[d] - count[d]
    <3>2. Stocked(mem, d, x) /\ s'[d] - count'[d] = x
      BY <3>1
    <3>. HIDE DEF x
    <3>3. Stocked(mem', d, x)
      BY <1>4, <2>2, <3>2, OtherStocked
    <3>. QED  BY <3>2, <3>3
  <2>. QED  BY <2>1, <2>2
<1>7. Least(s'[b])
  BY <1>1, <1>3, <1>5, Constants DEF Outcome, Least
<1>8. ASSUME failed' # failed PROVE s'[b] <= 0
  <2>1. CASE w.s < 0
    BY <1>3, <1>5, <2>1
  <2>2. CASE w.real < r
    <3>1. Cardinality(R) < r /\ Cardinality(R) # c /\ Cardinality(R) # LZ
      BY <1>0, <1>1, <1>3, <2>2, Constants DEF Outcome
    <3>2. Cardinality(R) = Cardinality(G)
      BY <1>1, <3>1 DEF Outcome
    <3>. QED  BY <1>0, <1>1, <1>3, <1>5, <3>1, <3>2, Constants DEF Outcome
  <2>. QED  BY <1>2, <1>8, <2>1, <2>2
<1>. QED  BY <1>4, <1>5, <1>6, <1>7, <1>8

LEMMA Stock ==
  ASSUME NEW m, NEW b, NEW x \in Int, Stocked(m, b, x)
  PROVE  /\ Reals(m, b) \cup ValidDummies(m, b) = Valid(m, b)
         /\ Cardinality(Valid(m, b)) \in Nat /\ Cardinality(Reals(m, b)) \in Nat
         /\ Cardinality(ValidDummies(m, b)) \in Nat
         /\ Cardinality(Valid(m, b)) = Cardinality(Reals(m, b)) + Cardinality(ValidDummies(m, b))
         /\ Cardinality(ValidDummies(m, b)) >= Quota(m, b) + x
         /\ x > 0 => ValidDummies(m, b) # {}
<1>. DEFINE R == Reals(m, b)
            D == ValidDummies(m, b)
            V == Valid(m, b)
<1>1. R \subseteq V /\ Cardinality(R) <= RING_Z /\ x <= Cardinality(V) - RING_Z
  BY DEF Stocked
<1>2. R \cup D = V /\ R \cap D = {} /\ R \in SUBSET Offset /\ D \in SUBSET Offset /\ V \in SUBSET Offset
  BY <1>1 DEF Reals, ValidDummies, Valid
<1>. HIDE DEF R, D, V
<1>3. /\ IsFiniteSet(R) /\ IsFiniteSet(D) /\ Cardinality(R) \in Nat /\ Cardinality(D) \in Nat
      /\ Cardinality(V) \in Nat
  BY <1>2, OffsetsFinite
<1>4. Cardinality(V) = Cardinality(R) + Cardinality(D)
  <2>1. Cardinality(R \cup D) = Cardinality(R) + Cardinality(D) - Cardinality(R \cap D)
    BY <1>3, FS_Union
  <2>2. Cardinality({}) = 0
    BY FS_EmptySet
  <2>3. Cardinality(V) = Cardinality(R) + Cardinality(D) - Cardinality({})
    BY <1>2, <2>1, Zenon
  <2>. QED  BY <1>3, <2>2, <2>3
<1>5. Cardinality(D) >= RING_Z - Cardinality(R) + x
  BY <1>1, <1>3, <1>4, Constants
<1>6. x > 0 => D # {}
  <2>1. ASSUME x > 0, D = {} PROVE FALSE
    <3>1. Cardinality(D) = 0
      BY <2>1, FS_EmptySet
    <3>. QED  BY <1>1, <1>3, <1>5, <2>1, <3>1, Constants
  <2>. QED  BY <2>1
<1>. QED  BY <1>2, <1>3, <1>4, <1>5, <1>6 DEF Quota, R, D, V

LEMMA ReadKeeps ==
  ASSUME IInv, NEW b \in Bucket, NEW j \in Wanted(b), ReadSlot(b, j)
  PROVE  /\ Good(mem') /\ count' \in [ Bucket -> Nat ]
         /\ \A d \in Bucket : Stocked(mem', d, s[d] - count'[d])
         /\ count'[b] = count[b] + 1 /\ \A d \in Bucket : d # b => count'[d] = count[d]
<1>. DEFINE u == Read(mem, b, j)
            V == Valid(mem, b)
            R == Reals(mem, b)
            x == s[b] - count[b]
<1>1. /\ Good(mem) /\ count \in [ Bucket -> Nat ] /\ s \in [ Bucket -> Int ]
      /\ \A d \in Bucket : Stocked(mem, d, s[d] - count[d])
  BY DEF IInv
<1>2. x \in Int /\ Stocked(mem, b, x)
  BY <1>1
<1>3. j \in V /\ V \in SUBSET Offset /\ R \in SUBSET Offset /\ j \in Offset /\ R \subseteq V
  <2>1. j \in V
    BY <1>2, Stock DEF Wanted
  <2>2. V \in SUBSET Offset /\ R \in SUBSET Offset
    BY DEF Valid, Reals
  <2>. QED  BY <1>2, <2>1, <2>2 DEF Stocked
<1>4. /\ mem' = [ u EXCEPT !.slot[b][j].valid = FALSE, !.slot[b][j].isReal = FALSE ]
      /\ count' = [ count EXCEPT ![b] = @ + 1 ]
  BY DEF ReadSlot
<1>5. Good(u) /\ SameBlocks(mem, u)
  BY <1>1, <1>3, GoodRead
<1>. HIDE DEF u
<1>6. Blocks(u, mem', b, Valid(u, b) \ { j }, Reals(u, b) \ { j })
  <2>. DEFINE n == [ u EXCEPT !.slot[b][j].valid = FALSE, !.slot[b][j].isReal = FALSE ]
  <2>1. \A o : o = n => Blocks(u, o, b, Valid(u, b) \ { j }, Reals(u, b) \ { j })
    BY <1>3, <1>5, ClearSlot
  <2>2. mem' = n
    BY <1>4
  <2>. HIDE DEF n
  <2>. QED  BY <2>1, <2>2
<1>. HIDE DEF V, R, x
<1>7. Blocks(mem, mem', b, V \ { j }, R \ { j })
  BY <1>5, <1>6, SameBlocksSets DEF Blocks, V, R
<1>8. /\ count' \in [ Bucket -> Nat ] /\ count'[b] = count[b] + 1
      /\ \A d \in Bucket : d # b => count'[d] = count[d]
  BY <1>1, <1>4
<1>9. ASSUME NEW d \in Bucket
      PROVE  Stocked(mem', d, s[d] - count'[d])
  <2>1. CASE d = b
    <3>1. Valid(mem', b) = V \ { j } /\ Reals(mem', b) = R \ { j }
      BY <1>7 DEF Blocks
    <3>2. /\ IsFiniteSet(V) /\ IsFiniteSet(R) /\ Cardinality(V) \in Nat /\ Cardinality(R) \in Nat
          /\ Cardinality(R \ { j }) \in Nat
      <4>1. R \ { j } \in SUBSET Offset
        BY <1>3
      <4>. QED  BY <1>3, <4>1, OffsetsFinite
    <3>3. Cardinality(V \ { j }) = Cardinality(V) - 1
      BY <1>3, <3>2, FS_RemoveElement
    <3>4. Cardinality(R \ { j }) <= Cardinality(R)
      BY <3>2, FS_Subset
    <3>5. Cardinality(R) <= RING_Z /\ x <= Cardinality(V) - RING_Z
      BY <1>2 DEF Stocked, V, R
    <3>6. s[b] - count'[b] = x - 1
      BY <1>1, <1>8 DEF x
    <3>7. Cardinality(R \ { j }) <= RING_Z /\ x - 1 <= Cardinality(V \ { j }) - RING_Z
      BY <1>2, <3>2, <3>3, <3>4, <3>5, Constants
    <3>. QED  BY <1>3, <2>1, <3>1, <3>6, <3>7 DEF Stocked
  <2>2. CASE d # b
    <3>. DEFINE y == s[d] - count[d]
    <3>1. Stocked(mem, d, y) /\ s[d] - count'[d] = y
      BY <1>1, <1>8, <2>2
    <3>. HIDE DEF y
    <3>2. Stocked(mem', d, y)
      BY <1>7, <2>2, <3>1, OtherStocked
    <3>. QED  BY <3>1, <3>2
  <2>. QED  BY <2>1, <2>2
<1>. QED  BY <1>7, <1>8, <1>9 DEF Blocks

LEMMA InitIInv == Init => IInv
<1>. SUFFICES ASSUME Init PROVE IInv
  OBVIOUS
<1>1. PICK r \in [ Bucket -> 0 .. RING_Z ] :
        mem = [ slot |-> [ b \in Bucket |-> Fresh(r[b]) ], allctr |-> [ b \in Bucket |-> 0 ],
                deadQ |-> << >>, shadowQ |-> << >>, taken |-> FALSE ]
  BY DEF Init
<1>2. /\ mem.slot = [ b \in Bucket |-> Fresh(r[b]) ] /\ mem.allctr = [ b \in Bucket |-> 0 ]
      /\ mem.deadQ = << >> /\ mem.shadowQ = << >> /\ mem.taken = FALSE
  BY <1>1
<1>3. ASSUME NEW k
      PROVE  /\ Fresh(k) \in [ Offset -> Slot ]
             /\ \A i \in Offset : /\ Fresh(k)[i].isReal = (i < k) /\ Fresh(k)[i].valid = (i < LZ)
                                  /\ Fresh(k)[i].remote = NONE
                                  /\ i < LZ => Fresh(k)[i].dd = "REFRESHED"
  BY DEF Fresh, Slot, DeadState
<1>4. mem \in Mem
  <2>1. mem.slot \in [ Bucket -> [ Offset -> Slot ] ]
    BY <1>2, <1>3
  <2>2. mem.allctr \in [ Bucket -> Int ] /\ << >> \in Seq(Place)
    BY <1>2
  <2>3. mem = [ slot |-> mem.slot, allctr |-> mem.allctr, deadQ |-> << >>, shadowQ |-> << >>, taken |-> FALSE ]
    BY <1>1
  <2>. QED
    <3>. DEFINE u == mem.slot
                a == mem.allctr
    <3>1. /\ u \in [ Bucket -> [ Offset -> Slot ] ] /\ a \in [ Bucket -> Int ] /\ << >> \in Seq(Place)
          /\ mem = [ slot |-> u, allctr |-> a, deadQ |-> << >>, shadowQ |-> << >>, taken |-> FALSE ]
      BY <2>1, <2>2, <2>3
    <3>. HIDE DEF u, a
    <3>. QED  BY <3>1 DEF Mem
<1>5. \A b \in Bucket, i \in Offset :
        /\ mem.slot[b][i].isReal = (i < r[b]) /\ mem.slot[b][i].valid = (i < LZ)
        /\ mem.slot[b][i].remote = NONE
        /\ i < LZ => mem.slot[b][i].dd = "REFRESHED"
  <2>1. \A b \in Bucket : mem.slot[b] = Fresh(r[b])
    BY <1>2
  <2>. HIDE DEF Fresh
  <2>. QED  BY <1>3, <2>1
<1>6. Good(mem)
  <2>1. Fits(mem)
    BY <1>2, Constants DEF Fits
  <2>2. ASSUME NEW b \in Bucket
        PROVE  Count(mem.deadQ, b) = 0 /\ Count(mem.shadowQ, b) = 0 /\ Owed(mem, b) = 0
    <3>1. At(<< >>, b) = {}
      BY DEF At
    <3>2. Count(mem.deadQ, b) = 0 /\ Count(mem.shadowQ, b) = 0
      BY <1>2, <3>1, FS_EmptySet DEF Count
    <3>3. Lent(mem, b) = {}
      <4>1. \A i : NONE # << b, i >>
        BY DEF NONE
      <4>. QED  BY <1>5, <4>1 DEF Lent
    <3>4. Lost(mem, b) = {}
      <4>1. \A i \in Own : i \in Offset /\ i < LZ
        BY Constants DEF Own
      <4>. QED  BY <1>5, <4>1 DEF Lost, dd
    <3>5. Cardinality(Lent(mem, b)) = 0 /\ Cardinality(Lost(mem, b)) = 0
      BY <3>3, <3>4, FS_EmptySet
    <3>. QED  BY <3>2, <3>5 DEF Owed
  <2>3. Paid(mem)
    BY <1>2, <2>2 DEF Paid
  <2>4. Capped(mem)
    BY <1>2, <2>2, Constants DEF Capped
  <2>. QED  BY <1>4, <2>1, <2>3, <2>4 DEF Good
<1>7. ASSUME NEW b \in Bucket
      PROVE  Stocked(mem, b, LZ - RING_Z)
  <2>1. r[b] \in 0 .. RING_Z
    OBVIOUS
  <2>0. LZ \in Nat /\ S_INC \in Nat /\ RING_Z \in Nat /\ RING_Z < LZ
    BY Constants
  <2>2. Valid(mem, b) = 0 .. LZ - 1
    <3>1. Valid(mem, b) = { i \in Offset : i < LZ }
      BY <1>5 DEF Valid
    <3>. QED  BY <2>0, <3>1 DEF Offset
  <2>3. Reals(mem, b) = 0 .. r[b] - 1
    <3>1. Reals(mem, b) = { i \in Offset : i < r[b] }
      BY <1>5 DEF Reals
    <3>. QED  BY <2>0, <2>1, <3>1 DEF Offset
  <2>4. Cardinality(0 .. LZ - 1) = LZ
    <3>1. LZ - 1 \in Int /\ 0 \in Int /\ LZ \in Nat /\ LZ > 0
      BY Constants
    <3>. QED  BY <3>1, FS_Interval
  <2>5. Cardinality(0 .. r[b] - 1) = r[b]
    <3>. DEFINE k == r[b]
    <3>1. k - 1 \in Int /\ 0 \in Int /\ k \in Nat
      BY <2>1, Constants
    <3>. HIDE DEF k
    <3>2. Cardinality(0 .. k - 1) = k
      BY <3>1, FS_Interval
    <3>. QED  BY <3>2 DEF k
  <2>6. 0 .. r[b] - 1 \subseteq 0 .. LZ - 1 /\ r[b] <= RING_Z
    BY <2>1, Constants
  <2>. QED  BY <2>2, <2>3, <2>4, <2>5, <2>6, Constants DEF Stocked
<1>8. \A b \in Bucket : s[b] - count[b] = LZ - RING_Z
  BY Constants DEF Init
<1>9. \A b \in Bucket : Stocked(mem, b, s[b] - count[b])
  BY <1>7, <1>8
<1>10. count \in [ Bucket -> Nat ] /\ s \in [ Bucket -> Int ] /\ ring_G \in Nat /\ bucket \in Bucket
  BY Constants DEF Init
<1>. QED  BY <1>6, <1>9, <1>10 DEF IInv

(* Every bucket that was written with slots for reads can be read again,    *)
(* but for the one that is to be reshuffled in this access; and only one    *)
(* without such slots has made a check fail.                                *)
Short(b) == s[b] <= 0
CanServe(b) ==
  \/ Short(b)
  \/ count[b] < s[b]
  \/ b = bucket /\ phase \in { "evict", "reshuffle" } /\ count[b] = s[b]
Served ==
  /\ failed # "no" => \E b \in Bucket : Short(b)
  /\ \A b \in Bucket : Least(s[b]) /\ CanServe(b)

LEMMA ReadPath ==
  ASSUME IInv, ring_read_path
  PROVE  IInv' /\ (Served => Served')
<1>0. PICK b \in Bucket :
       /\ bucket' = b
       /\ \/ \E j \in Wanted(b) : ReadSlot(b, j)
          \/ ValidDummies(mem, b) = {} /\ Fail("no dummy") /\ UNCHANGED << mem, count >>
  BY DEF ring_read_path
<1>1. s' = s /\ ring_G' = ring_G /\ phase = "read" /\ phase' \in { "evict", "reshuffle" }
  BY DEF ring_read_path
<1>2. /\ s \in [ Bucket -> Int ] /\ count \in [ Bucket -> Nat ] /\ ring_G \in Nat
      /\ \A d \in Bucket : Stocked(mem, d, s[d] - count[d])
  BY DEF IInv
<1>3. CASE \E j \in Wanted(b) : ReadSlot(b, j)
  <2>1. PICK j \in Wanted(b) : ReadSlot(b, j)
    BY <1>3
  <2>2. /\ Good(mem') /\ count' \in [ Bucket -> Nat ]
        /\ \A d \in Bucket : Stocked(mem', d, s[d] - count'[d])
        /\ count'[b] = count[b] + 1 /\ \A d \in Bucket : d # b => count'[d] = count[d]
    BY <2>1, ReadKeeps
  <2>3. IInv'
    BY <1>0, <1>1, <1>2, <2>2 DEF IInv
  <2>4. ASSUME Served PROVE Served'
    <3>1. failed' = failed /\ failed = "no"
      BY <2>1 DEF ReadSlot, ring_read_path, Running
    <3>2. ASSUME NEW d \in Bucket
          PROVE  Least(s'[d]) /\ CanServe(d)'
      <4>1. Least(s[d]) /\ (Short(d) \/ count[d] < s[d])
        BY <1>1, <2>4 DEF Served, CanServe
      <4>2. count[d] \in Nat /\ s[d] \in Int /\ s'[d] = s[d]
        BY <1>1, <1>2
      <4>3. CASE Short(d)
        BY <4>1, <4>2, <4>3 DEF Least, CanServe, Short
      <4>4. CASE ~Short(d) /\ d = b
        <5>1. count'[d] = count[d] + 1
          BY <2>2, <4>4
        <5>2. count[d] + 1 < s[d] \/ count[d] + 1 = s[d]
          BY <4>1, <4>2, <4>4
        <5>. QED  BY <1>0, <1>1, <4>1, <4>2, <4>4, <5>1, <5>2, Zenon DEF Least, CanServe
      <4>5. CASE ~Short(d) /\ d # b
        BY <2>2, <4>1, <4>2, <4>5, Zenon DEF Least, CanServe
      <4>. QED  BY <4>3, <4>4, <4>5
    <3>. QED  BY <3>1, <3>2 DEF Served
  <2>. QED  BY <2>3, <2>4
<1>4. CASE ValidDummies(mem, b) = {} /\ Fail("no dummy") /\ UNCHANGED << mem, count >>
  <2>1. IInv'
    BY <1>0, <1>1, <1>2, <1>4 DEF IInv
  <2>2. ASSUME Served PROVE Served'
    <3>. DEFINE x == s[b] - count[b]
    <3>1. Least(s[b]) /\ CanServe(b) /\ count[b] \in Nat /\ s[b] \in Int
      BY <1>0, <1>2, <2>2 DEF Served
    <3>2. Short(b)
      <4>. SUFFICES ASSUME ~Short(b) PROVE FALSE
        OBVIOUS
      <4>1. count[b] < s[b]
        BY <1>1, <3>1 DEF CanServe
      <4>2. x \in Int /\ x > 0
        BY <3>1, <4>1
      <4>3. Stocked(mem, b, x)
        BY <1>2
      <4>. HIDE DEF x
      <4>. QED  BY <1>4, <4>2, <4>3, Stock
    <3>3. \A d \in Bucket : Least(s'[d]) /\ CanServe(d)'
      <4>. SUFFICES ASSUME NEW d \in Bucket PROVE Least(s'[d]) /\ CanServe(d)'
        OBVIOUS
      <4>1. Least(s[d]) /\ (Short(d) \/ count[d] < s[d])
        BY <1>1, <2>2 DEF Served, CanServe
      <4>. QED  BY <1>1, <1>4, <4>1 DEF Least, CanServe, Short
    <3>4. Short(b)'
      BY <1>1, <3>2 DEF Short
    <3>. QED  BY <3>3, <3>4 DEF Served
  <2>. QED  BY <2>1, <2>2
<1>. QED  BY <1>0, <1>3, <1>4

LEMMA Enoughs ==
  ASSUME IInv, Served, NEW b \in Bucket, ~Short(b)
  PROVE  Enough(mem, b)
<1>. DEFINE x == s[b] - count[b]
<1>1. x \in Int /\ x >= 0 /\ Stocked(mem, b, x)
  <2>1. s[b] \in Int /\ count[b] \in Nat /\ Stocked(mem, b, x)
    BY DEF IInv
  <2>2. count[b] < s[b] \/ count[b] = s[b]
    BY DEF Served, CanServe
  <2>. QED  BY <2>1, <2>2
<1>. HIDE DEF x
<1>2. /\ Cardinality(ValidDummies(mem, b)) \in Nat /\ Cardinality(Reals(mem, b)) \in Nat
      /\ Cardinality(ValidDummies(mem, b)) >= Quota(mem, b) + x
  BY <1>1, Stock
<1>3. Quota(mem, b) \in Int
  BY <1>2, Constants DEF Quota
<1>. QED  BY <1>1, <1>2, <1>3 DEF Enough

(* Bucket b is rewritten in the access that reads bucket.                   *)
LEMMA RewriteServes ==
  ASSUME IInv, Served, failed = "no", NEW b \in Bucket, bucket' = bucket, phase' # "read",
         s' \in [ Bucket -> Int ],
         \A d \in Bucket : d # b => s'[d] = s[d] /\ count'[d] = count[d],
         count'[b] = 0, Least(s'[b]), failed' = failed \/ s'[b] <= 0,
         b = bucket \/ phase' = "reshuffle"
  PROVE  Served'
<1>1. ASSUME NEW d \in Bucket
      PROVE  Least(s'[d]) /\ CanServe(d)'
  <2>1. CASE d = b
    <3>1. count'[d] < s'[d] \/ s'[d] <= 0
      BY <2>1
    <3>. QED  BY <2>1, <3>1 DEF CanServe, Short
  <2>2. CASE d # b
    <3>1. Least(s[d]) /\ CanServe(d) /\ s'[d] = s[d] /\ count'[d] = count[d]
      BY <2>2 DEF Served
    <3>. QED  BY <2>2, <3>1, Zenon DEF Least, CanServe, Short
  <2>. QED  BY <2>1, <2>2
<1>2. failed' # "no" => Short(b)'
  BY DEF Short
<1>. QED  BY <1>1, <1>2 DEF Served

(* The quota of bucket b is not met.                                       *)
LEMMA FewDummies ==
  ASSUME IInv, Served, failed = "no", NEW b \in Bucket, ~Enough(mem, b), bucket' = bucket,
         UNCHANGED << count, s >>, b = bucket \/ phase' = "reshuffle"
  PROVE  Served'
<1>1. Short(b)
  BY Enoughs
<1>2. ASSUME NEW d \in Bucket
      PROVE  Least(s'[d]) /\ CanServe(d)'
  <2>1. Least(s[d]) /\ CanServe(d)
    BY DEF Served
  <2>2. d = b => Short(d)
    BY <1>1
  <2>. QED  BY <2>1, <2>2, Zenon DEF Least, CanServe, Short
<1>3. Short(b)'
  BY <1>1 DEF Short
<1>. QED  BY <1>2, <1>3 DEF Served

LEMMA EvictPath ==
  ASSUME IInv, ring_evict_path
  PROVE  IInv' /\ (Served => Served')
<1>. DEFINE b == ring_G % BUCKETS
<1>1. /\ ring_G' = (ring_G + 1) % BUCKETS /\ bucket' = bucket /\ phase = "evict"
      /\ phase' = "reshuffle" /\ Shuffle(b, evict_read, 0) /\ failed = "no"
  BY DEF ring_evict_path, Running
<1>2. /\ s \in [ Bucket -> Int ] /\ count \in [ Bucket -> Nat ] /\ ring_G \in Nat /\ bucket \in Bucket
      /\ Good(mem) /\ \A d \in Bucket : Stocked(mem, d, s[d] - count[d])
  BY DEF IInv
<1>3. b \in Bucket /\ ring_G' \in Nat
  BY <1>1, <1>2, Constants DEF Bucket
<1>. HIDE DEF b
<1>4. CASE Enough(mem, b)
  <2>1. PICK dummies \in DummyReads(mem, b), c \in 0 .. RING_Z :
          Rewrite(b, evict_read(mem, b, dummies), c, 0)
    BY <1>1, <1>4 DEF Shuffle
  <2>. DEFINE u == evict_read(mem, b, dummies)
  <2>2. Blocks(mem, u, b, {}, {})
    BY <1>2, <1>3, EvictRead DEF Stocked
  <2>3. Rewrite(b, u, c, 0) /\ {} \in SUBSET Offset /\ 0 \in 0 .. RING_Z
    BY <2>1, Constants
  <2>. HIDE DEF u
  <2>4. /\ Good(mem') /\ count' \in [ Bucket -> Nat ] /\ s' \in [ Bucket -> Int ]
        /\ \A d \in Bucket : Stocked(mem', d, s'[d] - count'[d])
        /\ \A d \in Bucket : d # b => s'[d] = s[d] /\ count'[d] = count[d]
        /\ count'[b] = 0
        /\ Least(s'[b]) /\ (failed' = failed \/ s'[b] <= 0)
    BY <1>3, <2>2, <2>3, RewriteKeeps
  <2>5. IInv'
    BY <1>1, <1>2, <1>3, <2>4 DEF IInv
  <2>6. Served => Served'
    BY <1>1, <1>3, <2>4, RewriteServes
  <2>. QED  BY <2>5, <2>6
<1>5. CASE ~Enough(mem, b)
  <2>1. UNCHANGED << mem, count, s >>
    BY <1>1, <1>5 DEF Shuffle
  <2>2. IInv'
    BY <1>1, <1>2, <1>3, <2>1 DEF IInv
  <2>. QED  BY <1>1, <1>3, <1>5, <2>1, <2>2, FewDummies
<1>. QED  BY <1>4, <1>5

LEMMA EarlyReshuffle ==
  ASSUME IInv, ring_early_reshuffle
  PROVE  IInv' /\ (Served => Served')
<1>. DEFINE b == bucket
            r == Cardinality(Reals(mem, b))
<1>1. /\ ring_G' = ring_G /\ bucket' = bucket /\ phase = "reshuffle" /\ phase' = "gather"
      /\ Shuffle(b, reshuffle_read, r) /\ failed = "no"
  BY DEF ring_early_reshuffle, Running
<1>2. /\ s \in [ Bucket -> Int ] /\ count \in [ Bucket -> Nat ] /\ ring_G \in Nat /\ bucket \in Bucket
      /\ Good(mem) /\ \A d \in Bucket : Stocked(mem, d, s[d] - count[d])
  BY DEF IInv
<1>3. r \in 0 .. RING_Z /\ r <= RING_Z
  <2>1. Reals(mem, b) \in SUBSET Offset
    BY DEF Reals
  <2>2. Cardinality(Reals(mem, b)) \in Nat
    BY <2>1, OffsetsFinite
  <2>. QED  BY <1>2, <2>2, Constants DEF Stocked
<1>4. CASE Enough(mem, b)
  <2>1. PICK dummies \in DummyReads(mem, b), c \in r .. RING_Z :
          Rewrite(b, reshuffle_read(mem, b, dummies), c, r)
    BY <1>1, <1>4 DEF Shuffle
  <2>. DEFINE u == reshuffle_read(mem, b, dummies)
  <2>2. Blocks(mem, u, b, Valid(mem, b), {}) /\ Valid(mem, b) \in SUBSET Offset
    <3>1. Valid(mem, b) \in SUBSET Offset
      BY DEF Valid
    <3>. QED  BY <1>2, <1>3, <3>1, ReshuffleRead
  <2>3. Rewrite(b, u, c, r) /\ b \in Bucket
    BY <1>2, <2>1
  <2>. HIDE DEF u, r
  <2>4. /\ Good(mem') /\ count' \in [ Bucket -> Nat ] /\ s' \in [ Bucket -> Int ]
        /\ \A d \in Bucket : Stocked(mem', d, s'[d] - count'[d])
        /\ \A d \in Bucket : d # b => s'[d] = s[d] /\ count'[d] = count[d]
        /\ count'[b] = 0
        /\ Least(s'[b]) /\ (failed' = failed \/ s'[b] <= 0)
    BY <1>3, <2>2, <2>3, RewriteKeeps
  <2>5. IInv'
    BY <1>1, <1>2, <2>4 DEF IInv
  <2>6. Served => Served'
    BY <1>1, <1>2, <2>4, RewriteServes
  <2>. QED  BY <2>5, <2>6
<1>5. CASE ~Enough(mem, b)
  <2>1. UNCHANGED << mem, count, s >>
    BY <1>1, <1>5 DEF Shuffle
  <2>2. IInv'
    BY <1>1, <1>2, <2>1 DEF IInv
  <2>. QED  BY <1>1, <1>2, <1>5, <2>1, <2>2, FewDummies
<1>. QED  BY <1>4, <1>5

LEMMA Gathering ==
  ASSUME IInv, gather
  PROVE  IInv' /\ (Served => Served')
<1>1. /\ mem' = gather_dead(mem, bucket) /\ phase' = "read"
      /\ phase = "gather" \/ (phase = "reshuffle" /\ ~MustReshuffle(bucket))
      /\ UNCHANGED << count, s, ring_G, bucket, failed >>
  BY DEF gather
<1>2. /\ s \in [ Bucket -> Int ] /\ count \in [ Bucket -> Nat ] /\ ring_G \in Nat /\ bucket \in Bucket
      /\ Good(mem) /\ \A d \in Bucket : Stocked(mem, d, s[d] - count[d])
  BY DEF IInv
<1>3. Good(mem') /\ SameBlocks(mem, mem')
  BY <1>1, <1>2, GoodGather
<1>4. \A d \in Bucket : Stocked(mem', d, s[d] - count[d])
  BY <1>2, <1>3, SameBlocksSets DEF Stocked
<1>5. IInv'
  BY <1>1, <1>2, <1>3, <1>4 DEF IInv
<1>6. ASSUME Served PROVE Served'
  <2>1. ASSUME NEW d \in Bucket
        PROVE  Least(s'[d]) /\ CanServe(d)'
    <3>1. Least(s[d]) /\ CanServe(d) /\ count[d] \in Nat /\ s[d] \in Int
      BY <1>2, <1>6 DEF Served
    <3>2. Short(d) \/ count[d] < s[d]
      BY <1>1, <3>1 DEF CanServe, MustReshuffle
    <3>. QED  BY <1>1, <3>1, <3>2 DEF Least, CanServe, Short
  <2>2. failed' # "no" => \E d \in Bucket : Short(d)'
    BY <1>1, <1>6 DEF Served, Short
  <2>. QED  BY <2>1, <2>2 DEF Served
<1>. QED  BY <1>5, <1>6

LEMMA StepIInv == IInv /\ [Next]_vars => IInv' /\ (Served => Served')
<1>. SUFFICES ASSUME IInv, [Next]_vars PROVE IInv' /\ (Served => Served')
  OBVIOUS
<1>1. CASE ring_read_path
  BY <1>1, ReadPath
<1>2. CASE ring_evict_path
  BY <1>2, EvictPath
<1>3. CASE ring_early_reshuffle
  BY <1>3, EarlyReshuffle
<1>4. CASE gather
  BY <1>4, Gathering
<1>5. CASE UNCHANGED vars
  BY <1>5 DEF vars, IInv, Served, Least, CanServe, Short
<1>. QED  BY <1>1, <1>2, <1>3, <1>4, <1>5 DEF Next

-------------------------------------------------------------------------------
(* The slots keep their type and the queues their bounds (DEADQ_SIZE and    *)
(* SHADQ_SIZE), whatever the level is given: gather_dead and remote_access  *)
(* test the length before they append, and write_bucket before it moves.    *)
THEOREM DeadTypes == Spec => []TypeOK
<1>1. Init => IInv
  BY InitIInv
<1>2. IInv /\ [Next]_vars => IInv'
  BY StepIInv
<1>3. IInv => TypeOK
  BY DEF IInv, Good, Mem, Fits, TypeOK, QueueBound
<1>. QED  BY <1>1, <1>2, <1>3, PTL DEF Spec

(* A bucket has slots left for every read up to its reshuffle, and for the  *)
(* reads of the reshuffle: what write_bucket computes s from is what it     *)
(* got, whatever was borrowed, lent or lost since.                          *)
THEOREM DeadBudget == Spec => []BudgetKept
<1>1. Init => IInv
  BY InitIInv
<1>2. IInv /\ [Next]_vars => IInv'
  BY StepIInv
<1>3. IInv => BudgetKept
  <2>. SUFFICES ASSUME IInv, NEW b \in Bucket
                PROVE  s[b] - count[b] <= Cardinality(Reals(mem, b) \cup ValidDummies(mem, b)) - RING_Z
    BY DEF BudgetKept
  <2>. DEFINE x == s[b] - count[b]
  <2>1. x \in Int /\ Stocked(mem, b, x)
    BY DEF IInv
  <2>. HIDE DEF x
  <2>2. Reals(mem, b) \cup ValidDummies(mem, b) = Valid(mem, b)
    BY <2>1, Stock
  <2>. QED  BY <2>1, <2>2 DEF Stocked, x
<1>. QED  BY <1>1, <1>2, <1>3, PTL DEF Spec

(* A check of an access ends the program - a read without a dummy, a        *)
(* reshuffle without enough of them, a write without slots or with fewer    *)
(* than the blocks read - only after a write of a bucket that found RING_Z  *)
(* slots for it or fewer (s <= 0): with one more, every check of every      *)
(* access up to the bucket's next write passes.  And a write finds all the  *)
(* bucket's own slots but REMOTE_CAP + SHADQ_SIZE at most.                  *)
THEOREM DeadChecks ==
  Spec => /\ [](~ChecksPass => \E b \in Bucket : s[b] <= 0)
          /\ [](\A b \in Bucket : s[b] >= LZ - RING_Z - REMOTE_CAP - SHADQ_SIZE)
<1>1. Init => IInv /\ Served
  <2>1. Init => IInv
    BY InitIInv
  <2>2. Init => Served
    BY Constants DEF Init, Served, Least, CanServe
  <2>. QED  BY <2>1, <2>2
<1>2. IInv /\ Served /\ [Next]_vars => (IInv /\ Served)'
  BY StepIInv
<1>3. Served => (~ChecksPass => \E b \in Bucket : s[b] <= 0)
  BY DEF Served, Short, ChecksPass
<1>4. IInv /\ Served => \A b \in Bucket : s[b] >= LZ - RING_Z - REMOTE_CAP - SHADQ_SIZE
  <2>. SUFFICES ASSUME IInv, Served, NEW b \in Bucket
                PROVE  s[b] >= LZ - RING_Z - REMOTE_CAP - SHADQ_SIZE
    OBVIOUS
  <2>1. Least(s[b]) /\ s[b] \in Int
    BY DEF Served, IInv
  <2>. QED  BY <2>1, Constants DEF Least
<1>. QED  BY <1>1, <1>2, <1>3, <1>4, PTL DEF Spec

-------------------------------------------------------------------------------
(* The other invariant: who has which slot.  W is the set of the slots that *)
(* hold a block, or are about to.                                           *)

(* The queue has every slot that is remembered, once.                       *)
Distinct(q) == \A k, l \in 1 .. Len(q) : q[k] = q[l] => k = l
Queued(m) ==
  /\ Distinct(m.deadQ)
  /\ \A d \in Bucket, k \in Own : m.slot[d][k].dd = "REMEMBERED" <=> << d, k >> \in Range(m.deadQ)

(* A slot that is allocated is so to one redirection.                       *)
Lends(m) ==
  \A d \in Bucket, k \in Own :
    m.slot[d][k].dd = "ALLOCATED" <=> \E c \in Bucket, i \in Offset : m.slot[c][i].remote = << d, k >>
Unique(m) ==
  \A c, e \in Bucket, i, j \in Offset :
    m.slot[c][i].remote # NONE /\ m.slot[c][i].remote = m.slot[e][j].remote => c = e /\ i = j

(* Only slots of W are redirected; the others of W are in place.            *)
Placed(m, W) ==
  \A c \in Bucket, i \in Offset :
    /\ m.slot[c][i].remote # NONE => << c, i >> \in W
    /\ << c, i >> \in W /\ m.slot[c][i].remote = NONE => i \in Own /\ m.slot[c][i].dd = "REFRESHED"

Counted(m) == \A b \in Bucket : m.allctr[b] = Cardinality(Taken(m, b))

Linked(m, W) ==
  m \in Mem /\ ~m.taken /\ Queued(m) /\ Lends(m) /\ Unique(m) /\ Placed(m, W) /\ Counted(m)

LEMMA QueueAppend ==
  ASSUME NEW q \in Seq(Place), NEW p \in Place, Distinct(q), p \notin Range(q)
  PROVE  Distinct(Append(q, p)) /\ Range(Append(q, p)) = Range(q) \cup { p }
<1>1. Range(Append(q, p)) = Range(q) \cup { p }
  BY Ranges
<1>2. \A k \in 1 .. Len(q) : q[k] \in Range(q)
  BY DEF Range
<1>. DEFINE t == Append(q, p)
            n == Len(q)
<1>3. n \in Nat /\ Len(t) = n + 1 /\ t[n + 1] = p /\ \A k \in 1 .. n : t[k] = q[k]
  OBVIOUS
<1>. HIDE DEF t
<1>4. ASSUME NEW k \in 1 .. n + 1, NEW l \in 1 .. n + 1, t[k] = t[l]
      PROVE  k = l
  <2>1. CASE k \in 1 .. n /\ l \in 1 .. n
    BY <1>3, <1>4, <2>1 DEF Distinct
  <2>2. CASE k = n + 1 /\ l \in 1 .. n
    BY <1>2, <1>3, <1>4, <2>2
  <2>3. CASE k \in 1 .. n /\ l = n + 1
    BY <1>2, <1>3, <1>4, <2>3
  <2>. QED  BY <1>3, <2>1, <2>2, <2>3
<1>. QED  BY <1>1, <1>3, <1>4 DEF Distinct, t

LEMMA QueueTail ==
  ASSUME NEW q \in Seq(Place), q # << >>, Distinct(q)
  PROVE  /\ Distinct(Tail(q)) /\ Range(Tail(q)) = Range(q) \ { Head(q) }
         /\ Head(q) \in Range(q) /\ Head(q) \in Place
<1>. DEFINE t == Tail(q)
            n == Len(q)
            p == Head(q)
<1>1. /\ n \in Nat /\ n > 0 /\ Len(t) = n - 1 /\ q[1] = p /\ p \in Place
      /\ \A k \in 1 .. n - 1 : t[k] = q[k + 1] /\ k + 1 \in 1 .. n /\ k \in Nat
  OBVIOUS
<1>2. Range(q) = Range(t) \cup { p }
  BY Ranges
<1>. HIDE DEF t, p
<1>3. Distinct(t)
  <2>1. ASSUME NEW k \in 1 .. n - 1, NEW l \in 1 .. n - 1, t[k] = t[l]
        PROVE  k = l
    <3>1. k + 1 = l + 1
      BY <1>1, <2>1 DEF Distinct
    <3>. QED  BY <1>1, <3>1
  <2>. QED  BY <1>1, <2>1 DEF Distinct
<1>4. p \notin Range(t)
  <2>. SUFFICES ASSUME p \in Range(t) PROVE FALSE
    OBVIOUS
  <2>0. t \in Seq(Place)
    BY DEF t
  <2>1. PICK k \in 1 .. n - 1 : t[k] = p
    BY <1>1, <2>0 DEF Range
  <2>2. 1 \in 1 .. n /\ k + 1 \in 1 .. n /\ q[k + 1] = q[1]
    BY <1>1, <2>1
  <2>3. k + 1 = 1
    BY <2>2 DEF Distinct
  <2>. QED  BY <1>1, <2>3
<1>. QED  BY <1>1, <1>2, <1>3, <1>4 DEF t, p

LEMMA TakenChange ==
  ASSUME NEW m \in Mem, NEW n \in Mem, NEW d \in Bucket, NEW k \in Own, NEW state \in DeadState,
         OneState(m, n, << d, k >>, state), NEW b \in Bucket
  PROVE  /\ b # d => Taken(n, b) = Taken(m, b)
         /\ state \in { "REMEMBERED", "ALLOCATED" } => Taken(n, d) = Taken(m, d) \cup { k }
         /\ state \in { "DEAD", "REFRESHED" } => Taken(n, d) = Taken(m, d) \ { k }
<1>1. \A c \in Bucket, i \in Own :
        n.slot[c][i].dd = IF << c, i >> = << d, k >> THEN state ELSE m.slot[c][i].dd
  BY Constants DEF OneState
<1>2. \A o \in { m, n }, c \in Bucket : Taken(o, c) = { i \in Own : o.slot[c][i].dd \notin { "DEAD", "REFRESHED" } }
  BY DEF Taken, Free, dd
<1>3. /\ \A i \in Own : i \in Taken(m, b) <=> m.slot[b][i].dd \notin { "DEAD", "REFRESHED" }
      /\ \A i \in Own : i \in Taken(n, b) <=> n.slot[b][i].dd \notin { "DEAD", "REFRESHED" }
      /\ \A i \in Own : i \in Taken(m, d) <=> m.slot[d][i].dd \notin { "DEAD", "REFRESHED" }
      /\ \A i \in Own : i \in Taken(n, d) <=> n.slot[d][i].dd \notin { "DEAD", "REFRESHED" }
      /\ Taken(m, b) \subseteq Own /\ Taken(n, b) \subseteq Own
      /\ Taken(m, d) \subseteq Own /\ Taken(n, d) \subseteq Own
  BY <1>2
<1>4. b # d => Taken(n, b) = Taken(m, b)
  <2>. SUFFICES ASSUME b # d PROVE Taken(n, b) = Taken(m, b)
    OBVIOUS
  <2>1. \A i \in Own : n.slot[b][i].dd = m.slot[b][i].dd
    BY <1>1
  <2>. QED  BY <1>3, <2>1
<1>5. state \in { "REMEMBERED", "ALLOCATED" } => Taken(n, d) = Taken(m, d) \cup { k }
  BY <1>1, <1>3
<1>6. state \in { "DEAD", "REFRESHED" } => Taken(n, d) = Taken(m, d) \ { k }
  BY <1>1, <1>3
<1>. QED  BY <1>4, <1>5, <1>6

LEMMA TakenType ==
  \A m, b : Taken(m, b) \in SUBSET Offset /\ IsFiniteSet(Taken(m, b)) /\ Cardinality(Taken(m, b)) \in Nat
<1>1. \A m, b : Taken(m, b) \in SUBSET Offset
  BY Constants DEF Taken
<1>. QED  BY <1>1, OffsetsFinite

LEMMA LendsSame ==
  ASSUME NEW m, NEW n, SameRemotes(m, n), Lends(m),
         \A c \in Bucket, i \in Own : n.slot[c][i].dd = "ALLOCATED" <=> m.slot[c][i].dd = "ALLOCATED"
  PROVE  Lends(n)
<1>. SUFFICES ASSUME NEW d \in Bucket, NEW k \in Own
              PROVE  n.slot[d][k].dd = "ALLOCATED" <=>
                       \E c \in Bucket, i \in Offset : n.slot[c][i].remote = << d, k >>
  BY DEF Lends
<1>1. m.slot[d][k].dd = "ALLOCATED" <=> \E c \in Bucket, i \in Offset : m.slot[c][i].remote = << d, k >>
  BY DEF Lends
<1>2. \A c \in Bucket, i \in Offset : n.slot[c][i].remote = m.slot[c][i].remote
  BY DEF SameRemotes
<1>3. n.slot[d][k].dd = "ALLOCATED" <=> m.slot[d][k].dd = "ALLOCATED"
  OBVIOUS
<1>. QED  BY <1>1, <1>2, <1>3

(* A dead slot is queued.                                                   *)
LEMMA LinkedPush ==
  ASSUME NEW m, NEW W, Linked(m, W), NEW d \in Bucket, NEW k \in Own,
         m.slot[d][k].dd = "DEAD", NEW n, Pushed(m, n, << d, k >>)
  PROVE  Linked(n, W)
<1>. DEFINE p == << d, k >>
<1>1. /\ m \in Mem /\ n \in Mem /\ p \in Place /\ d \in Bucket /\ k \in Own /\ k \in Offset
      /\ m.deadQ \in Seq(Place) /\ m.allctr \in [ Bucket -> Int ] /\ p[1] = d
  BY Lengths, Constants DEF Linked, Pushed, Place
<1>2. \A c \in Bucket, i \in Offset :
        /\ n.slot[c][i].dd = IF << c, i >> = p THEN "REMEMBERED" ELSE m.slot[c][i].dd
        /\ n.slot[c][i].remote = m.slot[c][i].remote
  BY DEF Pushed, OneState, SameRemotes
<1>3. n.allctr = [ m.allctr EXCEPT ![d] = @ + 1 ] /\ n.deadQ = Append(m.deadQ, p) /\ n.taken = m.taken
  BY <1>1 DEF Pushed
<1>4. Queued(n)
  <2>1. p \notin Range(m.deadQ) /\ Distinct(m.deadQ)
    BY DEF Linked, Queued
  <2>2. Distinct(n.deadQ) /\ Range(n.deadQ) = Range(m.deadQ) \cup { p }
    <3>. DEFINE q == m.deadQ
    <3>1. q \in Seq(Place) /\ p \in Place /\ Distinct(q) /\ p \notin Range(q)
      BY <1>1, <2>1
    <3>2. n.deadQ = Append(q, p)
      BY <1>3
    <3>. HIDE DEF q, p
    <3>3. Distinct(Append(q, p)) /\ Range(Append(q, p)) = Range(q) \cup { p }
      BY <3>1, QueueAppend
    <3>. QED  BY <3>2, <3>3 DEF q
  <2>3. \A c \in Bucket, i \in Own : m.slot[c][i].dd = "REMEMBERED" <=> << c, i >> \in Range(m.deadQ)
    BY DEF Linked, Queued
  <2>. QED  BY <1>2, <2>2, <2>3, Constants DEF Queued
<1>5. \A c \in Bucket, i \in Offset : m.slot[c][i].remote # p
  BY DEF Linked, Lends
<1>6. Lends(n)
  <2>1. SameRemotes(m, n) /\ Lends(m)
    BY DEF Pushed, Linked
  <2>2. \A c \in Bucket, i \in Own : n.slot[c][i].dd = "ALLOCATED" <=> m.slot[c][i].dd = "ALLOCATED"
    BY <1>2, Constants
  <2>. QED  BY <2>1, <2>2, LendsSame
<1>7. Unique(n)
  BY <1>2 DEF Linked, Unique
<1>8. Placed(n, W)
  <2>1. \A c \in Bucket, i \in Offset :
          /\ m.slot[c][i].remote # NONE => << c, i >> \in W
          /\ << c, i >> \in W /\ m.slot[c][i].remote = NONE => i \in Own /\ m.slot[c][i].dd = "REFRESHED"
    BY DEF Linked, Placed
  <2>2. << d, k >> \in W => m.slot[d][k].remote # NONE
    BY <1>1, <2>1
  <2>3. ASSUME NEW c \in Bucket, NEW i \in Offset
        PROVE  /\ n.slot[c][i].remote # NONE => << c, i >> \in W
               /\ << c, i >> \in W /\ n.slot[c][i].remote = NONE => i \in Own /\ n.slot[c][i].dd = "REFRESHED"
    <3>1. n.slot[c][i].remote = m.slot[c][i].remote
      BY <1>2
    <3>2. << c, i >> # << d, k >> => n.slot[c][i].dd = m.slot[c][i].dd
      BY <1>2
    <3>. QED  BY <2>1, <2>2, <3>1, <3>2
  <2>. QED  BY <2>3 DEF Placed
<1>9. Counted(n)
  <2>. SUFFICES ASSUME NEW b \in Bucket PROVE n.allctr[b] = Cardinality(Taken(n, b))
    BY DEF Counted
  <2>1. /\ b # d => Taken(n, b) = Taken(m, b)
        /\ Taken(n, d) = Taken(m, d) \cup { k }
    <3>1. OneState(m, n, << d, k >>, "REMEMBERED") /\ "REMEMBERED" \in DeadState
      BY DEF Pushed, DeadState
    <3>. QED  BY <1>1, <3>1, TakenChange
  <2>2. k \notin Taken(m, d)
    BY DEF Taken, Free, dd
  <2>3. Cardinality(Taken(n, d)) = Cardinality(Taken(m, d)) + 1
    BY <2>1, <2>2, TakenType, FS_AddElement
  <2>4. m.allctr[b] = Cardinality(Taken(m, b)) /\ m.allctr[d] = Cardinality(Taken(m, d))
    BY DEF Linked, Counted
  <2>5. n.allctr[b] = IF b = d THEN m.allctr[d] + 1 ELSE m.allctr[b]
    BY <1>1, <1>3
  <2>. QED  BY <2>1, <2>3, <2>4, <2>5
<1>. QED  BY <1>1, <1>3, <1>4, <1>6, <1>7, <1>8, <1>9 DEF Linked

(* Nothing of it depends on the blocks or on the shadow queue.              *)
LEMMA LinkedSame ==
  ASSUME NEW m, NEW W, Linked(m, W), NEW n \in Mem, SameRemotes(m, n), SameStates(m, n),
         n.allctr = m.allctr, n.deadQ = m.deadQ, n.taken = m.taken
  PROVE  Linked(n, W)
<1>1. \A c \in Bucket, i \in Offset : /\ n.slot[c][i].remote = m.slot[c][i].remote
                                      /\ n.slot[c][i].dd = m.slot[c][i].dd
  BY DEF SameRemotes, SameStates
<1>2. \A c \in Bucket, i \in Own : n.slot[c][i].dd = m.slot[c][i].dd
  BY <1>1, Constants
<1>3. Queued(n)
  BY <1>2 DEF Linked, Queued
<1>4. Lends(n)
  BY <1>2, LendsSame DEF Linked
<1>5. Unique(n)
  BY <1>1 DEF Linked, Unique
<1>6. Placed(n, W)
  BY <1>1 DEF Linked, Placed
<1>7. Counted(n)
  <2>1. \A b \in Bucket : Taken(n, b) = Taken(m, b)
    BY <1>2 DEF Taken, Free, dd
  <2>. QED  BY <2>1 DEF Linked, Counted
<1>. QED  BY <1>3, <1>4, <1>5, <1>6, <1>7 DEF Linked

LEMMA LinkedRemember ==
  ASSUME NEW m, NEW W, Linked(m, W), NEW p \in Place, dd(m, p) = "DEAD"
  PROVE  Linked(Remember(m, p), W)
<1>. DEFINE n == Remember(m, p)
<1>1. PICK d \in Bucket, k \in Own : p = << d, k >>
  BY DEF Place
<1>2. m \in Mem /\ m.slot[d][k].dd = "DEAD"
  BY <1>1 DEF Linked, dd
<1>3. n = m \/ Pushed(m, n, p) \/ Shadowed(m, n, p)
  BY <1>2, RememberFacts
<1>. HIDE DEF n
<1>4. CASE Pushed(m, n, p)
  BY <1>1, <1>2, <1>4, LinkedPush DEF n
<1>5. CASE Shadowed(m, n, p)
  <2>1. n \in Mem /\ n.slot = m.slot /\ n.allctr = m.allctr /\ n.deadQ = m.deadQ /\ n.taken = m.taken
    BY <1>5 DEF Shadowed
  <2>2. SameRemotes(m, n) /\ SameStates(m, n)
    BY <2>1, SameBlocksSelf
  <2>. QED  BY <2>1, <2>2, LinkedSame DEF n
<1>. QED  BY <1>3, <1>4, <1>5 DEF n

LEMMA LinkedDequeue ==
  ASSUME NEW m, NEW W, Linked(m, W), m.shadowQ # << >>
  PROVE  Linked(Dequeue(m), W) /\ Len(Dequeue(m).shadowQ) = Len(m.shadowQ) - 1
<1>. DEFINE n == Dequeue(m)
            p == Head(m.shadowQ)
<1>1. m \in Mem
  BY DEF Linked
<1>2. /\ p \in Place /\ n.shadowQ = Tail(m.shadowQ)
      /\ \/ dd(m, p) = "DEAD" /\ Pushed(m, n, p)
         \/ /\ dd(m, p) # "DEAD" /\ n \in Mem /\ n.slot = m.slot
            /\ n.allctr = m.allctr /\ n.deadQ = m.deadQ /\ n.taken = m.taken
  BY <1>1, DequeueFacts
<1>. HIDE DEF n, p
<1>3. Len(n.shadowQ) = Len(m.shadowQ) - 1
  BY <1>1, <1>2, Lengths
<1>4. CASE dd(m, p) = "DEAD" /\ Pushed(m, n, p)
  <2>1. PICK d \in Bucket, k \in Own : p = << d, k >>
    BY <1>2 DEF Place
  <2>2. m.slot[d][k].dd = "DEAD"
    BY <1>4, <2>1 DEF dd
  <2>. QED  BY <1>3, <1>4, <2>1, <2>2, LinkedPush DEF n
<1>5. CASE n \in Mem /\ n.slot = m.slot /\ n.allctr = m.allctr /\ n.deadQ = m.deadQ /\ n.taken = m.taken
  <2>1. SameRemotes(m, n) /\ SameStates(m, n)
    BY <1>5, SameBlocksSelf
  <2>. QED  BY <1>3, <1>5, <2>1, LinkedSame DEF n
<1>. QED  BY <1>2, <1>4, <1>5

(* A slot is read, of W until then.                                         *)
LEMMA LinkedUnlink ==
  ASSUME NEW m, NEW W, Linked(m, W), NEW b \in Bucket, NEW j \in Offset,
         NEW p \in Place, m.slot[b][j].remote = p, NEW n, Unlinked(m, n, b, j, p)
  PROVE  Linked(n, W \ { << b, j >> }) /\ dd(n, p) = "DEAD"
<1>. PICK d \in Bucket, k \in Own : p = << d, k >>
  BY DEF Place
<1>1. /\ m \in Mem /\ n \in Mem /\ p \in Place /\ d \in Bucket /\ k \in Own /\ k \in Offset
      /\ m.allctr \in [ Bucket -> Int ] /\ p[1] = d /\ p # NONE
  BY Lengths, Constants DEF Linked, Unlinked, Place, NONE
<1>2. \A c \in Bucket, i \in Offset :
        /\ n.slot[c][i].dd = IF << c, i >> = p THEN "DEAD" ELSE m.slot[c][i].dd
        /\ n.slot[c][i].remote = IF c = b /\ i = j THEN NONE ELSE m.slot[c][i].remote
  BY DEF Unlinked, OneState, OneRemote
<1>3. n.allctr = [ m.allctr EXCEPT ![d] = @ - 1 ] /\ n.deadQ = m.deadQ /\ n.taken = m.taken
  BY <1>1 DEF Unlinked
<1>4. m.slot[d][k].dd = "ALLOCATED" /\ n.slot[d][k].dd = "DEAD"
  BY <1>1, <1>2 DEF Linked, Lends
<1>5. Queued(n)
  <2>1. Distinct(m.deadQ) /\
        \A c \in Bucket, i \in Own : m.slot[c][i].dd = "REMEMBERED" <=> << c, i >> \in Range(m.deadQ)
    BY DEF Linked, Queued
  <2>2. \A c \in Bucket, i \in Own : n.slot[c][i].dd = "REMEMBERED" <=> m.slot[c][i].dd = "REMEMBERED"
    BY <1>2, <1>4, Constants
  <2>3. \A c \in Bucket, i \in Own : n.slot[c][i].dd = "REMEMBERED" <=> << c, i >> \in Range(n.deadQ)
    BY <1>3, <2>1, <2>2, Zenon
  <2>4. Distinct(n.deadQ)
    BY <1>3, <2>1, Zenon
  <2>. QED  BY <2>3, <2>4 DEF Queued
<1>6. \A c \in Bucket, i \in Offset : m.slot[c][i].remote = p => c = b /\ i = j
  <2>1. Unique(m) /\ m.slot[b][j].remote = p /\ p # NONE
    BY <1>1 DEF Linked
  <2>. QED  BY <2>1 DEF Unique
<1>7. Lends(n)
  <2>. SUFFICES ASSUME NEW e \in Bucket, NEW l \in Own
                PROVE  n.slot[e][l].dd = "ALLOCATED" <=>
                         \E c \in Bucket, i \in Offset : n.slot[c][i].remote = << e, l >>
    BY DEF Lends
  <2>1. m.slot[e][l].dd = "ALLOCATED" <=> \E c \in Bucket, i \in Offset : m.slot[c][i].remote = << e, l >>
    BY DEF Linked, Lends
  <2>2. NONE # << e, l >> /\ l \in Offset
    BY Constants DEF NONE
  <2>3. CASE << e, l >> = p
    BY <1>2, <1>4, <1>6, <2>2, <2>3
  <2>4. CASE << e, l >> # p
    <3>1. n.slot[e][l].dd = m.slot[e][l].dd
      BY <1>2, <2>2, <2>4
    <3>2. \A c \in Bucket, i \in Offset : n.slot[c][i].remote = << e, l >> <=> m.slot[c][i].remote = << e, l >>
      BY <1>2, <2>2, <2>4
    <3>. QED  BY <2>1, <3>1, <3>2
  <2>. QED  BY <2>3, <2>4
<1>8. Unique(n)
  <2>. SUFFICES ASSUME NEW c \in Bucket, NEW e \in Bucket, NEW i \in Offset, NEW l \in Offset,
                       n.slot[c][i].remote # NONE, n.slot[c][i].remote = n.slot[e][l].remote
                PROVE  c = e /\ i = l
    BY DEF Unique
  <2>1. m.slot[c][i].remote # NONE /\ m.slot[c][i].remote = m.slot[e][l].remote
    BY <1>2
  <2>. QED  BY <2>1 DEF Linked, Unique
<1>9. Placed(n, W \ { << b, j >> })
  <2>. SUFFICES ASSUME NEW c \in Bucket, NEW i \in Offset
                PROVE  /\ n.slot[c][i].remote # NONE => << c, i >> \in W \ { << b, j >> }
                       /\ << c, i >> \in W \ { << b, j >> } /\ n.slot[c][i].remote = NONE
                            => i \in Own /\ n.slot[c][i].dd = "REFRESHED"
    BY DEF Placed
  <2>1. /\ m.slot[c][i].remote # NONE => << c, i >> \in W
        /\ << c, i >> \in W /\ m.slot[c][i].remote = NONE => i \in Own /\ m.slot[c][i].dd = "REFRESHED"
    BY DEF Linked, Placed
  <2>2. /\ n.slot[c][i].dd = IF << c, i >> = p THEN "DEAD" ELSE m.slot[c][i].dd
        /\ n.slot[c][i].remote = IF c = b /\ i = j THEN NONE ELSE m.slot[c][i].remote
    BY <1>2
  <2>3. << c, i >> = p => m.slot[c][i].dd # "REFRESHED"
    BY <1>4
  <2>. QED  BY <2>1, <2>2, <2>3
<1>10. Counted(n)
  <2>. SUFFICES ASSUME NEW c \in Bucket PROVE n.allctr[c] = Cardinality(Taken(n, c))
    BY DEF Counted
  <2>1. /\ c # d => Taken(n, c) = Taken(m, c)
        /\ Taken(n, d) = Taken(m, d) \ { k }
    <3>1. OneState(m, n, << d, k >>, "DEAD") /\ "DEAD" \in DeadState
      BY DEF Unlinked, DeadState
    <3>. QED  BY <1>1, <3>1, TakenChange
  <2>2. k \in Taken(m, d)
    BY <1>4 DEF Taken, Free, dd
  <2>3. Cardinality(Taken(n, d)) = Cardinality(Taken(m, d)) - 1
    <3>. DEFINE T == Taken(m, d)
    <3>1. IsFiniteSet(T) /\ k \in T /\ Taken(n, d) = T \ { k }
      BY <2>1, <2>2, TakenType
    <3>. HIDE DEF T
    <3>2. Cardinality(T \ { k }) = Cardinality(T) - 1
      BY <3>1, FS_RemoveElement
    <3>. QED  BY <3>1, <3>2 DEF T
  <2>4. m.allctr[c] = Cardinality(Taken(m, c)) /\ m.allctr[d] = Cardinality(Taken(m, d))
    BY DEF Linked, Counted
  <2>5. n.allctr[c] = IF c = d THEN m.allctr[d] - 1 ELSE m.allctr[c]
    BY <1>1, <1>3
  <2>. QED  BY <2>1, <2>3, <2>4, <2>5
<1>11. dd(n, p) = "DEAD"
  BY <1>4 DEF dd
<1>. QED  BY <1>1, <1>3, <1>5, <1>7, <1>8, <1>9, <1>10, <1>11 DEF Linked

LEMMA LinkedRead ==
  ASSUME NEW m, NEW W, Linked(m, W), NEW b \in Bucket, NEW j \in Offset, << b, j >> \in W
  PROVE  Linked(Read(m, b, j), W \ { << b, j >> })
<1>. DEFINE p == m.slot[b][j].remote
            V == W \ { << b, j >> }
<1>1. m \in Mem /\ p \in Place \cup { NONE }
  BY DEF Linked, Mem, Slot
<1>2. CASE p # NONE
  <2>2. p \in Place
    BY <1>1, <1>2
  <2>3. PICK u : Unlinked(m, u, b, j, p) /\ remote_access(m, b, j) = Remember(u, p)
    BY <1>1, <2>2, RemoteAccess
  <2>4. Linked(u, V) /\ dd(u, p) = "DEAD"
    BY <2>2, <2>3, LinkedUnlink
  <2>5. Read(m, b, j) = Remember(u, p)
    BY <1>2, <2>3 DEF Read
  <2>. HIDE DEF p, V
  <2>7. Linked(Remember(u, p), V)
    BY <2>2, <2>4, LinkedRemember
  <2>. QED  BY <2>5, <2>7 DEF V
<1>3. CASE p = NONE
  <2>. DEFINE n == SetDd(m, << b, j >>, "DEAD")
  <2>1. Read(m, b, j) = n
    BY <1>3 DEF Read, inplace_access
  <2>2. /\ n \in Mem /\ SameBlocks(m, n) /\ SameRemotes(m, n) /\ OneState(m, n, << b, j >>, "DEAD")
        /\ SameQueues(m, n)
    <3>1. << b, j >> \in Bucket \X Offset /\ "DEAD" \in DeadState
      BY DEF DeadState
    <3>. QED  BY <1>1, <3>1, SetDdFacts, Zenon
  <2>. HIDE DEF n
  <2>3. j \in Own /\ m.slot[b][j].dd = "REFRESHED"
    BY <1>3 DEF Linked, Placed
  <2>4. \A c \in Bucket, i \in Offset :
          /\ n.slot[c][i].dd = IF << c, i >> = << b, j >> THEN "DEAD" ELSE m.slot[c][i].dd
          /\ n.slot[c][i].remote = m.slot[c][i].remote
    BY <2>2 DEF OneState, SameRemotes
  <2>5. \A c \in Bucket, i \in Own : \A state \in { "REMEMBERED", "ALLOCATED" } :
          n.slot[c][i].dd = state <=> m.slot[c][i].dd = state
    BY <2>3, <2>4, Constants
  <2>6. Queued(n)
    BY <2>2, <2>5 DEF Linked, Queued, SameQueues
  <2>7. Lends(n)
    BY <2>2, <2>5, LendsSame DEF Linked
  <2>8. Unique(n)
    BY <2>4 DEF Linked, Unique
  <2>9. Placed(n, V)
    <3>. SUFFICES ASSUME NEW c \in Bucket, NEW i \in Offset
                  PROVE  /\ n.slot[c][i].remote # NONE => << c, i >> \in V
                         /\ << c, i >> \in V /\ n.slot[c][i].remote = NONE
                              => i \in Own /\ n.slot[c][i].dd = "REFRESHED"
      BY DEF Placed
    <3>1. /\ m.slot[c][i].remote # NONE => << c, i >> \in W
          /\ << c, i >> \in W /\ m.slot[c][i].remote = NONE => i \in Own /\ m.slot[c][i].dd = "REFRESHED"
      BY DEF Linked, Placed
    <3>. QED  BY <1>3, <2>4, <3>1
  <2>10. Counted(n)
    <3>1. \A c \in Bucket : Taken(n, c) = Taken(m, c)
      <4>. SUFFICES ASSUME NEW c \in Bucket, NEW i \in Own
                    PROVE  Free(n, c, i) <=> Free(m, c, i)
        BY DEF Taken
      <4>. QED  BY <2>3, <2>4, Constants DEF Free, dd
    <3>. QED  BY <2>2, <3>1 DEF Linked, Counted, SameQueues
  <2>. QED  BY <2>1, <2>2, <2>6, <2>7, <2>8, <2>9, <2>10 DEF Linked, SameQueues
<1>. QED  BY <1>2, <1>3

(* A slot gets a place of the queue.                                        *)
LEMMA LinkedAllocate ==
  ASSUME NEW m, NEW W, Linked(m, W), NEW b \in Bucket, NEW j \in Offset, << b, j >> \notin W,
         m.deadQ # << >>
  PROVE  Linked(remote_allocate(m, b, j), W \cup { << b, j >> })
<1>. DEFINE n == remote_allocate(m, b, j)
            p == Head(m.deadQ)
<1>1. m \in Mem /\ Allocated(m, n, b, j) /\ p \in Place
  BY RemoteAllocate DEF Linked
<1>. HIDE DEF n
<1>2. PICK d \in Bucket, k \in Own : p = << d, k >>
  BY <1>1 DEF Place
<1>3. /\ n \in Mem /\ OneRemote(m, n, b, j, p) /\ OneState(m, n, p, "ALLOCATED")
      /\ n.allctr = m.allctr /\ n.deadQ = Tail(m.deadQ)
      /\ n.taken = (m.taken \/ dd(m, p) \in { "ALLOCATED", "REFRESHED" })
  BY <1>1 DEF Allocated
<1>4. /\ Distinct(Tail(m.deadQ)) /\ Range(Tail(m.deadQ)) = Range(m.deadQ) \ { p } /\ p \in Range(m.deadQ)
  <2>1. m.deadQ \in Seq(Place) /\ Distinct(m.deadQ)
    BY Lengths DEF Linked, Queued
  <2>. QED  BY <2>1, QueueTail
<1>. HIDE DEF p
<1>5. m.slot[d][k].dd = "REMEMBERED"
  BY <1>2, <1>4 DEF Linked, Queued
<1>6. ~n.taken
  BY <1>2, <1>3, <1>5 DEF Linked, dd
<1>7. \A c \in Bucket, i \in Offset :
        /\ n.slot[c][i].dd = IF << c, i >> = p THEN "ALLOCATED" ELSE m.slot[c][i].dd
        /\ n.slot[c][i].remote = IF c = b /\ i = j THEN p ELSE m.slot[c][i].remote
  BY <1>3 DEF OneState, OneRemote
<1>8. \A c \in Bucket, i \in Offset : m.slot[c][i].remote # p
  BY <1>2, <1>5 DEF Linked, Lends
<1>9. m.slot[b][j].remote = NONE
  BY DEF Linked, Placed
<1>10. Queued(n)
  <2>1. \A c \in Bucket, i \in Own : m.slot[c][i].dd = "REMEMBERED" <=> << c, i >> \in Range(m.deadQ)
    BY DEF Linked, Queued
  <2>. QED  BY <1>3, <1>4, <1>7, <2>1, Constants DEF Queued
<1>11. Lends(n)
  <2>. SUFFICES ASSUME NEW e \in Bucket, NEW l \in Own
                PROVE  n.slot[e][l].dd = "ALLOCATED" <=>
                         \E c \in Bucket, i \in Offset : n.slot[c][i].remote = << e, l >>
    BY DEF Lends
  <2>1. m.slot[e][l].dd = "ALLOCATED" <=> \E c \in Bucket, i \in Offset : m.slot[c][i].remote = << e, l >>
    BY DEF Linked, Lends
  <2>2. NONE # << e, l >> /\ l \in Offset
    BY Constants DEF NONE
  <2>3. CASE << e, l >> = p
    <3>1. n.slot[e][l].dd = "ALLOCATED" /\ n.slot[b][j].remote = << e, l >>
      BY <1>7, <2>2, <2>3
    <3>. QED  BY <3>1
  <2>4. CASE << e, l >> # p
    <3>1. n.slot[e][l].dd = m.slot[e][l].dd
      BY <1>7, <2>2, <2>4
    <3>2. \A c \in Bucket, i \in Offset : n.slot[c][i].remote = << e, l >> <=> m.slot[c][i].remote = << e, l >>
      BY <1>7, <1>9, <2>2, <2>4
    <3>. QED  BY <2>1, <3>1, <3>2
  <2>. QED  BY <2>3, <2>4
<1>12. Unique(n)
  <2>. SUFFICES ASSUME NEW c \in Bucket, NEW e \in Bucket, NEW i \in Offset, NEW l \in Offset,
                       n.slot[c][i].remote # NONE, n.slot[c][i].remote = n.slot[e][l].remote
                PROVE  c = e /\ i = l
    BY DEF Unique
  <2>1. m.slot[c][i].remote # NONE /\ m.slot[c][i].remote = m.slot[e][l].remote => c = e /\ i = l
    BY DEF Linked, Unique
  <2>. QED  BY <1>7, <1>8, <2>1
<1>13. Placed(n, W \cup { << b, j >> })
  <2>. SUFFICES ASSUME NEW c \in Bucket, NEW i \in Offset
                PROVE  /\ n.slot[c][i].remote # NONE => << c, i >> \in W \cup { << b, j >> }
                       /\ << c, i >> \in W \cup { << b, j >> } /\ n.slot[c][i].remote = NONE
                            => i \in Own /\ n.slot[c][i].dd = "REFRESHED"
    BY DEF Placed
  <2>1. /\ m.slot[c][i].remote # NONE => << c, i >> \in W
        /\ << c, i >> \in W /\ m.slot[c][i].remote = NONE => i \in Own /\ m.slot[c][i].dd = "REFRESHED"
    BY DEF Linked, Placed
  <2>2. /\ n.slot[c][i].dd = IF << c, i >> = p THEN "ALLOCATED" ELSE m.slot[c][i].dd
        /\ n.slot[c][i].remote = IF c = b /\ i = j THEN p ELSE m.slot[c][i].remote
    BY <1>7
  <2>3. << c, i >> = p => m.slot[c][i].dd # "REFRESHED"
    BY <1>2, <1>5
  <2>4. p # NONE
    BY <1>2 DEF NONE
  <2>. QED  BY <2>1, <2>2, <2>3, <2>4
<1>14. Counted(n)
  <2>1. \A c \in Bucket : Taken(n, c) = Taken(m, c)
    <3>. SUFFICES ASSUME NEW c \in Bucket, NEW i \in Own
                  PROVE  Free(n, c, i) <=> Free(m, c, i)
      BY DEF Taken
    <3>. QED  BY <1>2, <1>5, <1>7, Constants DEF Free, dd
  <2>. QED  BY <1>3, <2>1 DEF Linked, Counted
<1>. QED  BY <1>3, <1>6, <1>10, <1>11, <1>12, <1>13, <1>14 DEF Linked, n

(* Free slots of the bucket are taken into use in place; W has none of its  *)
(* slots.                                                                   *)
LEMMA LinkedInPlace ==
  ASSUME NEW m, NEW W, Linked(m, W), NEW b \in Bucket, NEW js \in SUBSET Own,
         \A j \in js : Free(m, b, j) /\ << b, j >> \notin W
  PROVE  Linked(inplace_allocate(m, b, js), W \cup ({ b } \X js))
<1>. DEFINE n == inplace_allocate(m, b, js)
            V == W \cup ({ b } \X js)
<1>1. m \in Mem /\ InPlace(m, n, b, js)
  BY InplaceAllocate DEF Linked
<1>. HIDE DEF n
<1>2. /\ n \in Mem /\ SameQueues(m, n)
      /\ \A c \in Bucket, i \in Offset :
           /\ n.slot[c][i].remote = IF c = b /\ i \in js THEN NONE ELSE m.slot[c][i].remote
           /\ n.slot[c][i].dd = IF c = b /\ i \in js THEN "REFRESHED" ELSE m.slot[c][i].dd
  BY <1>1 DEF InPlace
<1>3. \A i \in js : i \in Own /\ i \in Offset /\ m.slot[b][i].remote = NONE /\ m.slot[b][i].dd \in { "DEAD", "REFRESHED" }
  <2>. SUFFICES ASSUME NEW i \in js
                PROVE  i \in Own /\ i \in Offset /\ m.slot[b][i].remote = NONE /\ m.slot[b][i].dd \in { "DEAD", "REFRESHED" }
    OBVIOUS
  <2>1. i \in Own /\ i \in Offset /\ << b, i >> \notin W /\ Free(m, b, i)
    BY Constants
  <2>2. m.slot[b][i].remote = NONE
    BY <2>1 DEF Linked, Placed
  <2>. QED  BY <2>1, <2>2 DEF Free, dd
<1>4. SameRemotes(m, n)
  BY <1>2, <1>3 DEF SameRemotes
<1>5. \A c \in Bucket, i \in Own : \A state \in { "REMEMBERED", "ALLOCATED" } :
        n.slot[c][i].dd = state <=> m.slot[c][i].dd = state
  BY <1>2, <1>3, Constants
<1>6. Queued(n)
  BY <1>2, <1>5 DEF Linked, Queued, SameQueues
<1>7. Lends(n)
  BY <1>4, <1>5, LendsSame DEF Linked
<1>8. Unique(n)
  BY <1>4 DEF Linked, Unique, SameRemotes
<1>9. Placed(n, V)
  <2>. SUFFICES ASSUME NEW c \in Bucket, NEW i \in Offset
                PROVE  /\ n.slot[c][i].remote # NONE => << c, i >> \in V
                       /\ << c, i >> \in V /\ n.slot[c][i].remote = NONE
                            => i \in Own /\ n.slot[c][i].dd = "REFRESHED"
    BY DEF Placed
  <2>1. /\ m.slot[c][i].remote # NONE => << c, i >> \in W
        /\ << c, i >> \in W /\ m.slot[c][i].remote = NONE => i \in Own /\ m.slot[c][i].dd = "REFRESHED"
    BY DEF Linked, Placed
  <2>2. << c, i >> \in V <=> << c, i >> \in W \/ (c = b /\ i \in js)
    OBVIOUS
  <2>. HIDE DEF V
  <2>. QED  BY <1>2, <1>3, <2>1, <2>2
<1>10. Counted(n)
  <2>1. \A c \in Bucket : Taken(n, c) = Taken(m, c)
    <3>. SUFFICES ASSUME NEW c \in Bucket, NEW i \in Own
                  PROVE  Free(n, c, i) <=> Free(m, c, i)
      BY DEF Taken
    <3>. QED  BY <1>2, <1>3, Constants DEF Free, dd
  <2>. QED  BY <1>2, <2>1 DEF Linked, Counted, SameQueues
<1>. QED  BY <1>2, <1>6, <1>7, <1>8, <1>9, <1>10 DEF Linked, SameQueues, n

-------------------------------------------------------------------------------
(* The loops.                                                               *)
Cells(b, S) == { b } \X S

LEMMA LinkedReadAll ==
  ASSUME NEW m, NEW W, Linked(m, W), NEW b \in Bucket, NEW S \in SUBSET Offset, NEW js, Lists(js, S),
         { b } \X S \subseteq W
  PROVE  Linked(ReadAll(m, b, js), W \ ({ b } \X S))
<1>. DEFINE L == Len(js)
            G(k) == { js[l] : l \in 1 .. k }
            Y(k) == { n \in Mem : Linked(n, W \ ({ b } \X G(k))) }
            X == [ k \in 0 .. L |-> Y(k) ]
<1>1. /\ L \in Nat /\ \A k \in 1 .. L : js[k] \in S /\ js[k] \in Offset
      /\ G(L) = S /\ \A k, l \in 1 .. L : js[k] = js[l] => k = l
  BY DEF Lists
<1>2. m \in Y(0)
  <2>1. W \ ({ b } \X G(0)) = W
    BY <1>1
  <2>. QED  BY <2>1 DEF Linked
<1>3. ASSUME NEW k \in 1 .. L, NEW n \in Y(k - 1)
      PROVE  Read(n, b, js[k]) \in Y(k)
  <2>. DEFINE V == W \ ({ b } \X G(k - 1))
              j == js[k]
  <2>1. Linked(n, V) /\ j \in Offset /\ << b, j >> \in W
    BY <1>1
  <2>2. << b, j >> \in V
    <3>1. j \notin G(k - 1)
      <4>1. \A l \in 1 .. k - 1 : l \in 1 .. L /\ l # k
        BY <1>1
      <4>. QED  BY <1>1, <4>1
    <3>. QED  BY <2>1, <3>1
  <2>3. W \ ({ b } \X G(k)) = V \ { << b, j >> }
    <3>1. G(k) = G(k - 1) \cup { j }
      <4>1. \A l \in 1 .. k : l = k \/ l \in 1 .. k - 1
        BY <1>1
      <4>2. k \in 1 .. k /\ \A l \in 1 .. k - 1 : l \in 1 .. k
        BY <1>1
      <4>. QED  BY <4>1, <4>2
    <3>. HIDE DEF G, j
    <3>. QED  BY <3>1
  <2>. HIDE DEF V, j
  <2>4. Linked(Read(n, b, j), V \ { << b, j >> })
    BY <2>1, <2>2, LinkedRead
  <2>5. Read(n, b, j) \in Mem
    BY <2>4 DEF Linked
  <2>. QED  BY <2>3, <2>4, <2>5 DEF j
<1>4. Y(L) = { n \in Mem : Linked(n, W \ ({ b } \X S)) }
  BY <1>1
<1>. HIDE DEF Y
<1>5. m \in X[0] /\ \A k \in 1 .. L : \A n \in X[k - 1] : Read(n, b, js[k]) \in X[k]
  BY <1>1, <1>2, <1>3
<1>6. X[L] = Y(L)
  BY <1>1
<1>. HIDE DEF X
<1>7. ReadAll(m, b, js) \in Y(L)
  BY <1>1, <1>5, <1>6, ReadAllStays
<1>. QED  BY <1>4, <1>7

LEMMA LinkedGather ==
  ASSUME NEW m, NEW W, Linked(m, W), NEW b \in Bucket
  PROVE  Linked(gather_dead(m, b), W)
<1>. DEFINE Y == { n \in Mem : Linked(n, W) }
            X == [ k \in 0 .. LZ |-> Y ]
<1>1. LZ \in Nat /\ \A k \in 1 .. LZ : << b, k - 1 >> \in Place
  BY Constants DEF Place, Own
<1>2. m \in Y
  BY DEF Linked
<1>3. ASSUME NEW k \in 1 .. LZ, NEW n \in Y
      PROVE  RememberDead(n, << b, k - 1 >>) \in Y
  <2>. DEFINE p == << b, k - 1 >>
  <2>1. p \in Place /\ Linked(n, W)
    BY <1>1
  <2>. HIDE DEF p
  <2>2. Linked(RememberDead(n, p), W)
    BY <2>1, LinkedRemember DEF RememberDead
  <2>. QED  BY <2>2 DEF Linked, p
<1>4. \A n \in Y : Linked(n, W)
  OBVIOUS
<1>. HIDE DEF Y
<1>5. m \in X[0] /\ \A k \in 1 .. LZ : \A n \in X[k - 1] : RememberDead(n, << b, k - 1 >>) \in X[k]
  BY <1>1, <1>2, <1>3
<1>6. X[LZ] = Y
  BY <1>1
<1>. HIDE DEF X
<1>7. gather_dead(m, b) \in Y
  BY <1>1, <1>5, <1>6, GatherStays
<1>. QED  BY <1>4, <1>7

LEMMA LinkedShadowIn ==
  ASSUME NEW m, NEW W, Linked(m, W)
  PROVE  Linked(ShadowIn(m), W)
<1>. DEFINE L == Len(m.shadowQ)
            Y(k) == { n \in Mem : Linked(n, W) /\ (Len(n.deadQ) >= DEADQ_SIZE \/ Len(n.shadowQ) = L - k) }
            X == [ k \in 0 .. L |-> Y(k) ]
<1>1. L \in Nat /\ m \in Mem
  BY Lengths DEF Linked
<1>2. m \in Y(0)
  BY <1>1
<1>3. ASSUME NEW k \in 1 .. L, NEW n \in Y(k - 1)
      PROVE  ShadowMove(n) \in Y(k)
  <2>1. CASE Len(n.deadQ) < DEADQ_SIZE
    <3>1. Len(n.shadowQ) = L - (k - 1) /\ Len(n.deadQ) \in Nat /\ n.shadowQ \in Seq(Place)
      BY <2>1, Lengths, Constants
    <3>2. n.shadowQ # << >>
      BY <1>1, <3>1
    <3>3. Linked(Dequeue(n), W) /\ Len(Dequeue(n).shadowQ) = Len(n.shadowQ) - 1
      BY <3>2, LinkedDequeue
    <3>4. ShadowMove(n) = Dequeue(n)
      BY <2>1 DEF ShadowMove
    <3>5. Len(Dequeue(n).shadowQ) = L - k
      BY <1>1, <3>1, <3>3
    <3>. QED  BY <3>3, <3>4, <3>5 DEF Linked
  <2>2. CASE ~(Len(n.deadQ) < DEADQ_SIZE)
    <3>1. ShadowMove(n) = n /\ Len(n.deadQ) >= DEADQ_SIZE
      BY <2>2, Lengths, Constants DEF ShadowMove
    <3>. QED  BY <3>1
  <2>. QED  BY <2>1, <2>2
<1>4. \A n \in Y(L) : Linked(n, W)
  OBVIOUS
<1>. HIDE DEF Y
<1>5. m \in X[0] /\ \A k \in 1 .. L : \A n \in X[k - 1] : ShadowMove(n) \in X[k]
  BY <1>1, <1>2, <1>3
<1>6. X[L] = Y(L)
  BY <1>1
<1>. HIDE DEF X
<1>7. ShadowIn(m) \in Y(L)
  BY <1>1, <1>5, <1>6, ShadowStays
<1>. QED  BY <1>4, <1>7

(* Of js, the slots of b that hold nothing yet, the first ones got a place: *)
(* r is what became of w.                                                   *)
FirstOf(js, n) == { js[l] : l \in 1 .. n }
PlacesFor(w, W, b, js, r) ==
  \E n \in 0 .. Len(js) :
    /\ Linked(r.m, W \cup Cells(b, FirstOf(js, n)))
    /\ r.got = w.got \o SubSeq(js, 1, n)

LEMMA LinkedBorrow ==
  ASSUME NEW w, NEW W, Linked(w.m, W), NEW b \in Bucket, NEW S \in SUBSET Offset, NEW js, Lists(js, S),
         Apart(Cells(b, S), W)
  PROVE  PlacesFor(w, W, b, js, Borrow(w, b, js))
<1>. DEFINE L == Len(js)
            G(k) == { js[l] : l \in 1 .. k }
            V(k) == W \cup ({ b } \X G(k))
            Y(k) == { a \in [ m : Mem, n : 0 .. L ] : a.n <= k /\ Linked(a.m, V(a.n)) }
            X == [ k \in 0 .. L |-> Y(k) ]
<1>1. /\ L \in Nat /\ \A k \in 1 .. L : js[k] \in S /\ js[k] \in Offset
      /\ \A k, l \in 1 .. L : js[k] = js[l] => k = l
  BY DEF Lists
<1>0. \A j \in S : << b, j >> \notin W
  BY DEF Apart, Cells
<1>2. [ m |-> w.m, n |-> 0 ] \in Y(0)
  <2>1. V(0) = W
    BY <1>1
  <2>2. w.m \in Mem /\ 0 \in 0 .. L
    BY <1>1 DEF Linked
  <2>. HIDE DEF V
  <2>. QED  BY <2>1, <2>2
<1>3. ASSUME NEW k \in 1 .. L, NEW a \in Y(k - 1)
      PROVE  Claim(a, b, js, k) \in Y(k)
  <2>0. a \in [ m : Mem, n : 0 .. L ] /\ a.n <= k - 1 /\ Linked(a.m, V(a.n)) /\ a.n \in Nat
    BY <1>1
  <2>. HIDE DEF V
  <2>1. CASE a.n = k - 1 /\ Allocatable(a.m, js[k])
    <3>. DEFINE u == remote_allocate(a.m, b, js[k])
    <3>1. a.m.deadQ # << >>
      <4>1. a.m.deadQ \in Seq(Place)
        BY <2>0, Lengths
      <4>2. CASE a.m.deadQ = << >>
        <5>1. 2 * Len(a.m.deadQ) = 0
          BY <4>2
        <5>. QED  BY <2>1, <4>2, <5>1, Constants DEF Allocatable
      <4>. QED  BY <4>2
    <3>2. << b, js[k] >> \notin V(k - 1)
      <4>1. \A l \in 1 .. k - 1 : l \in 1 .. L /\ l # k
        BY <1>1
      <4>2. js[k] \notin G(k - 1)
        BY <1>1, <4>1
      <4>. QED  BY <1>0, <1>1, <4>2 DEF V
    <3>3. V(k) = V(k - 1) \cup { << b, js[k] >> }
      <4>1. G(k) = G(k - 1) \cup { js[k] }
        <5>1. \A l \in 1 .. k : l = k \/ l \in 1 .. k - 1
          BY <1>1
        <5>2. k \in 1 .. k /\ \A l \in 1 .. k - 1 : l \in 1 .. k
          BY <1>1
        <5>. QED  BY <5>1, <5>2
      <4>. HIDE DEF G
      <4>. QED  BY <4>1 DEF V
    <3>4. Linked(u, V(k))
      <4>. DEFINE j == js[k]
      <4>1. Linked(a.m, V(k - 1)) /\ j \in Offset
        BY <1>1, <2>0, <2>1
      <4>. HIDE DEF j
      <4>2. Linked(remote_allocate(a.m, b, j), V(k - 1) \cup { << b, j >> })
        BY <3>1, <3>2, <4>1, LinkedAllocate DEF j
      <4>. QED  BY <3>3, <4>2 DEF j
    <3>5. Claim(a, b, js, k) = [ m |-> u, n |-> k ]
      BY <2>1 DEF Claim
    <3>. HIDE DEF u
    <3>6. u \in Mem
      BY <3>4 DEF Linked
    <3>. QED  BY <1>1, <3>4, <3>5, <3>6
  <2>2. CASE ~(a.n = k - 1 /\ Allocatable(a.m, js[k]))
    <3>1. Claim(a, b, js, k) = a /\ a.n <= k
      BY <1>1, <2>0, <2>2 DEF Claim
    <3>. QED  BY <2>0, <3>1
  <2>. QED  BY <2>1, <2>2
<1>. HIDE DEF V
<1>4. \A a \in Y(L) : a \in [ m : Mem, n : 0 .. L ] /\ Linked(a.m, V(a.n))
  OBVIOUS
<1>. HIDE DEF Y
<1>5. \A k \in 0 .. L : X[k] = Y(k)
  OBVIOUS
<1>. HIDE DEF X
<1>6. [ m |-> w.m, n |-> 0 ] \in X[0] /\ X[L] = Y(L)
  BY <1>1, <1>2, <1>5
<1>7. PICK a \in Y(L) : Borrow(w, b, js) = [ m |-> a.m, got |-> w.got \o SubSeq(js, 1, a.n) ]
  <2>1. ASSUME NEW k \in 1 .. L, NEW a \in X[k - 1]
        PROVE  Claim(a, b, js, k) \in X[k]
    <3>1. k \in 0 .. L /\ k - 1 \in 0 .. L
      BY <1>1
    <3>2. a \in Y(k - 1) /\ X[k] = Y(k)
      BY <1>5, <3>1
    <3>. QED  BY <1>3, <3>2
  <2>2. \E a \in X[L] : Borrow(w, b, js) = [ m |-> a.m, got |-> w.got \o SubSeq(js, 1, a.n) ]
    BY <1>1, <1>6, <2>1, BorrowStays
  <2>. QED  BY <1>6, <2>2
<1>8. a \in [ m : Mem, n : 0 .. L ] /\ Linked(a.m, V(a.n))
  BY <1>4, <1>7
<1>. DEFINE r == Borrow(w, b, js)
            n == a.n
            o == a.m
<1>9. n \in 0 .. L /\ r.m = o /\ r.got = w.got \o SubSeq(js, 1, n) /\ Linked(o, V(n))
  <2>1. n \in 0 .. L /\ Linked(o, V(n))
    BY <1>8
  <2>2. r.m = o /\ r.got = w.got \o SubSeq(js, 1, n)
    <3>. DEFINE g == w.got \o SubSeq(js, 1, n)
    <3>1. r = [ m |-> o, got |-> g ]
      BY <1>7, Zenon
    <3>. HIDE DEF r, o, g
    <3>2. r.m = o /\ r.got = g
      BY <3>1
    <3>. QED  BY <3>2 DEF g
  <2>. QED  BY <2>1, <2>2
<1>10. V(n) = W \cup Cells(b, FirstOf(js, n))
  BY Zenon DEF Cells, FirstOf, V
<1>. HIDE DEF r, n, o, V
<1>11. Linked(r.m, W \cup Cells(b, FirstOf(js, n)))
  BY <1>9, <1>10
<1>12. PlacesFor(w, W, b, js, r)
  BY <1>9, <1>11 DEF PlacesFor
<1>. QED  BY <1>12 DEF r

(* A list of two lists.                                                     *)
LEMMA ListsAppend ==
  ASSUME NEW A, NEW B, NEW u, NEW v, Lists(u, A), Lists(v, B), Apart(A, B)
  PROVE  Lists(u \o v, A \cup B)
<1>. DEFINE n == Len(v)
<1>1. n \in Nat /\ n \in 0 .. Len(v) /\ SubSeq(v, 1, n) = v
  BY DEF Lists
<1>2. Joined(u \o SubSeq(v, 1, n), A, B, n)
  BY <1>1, ListsJoin
<1>3. PICK C \in SUBSET (A \cup B) :
        Lists(u \o v, C) /\ Cardinality(C) = Cardinality(A) + n
  BY <1>1, <1>2 DEF Joined
<1>4. /\ IsFiniteSet(A) /\ IsFiniteSet(B) /\ Cardinality(A) \in Nat /\ Cardinality(B) = n
  BY DEF Lists
<1>. HIDE DEF n
<1>5. Cardinality(A \cap B) = 0 /\ IsFiniteSet(A \cup B)
      /\ Cardinality(A \cup B) = Cardinality(A) + Cardinality(B) - Cardinality(A \cap B)
  <2>1. IsFiniteSet(A \cup B)
        /\ Cardinality(A \cup B) = Cardinality(A) + Cardinality(B) - Cardinality(A \cap B)
    BY <1>4, FS_Union
  <2>2. Cardinality(A \cap B) = 0
    BY FS_EmptySet DEF Apart
  <2>. QED  BY <2>1, <2>2
<1>6. Cardinality(C) = Cardinality(A \cup B)
  BY <1>1, <1>3, <1>4, <1>5
<1>7. C = A \cup B
  BY <1>3, <1>5, <1>6, FS_Subset
<1>. QED  BY <1>3, <1>7

(* The reads of a bucket are of different slots, which hold blocks.         *)
LEMMA ReadLists ==
  ASSUME NEW m, NEW b, Cardinality(Reals(m, b)) <= RING_Z, NEW dummies \in DummyReads(m, b)
  PROVE  /\ Lists(InOrder(Reals(m, b)) \o dummies, Reals(m, b) \cup Range(dummies))
         /\ Lists(InOrder(ValidDummies(m, b) \ Range(dummies)), ValidDummies(m, b) \ Range(dummies))
         /\ Range(dummies) \subseteq ValidDummies(m, b)
         /\ IsFiniteSet(Range(dummies)) /\ Cardinality(Range(dummies)) = Quota(m, b)
<1>. DEFINE R == Reals(m, b)
            D == ValidDummies(m, b)
            q == Quota(m, b)
            E == { dummies[k] : k \in 1 .. Len(dummies) }
<1>1. R \in SUBSET Offset /\ D \in SUBSET Offset /\ D \ Range(dummies) \in SUBSET Offset /\ R \cap D = {}
  BY DEF Reals, ValidDummies
<1>2. dummies \in [ 1 .. q -> D ] /\ IsInjective(dummies)
  BY DEF DummyReads, D
<1>3. q \in Nat
  <2>1. Cardinality(R) \in Nat
    BY <1>1, OffsetsFinite
  <2>. QED  BY <2>1, Constants DEF Quota
<1>. HIDE DEF R, D, q
<1>4. dummies \in Seq(Offset) /\ Len(dummies) = q /\ DOMAIN dummies = 1 .. q
  BY <1>1, <1>2, <1>3
<1>5. Lists(dummies, E)
  <2>1. \A k, l \in 1 .. Len(dummies) : dummies[k] = dummies[l] => k = l
    BY <1>2, <1>4 DEF IsInjective
  <2>. HIDE DEF E
  <2>. QED  BY <1>4, <2>1, DistinctLists DEF E
<1>6. Range(dummies) = E /\ E \subseteq D
  BY <1>2, <1>4 DEF Range
<1>. HIDE DEF E
<1>7. Lists(InOrder(R), R) /\ Lists(InOrder(D \ Range(dummies)), D \ Range(dummies))
  BY <1>1, InOrderLists
<1>8. Lists(InOrder(R) \o dummies, R \cup E)
  <2>1. Apart(R, E)
    BY <1>1, <1>6 DEF Apart
  <2>. QED  BY <1>5, <1>7, <2>1, ListsAppend, Zenon
<1>9. IsFiniteSet(E) /\ Cardinality(E) = q
  BY <1>4, <1>5 DEF Lists
<1>. QED  BY <1>6, <1>7, <1>8, <1>9 DEF R, D, q

LEMMA LinkedBlocks ==
  ASSUME NEW m, NEW W, Linked(m, W), NEW n, SameLinks(m, n)
  PROVE  Linked(n, W)
BY LinkedSame DEF SameLinks, SameQueues

LEMMA LinkedReshuffleRead ==
  ASSUME NEW m, Good(m), NEW W, Linked(m, W), NEW b \in Bucket, Cardinality(Reals(m, b)) <= RING_Z,
         NEW dummies \in DummyReads(m, b), Cells(b, Reals(m, b) \cup ValidDummies(m, b)) \subseteq W
  PROVE  Linked(reshuffle_read(m, b, dummies), W \ Cells(b, Reals(m, b) \cup Range(dummies)))
<1>. DEFINE S == Reals(m, b) \cup Range(dummies)
            js == InOrder(Reals(m, b)) \o dummies
            u == ReadAll(m, b, js)
            n == Unreal(u, b)
<1>1. Lists(js, S) /\ S \subseteq Reals(m, b) \cup ValidDummies(m, b)
  BY ReadLists
<1>2. S \in SUBSET Offset /\ js \in Seq(Offset)
  BY <1>1 DEF Lists
<1>3. { b } \X S \subseteq W
  BY <1>1 DEF Cells
<1>4. reshuffle_read(m, b, dummies) = n
  BY DEF reshuffle_read
<1>. HIDE DEF js, S
<1>5. Linked(u, W \ ({ b } \X S))
  BY <1>1, <1>2, <1>3, LinkedReadAll
<1>6. Good(u)
  BY <1>2, GoodReadAll
<1>. HIDE DEF u
<1>7. SameLinks(u, n)
  BY <1>6, UnrealBlocks
<1>. HIDE DEF n
<1>8. Linked(n, W \ ({ b } \X S))
  BY <1>5, <1>7, LinkedBlocks
<1>. QED  BY <1>4, <1>8 DEF Cells, S

LEMMA LinkedEvictRead ==
  ASSUME NEW m, Good(m), NEW W, Linked(m, W), NEW b \in Bucket, Cardinality(Reals(m, b)) <= RING_Z,
         NEW dummies \in DummyReads(m, b), Cells(b, Reals(m, b) \cup ValidDummies(m, b)) \subseteq W
  PROVE  Linked(evict_read(m, b, dummies), W \ Cells(b, Reals(m, b) \cup ValidDummies(m, b)))
<1>. DEFINE R == Reals(m, b)
            D == ValidDummies(m, b)
            E == Range(dummies)
            T == D \ E
            js == InOrder(T)
            u == reshuffle_read(m, b, dummies)
            V == W \ Cells(b, R \cup E)
            v == ReadAll(u, b, js)
            n == Invalid(v, b)
<1>1. Lists(js, T) /\ E \subseteq D
  BY ReadLists
<1>2. T \in SUBSET Offset /\ js \in Seq(Offset) /\ R \cap D = {}
  <2>1. R \cap D = {} /\ D \subseteq Offset
    BY DEF Reals, ValidDummies
  <2>. HIDE DEF js, D, E
  <2>2. T \in SUBSET Offset
    BY <2>1
  <2>3. js \in Seq(Offset)
    <3>. HIDE DEF T
    <3>. QED  BY <1>1, <2>2 DEF Lists
  <2>. QED  BY <2>1, <2>2, <2>3
<1>3. Linked(u, V)
  BY LinkedReshuffleRead
<1>4. Good(u)
  <2>1. Blocks(m, u, b, Valid(m, b), {})
    BY ReshuffleRead
  <2>. QED  BY <2>1 DEF Blocks
<1>5. Cells(b, R \cup D) \subseteq W
  OBVIOUS
<1>6. evict_read(m, b, dummies) = n
  BY DEF evict_read
<1>. HIDE DEF u, R, D, E
<1>7. { b } \X T \subseteq V
  BY <1>2, <1>5 DEF Cells
<1>8. V \ ({ b } \X T) = W \ Cells(b, R \cup D)
  BY <1>1 DEF Cells
<1>. HIDE DEF js, T, V
<1>9. Linked(v, V \ ({ b } \X T))
  BY <1>1, <1>2, <1>3, <1>7, LinkedReadAll
<1>10. Good(v)
  BY <1>2, <1>4, GoodReadAll
<1>. HIDE DEF v
<1>11. SameLinks(v, n)
  BY <1>10, InvalidBlocks
<1>. HIDE DEF n
<1>12. Linked(n, V \ ({ b } \X T))
  BY <1>9, <1>11, LinkedBlocks
<1>. QED  BY <1>6, <1>8, <1>12 DEF R, D

LEMMA ListsFirst ==
  ASSUME NEW A, NEW B, NEW u, NEW v, Lists(u, A), Lists(v, B), Apart(A, B), NEW n \in 0 .. Len(v)
  PROVE  /\ Lists(u \o SubSeq(v, 1, n), A \cup FirstOf(v, n))
         /\ FirstOf(v, n) \subseteq B
<1>. DEFINE t == SubSeq(v, 1, n)
            C == FirstOf(v, n)
<1>1. /\ v \in Seq(Offset) /\ n \in Nat /\ Len(v) \in Nat
      /\ \A k \in 1 .. Len(v) : v[k] \in B
      /\ \A k, l \in 1 .. Len(v) : v[k] = v[l] => k = l
  BY DEF Lists
<1>2. t \in Seq(Offset) /\ Len(t) = n /\ \A k \in 1 .. n : t[k] = v[k] /\ k \in 1 .. Len(v)
  BY <1>1
<1>. HIDE DEF t
<1>3. \A k, l \in 1 .. Len(t) : t[k] = t[l] => k = l
  BY <1>1, <1>2
<1>4. { t[k] : k \in 1 .. Len(t) } = C
  BY <1>2 DEF FirstOf
<1>5. C \subseteq B
  BY <1>1, <1>2 DEF FirstOf
<1>. HIDE DEF C
<1>6. Lists(t, C)
  BY <1>2, <1>3, <1>4, DistinctLists
<1>7. Apart(A, C)
  BY <1>5 DEF Apart
<1>8. Lists(u \o t, A \cup C)
  BY <1>6, <1>7, ListsAppend, Zenon
<1>. QED  BY <1>5, <1>8 DEF t, C

-------------------------------------------------------------------------------
(* The bucket is written, none of its slots being in W.                     *)
LEMMA LinkedWritten ==
  ASSUME NEW m, NEW W, Linked(m, W), Good(m), NEW b \in Bucket, \A i \in Offset : << b, i >> \notin W
  PROVE  Linked(Written(m, b).m, W \cup Cells(b, Got(m, b)))
<1>. DEFINE F == { j \in Own : Free(m, b, j) }
            T == Taken(m, b)
            u == inplace(m, b)
            v == taken_slot(m, b)
            x == surplus_slot
            X == LZ .. LZ + S_INC - 1
            first == [ m |-> inplace_allocate(m, b, Range(u)), got |-> u ]
            own == Borrow(first, b, v)
            all == Borrow(own, b, x)
<1>1. Written(m, b) = [ m |-> all.m, own |-> own.got, got |-> all.got ]
  BY DEF Written
<1>2. Lists(u, F) /\ Lists(v, T) /\ Lists(x, X)
  <2>1. F \in SUBSET Offset /\ T \in SUBSET Offset
    BY Constants DEF Taken
  <2>2. u = InOrder(F) /\ v = InOrder(T)
    BY DEF inplace, taken_slot, Taken
  <2>. HIDE DEF F, T, u, v, x, X
  <2>3. Lists(u, F) /\ Lists(v, T)
    BY <2>1, <2>2, InOrderLists
  <2>. QED  BY <2>3, SurplusLists DEF x, X
<1>3. /\ F \in SUBSET Own /\ T \in SUBSET Own /\ F \cap T = {} /\ X \in SUBSET Offset
      /\ Own \cap X = {} /\ Own \subseteq Offset /\ \A j \in F : Free(m, b, j)
  <2>1. X \in SUBSET Offset /\ Own \cap X = {} /\ Own \subseteq Offset
    BY SurplusLists, Constants DEF Own
  <2>. QED  BY <2>1 DEF Taken
<1>4. Range(u) = F
  BY <1>2 DEF Lists
<1>. HIDE DEF F, T, u, v, x, X
<1>. DEFINE W1 == W \cup Cells(b, F)
<1>5. Linked(first.m, W1) /\ first.got = u
  <2>1. \A j \in F : Free(m, b, j) /\ << b, j >> \notin W
    BY <1>3
  <2>2. Linked(inplace_allocate(m, b, F), W \cup ({ b } \X F))
    BY <1>3, <2>1, LinkedInPlace
  <2>. QED  BY <1>4, <2>2 DEF Cells
<1>. HIDE DEF first
<1>6. PlacesFor(first, W1, b, v, own)
  <2>1. Apart(Cells(b, T), W1)
    BY <1>3 DEF Apart, Cells
  <2>2. T \in SUBSET Offset
    BY <1>3
  <2>. HIDE DEF W1
  <2>. QED  BY <1>2, <1>5, <2>1, <2>2, LinkedBorrow, Zenon
<1>. HIDE DEF own
<1>7. PICK k \in 0 .. Len(v) :
        Linked(own.m, W1 \cup Cells(b, FirstOf(v, k))) /\ own.got = first.got \o SubSeq(v, 1, k)
  BY <1>6 DEF PlacesFor
<1>. DEFINE O == F \cup FirstOf(v, k)
            W2 == W1 \cup Cells(b, FirstOf(v, k))
<1>8. Lists(own.got, O) /\ FirstOf(v, k) \subseteq T
  <2>1. Apart(F, T)
    BY <1>3 DEF Apart
  <2>2. Lists(u \o SubSeq(v, 1, k), O) /\ FirstOf(v, k) \subseteq T
    BY <1>2, <2>1, ListsFirst
  <2>. QED  BY <1>5, <1>7, <2>2
<1>9. PlacesFor(own, W2, b, x, all)
  <2>1. Apart(Cells(b, X), W2)
    BY <1>3, <1>8 DEF Apart, Cells
  <2>2. Linked(own.m, W2)
    BY <1>7
  <2>. HIDE DEF W2
  <2>. QED  BY <1>2, <1>3, <2>1, <2>2, LinkedBorrow, Zenon
<1>. HIDE DEF all
<1>10. PICK e \in 0 .. Len(x) :
         Linked(all.m, W2 \cup Cells(b, FirstOf(x, e))) /\ all.got = own.got \o SubSeq(x, 1, e)
  BY <1>9 DEF PlacesFor
<1>11. Range(all.got) = O \cup FirstOf(x, e)
  <2>1. Apart(O, X)
    BY <1>3, <1>8 DEF Apart
  <2>. DEFINE z == own.got
  <2>2. Lists(z, O) /\ Lists(x, X) /\ e \in 0 .. Len(x)
    BY <1>2, <1>8
  <2>. HIDE DEF O, z
  <2>3. Lists(z \o SubSeq(x, 1, e), O \cup FirstOf(x, e))
    BY <2>1, <2>2, ListsFirst
  <2>4. Range(z \o SubSeq(x, 1, e)) = O \cup FirstOf(x, e)
    BY <2>3, Zenon DEF Lists
  <2>. QED  BY <1>10, <2>4 DEF z
<1>12. W2 \cup Cells(b, FirstOf(x, e)) = W \cup Cells(b, O \cup FirstOf(x, e))
  BY DEF Cells
<1>13. Got(m, b) = Range(all.got) /\ Written(m, b).m = all.m
  BY <1>1 DEF Got
<1>. HIDE DEF W2, O
<1>. QED  BY <1>10, <1>11, <1>12, <1>13

LEMMA LinkedWrite ==
  ASSUME NEW m, Good(m), NEW W, Linked(m, W), NEW b \in Bucket, \A i \in Offset : << b, i >> \notin W, NEW c
  PROVE  Linked(write_bucket(m, b, c).m, W \cup Cells(b, Got(m, b)))
<1>. DEFINE w == Written(m, b)
            u == w.m
            R == { w.own[k] : k \in 1 .. IF c < Len(w.own) THEN c ELSE Len(w.own) }
            G == Range(w.got)
            V == W \cup Cells(b, Got(m, b))
            n == Fill(u, b, G, R)
<1>1. Linked(u, V)
  BY LinkedWritten
<1>2. write_bucket(m, b, c).m = ShadowIn(n)
  BY DEF write_bucket
<1>. HIDE DEF u, R, G, V
<1>3. SameLinks(u, n)
  <2>1. u \in Mem
    BY <1>1 DEF Linked
  <2>2. Reblocked(u, n, b, [ i \in Offset |-> u.slot[b][i].valid \/ i \in G ], [ i \in Offset |-> i \in R ])
    BY <2>1, FillBlocks
  <2>. HIDE DEF n
  <2>. QED  BY <2>2 DEF Reblocked, SameLinks
<1>. HIDE DEF n
<1>4. Linked(ShadowIn(n), V)
  BY <1>1, <1>3, LinkedBlocks, LinkedShadowIn, Zenon
<1>. QED  BY <1>2, <1>4 DEF V

-------------------------------------------------------------------------------
(* The slots that hold a block are those that are valid.                    *)
Live(m) == { q \in Bucket \X Offset : q[2] \in Valid(m, q[1]) }
Chained(m) == Linked(m, Live(m))

LEMMA LiveIn ==
  ASSUME NEW m, NEW b \in Bucket, NEW j \in Offset
  PROVE  << b, j >> \in Live(m) <=> j \in Valid(m, b)
BY DEF Live

LEMMA LiveBlocks ==
  ASSUME NEW m, NEW n, NEW b \in Bucket, NEW V \in SUBSET Offset, NEW R, Blocks(m, n, b, V, R)
  PROVE  Live(n) = (Live(m) \ Cells(b, Offset)) \cup Cells(b, V)
<1>1. \A c \in Bucket : Valid(n, c) = IF c = b THEN V ELSE Valid(m, c)
  BY DEF Blocks
<1>2. ASSUME NEW c \in Bucket, NEW i \in Offset
      PROVE  << c, i >> \in Live(n) <=> << c, i >> \in (Live(m) \ Cells(b, Offset)) \cup Cells(b, V)
  <2>1. << c, i >> \in Live(n) <=> i \in Valid(n, c)
    BY LiveIn
  <2>2. << c, i >> \in Live(m) <=> i \in Valid(m, c)
    BY LiveIn
  <2>3. << c, i >> \in Cells(b, Offset) <=> c = b
    BY DEF Cells
  <2>4. << c, i >> \in Cells(b, V) <=> c = b /\ i \in V
    BY DEF Cells
  <2>. QED  BY <1>1, <2>1, <2>2, <2>3, <2>4
<1>3. /\ Live(n) \subseteq Bucket \X Offset /\ Live(m) \subseteq Bucket \X Offset
      /\ Cells(b, V) \subseteq Bucket \X Offset
  BY DEF Live, Cells
<1>. DEFINE X == Live(n)
            Y == (Live(m) \ Cells(b, Offset)) \cup Cells(b, V)
<1>4. X \subseteq Bucket \X Offset /\ Y \subseteq Bucket \X Offset
      /\ \A c \in Bucket, i \in Offset : << c, i >> \in X <=> << c, i >> \in Y
  BY <1>2, <1>3
<1>. HIDE DEF X, Y
<1>5. X = Y
  BY <1>4
<1>. QED  BY <1>5 DEF X, Y

LEMMA LiveRest ==
  ASSUME NEW m, NEW b \in Bucket
  PROVE  /\ Live(m) \ Cells(b, Valid(m, b)) = Live(m) \ Cells(b, Offset)
         /\ Cells(b, Valid(m, b)) \subseteq Live(m)
<1>. DEFINE V == Valid(m, b)
            X == Live(m)
<1>1. V \subseteq Offset
  BY DEF Valid
<1>2. \A j \in Offset : << b, j >> \in X <=> j \in V
  BY LiveIn
<1>. HIDE DEF V, X
<1>3. \A j : << b, j >> \in X /\ j \in Offset => j \in V
  BY <1>2
<1>. QED  BY <1>1, <1>2, <1>3 DEF Cells, V, X

(* Every slot that is valid counts: as many are as the reads that the       *)
(* bucket serves and the RING_Z of its reshuffle take.                      *)
Exact ==
  \A b \in Bucket :
    Cardinality({ j \in Offset : mem.slot[b][j].valid }) = RING_Z + s[b] - count[b]

LEMMA ChainedRewrite ==
  ASSUME IInv, NEW b \in Bucket, NEW u, NEW V \in SUBSET Offset, Blocks(mem, u, b, V, {}),
         Linked(u, Live(mem) \ Cells(b, Offset)),
         NEW r \in 0 .. RING_Z, NEW c \in r .. RING_Z, Rewrite(b, u, c, r), Exact'
  PROVE  Chained(mem')
<1>. DEFINE x == write_bucket(u, b, c)
            W == Live(mem) \ Cells(b, Offset)
<1>0. c \in Nat
  BY Constants
<1>1. PICK G \in SUBSET Offset, R \in SUBSET Offset : G = Got(u, b) /\ Outcome(mem, x, b, V, c, G, R)
  BY <1>0, WriteBlocks
<1>2. /\ mem' = x.m /\ s' = [ s EXCEPT ![b] = x.s ] /\ count' = [ count EXCEPT ![b] = 0 ]
  BY DEF Rewrite
<1>3. Linked(x.m, W \cup Cells(b, G))
  <2>1. \A i \in Offset : << b, i >> \notin W
    BY DEF Cells
  <2>2. Good(u)
    BY DEF Blocks
  <2>. HIDE DEF W
  <2>. QED  BY <1>1, <2>1, <2>2, LinkedWrite DEF W
<1>. HIDE DEF x
<1>4. Blocks(mem, mem', b, V \cup G, R) /\ x.s = Cardinality(G) - RING_Z
  BY <1>1, <1>2 DEF Outcome
<1>5. Valid(mem', b) = V \cup G
  BY <1>4 DEF Blocks
<1>6. Cardinality(V \cup G) = Cardinality(G)
  <2>1. Cardinality(Valid(mem', b)) = RING_Z + s'[b] - count'[b]
    BY DEF Exact, Valid
  <2>2. s'[b] = Cardinality(G) - RING_Z /\ count'[b] = 0
    BY <1>2, <1>4 DEF IInv
  <2>3. Cardinality(G) \in Nat
    BY OffsetsFinite
  <2>. QED  BY <1>5, <2>1, <2>2, <2>3, Constants
<1>7. V \cup G = G
  <2>1. IsFiniteSet(V \cup G) /\ G \in SUBSET (V \cup G)
    BY OffsetsFinite
  <2>. QED  BY <1>6, <2>1, FS_Subset
<1>8. Live(mem') = W \cup Cells(b, G)
  <2>. DEFINE n == mem'
  <2>1. Blocks(mem, n, b, G, R)
    BY <1>4, <1>7
  <2>. HIDE DEF n
  <2>2. Live(n) = (Live(mem) \ Cells(b, Offset)) \cup Cells(b, G)
    BY <2>1, LiveBlocks
  <2>. QED  BY <2>2 DEF n
<1>. HIDE DEF W
<1>. QED  BY <1>2, <1>3, <1>8 DEF Chained

LEMMA ChainedRead ==
  ASSUME IInv, Chained(mem), NEW b \in Bucket, NEW j \in Wanted(b), ReadSlot(b, j)
  PROVE  Chained(mem')
<1>. DEFINE u == Read(mem, b, j)
            V == Valid(mem, b)
            x == s[b] - count[b]
            W == Live(mem)
<1>1. x \in Int /\ Stocked(mem, b, x) /\ Good(mem)
  BY DEF IInv
<1>2. j \in V /\ j \in Offset /\ V \in SUBSET Offset
  BY <1>1, Stock DEF Wanted, Valid
<1>3. Good(u) /\ SameBlocks(mem, u)
  BY <1>1, <1>2, GoodRead
<1>4. Linked(u, W \ { << b, j >> })
  <2>1. << b, j >> \in W /\ Linked(mem, W)
    BY <1>2, LiveIn DEF Chained
  <2>. HIDE DEF W
  <2>. QED  BY <1>2, <2>1, LinkedRead
<1>5. mem' = [ u EXCEPT !.slot[b][j].valid = FALSE, !.slot[b][j].isReal = FALSE ]
  BY DEF ReadSlot
<1>. HIDE DEF u
<1>6. Blocks(u, mem', b, Valid(u, b) \ { j }, Reals(u, b) \ { j }) /\ SameLinks(u, mem')
  <2>. DEFINE n == [ u EXCEPT !.slot[b][j].valid = FALSE, !.slot[b][j].isReal = FALSE ]
  <2>1. \A o : o = n => Blocks(u, o, b, Valid(u, b) \ { j }, Reals(u, b) \ { j }) /\ SameLinks(u, o)
    BY <1>2, <1>3, ClearSlot
  <2>2. mem' = n
    BY <1>5
  <2>. HIDE DEF n
  <2>. QED  BY <2>1, <2>2
<1>7. Live(mem') = W \ { << b, j >> }
  <2>1. Blocks(mem, mem', b, V \ { j }, Reals(mem, b) \ { j })
    BY <1>3, <1>6, SameBlocksSets DEF Blocks
  <2>2. V \ { j } \in SUBSET Offset
    BY <1>2
  <2>3. Live(mem') = (W \ Cells(b, Offset)) \cup Cells(b, V \ { j })
    <3>. DEFINE n == mem'
                S == V \ { j }
                R == Reals(mem, b) \ { j }
    <3>1. Blocks(mem, n, b, S, R) /\ S \in SUBSET Offset
      BY <2>1, <2>2
    <3>. HIDE DEF n, S, R
    <3>2. Live(n) = (Live(mem) \ Cells(b, Offset)) \cup Cells(b, S)
      BY <3>1, LiveBlocks
    <3>. QED  BY <3>2 DEF n, S
  <2>4. W \ Cells(b, V) = W \ Cells(b, Offset) /\ Cells(b, V) \subseteq W
    BY LiveRest
  <2>. HIDE DEF W, V
  <2>5. (W \ Cells(b, V)) \cup Cells(b, V \ { j }) = W \ { << b, j >> }
    BY <1>2, <2>4 DEF Cells
  <2>. QED  BY <2>3, <2>4, <2>5
<1>. HIDE DEF W
<1>8. Linked(mem', W \ { << b, j >> })
  BY <1>4, <1>6, LinkedBlocks
<1>. QED  BY <1>7, <1>8 DEF Chained

(* A reshuffle reads everything that is left in the bucket.                 *)
LEMMA ReshuffleReadsAll ==
  ASSUME IInv, Exact, NEW b \in Bucket, MustReshuffle(b), Enough(mem, b), NEW dummies \in DummyReads(mem, b)
  PROVE  Reals(mem, b) \cup Range(dummies) = Valid(mem, b)
<1>. DEFINE R == Reals(mem, b)
            D == ValidDummies(mem, b)
            V == Valid(mem, b)
            E == Range(dummies)
            x == s[b] - count[b]
<1>1. x \in Int /\ Stocked(mem, b, x) /\ x <= 0
  BY DEF IInv, MustReshuffle
<1>2. /\ R \cup D = V /\ Cardinality(V) = Cardinality(R) + Cardinality(D)
      /\ Cardinality(R) \in Nat /\ Cardinality(D) \in Nat /\ Cardinality(R) <= RING_Z
  BY <1>1, Stock DEF Stocked
<1>3. E \subseteq D /\ Cardinality(E) = RING_Z - Cardinality(R)
  BY <1>2, ReadLists DEF Quota
<1>4. Cardinality(D) >= RING_Z - Cardinality(R)
  BY DEF Enough, Quota
<1>5. Cardinality(V) = RING_Z + x
  <2>1. Cardinality(V) = RING_Z + s[b] - count[b]
    BY DEF Exact, Valid
  <2>2. s[b] \in Int /\ count[b] \in Nat
    BY DEF IInv
  <2>. QED  BY <2>1, <2>2, Constants
<1>6. IsFiniteSet(D)
  BY OffsetsFinite DEF ValidDummies
<1>. HIDE DEF R, D, V, E, x
<1>7. Cardinality(E) = Cardinality(D)
  BY <1>1, <1>2, <1>3, <1>4, <1>5, Constants
<1>8. E = D
  BY <1>3, <1>6, <1>7, FS_Subset
<1>. QED  BY <1>2, <1>8 DEF R, V, E

LEMMA ChainedEvict ==
  ASSUME IInv, Chained(mem), Exact', ring_evict_path
  PROVE  Chained(mem')
<1>. DEFINE b == ring_G % BUCKETS
            W == Live(mem)
<1>1. b \in Bucket /\ Good(mem) /\ Cardinality(Reals(mem, b)) <= RING_Z /\ Reals(mem, b) \subseteq Valid(mem, b)
  <2>1. ring_G \in Nat
    BY DEF IInv
  <2>2. b \in Bucket
    BY <2>1, Constants DEF Bucket
  <2>. HIDE DEF b
  <2>. QED  BY <2>2 DEF IInv, Stocked
<1>2. Shuffle(b, evict_read, 0)
  BY DEF ring_evict_path
<1>. HIDE DEF b
<1>3. CASE Enough(mem, b)
  <2>1. PICK dummies \in DummyReads(mem, b), c \in 0 .. RING_Z :
          Rewrite(b, evict_read(mem, b, dummies), c, 0)
    BY <1>2, <1>3 DEF Shuffle
  <2>. DEFINE u == evict_read(mem, b, dummies)
  <2>2. Blocks(mem, u, b, {}, {})
    BY <1>1, EvictRead
  <2>3. Reals(mem, b) \cup ValidDummies(mem, b) = Valid(mem, b)
    BY <1>1 DEF Reals, ValidDummies, Valid
  <2>4. Linked(u, W \ Cells(b, Offset))
    <3>1. Cells(b, Reals(mem, b) \cup ValidDummies(mem, b)) \subseteq W
      BY <1>1, <2>3, LiveRest
    <3>2. W \ Cells(b, Reals(mem, b) \cup ValidDummies(mem, b)) = W \ Cells(b, Offset)
      BY <1>1, <2>3, LiveRest
    <3>3. Linked(mem, W)
      BY DEF Chained
    <3>. HIDE DEF W
    <3>4. Linked(u, W \ Cells(b, Reals(mem, b) \cup ValidDummies(mem, b)))
      BY <1>1, <3>1, <3>3, LinkedEvictRead
    <3>. QED  BY <3>2, <3>4
  <2>5. Rewrite(b, u, c, 0) /\ {} \in SUBSET Offset /\ 0 \in 0 .. RING_Z
    BY <2>1, Constants
  <2>. HIDE DEF u
  <2>. QED  BY <1>1, <2>2, <2>4, <2>5, ChainedRewrite
<1>4. CASE ~Enough(mem, b)
  BY <1>2, <1>4 DEF Shuffle
<1>. QED  BY <1>3, <1>4

LEMMA ChainedReshuffle ==
  ASSUME IInv, Chained(mem), Exact, Exact', ring_early_reshuffle
  PROVE  Chained(mem')
<1>. DEFINE b == bucket
            r == Cardinality(Reals(mem, b))
            W == Live(mem)
<1>1. b \in Bucket /\ Good(mem) /\ Cardinality(Reals(mem, b)) <= RING_Z /\ Reals(mem, b) \subseteq Valid(mem, b)
  BY DEF IInv, Stocked
<1>2. Shuffle(b, reshuffle_read, r) /\ MustReshuffle(b)
  BY DEF ring_early_reshuffle
<1>0. r \in 0 .. RING_Z
  <2>1. r \in Nat
    BY OffsetsFinite DEF Reals
  <2>. QED  BY <1>1, <2>1, Constants
<1>. HIDE DEF b
<1>3. CASE Enough(mem, b)
  <2>1. PICK dummies \in DummyReads(mem, b), c \in r .. RING_Z :
          Rewrite(b, reshuffle_read(mem, b, dummies), c, r)
    BY <1>2, <1>3 DEF Shuffle
  <2>. DEFINE u == reshuffle_read(mem, b, dummies)
              V == Valid(mem, b)
              S == Reals(mem, b) \cup Range(dummies)
  <2>2. Blocks(mem, u, b, V, {}) /\ V \in SUBSET Offset
    <3>1. V \in SUBSET Offset
      BY DEF Valid
    <3>. QED  BY <1>1, <3>1, ReshuffleRead
  <2>3. S = V
    BY <1>1, <1>2, <1>3, ReshuffleReadsAll
  <2>4. Linked(u, W \ Cells(b, Offset))
    <3>0. Reals(mem, b) \cup ValidDummies(mem, b) = Valid(mem, b)
      BY <1>1 DEF Reals, ValidDummies, Valid
    <3>1. Cells(b, Reals(mem, b) \cup ValidDummies(mem, b)) \subseteq W
      BY <1>1, <3>0, LiveRest
    <3>2. W \ Cells(b, S) = W \ Cells(b, Offset)
      BY <1>1, <2>3, LiveRest
    <3>3. Linked(mem, W)
      BY DEF Chained
    <3>. HIDE DEF W
    <3>4. Linked(u, W \ Cells(b, S))
      BY <1>1, <3>1, <3>3, LinkedReshuffleRead
    <3>. QED  BY <3>2, <3>4
  <2>5. Rewrite(b, u, c, r)
    BY <2>1
  <2>. HIDE DEF u, V, r
  <2>. QED  BY <1>0, <1>1, <2>2, <2>4, <2>5, ChainedRewrite
<1>4. CASE ~Enough(mem, b)
  BY <1>2, <1>4 DEF Shuffle
<1>. QED  BY <1>3, <1>4

LEMMA ChainedStep ==
  ASSUME IInv, Chained(mem), Exact, Exact', [Next]_vars
  PROVE  Chained(mem')
<1>1. CASE ring_read_path
  <2>1. PICK b \in Bucket :
          \/ \E j \in Wanted(b) : ReadSlot(b, j)
          \/ ValidDummies(mem, b) = {} /\ Fail("no dummy") /\ UNCHANGED << mem, count >>
    BY <1>1 DEF ring_read_path
  <2>2. CASE \E j \in Wanted(b) : ReadSlot(b, j)
    BY <2>2, ChainedRead
  <2>3. CASE UNCHANGED << mem, count >>
    BY <2>3
  <2>. QED  BY <2>1, <2>2, <2>3
<1>2. CASE ring_evict_path
  BY <1>2, ChainedEvict
<1>3. CASE ring_early_reshuffle
  BY <1>3, ChainedReshuffle
<1>4. CASE gather
  <2>1. mem' = gather_dead(mem, bucket) /\ bucket \in Bucket /\ Good(mem)
    BY <1>4 DEF gather, IInv
  <2>2. Linked(gather_dead(mem, bucket), Live(mem))
    BY <2>1, LinkedGather DEF Chained
  <2>3. SameBlocks(mem, gather_dead(mem, bucket))
    BY <2>1, GoodGather
  <2>4. Live(mem') = Live(mem)
    BY <2>1, <2>3, SameBlocksSets DEF Live
  <2>. QED  BY <2>1, <2>2, <2>4 DEF Chained
<1>5. CASE UNCHANGED vars
  BY <1>5 DEF vars
<1>. QED  BY <1>1, <1>2, <1>3, <1>4, <1>5 DEF Next

LEMMA ChainedInit == Init => Chained(mem)
<1>. SUFFICES ASSUME Init PROVE Chained(mem)
  OBVIOUS
<1>. DEFINE W == Live(mem)
<1>1. mem \in Mem
  BY InitIInv DEF IInv, Good
<1>2. PICK r \in [ Bucket -> 0 .. RING_Z ] :
        mem = [ slot |-> [ b \in Bucket |-> Fresh(r[b]) ], allctr |-> [ b \in Bucket |-> 0 ],
                deadQ |-> << >>, shadowQ |-> << >>, taken |-> FALSE ]
  BY DEF Init
<1>3. mem.slot = [ b \in Bucket |-> Fresh(r[b]) ] /\ mem.allctr = [ b \in Bucket |-> 0 ]
      /\ mem.deadQ = << >> /\ mem.taken = FALSE
  BY <1>2
<1>4. \A b \in Bucket, i \in Offset :
        /\ mem.slot[b][i].valid = (i < LZ) /\ mem.slot[b][i].remote = NONE
        /\ mem.slot[b][i].dd = IF i < LZ THEN "REFRESHED" ELSE "DEAD"
  <2>1. \A b \in Bucket : mem.slot[b] = Fresh(r[b])
    BY <1>3
  <2>2. ASSUME NEW k, NEW i \in Offset
        PROVE  /\ Fresh(k)[i].valid = (i < LZ) /\ Fresh(k)[i].remote = NONE
               /\ Fresh(k)[i].dd = IF i < LZ THEN "REFRESHED" ELSE "DEAD"
    BY DEF Fresh
  <2>. HIDE DEF Fresh
  <2>. QED  BY <2>1, <2>2
<1>5. \A i \in Own : i \in Offset /\ i < LZ
  BY Constants DEF Own
<1>6. \A i \in Offset : i < LZ => i \in Own
  BY Constants DEF Own, Offset
<1>7. Queued(mem)
  <2>1. Range(mem.deadQ) = {} /\ Distinct(mem.deadQ)
    BY <1>3 DEF Range, Distinct
  <2>. QED  BY <1>4, <1>5, <2>1 DEF Queued
<1>8. Lends(mem)
  <2>. SUFFICES ASSUME NEW d \in Bucket, NEW k \in Own
                PROVE  /\ mem.slot[d][k].dd # "ALLOCATED"
                       /\ \A c \in Bucket, i \in Offset : mem.slot[c][i].remote # << d, k >>
    BY DEF Lends
  <2>1. NONE # << d, k >>
    BY DEF NONE
  <2>. QED  BY <1>4, <1>5, <2>1
<1>9. Unique(mem)
  BY <1>4 DEF Unique
<1>10. Placed(mem, W)
  <2>. SUFFICES ASSUME NEW c \in Bucket, NEW i \in Offset, << c, i >> \in W
                PROVE  i \in Own /\ mem.slot[c][i].dd = "REFRESHED"
    BY <1>4 DEF Placed
  <2>1. i \in Valid(mem, c)
    BY LiveIn
  <2>2. i < LZ
    BY <1>4, <2>1 DEF Valid
  <2>. QED  BY <1>4, <1>6, <2>2
<1>11. Counted(mem)
  <2>. SUFFICES ASSUME NEW b \in Bucket PROVE mem.allctr[b] = Cardinality(Taken(mem, b))
    BY DEF Counted
  <2>1. Taken(mem, b) = {}
    BY <1>4, <1>5 DEF Taken, Free, dd
  <2>2. Cardinality(Taken(mem, b)) = 0
    BY <2>1, FS_EmptySet
  <2>. QED  BY <1>3, <2>2
<1>. QED  BY <1>1, <1>3, <1>7, <1>8, <1>9, <1>10, <1>11 DEF Linked, Chained

LEMMA ChainedHolders ==
  ASSUME Chained(mem), NEW p \in Place
  PROVE  /\ Cardinality(Holders(p)) <= 1
         /\ p \in Range(mem.deadQ) <=> dd(mem, p) = "REMEMBERED"
         /\ dd(mem, p) \in { "REMEMBERED", "DEAD" } => Holders(p) = {}
         /\ dd(mem, p) = "REFRESHED" => Holders(p) \subseteq { p }
         /\ dd(mem, p) = "ALLOCATED" => Holders(p) # {}
<1>. DEFINE W == Live(mem)
<1>1. PICK d \in Bucket, k \in Own : p = << d, k >>
  BY DEF Place
<1>2. dd(mem, p) = mem.slot[d][k].dd /\ k \in Offset /\ p # NONE
  BY <1>1, Constants DEF dd, NONE
<1>3. Queued(mem) /\ Lends(mem) /\ Unique(mem) /\ Placed(mem, W)
  BY DEF Chained, Linked
<1>4. p \in Range(mem.deadQ) <=> dd(mem, p) = "REMEMBERED"
  BY <1>1, <1>2, <1>3 DEF Queued
<1>5. dd(mem, p) = "ALLOCATED" <=> \E c \in Bucket, i \in Offset : mem.slot[c][i].remote = p
  BY <1>1, <1>2, <1>3 DEF Lends
<1>6. \A c, e \in Bucket, i, j \in Offset :
        mem.slot[c][i].remote = p /\ mem.slot[e][j].remote = p => c = e /\ i = j
  BY <1>2, <1>3 DEF Unique
<1>7. ASSUME NEW c \in Bucket, NEW i \in Offset
      PROVE  << c, i >> \in Holders(p) <=>
               \/ mem.slot[c][i].remote = p
               \/ << c, i >> \in W /\ mem.slot[c][i].remote = NONE /\ << c, i >> = p
  <2>1. << c, i >> \in Holders(p) <=>
          mem.slot[c][i].valid /\ IF mem.slot[c][i].remote = NONE THEN << c, i >> = p
                                   ELSE mem.slot[c][i].remote = p
    BY DEF Holders
  <2>2. << c, i >> \in W <=> mem.slot[c][i].valid
    BY LiveIn DEF Valid
  <2>3. mem.slot[c][i].remote # NONE => << c, i >> \in W
    BY <1>3 DEF Placed
  <2>. QED  BY <1>2, <2>1, <2>2, <2>3
<1>8. p \in W /\ mem.slot[d][k].remote = NONE => dd(mem, p) = "REFRESHED"
  BY <1>1, <1>2, <1>3 DEF Placed
<1>9. Holders(p) \subseteq Bucket \X Offset
  BY DEF Holders
<1>. DEFINE H == Holders(p)
<1>. HIDE DEF H, W
<1>10. CASE dd(mem, p) = "ALLOCATED"
  <2>1. PICK e \in Bucket, j \in Offset : mem.slot[e][j].remote = p
    BY <1>5, <1>10
  <2>2. \A c \in Bucket, i \in Offset : << c, i >> \in H <=> mem.slot[c][i].remote = p
    BY <1>1, <1>7, <1>8, <1>10 DEF H
  <2>3. H = { << e, j >> }
    BY <1>6, <1>9, <2>1, <2>2 DEF H
  <2>4. Cardinality(H) = 1
    BY <2>3, FS_Singleton
  <2>. QED  BY <1>4, <1>10, <2>3, <2>4 DEF H
<1>11. CASE dd(mem, p) # "ALLOCATED"
  <2>1. \A c \in Bucket, i \in Offset : << c, i >> \in H => << c, i >> = p /\ dd(mem, p) = "REFRESHED"
    BY <1>1, <1>5, <1>7, <1>8, <1>11 DEF H
  <2>2. H \subseteq { p } /\ (dd(mem, p) # "REFRESHED" => H = {})
    BY <1>9, <2>1 DEF H
  <2>3. Cardinality(H) <= 1
    <3>1. H = {} \/ H = { p }
      BY <2>2
    <3>2. Cardinality({ p }) = 1
      BY FS_Singleton
    <3>3. Cardinality({}) = 0
      BY FS_EmptySet
    <3>. QED  BY <3>1, <3>2, <3>3
  <2>. QED  BY <1>4, <1>11, <2>2, <2>3 DEF H
<1>. QED  BY <1>10, <1>11

LEMMA ChainedOneHolder == Chained(mem) => OneHolder /\ ~mem.taken
<1>. SUFFICES ASSUME Chained(mem) PROVE OneHolder /\ ~mem.taken
  OBVIOUS
<1>1. ~mem.taken /\ Counted(mem) /\ mem \in Mem
  BY DEF Chained, Linked
<1>2. ASSUME NEW b \in Bucket
      PROVE  mem.allctr[b] =
               Cardinality({ j \in Own : dd(mem, << b, j >>) \in { "REMEMBERED", "ALLOCATED" } })
  <2>1. \A j \in Own : dd(mem, << b, j >>) \in DeadState
    BY <1>1, Constants DEF Mem, Slot, dd
  <2>2. Taken(mem, b) = { j \in Own : dd(mem, << b, j >>) \in { "REMEMBERED", "ALLOCATED" } }
    BY <2>1 DEF Taken, Free, DeadState
  <2>. QED  BY <1>1, <2>2 DEF Counted
<1>. QED  BY <1>1, <1>2, ChainedHolders DEF OneHolder

(* As long as every slot that is valid counts in what the bucket can serve, *)
(* a slot holds the block of one bucket at most, none while it is queued,   *)
(* none is lost while it is lent, allctr counts what is given away, and the *)
(* check of calc_mem_addr never finds a queued slot in use.  Without that,  *)
(* after a reshuffle that leaves a slot valid to which it gives no place,   *)
(* neither needs to hold.                                                   *)
THEOREM DeadOneHolder == Spec /\ []Exact => []OneHolder /\ [](~mem.taken)
<1>1. Init => IInv /\ Chained(mem)
  BY InitIInv, ChainedInit
<1>2. IInv /\ Chained(mem) /\ Exact /\ Exact' /\ [Next]_vars => IInv' /\ Chained(mem)'
  BY StepIInv, ChainedStep
<1>3. Chained(mem) => OneHolder /\ ~mem.taken
  BY ChainedOneHolder
<1>. QED  BY <1>1, <1>2, <1>3, PTL DEF Spec

===============================================================================

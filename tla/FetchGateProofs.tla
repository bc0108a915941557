---------------------------- MODULE FetchGateProofs ----------------------------
(***************************************************************************)
(* Theorems about FetchGate: types, requests fetched once and in order, one *)
(* batch of reads in the memory until the first eviction, and the gate that *)
(* is never left closed with nobody to open it.                            *)
(***************************************************************************)
EXTENDS FetchGate, FiniteSetTheorems, TLAPS

BatchType == OpType \X Type
Ops == OpType \cup { "n" }

(* No line of the trace, and the lines.                                    *)
Lines == 0 .. MAX_ACCESS + 1

Cur == [ op : Ops, type : Type, k : Nat, last : BOOLEAN, id : Nat, line : Lines ]
Queued == [ b : BatchType, k : Nat ]
RobEntry ==
  [ kind : Type \cup { "N", "D" }, op : Ops, id : Nat, line : Lines, t : PAST .. BIGNUM ]
QueuedRead == [ op : Ops, id : Nat, line : Lines, issued : BOOLEAN, t : 0 .. BIGNUM ]

Phase == { "retire", "memory", "gate", "fetch", "next", "tick", "done" }

ControlType ==
  /\ phase \in Phase
  /\ clk \in 0 .. PROCESSOR_CLK_MULTIPLIER - 1
  /\ num \in Nat
  /\ num <= IF phase = "retire" THEN MAX_RETIRE
            ELSE IF phase \in { "memory", "gate" } THEN 0 ELSE MAX_FETCH

SourceType ==
  /\ invokectr \in 0 .. MAX_ACCESS /\ ring_evictctr \in 0 .. invokectr
  /\ nonmemops \in 0 .. MAX_NONMEM
  /\ cur \in Cur /\ cur.line \in { 0, invokectr + 1 }
  /\ oramQ \in Seq(Queued)
  /\ \A i \in DOMAIN oramQ : oramQ[i].k >= 1 /\ oramQ[i].k <= Size(oramQ[i].b)

(* The newest line of the trace that can have been fetched.                *)
Newest == IF cur.line # 0 /\ ~CurFetched THEN invokectr ELSE invokectr + 1

(* What is fetched is no later than the request n and the line l.          *)
Known(r, n, l) == r.id <= n /\ r.line <= l

MemoryType ==
  /\ ROB \in Seq(RobEntry) /\ Len(ROB) <= ROBSIZE
  /\ \A i \in DOMAIN ROB : ROB[i].kind \in Type => Known(ROB[i], Fetched, Newest)
  /\ read_queue \in SUBSET QueuedRead
  /\ write_queue \in Nat /\ write_queue <= WQ_CAPACITY
  /\ write_served \in Nat /\ write_served <= write_queue
  /\ drain_writes \in BOOLEAN

GateType ==
  /\ last_read_served \in BOOLEAN /\ last_lock_released \in BOOLEAN
  /\ last_read_deleted \in BOOLEAN

CountType ==
  /\ determineReq \in 0 .. cur.id /\ longest_req \in 0 .. cur.id
  /\ comptime_max \in ZERO .. BIGNUM - 1
  /\ cur_served \in [ BatchType -> Nat ]
  /\ \A b \in BatchType : cur_served[b] <= to_serve[b]

(* The gate is closed by a read, with the lock held, and the lock is held   *)
(* only with last_read set; while the gate is open no read of a closed      *)
(* batch is missing.                                                       *)
Flags ==
  /\ ~last_read_served => ~last_lock_released
  /\ last_read_served => last_read_deleted
  /\ ~last_lock_released => cur.last
  /\ ~last_read_served => cur.type = "R"

(* cur, and the requests of oramQ that follow it.                          *)
AtEnd == cur.line = 0 => cur.k = Size(<< cur.op, cur.type >>)

Follows(h) ==
  IF h.k = 1 THEN AtEnd
  ELSE cur.line = 0 /\ cur.op = h.b[1] /\ cur.type = h.b[2] /\ cur.k = h.k - 1

InSequence ==
  /\ IF oramQ = << >> THEN AtEnd ELSE Follows(oramQ[1])
  /\ \A i \in DOMAIN oramQ : i > 1 => oramQ[i].k = 1
  /\ cur.line = 0 =>
       LET b == << cur.op, cur.type >>
       IN  cur.op \in OpType /\ cur.k >= 1 /\ cur.k <= Size(b) /\ (cur.last <=> cur.k \in LastOf(b))

(* The requests of a ROB q are the latest ones up to number n.             *)
IsRequest(e) == e.kind \in Type /\ e.line = 0

InOrder(q, n) ==
  \A i \in DOMAIN q : IsRequest(q[i]) =>
    /\ \A j \in DOMAIN q :
         IsRequest(q[j]) /\ i < j
           /\ (\A k \in DOMAIN q : IsRequest(q[k]) => k <= i \/ k >= j)
         => q[j].id = q[i].id + 1
    /\ (\A j \in DOMAIN q : IsRequest(q[j]) => j <= i) => q[i].id = n

(* The read of number id and this line is in the ROB q and not over before  *)
(* the time t.                                                             *)
Waits(q, id, line, t) ==
  \E i \in DOMAIN q : q[i].kind = "R" /\ q[i].id = id /\ q[i].line = line /\ q[i].t >= t

(* Every read of the memory waits in the ROB no less than for its data, and *)
(* an issued one is collected before its time is over.                     *)
Soonest ==
  IF clk = 0 /\ phase \in { "retire", "memory" }
  THEN READ_TIME - PROCESSOR_CLK_MULTIPLIER ELSE READ_TIME - clk

ReadsAwaited ==
  /\ \A r \in read_queue :
       /\ Waits(ROB, r.id, r.line, r.t) /\ Known(r, Fetched, Newest)
       /\ IF r.issued THEN Soonest <= r.t /\ r.t <= READ_TIME ELSE r.t = BIGNUM
  /\ \A r, q \in read_queue : r.id = q.id /\ r.line = q.line => r = q

(* A read that has left the memory and is in the ROB q until the time t.   *)
Collected(q, queue, id, line, t) ==
  Waits(q, id, line, t) /\ \A r \in queue : r.id # id \/ r.line # line

(* The longest read is such a read until its time is over.                 *)
LongestInRob ==
  comptime_max >= 0 =>
    \E line \in Lines : Collected(ROB, read_queue, longest_req, line, comptime_max)

(* The read that the retire loop waits for is in the ROB.                  *)
InRob(q, id) == \E line \in Lines : Waits(q, id, line, PAST)

Wakeup == last_read_deleted /\ ~last_read_served => InRob(ROB, determineReq)

(* Before the first eviction: the reads of the current batch that were      *)
(* fetched and are not known to be all served; a line of the trace is taken *)
(* for the first read of a batch.  Each is in the memory or counted, and no *)
(* other is in the memory.                                                 *)
Place == IF cur.line = 0 THEN cur.k ELSE 1

Taken ==
  IF cur.op \notin OpType \/ cur.type # "R" \/ (last_read_deleted /\ CurFetched /\ cur.last)
  THEN 0
  ELSE IF CurFetched THEN Place ELSE Place - 1

Ids(queue) == { r.id : r \in { q \in queue : q.op \in OpType } }

NoEviction ==
  /\ \A i \in DOMAIN oramQ : oramQ[i].b # << "e", "R" >>
  /\ cur.line = 0 => << cur.op, cur.type >> # << "e", "R" >>
  /\ cur.line # 0 /\ cur.op \in OpType => cur.last

Counted ==
  /\ IsFiniteSet(Ids(read_queue))
  /\ \A r \in read_queue :
       r.op \in OpType => r.op = cur.op /\ r.line = cur.line /\ r.id > Fetched - Taken
  /\ \A o \in OpType :
       cur_served[<< o, "R" >>] =
         IF o = cur.op THEN Taken - Cardinality(Ids(read_queue)) ELSE 0
  /\ cur.op \notin OpType => Ids(read_queue) = {}

BatchInv == ring_evictctr = 0 => NoEviction /\ Counted

Inv ==
  /\ ControlType /\ SourceType /\ MemoryType /\ GateType /\ CountType
  /\ Flags /\ InSequence /\ EachFetchedOnce /\ ReadsAwaited /\ LongestInRob
  /\ Wakeup /\ BatchInv

-------------------------------------------------------------------------------
(* The constants and the sizes of batches. *)
LEMMA Sizes ==
  /\ LEVELS * RING_Z \in Nat \ {0} /\ LEVELS * LZ \in Nat \ {0}
  /\ \A b \in BatchType : /\ Size(b) \in Nat \ {0} /\ to_serve[b] \in Nat \ {0}
                          /\ b # << "e", "R" >> => to_serve[b] = Size(b)
<1>1. /\ LEVELS \in Nat \ {0} /\ RING_Z \in Nat \ {0} /\ LZ \in Nat \ {0}
  BY GateAssumption
<1>2. LEVELS * RING_Z \in Nat \ {0} /\ LEVELS * LZ \in Nat \ {0}
  BY <1>1
<1>3. \A b \in BatchType : Size(b) \in Nat \ {0}
  BY <1>1, <1>2 DEF Size
<1>4. \A b \in BatchType : to_serve[b] = IF b = << "e", "R" >> /\ COUNTED THEN RING_Z ELSE Size(b)
  BY DEF to_serve, BatchType
<1>. QED  BY <1>1, <1>2, <1>3, <1>4

LEMMA Times ==
  /\ BIGNUM \in Nat /\ PAST = -1 /\ ZERO = -2 /\ READ_TIME \in Nat \ {0} /\ PIPELINEDEPTH \in Nat
  /\ READ_TIME + PIPELINEDEPTH < BIGNUM /\ READ_TIME < BIGNUM /\ PIPELINEDEPTH < BIGNUM
  /\ WQ_LOOKUP_LATENCY \in Nat /\ WQ_LOOKUP_LATENCY + PIPELINEDEPTH < BIGNUM
  /\ RQ_LOOKUP_LATENCY \in Nat /\ RQ_LOOKUP_LATENCY + PIPELINEDEPTH < BIGNUM
  /\ PROCESSOR_CLK_MULTIPLIER \in Nat \ {0} /\ PROCESSOR_CLK_MULTIPLIER <= READ_TIME
<1>1. /\ READ_TIME \in Nat \ {0} /\ PIPELINEDEPTH \in Nat
      /\ WQ_LOOKUP_LATENCY \in Nat /\ RQ_LOOKUP_LATENCY \in Nat
      /\ PROCESSOR_CLK_MULTIPLIER \in Nat \ {0} /\ PROCESSOR_CLK_MULTIPLIER <= READ_TIME
  BY GateAssumption
<1>2. PAST = -1 /\ ZERO = -2
  BY DEF PAST, ZERO
<1>3. BIGNUM = READ_TIME + WQ_LOOKUP_LATENCY + RQ_LOOKUP_LATENCY + PIPELINEDEPTH + 1
  BY DEF BIGNUM
<1>. QED  BY <1>1, <1>2, <1>3

LEMMA Aging ==
  /\ \A t \in ZERO .. BIGNUM : Aged(t) \in ZERO .. BIGNUM /\ Aged(t) <= t
  /\ \A t \in ZERO .. BIGNUM : t >= PAST => Aged(t) >= PAST
  /\ \A t, u \in ZERO .. BIGNUM : t <= u => Aged(t) <= Aged(u)
  /\ Aged(BIGNUM) = BIGNUM
  /\ \A t \in ZERO .. BIGNUM - 1 : Aged(t) \in ZERO .. BIGNUM - 1 /\ (t >= 0 => Aged(t) = t - 1)
<1>1. BIGNUM \in Nat \ {0} /\ PAST = -1 /\ ZERO = -2
  BY Times
<1>2. \A t \in ZERO .. BIGNUM : Aged(t) = IF t = BIGNUM \/ t <= -1 THEN t ELSE t - 1
  BY <1>1 DEF Aged
<1>3. Aged(BIGNUM) = BIGNUM
  BY <1>1, <1>2
<1>4. /\ \A t \in ZERO .. BIGNUM : Aged(t) \in ZERO .. BIGNUM /\ Aged(t) <= t
      /\ \A t \in ZERO .. BIGNUM : t >= PAST => Aged(t) >= PAST
  BY <1>1, <1>2
<1>5. \A t, u \in ZERO .. BIGNUM : t <= u => Aged(t) <= Aged(u)
  BY <1>1, <1>2
<1>6. \A t \in ZERO .. BIGNUM - 1 : Aged(t) \in ZERO .. BIGNUM - 1 /\ (t >= 0 => Aged(t) = t - 1)
  BY <1>1, <1>2
<1>. QED  BY <1>3, <1>4, <1>5, <1>6

-------------------------------------------------------------------------------
(* Changes of a ROB. *)
LEMMA RobAppend ==
  ASSUME NEW S, NEW q \in Seq(S), NEW e \in S
  PROVE  /\ Append(q, e) \in Seq(S) /\ Len(Append(q, e)) = Len(q) + 1
         /\ Len(q) \in Nat /\ DOMAIN q = 1 .. Len(q)
         /\ DOMAIN Append(q, e) = 1 .. Len(q) + 1
         /\ \A i \in 1 .. Len(q) : Append(q, e)[i] = q[i]
         /\ Append(q, e)[Len(q) + 1] = e
OBVIOUS

LEMMA RobTail ==
  ASSUME NEW S, NEW q \in Seq(S), q # << >>
  PROVE  /\ Tail(q) \in Seq(S) /\ Len(Tail(q)) = Len(q) - 1
         /\ Len(q) \in Nat \ {0} /\ DOMAIN q = 1 .. Len(q) /\ Head(q) = q[1]
         /\ DOMAIN Tail(q) = 1 .. Len(q) - 1
         /\ \A i \in 1 .. Len(q) - 1 : Tail(q)[i] = q[i + 1]
OBVIOUS

LEMMA OrderAppendOther ==
  ASSUME NEW q \in Seq(RobEntry), NEW e \in RobEntry, ~IsRequest(e), NEW n \in Int,
         InOrder(q, n)
  PROVE  InOrder(Append(q, e), n)
<1>1. \A i \in DOMAIN Append(q, e) : IsRequest(Append(q, e)[i]) =>
        i \in DOMAIN q /\ Append(q, e)[i] = q[i]
  BY RobAppend
<1>2. DOMAIN q \subseteq DOMAIN Append(q, e) /\ \A i \in DOMAIN q : Append(q, e)[i] = q[i]
  BY RobAppend
<1>. QED  BY <1>1, <1>2, Zenon DEF InOrder

LEMMA OrderAppend ==
  ASSUME NEW q \in Seq(RobEntry), NEW e \in RobEntry, IsRequest(e), NEW n \in Int,
         InOrder(q, n), e.id = n + 1
  PROVE  InOrder(Append(q, e), n + 1)
<1>. DEFINE p == Append(q, e)
            l == Len(q) + 1
<1>1. /\ DOMAIN q = 1 .. Len(q) /\ DOMAIN p = 1 .. l /\ Len(q) \in Nat
      /\ \A i \in DOMAIN q : p[i] = q[i]
      /\ p[l] = e
  BY RobAppend
<1>. HIDE DEF p
<1>2. ASSUME NEW i \in DOMAIN p, IsRequest(p[i]), NEW j \in DOMAIN p, IsRequest(p[j]), i < j,
             \A k \in DOMAIN p : IsRequest(p[k]) => k <= i \/ k >= j
      PROVE  p[j].id = p[i].id + 1
  <2>1. i \in DOMAIN q /\ p[i] = q[i]
    BY <1>1, <1>2
  <2>2. CASE j \in DOMAIN q
    <3>1. \A k \in DOMAIN q : IsRequest(q[k]) => k <= i \/ k >= j
      BY <1>1, <1>2
    <3>2. IsRequest(q[j]) /\ IsRequest(q[i]) /\ p[j] = q[j]
      BY <1>1, <1>2, <2>1, <2>2
    <3>. QED  BY <1>2, <2>1, <2>2, <3>1, <3>2, Zenon DEF InOrder
  <2>3. CASE j \notin DOMAIN q
    <3>1. j = l
      BY <1>1, <2>3
    <3>2. \A k \in DOMAIN q : IsRequest(q[k]) => k <= i
      BY <1>1, <1>2, <3>1
    <3>3. q[i].id = n
      BY <1>2, <2>1, <3>2, Zenon DEF InOrder
    <3>. QED  BY <1>1, <2>1, <3>1, <3>3
  <2>. QED  BY <2>2, <2>3
<1>3. ASSUME NEW i \in DOMAIN p, \A j \in DOMAIN p : IsRequest(p[j]) => j <= i
      PROVE  p[i].id = n + 1
  <2>1. i = l
    BY <1>1, <1>3
  <2>. QED  BY <1>1, <2>1
<1>. QED  BY <1>2, <1>3, Zenon DEF InOrder, p

LEMMA OrderTail ==
  ASSUME NEW q \in Seq(RobEntry), q # << >>, NEW n \in Int, InOrder(q, n)
  PROVE  InOrder(Tail(q), n)
<1>. DEFINE p == Tail(q)
<1>1. /\ Len(q) \in Nat \ {0} /\ DOMAIN q = 1 .. Len(q) /\ DOMAIN p = 1 .. Len(q) - 1
      /\ \A i \in DOMAIN p : i + 1 \in DOMAIN q /\ p[i] = q[i + 1]
  BY RobTail
<1>. HIDE DEF p
<1>2. ASSUME NEW i \in DOMAIN p, IsRequest(p[i]), NEW j \in DOMAIN p, IsRequest(p[j]), i < j,
             \A k \in DOMAIN p : IsRequest(p[k]) => k <= i \/ k >= j
      PROVE  p[j].id = p[i].id + 1
  <2>1. /\ i + 1 \in DOMAIN q /\ j + 1 \in DOMAIN q /\ i + 1 < j + 1
        /\ IsRequest(q[i + 1]) /\ IsRequest(q[j + 1])
    BY <1>1, <1>2
  <2>2. ASSUME NEW k \in DOMAIN q, IsRequest(q[k]) PROVE k <= i + 1 \/ k >= j + 1
    <3>1. CASE k = 1
      BY <1>1, <3>1
    <3>2. CASE k # 1
      <4>1. k - 1 \in DOMAIN p /\ p[k - 1] = q[k]
        BY <1>1, <3>2
      <4>2. k - 1 <= i \/ k - 1 >= j
        BY <1>2, <2>2, <4>1
      <4>. QED  BY <1>1, <4>2
    <3>. QED  BY <3>1, <3>2
  <2>3. q[j + 1].id = q[i + 1].id + 1
    BY <2>1, <2>2, Zenon DEF InOrder
  <2>. QED  BY <1>1, <2>3
<1>3. ASSUME NEW i \in DOMAIN p, IsRequest(p[i]), \A j \in DOMAIN p : IsRequest(p[j]) => j <= i
      PROVE  p[i].id = n
  <2>1. i + 1 \in DOMAIN q /\ IsRequest(q[i + 1]) /\ p[i] = q[i + 1]
    BY <1>1, <1>3
  <2>2. ASSUME NEW k \in DOMAIN q, IsRequest(q[k]) PROVE k <= i + 1
    <3>1. CASE k = 1
      BY <1>1, <3>1
    <3>2. CASE k # 1
      <4>1. k - 1 \in DOMAIN p /\ p[k - 1] = q[k]
        BY <1>1, <3>2
      <4>2. k - 1 <= i
        BY <1>3, <2>2, <4>1
      <4>. QED  BY <1>1, <4>2
    <3>. QED  BY <3>1, <3>2
  <2>. QED  BY <2>1, <2>2, Zenon DEF InOrder
<1>. QED  BY <1>2, <1>3, Zenon DEF InOrder, p

(* Only the times change. *)
SameEntry(d, e) == d.kind = e.kind /\ d.id = e.id /\ d.line = e.line

SameRequests(p, q) == DOMAIN p = DOMAIN q /\ \A i \in DOMAIN q : SameEntry(p[i], q[i])

LEMMA OrderSame ==
  ASSUME NEW p, NEW q, SameRequests(p, q), NEW n, InOrder(q, n)
  PROVE  InOrder(p, n)
<1>1. DOMAIN p = DOMAIN q
  BY Zenon DEF SameRequests
<1>2. \A i \in DOMAIN q : p[i].id = q[i].id /\ (IsRequest(p[i]) <=> IsRequest(q[i]))
  BY Zenon DEF SameRequests, SameEntry, IsRequest
<1>. QED  BY <1>1, <1>2, ZenonT(60) DEF InOrder

LEMMA WaitsAppend ==
  ASSUME NEW q \in Seq(RobEntry), NEW e \in RobEntry, NEW id, NEW line, NEW t
  PROVE  /\ Waits(q, id, line, t) => Waits(Append(q, e), id, line, t)
         /\ e.kind = "R" /\ e.id = id /\ e.line = line /\ e.t >= t
              => Waits(Append(q, e), id, line, t)
<1>1. /\ \A i \in DOMAIN q : i \in DOMAIN Append(q, e) /\ Append(q, e)[i] = q[i]
      /\ Len(q) + 1 \in DOMAIN Append(q, e) /\ Append(q, e)[Len(q) + 1] = e
  BY RobAppend
<1>. QED  BY <1>1, Zenon DEF Waits

LEMMA WaitsTail ==
  ASSUME NEW q \in Seq(RobEntry), q # << >>, NEW id, NEW line, NEW t, Waits(q, id, line, t),
         ~(Head(q).kind = "R" /\ Head(q).id = id /\ Head(q).t >= t)
  PROVE  Waits(Tail(q), id, line, t)
<1>1. PICK i \in DOMAIN q : q[i].kind = "R" /\ q[i].id = id /\ q[i].line = line /\ q[i].t >= t
  BY Zenon DEF Waits
<1>2. Head(q) = q[1]
  BY RobTail
<1>3. i # 1
  BY <1>1, <1>2
<1>4. i - 1 \in DOMAIN Tail(q) /\ Tail(q)[i - 1] = q[i]
  BY <1>3, RobTail
<1>. QED  BY <1>1, <1>4, Zenon DEF Waits

LEMMA WaitsSame ==
  ASSUME NEW p, NEW q, SameRequests(p, q), NEW id, NEW line, NEW t, NEW u, Waits(q, id, line, t),
         \A i \in DOMAIN q :
           q[i].kind = "R" /\ q[i].id = id /\ q[i].line = line /\ q[i].t >= t => p[i].t >= u
  PROVE  Waits(p, id, line, u)
<1>1. PICK i \in DOMAIN q : q[i].kind = "R" /\ q[i].id = id /\ q[i].line = line /\ q[i].t >= t
  BY Zenon DEF Waits
<1>2. i \in DOMAIN p /\ p[i].kind = "R" /\ p[i].id = id /\ p[i].line = line /\ p[i].t >= u
  BY <1>1, Zenon DEF SameRequests, SameEntry
<1>. QED  BY <1>2, Zenon DEF Waits

LEMMA OnceIsOrder ==
  /\ EachFetchedOnce <=> InOrder(ROB, Fetched)
  /\ EachFetchedOnce' <=> InOrder(ROB, Fetched)'
<1>1. EachFetchedOnce <=> InOrder(ROB, Fetched)
  BY Zenon DEF EachFetchedOnce, InOrder, Requests, IsRequest
<1>2. EachFetchedOnce' <=> InOrder(ROB, Fetched)'
  BY Zenon DEF EachFetchedOnce, InOrder, Requests, IsRequest
<1>. QED  BY <1>1, <1>2

(* Which requests are fetched does not depend on the gate. *)
LEMMA NumberFetched ==
  ASSUME SourceType, Flags
  PROVE  /\ Fetched \in Int /\ Fetched <= cur.id /\ cur.id \in Nat
         /\ Newest \in Int /\ Newest <= invokectr + 1
BY DEF SourceType, Cur, Fetched, Newest

LEMMA KnownMore ==
  ASSUME NEW r, r.id \in Nat, r.line \in Lines, NEW m \in Int, NEW n \in Int, m <= n,
         NEW k \in Int, NEW l \in Int, k <= l, Known(r, m, k)
  PROVE  Known(r, n, l)
<1>1. MAX_ACCESS \in Nat
  BY GateAssumption
<1>. QED  BY <1>1 DEF Known, Lines

-------------------------------------------------------------------------------
(* A read or a write that is served. *)
ReadOf(r) == << r.op, "R" >>

AllServed(b, deleted) ==
  ~deleted /\ b \in BatchType /\ update_served_count(b)[b] = to_serve[b]

LEMMA CountServed ==
  ASSUME CountType, NEW b
  PROVE  /\ update_served_count(b) \in [ BatchType -> Nat ]
         /\ \A d \in BatchType :
              /\ d # b => update_served_count(b)[d] = cur_served[d]
              /\ update_served_count(b)[d] <= to_serve[d]
         /\ b \in BatchType /\ cur_served[b] < to_serve[b]
              => update_served_count(b)[b] = cur_served[b] + 1
<1>1. /\ cur_served \in [ BatchType -> Nat ]
      /\ \A d \in BatchType : cur_served[d] <= to_serve[d] /\ to_serve[d] \in Nat \ {0}
  BY Sizes DEF CountType
<1>2. CASE b \in BatchType /\ cur_served[b] < to_serve[b]
  <2>1. update_served_count(b) = [ cur_served EXCEPT ![b] = @ + 1 ]
    BY <1>2 DEF update_served_count, BatchType
  <2>2. \A d \in BatchType : update_served_count(b)[d] = IF d = b THEN cur_served[b] + 1 ELSE cur_served[d]
    BY <1>1, <1>2, <2>1
  <2>3. cur_served[b] + 1 \in Nat /\ cur_served[b] + 1 <= to_serve[b]
    BY <1>1, <1>2
  <2>4. update_served_count(b) \in [ BatchType -> Nat ]
    BY <1>1, <2>1, <2>3
  <2>. QED  BY <1>1, <1>2, <2>2, <2>3, <2>4
<1>3. CASE ~(b \in BatchType /\ cur_served[b] < to_serve[b])
  <2>1. update_served_count(b) = cur_served
    BY <1>3 DEF update_served_count, BatchType
  <2>. QED  BY <1>1, <1>3, <2>1
<1>. QED  BY <1>2, <1>3

LEMMA ExceedsIs ==
  ASSUME NEW t \in 0 .. BIGNUM - 1, NEW x \in Exceeds(t)
  PROVE  x \in BOOLEAN /\ (x <=> t > comptime_max)
<1>1. t # PAST
  BY Times
<1>. QED  BY <1>1, Zenon DEF Exceeds

LEMMA ReadServedIs ==
  ASSUME CountType, cur \in Cur, NEW r, r.id \in 0 .. cur.id, NEW t \in 0 .. BIGNUM - 1,
         NEW deleted \in BOOLEAN, ReadServed(r, t, deleted)
  PROVE  /\ comptime_max' \in 0 .. BIGNUM - 1 /\ comptime_max' >= t
         /\ \/ comptime_max' = t /\ longest_req' = r.id
            \/ comptime_max' = comptime_max /\ longest_req' = longest_req
         /\ longest_req' \in 0 .. cur.id
         /\ last_read_deleted' <=> deleted \/ AllServed(ReadOf(r), deleted)
         /\ last_read_deleted' \in BOOLEAN
         /\ AllServed(ReadOf(r), deleted) => determineReq' = longest_req'
         /\ ~AllServed(ReadOf(r), deleted) => determineReq' = determineReq
         /\ AllServed(ReadOf(r), deleted) => cur_served' = [ update_served_count(ReadOf(r)) EXCEPT ![ReadOf(r)] = 0 ]
         /\ ~AllServed(ReadOf(r), deleted) => cur_served' = update_served_count(ReadOf(r))
<1>. DEFINE b == ReadOf(r)
            s == update_served_count(b)
            all == ~deleted /\ b \in DOMAIN s /\ s[b] = to_serve[b]
<1>1. PICK x \in Exceeds(t) :
        /\ comptime_max' = IF x THEN t ELSE comptime_max
        /\ longest_req' = IF x THEN r.id ELSE longest_req
        /\ last_read_deleted' = (deleted \/ all)
        /\ determineReq' = IF all THEN longest_req' ELSE determineReq
        /\ cur_served' = IF all THEN [ s EXCEPT ![b] = 0 ] ELSE s
  BY Zenon DEF ReadServed, ReadOf
<1>2. DOMAIN s = BatchType
  BY CountServed
<1>3. all <=> AllServed(b, deleted)
  BY <1>2, Zenon DEF AllServed
<1>4. /\ comptime_max \in ZERO .. BIGNUM - 1 /\ longest_req \in 0 .. cur.id
  BY DEF CountType
<1>5. /\ comptime_max' \in 0 .. BIGNUM - 1 /\ comptime_max' >= t
      /\ \/ comptime_max' = t /\ longest_req' = r.id
         \/ comptime_max' = comptime_max /\ longest_req' = longest_req
      /\ longest_req' \in 0 .. cur.id
  BY <1>1, <1>4, ExceedsIs, Times
<1>6. last_read_deleted' \in BOOLEAN /\ (last_read_deleted' <=> deleted \/ all)
  BY <1>1, Zenon
<1>7. /\ all => determineReq' = longest_req' /\ cur_served' = [ s EXCEPT ![b] = 0 ]
      /\ ~all => determineReq' = determineReq /\ cur_served' = s
  <2>. HIDE DEF all, s
  <2>. QED  BY <1>1
<1>. HIDE DEF all
<1>. QED  BY <1>3, <1>5, <1>6, <1>7, Zenon

LEMMA ReadCount ==
  ASSUME CountType, cur \in Cur, NEW r, r.id \in 0 .. cur.id, NEW t \in 0 .. BIGNUM - 1,
         NEW deleted \in BOOLEAN, ReadServed(r, t, deleted)
  PROVE  /\ cur_served' \in [ BatchType -> Nat ]
         /\ \A d \in BatchType : cur_served'[d] <= to_serve[d]
         /\ \A d \in BatchType : d # ReadOf(r) => cur_served'[d] = cur_served[d]
         /\ determineReq' \in 0 .. cur.id
         /\ ReadOf(r) \notin BatchType => ~AllServed(ReadOf(r), deleted)
         /\ ReadOf(r) \in BatchType /\ cur_served[ReadOf(r)] < to_serve[ReadOf(r)] =>
              /\ AllServed(ReadOf(r), deleted) <=> ~deleted /\ cur_served[ReadOf(r)] + 1 = to_serve[ReadOf(r)]
              /\ cur_served'[ReadOf(r)] = IF AllServed(ReadOf(r), deleted) THEN 0 ELSE cur_served[ReadOf(r)] + 1
<1>. DEFINE b == ReadOf(r)
            s == update_served_count(b)
<1>1. /\ longest_req' \in 0 .. cur.id
      /\ AllServed(b, deleted) => determineReq' = longest_req'
      /\ ~AllServed(b, deleted) => determineReq' = determineReq
      /\ AllServed(b, deleted) => cur_served' = [ s EXCEPT ![b] = 0 ]
      /\ ~AllServed(b, deleted) => cur_served' = s
  BY ReadServedIs, Zenon
<1>2. /\ s \in [ BatchType -> Nat ]
      /\ \A d \in BatchType : (d # b => s[d] = cur_served[d]) /\ s[d] <= to_serve[d] /\ to_serve[d] \in Nat
      /\ b \in BatchType /\ cur_served[b] < to_serve[b] => s[b] = cur_served[b] + 1
  BY CountServed, Sizes
<1>3. AllServed(b, deleted) <=> ~deleted /\ b \in BatchType /\ s[b] = to_serve[b]
  BY Zenon DEF AllServed
<1>4. determineReq' \in 0 .. cur.id
  BY <1>1 DEF CountType
<1>. HIDE DEF s, b
<1>5. CASE AllServed(b, deleted)
  <2>1. cur_served' = [ s EXCEPT ![b] = 0 ]
    BY <1>1, <1>5
  <2>2. \A d \in BatchType : cur_served'[d] = IF d = b THEN 0 ELSE s[d]
    BY <1>2, <2>1
  <2>3. cur_served' \in [ BatchType -> Nat ]
    BY <1>2, <2>1
  <2>. QED  BY <1>2, <1>3, <1>4, <1>5, <2>2, <2>3 DEF b
<1>6. CASE ~AllServed(b, deleted)
  <2>1. cur_served' = s
    BY <1>1, <1>6
  <2>. QED  BY <1>2, <1>3, <1>4, <1>6, <2>1 DEF b
<1>. QED  BY <1>5, <1>6

LEMMA WriteServedIs ==
  ASSUME CountType, GateType, cur \in Cur, NEW r, r.id \in 0 .. cur.id, WriteServed(r, PAST)
  PROVE  LET b == << r.op, "W" >>
         IN  /\ comptime_max' = comptime_max \/ comptime_max' = PAST
             /\ comptime_max' \in ZERO .. BIGNUM - 1
             /\ comptime_max' >= 0 => comptime_max' = comptime_max /\ longest_req' = longest_req
             /\ longest_req' \in 0 .. cur.id
             /\ last_read_served' \in BOOLEAN /\ (last_read_served => last_read_served')
             /\ cur_served' \in [ BatchType -> Nat ]
             /\ \A d \in BatchType : cur_served'[d] <= to_serve[d]
             /\ \A d \in BatchType : d # b => cur_served'[d] = cur_served[d]
<1>. DEFINE b == << r.op, "W" >>
            s == update_served_count(b)
            all == ~last_read_served /\ b \in DOMAIN s /\ s[b] = to_serve[b]
<1>1. PICK x \in Exceeds(PAST) :
        /\ comptime_max' = IF x THEN PAST ELSE comptime_max
        /\ longest_req' = IF x THEN r.id ELSE longest_req
        /\ last_read_served' = (last_read_served \/ all)
        /\ cur_served' = IF all THEN [ s EXCEPT ![b] = 0 ] ELSE s
  BY Zenon DEF WriteServed
<1>2. /\ comptime_max \in ZERO .. BIGNUM - 1 /\ longest_req \in 0 .. cur.id
  BY DEF CountType
<1>3. /\ s \in [ BatchType -> Nat ] /\ DOMAIN s = BatchType
      /\ \A d \in BatchType : (d # b => s[d] = cur_served[d]) /\ s[d] <= to_serve[d] /\ to_serve[d] \in Nat
  BY CountServed, Sizes
<1>. HIDE DEF s
<1>4. /\ cur_served' \in [ BatchType -> Nat ]
      /\ \A d \in BatchType : cur_served'[d] <= to_serve[d]
      /\ \A d \in BatchType : d # b => cur_served'[d] = cur_served[d]
  <2>. HIDE DEF all
  <2>1. CASE all
    <3>1. cur_served' = [ s EXCEPT ![b] = 0 ]
      BY <1>1, <2>1
    <3>2. \A d \in BatchType : cur_served'[d] = IF d = b THEN 0 ELSE s[d]
      BY <1>3, <3>1
    <3>3. cur_served' \in [ BatchType -> Nat ]
      BY <1>3, <3>1
    <3>. QED  BY <1>3, <3>2, <3>3
  <2>2. CASE ~all
    BY <1>1, <1>3, <2>2
  <2>. QED  BY <2>1, <2>2
<1>5. last_read_served' \in BOOLEAN /\ (last_read_served => last_read_served')
  BY <1>1, Zenon
<1>6. longest_req' \in 0 .. cur.id
  BY <1>1, <1>2
<1>7. /\ comptime_max' = comptime_max \/ comptime_max' = PAST
      /\ comptime_max' \in ZERO .. BIGNUM - 1
      /\ comptime_max' >= 0 => comptime_max' = comptime_max /\ longest_req' = longest_req
  BY <1>1, <1>2, Times
<1>. QED  BY <1>4, <1>5, <1>6, <1>7

-------------------------------------------------------------------------------
(* What the steps leave alone. *)
SameReads(p, q) ==
  /\ \A r \in p : \E s \in q : s.op = r.op /\ s.id = r.id /\ s.line = r.line
  /\ \A s \in q : \E r \in p : s.op = r.op /\ s.id = r.id /\ s.line = r.line

LEMMA SameIds ==
  ASSUME NEW p, NEW q, SameReads(p, q)
  PROVE  Ids(p) = Ids(q)
<1>1. ASSUME NEW x \in Ids(p)
      PROVE  x \in Ids(q)
  <2>1. PICK r \in p : r.op \in OpType /\ x = r.id
    BY DEF Ids
  <2>2. PICK s \in q : s.op = r.op /\ s.id = r.id
    BY Zenon DEF SameReads
  <2>. QED  BY <2>1, <2>2 DEF Ids
<1>2. \A x \in Ids(q) : x \in Ids(p)
  BY DEF Ids, SameReads
<1>. QED  BY <1>1, <1>2, Zenon

LEMMA FetchedFrame ==
  ASSUME cur' = cur, invokectr' = invokectr, CurFetched' <=> CurFetched
  PROVE  Fetched' = Fetched /\ Newest' = Newest
BY Zenon DEF Fetched, Newest

LEMMA BatchFrame ==
  ASSUME BatchInv, UNCHANGED << invokectr, ring_evictctr, oramQ, cur, last_read_deleted >>,
         CurFetched' <=> CurFetched, SameReads(read_queue', read_queue),
         \A o \in OpType : cur_served'[<< o, "R" >>] = cur_served[<< o, "R" >>]
  PROVE  BatchInv'
<1>. SUFFICES ASSUME ring_evictctr = 0 PROVE NoEviction' /\ Counted'
  BY Zenon DEF BatchInv
<1>1. NoEviction /\ Counted
  BY Zenon DEF BatchInv
<1>2. Taken' = Taken /\ Fetched' = Fetched
  BY Zenon, FetchedFrame DEF Taken, Place
<1>3. Ids(read_queue') = Ids(read_queue)
  BY SameIds, Zenon
<1>4. \A r \in read_queue' :
        r.op \in OpType => r.op = cur.op /\ r.line = cur.line /\ r.id > Fetched - Taken
  BY <1>1, Zenon DEF Counted, SameReads
<1>5. NoEviction'
  BY <1>1, Zenon DEF NoEviction
<1>. QED  BY <1>1, <1>2, <1>3, <1>4, <1>5, Zenon DEF Counted

LEMMA SequenceFrame ==
  ASSUME InSequence, cur' = cur, oramQ' = oramQ
  PROVE  InSequence'
BY Zenon DEF InSequence, AtEnd, Follows

(* The reads in the memory and the ROB are left alone, and time stands.    *)
LEMMA CollectedFrame ==
  ASSUME NEW p, NEW q, NEW queue, NEW id, NEW t,
         \A line : Waits(p, id, line, t) => Waits(q, id, line, t)
  PROVE  /\ (\E line \in Lines : Collected(p, queue, id, line, t))
              => \E line \in Lines : Collected(q, queue, id, line, t)
         /\ t = PAST /\ InRob(p, id) => InRob(q, id)
<1>1. (\E line \in Lines : Collected(p, queue, id, line, t))
        => \E line \in Lines : Collected(q, queue, id, line, t)
  BY Zenon DEF Collected
<1>2. t = PAST /\ InRob(p, id) => InRob(q, id)
  BY Zenon DEF InRob
<1>. QED  BY <1>1, <1>2, Zenon

LEMMA ReadsFrame ==
  ASSUME ReadsAwaited, LongestInRob, UNCHANGED << read_queue, comptime_max, longest_req >>,
         Fetched \in Int, Fetched' \in Int, Fetched <= Fetched',
         Newest \in Int, Newest' \in Int, Newest <= Newest', Soonest' = Soonest,
         read_queue \in SUBSET QueuedRead,
         \A id, line, t : Waits(ROB, id, line, t) => Waits(ROB', id, line, t)
  PROVE  ReadsAwaited' /\ LongestInRob'
<1>1. ASSUME NEW r \in read_queue
      PROVE  /\ Waits(ROB', r.id, r.line, r.t) /\ Known(r, Fetched', Newest')
             /\ IF r.issued THEN Soonest <= r.t /\ r.t <= READ_TIME ELSE r.t = BIGNUM
  <2>1. r.id \in Nat /\ r.line \in Lines
    BY DEF QueuedRead
  <2>2. /\ Waits(ROB, r.id, r.line, r.t) /\ Known(r, Fetched, Newest)
        /\ IF r.issued THEN Soonest <= r.t /\ r.t <= READ_TIME ELSE r.t = BIGNUM
    BY Zenon DEF ReadsAwaited
  <2>3. Known(r, Fetched', Newest')
    BY <2>1, <2>2, KnownMore
  <2>. QED  BY <2>2, <2>3, Zenon
<1>2. ReadsAwaited'
  BY <1>1, Zenon DEF ReadsAwaited
<1>3. LongestInRob'
  BY CollectedFrame, Zenon DEF LongestInRob
<1>. QED  BY <1>2, <1>3

(* A step of the loops that moves no request and no read.                  *)
LEMMA QuietStep ==
  ASSUME Inv, UNCHANGED << source, ROB, memq, gate, count >>, ControlType',
         CurFetched' <=> CurFetched, Soonest' = Soonest
  PROVE  Inv'
<1>1. /\ ControlType /\ SourceType /\ MemoryType /\ GateType /\ CountType
      /\ Flags /\ InSequence /\ EachFetchedOnce /\ ReadsAwaited /\ LongestInRob
      /\ Wakeup /\ BatchInv
  BY Zenon DEF Inv
<1>2. /\ UNCHANGED << invokectr, ring_evictctr, oramQ, cur, nonmemops, ROB >>
      /\ UNCHANGED << read_queue, write_queue, write_served, drain_writes >>
      /\ UNCHANGED << last_read_served, last_lock_released, last_read_deleted >>
      /\ UNCHANGED << determineReq, longest_req, comptime_max, cur_served >>
  BY DEF source, memq, gate, count
<1>3. Fetched' = Fetched /\ Fetched \in Int /\ Newest' = Newest /\ Newest \in Int
  BY <1>1, <1>2, FetchedFrame, NumberFetched
<1>4. SourceType'
  BY <1>1, <1>2, Zenon DEF SourceType
<1>5. MemoryType'
  BY <1>1, <1>2, <1>3, Zenon DEF MemoryType
<1>6. GateType' /\ CountType' /\ Flags'
  BY <1>1, <1>2, Zenon DEF GateType, CountType, Flags
<1>7. InSequence'
  BY <1>1, <1>2, SequenceFrame
<1>8. EachFetchedOnce'
  BY <1>1, <1>2, <1>3, OnceIsOrder, Zenon
<1>9. ReadsAwaited' /\ LongestInRob'
  <2>1. /\ Fetched' \in Int /\ Fetched <= Fetched' /\ read_queue \in SUBSET QueuedRead
        /\ Newest' \in Int /\ Newest <= Newest'
    BY <1>1, <1>3 DEF MemoryType
  <2>. QED  BY <1>1, <1>2, <1>3, <2>1, ReadsFrame
<1>10. Wakeup'
  BY <1>1, <1>2, Zenon DEF Wakeup
<1>11. BatchInv'
  <2>1. SameReads(read_queue', read_queue)
    BY <1>2, Zenon DEF SameReads
  <2>. QED  BY <1>1, <1>2, <2>1, BatchFrame, Zenon
<1>. QED  BY <1>4, <1>5, <1>6, <1>7, <1>8, <1>9, <1>10, <1>11, Zenon DEF Inv

LEMMA Limits ==
  /\ 0 \in Lines
  /\ ROBSIZE \in Nat \ {0} /\ MAX_FETCH \in Nat \ {0} /\ MAX_RETIRE \in Nat \ {0}
  /\ MAX_NONMEM \in Nat /\ MAX_ACCESS \in Nat /\ WQ_CAPACITY \in Nat
  /\ PROCESSOR_CLK_MULTIPLIER \in Nat \ {0}
BY GateAssumption DEF Lines

LEMMA LoopsNext ==
  ASSUME Inv, RetireEnd \/ Enter \/ Wait \/ FetchEnd \/ Finish
  PROVE  Inv'
<1>1. /\ phase \in Phase /\ clk \in 0 .. PROCESSOR_CLK_MULTIPLIER - 1 /\ num \in Nat
      /\ num <= IF phase = "retire" THEN MAX_RETIRE
                ELSE IF phase \in { "memory", "gate" } THEN 0 ELSE MAX_FETCH
      /\ Flags
  BY DEF Inv, ControlType
<1>2. UNCHANGED << source, ROB, memq, gate, count >> /\ clk' = clk
  BY Zenon DEF RetireEnd, Enter, Wait, FetchEnd, Finish
<1>3. cur' = cur /\ last_lock_released' = last_lock_released
  BY <1>2 DEF source, gate
<1>4. CASE RetireEnd
  <2>1. /\ phase = "retire" /\ num' = 0 /\ phase' \in { "memory", "gate" }
        /\ phase' = "gate" => clk # 0
        /\ phase' = "memory" => clk = 0
    BY <1>4 DEF RetireEnd
  <2>2. ControlType'
    BY <1>1, <1>2, <2>1 DEF ControlType, Phase
  <2>3. CurFetched' <=> CurFetched
    BY <1>3, <2>1 DEF CurFetched
  <2>4. Soonest' = Soonest
    BY <1>2, <2>1 DEF Soonest
  <2>. QED  BY <1>2, <2>2, <2>3, <2>4, QuietStep
<1>5. CASE Enter \/ FetchEnd
  <2>1. /\ phase \in { "gate", "fetch" } /\ num' = num /\ phase' \in { "fetch", "tick" }
    BY <1>5 DEF Enter, FetchEnd, CanFetch
  <2>2. ControlType'
    BY <1>1, <1>2, <2>1, Limits DEF ControlType, Phase
  <2>3. CurFetched' <=> CurFetched
    BY <1>3, <2>1 DEF CurFetched
  <2>4. Soonest' = Soonest
    BY <1>2, <2>1 DEF Soonest
  <2>. QED  BY <1>2, <2>2, <2>3, <2>4, QuietStep
<1>6. CASE Wait \/ Finish
  <2>1. /\ phase = "next" /\ num' = num
        /\ phase' = "done" \/ (phase' = "fetch" /\ ~last_lock_released)
    BY <1>1, <1>6 DEF Wait, Finish, Open, Flags
  <2>2. ControlType'
    BY <1>1, <1>2, <2>1, Limits DEF ControlType, Phase
  <2>3. CurFetched' <=> CurFetched
    BY <1>3, <2>1 DEF CurFetched
  <2>4. Soonest' = Soonest
    BY <1>2, <2>1 DEF Soonest
  <2>. QED  BY <1>2, <2>2, <2>3, <2>4, QuietStep
<1>. QED  BY <1>4, <1>5, <1>6

(* An entry of the ROB that is no request: another instruction or a filler. *)
LEMMA OtherNext ==
  ASSUME Inv, FetchNonMem \/ FetchFiller
  PROVE  Inv'
<1>1. /\ ControlType /\ SourceType /\ MemoryType /\ GateType /\ CountType
      /\ Flags /\ InSequence /\ EachFetchedOnce /\ ReadsAwaited /\ LongestInRob
      /\ Wakeup /\ BatchInv
  BY Zenon DEF Inv
<1>2. /\ UNCHANGED << invokectr, ring_evictctr, oramQ, cur >>
      /\ UNCHANGED << read_queue, write_queue, write_served, drain_writes >>
      /\ UNCHANGED << last_read_served, last_lock_released, last_read_deleted >>
      /\ UNCHANGED << determineReq, longest_req, comptime_max, cur_served >>
  BY DEF FetchNonMem, FetchFiller, source, memq, gate, count
<1>3. PICK e \in RobEntry : e.kind \notin Type /\ ROB' = Append(ROB, e)
  <2>1. CASE FetchNonMem
    <3>. DEFINE e == Other("N", PIPELINEDEPTH)
    <3>1. e \in RobEntry /\ e.kind \notin Type
      BY Times, Limits DEF Other, RobEntry, Ops, Type
    <3>2. ROB' = Append(ROB, e)
      BY <2>1 DEF FetchNonMem
    <3>. QED  BY <3>1, <3>2
  <2>2. CASE FetchFiller
    <3>. DEFINE e == Other("D", PAST)
    <3>1. e \in RobEntry /\ e.kind \notin Type
      BY Times, Limits DEF Other, RobEntry, Ops, Type
    <3>2. ROB' = Append(ROB, e)
      BY <2>2 DEF FetchFiller
    <3>. QED  BY <3>1, <3>2
  <2>. QED  BY <2>1, <2>2
<1>4. /\ phase = "fetch" /\ num < MAX_FETCH /\ Len(ROB) # ROBSIZE /\ clk' = clk /\ num' = num + 1
      /\ phase' = "fetch" \/ (phase' = "next" /\ ~last_lock_released)
      /\ nonmemops' \in 0 .. MAX_NONMEM
  <2>1. nonmemops \in 0 .. MAX_NONMEM /\ MAX_NONMEM \in Nat
    BY <1>1, Limits DEF SourceType
  <2>2. CASE FetchNonMem
    BY <2>1, <2>2 DEF FetchNonMem, CanFetch
  <2>3. CASE FetchFiller
    BY <2>1, <2>3 DEF FetchFiller, CanFetch, source
  <2>. QED  BY <2>2, <2>3
<1>5. (CurFetched' <=> CurFetched) /\ Soonest' = Soonest
  BY <1>2, <1>4 DEF CurFetched, Soonest
<1>6. Fetched' = Fetched /\ Fetched \in Int /\ Newest' = Newest /\ Newest \in Int
  BY <1>1, <1>2, <1>5, FetchedFrame, NumberFetched
<1>7. ControlType'
  BY <1>1, <1>4, Limits DEF ControlType, Phase
<1>8. SourceType'
  BY <1>1, <1>2, <1>4, Zenon DEF SourceType
<1>9. MemoryType'
  <2>1. ROB \in Seq(RobEntry) /\ Len(ROB) <= ROBSIZE /\ ROBSIZE \in Nat
    BY <1>1, Limits DEF MemoryType
  <2>2. ROB' \in Seq(RobEntry) /\ Len(ROB') <= ROBSIZE
    BY <1>3, <1>4, <2>1, RobAppend
  <2>3. \A i \in DOMAIN ROB' : ROB'[i].kind \in Type => Known(ROB'[i], Fetched', Newest')
    <3>1. \A i \in DOMAIN ROB' : ROB'[i].kind \in Type => i \in DOMAIN ROB /\ ROB'[i] = ROB[i]
      BY <1>3, <2>1, RobAppend
    <3>. QED  BY <1>1, <1>6, <3>1, Zenon DEF MemoryType
  <2>. QED  BY <1>1, <1>2, <2>2, <2>3, Zenon DEF MemoryType
<1>10. GateType' /\ CountType' /\ Flags'
  BY <1>1, <1>2, Zenon DEF GateType, CountType, Flags
<1>11. InSequence'
  BY <1>1, <1>2, SequenceFrame
<1>12. ROB \in Seq(RobEntry) /\ ROB' \in Seq(RobEntry)
  BY <1>1, <1>9 DEF MemoryType
<1>13. EachFetchedOnce'
  <2>1. InOrder(ROB, Fetched)
    BY <1>1, OnceIsOrder
  <2>2. ~IsRequest(e)
    BY <1>3, Zenon DEF IsRequest
  <2>3. InOrder(ROB', Fetched)
    BY <1>3, <1>6, <1>12, <2>1, <2>2, OrderAppendOther
  <2>. QED  BY <1>6, <2>3, OnceIsOrder, Zenon
<1>14. \A id, line, t : Waits(ROB, id, line, t) => Waits(ROB', id, line, t)
  BY <1>3, <1>12, WaitsAppend
<1>15. ReadsAwaited' /\ LongestInRob'
  <2>1. /\ Fetched' \in Int /\ Fetched <= Fetched' /\ read_queue \in SUBSET QueuedRead
        /\ Newest' \in Int /\ Newest <= Newest'
    BY <1>1, <1>6 DEF MemoryType
  <2>. QED  BY <1>1, <1>2, <1>5, <1>6, <1>14, <2>1, ReadsFrame
<1>16. Wakeup'
  BY <1>1, <1>2, <1>14, CollectedFrame, Zenon DEF Wakeup
<1>17. BatchInv'
  <2>1. SameReads(read_queue', read_queue)
    BY <1>2, Zenon DEF SameReads
  <2>. QED  BY <1>1, <1>2, <1>5, <2>1, BatchFrame, Zenon
<1>. QED
  BY <1>7, <1>8, <1>9, <1>10, <1>11, <1>13, <1>15, <1>16, <1>17, Zenon DEF Inv

(* An entry leaves the ROB.  Its time is over, so no read of the memory and *)
(* no longest read is lost; the one that is waited for opens the gate.     *)
LEMMA RetireNext ==
  ASSUME Inv, Retire
  PROVE  Inv'
<1>. DEFINE h == Head(ROB)
            served == h.kind = "R" /\ h.id = determineReq /\ ~last_read_served
<1>1. /\ ControlType /\ SourceType /\ MemoryType /\ GateType /\ CountType
      /\ Flags /\ InSequence /\ EachFetchedOnce /\ ReadsAwaited /\ LongestInRob
      /\ Wakeup /\ BatchInv
  BY Zenon DEF Inv
<1>2. /\ UNCHANGED << phase, clk, invokectr, ring_evictctr, oramQ, cur, nonmemops >>
      /\ UNCHANGED << read_queue, write_queue, write_served, drain_writes >>
      /\ UNCHANGED << last_lock_released, last_read_deleted >>
  BY DEF Retire, source, memq
<1>3. /\ phase = "retire" /\ last_read_deleted /\ ROB # << >> /\ h.t = PAST /\ ROB' = Tail(ROB)
      /\ num' = IF h.kind = "D" \/ num = MAX_RETIRE THEN num ELSE num + 1
  BY DEF Retire, Retirable
<1>4. /\ ROB \in Seq(RobEntry) /\ h \in RobEntry /\ h = ROB[1] /\ 1 \in DOMAIN ROB
      /\ cur \in Cur /\ cur.id \in Nat
  BY <1>1, <1>3, RobTail DEF MemoryType, SourceType, Cur
<1>5. /\ Fetched' = Fetched /\ Fetched \in Int /\ Fetched <= cur.id
      /\ Newest' = Newest
  <2>1. CurFetched' <=> CurFetched
    BY <1>2, Zenon DEF CurFetched
  <2>. QED  BY <1>1, <1>2, <2>1, FetchedFrame, NumberFetched
<1>6. /\ comptime_max' \in ZERO .. BIGNUM - 1
      /\ comptime_max' >= 0 => comptime_max' = comptime_max /\ longest_req' = longest_req
      /\ longest_req' \in 0 .. cur.id /\ determineReq' \in 0 .. cur.id
      /\ last_read_served' \in BOOLEAN /\ (last_read_served => last_read_served')
      /\ cur_served' \in [ BatchType -> Nat ]
      /\ \A d \in BatchType : cur_served'[d] <= to_serve[d]
      /\ \A o \in OpType : cur_served'[<< o, "R" >>] = cur_served[<< o, "R" >>]
      /\ ~last_read_served' => determineReq' = determineReq /\ ~(h.kind = "R" /\ h.id = determineReq)
  <2>1. CASE h.kind = "W"
    <3>1. WriteServed(h, PAST) /\ determineReq' = determineReq
      BY <1>3, <2>1 DEF Retire
    <3>2. h.id \in 0 .. cur.id
      BY <1>1, <1>4, <1>5, <2>1 DEF MemoryType, Known, Type, RobEntry
    <3>3. /\ comptime_max' \in ZERO .. BIGNUM - 1
          /\ comptime_max' >= 0 => comptime_max' = comptime_max /\ longest_req' = longest_req
          /\ longest_req' \in 0 .. cur.id
          /\ last_read_served' \in BOOLEAN /\ (last_read_served => last_read_served')
          /\ cur_served' \in [ BatchType -> Nat ]
          /\ \A d \in BatchType : cur_served'[d] <= to_serve[d]
          /\ \A d \in BatchType : d # << h.op, "W" >> => cur_served'[d] = cur_served[d]
      <4>. HIDE DEF h
      <4>. QED  BY <1>1, <1>4, <3>1, <3>2, WriteServedIs, Zenon
    <3>4. determineReq' \in 0 .. cur.id
      BY <1>1, <3>1 DEF CountType
    <3>5. \A o \in OpType : << o, "R" >> \in BatchType /\ << o, "R" >> # << h.op, "W" >>
      BY DEF BatchType, Type
    <3>6. \A o \in OpType : cur_served'[<< o, "R" >>] = cur_served[<< o, "R" >>]
      BY <3>3, <3>5, Zenon
    <3>7. h.kind # "R"
      BY <2>1
    <3>. HIDE DEF h
    <3>. QED  BY <3>1, <3>3, <3>4, <3>6, <3>7, Zenon
  <2>2. CASE h.kind # "W"
    <3>1. /\ last_read_served' = (last_read_served \/ served)
          /\ determineReq' = IF served THEN 0 ELSE determineReq
          /\ UNCHANGED << longest_req, comptime_max, cur_served >>
      BY <2>2 DEF Retire
    <3>2. /\ last_read_served' \in BOOLEAN /\ (last_read_served => last_read_served')
          /\ ~last_read_served' => ~served /\ ~last_read_served
      BY <3>1, Zenon
    <3>3. ~last_read_served' => determineReq' = determineReq /\ ~(h.kind = "R" /\ h.id = determineReq)
      BY <3>1, <3>2, Zenon
    <3>4. determineReq' \in 0 .. cur.id
      BY <1>1, <1>4, <3>1 DEF CountType
    <3>. QED  BY <1>1, <3>1, <3>2, <3>3, <3>4, Zenon DEF CountType
  <2>. QED  BY <2>1, <2>2
<1>7. ControlType'
  BY <1>1, <1>2, <1>3, Limits DEF ControlType
<1>8. SourceType'
  BY <1>1, <1>2, Zenon DEF SourceType
<1>9. /\ ROB' \in Seq(RobEntry) /\ Len(ROB') = Len(ROB) - 1 /\ Len(ROB) \in Nat
      /\ \A i \in DOMAIN ROB' : i + 1 \in DOMAIN ROB /\ ROB'[i] = ROB[i + 1]
  BY <1>3, <1>4, RobTail
<1>10. MemoryType'
  <2>1. Len(ROB') <= ROBSIZE
    BY <1>1, <1>9, Limits DEF MemoryType
  <2>2. \A i \in DOMAIN ROB' : ROB'[i].kind \in Type => Known(ROB'[i], Fetched', Newest')
    BY <1>1, <1>5, <1>9, Zenon DEF MemoryType
  <2>. QED  BY <1>1, <1>2, <1>9, <2>1, <2>2, Zenon DEF MemoryType
<1>11. GateType' /\ CountType' /\ Flags'
  BY <1>1, <1>2, <1>3, <1>6, Zenon DEF GateType, CountType, Flags
<1>12. InSequence'
  BY <1>1, <1>2, SequenceFrame
<1>13. EachFetchedOnce'
  BY <1>1, <1>3, <1>4, <1>5, OnceIsOrder, OrderTail
<1>14. \A id, line : \A t \in Int : t > PAST /\ Waits(ROB, id, line, t) => Waits(ROB', id, line, t)
  BY <1>3, <1>4, WaitsTail, Times
<1>15. ReadsAwaited'
  <2>1. Soonest' = Soonest
    BY <1>2 DEF Soonest
  <2>2. ASSUME NEW r \in read_queue PROVE Waits(ROB', r.id, r.line, r.t)
    <3>1. r.t \in Int /\ r.t > PAST
      BY <1>1, Times DEF MemoryType, QueuedRead
    <3>. QED  BY <1>1, <1>14, <3>1, Zenon DEF ReadsAwaited
  <2>. QED  BY <1>1, <1>2, <1>5, <2>1, <2>2, Zenon DEF ReadsAwaited
<1>16. LongestInRob'
  <2>. SUFFICES ASSUME comptime_max' >= 0
                PROVE  \E line \in Lines : Collected(ROB', read_queue, longest_req, line, comptime_max)
    BY <1>2, <1>6, Zenon DEF LongestInRob
  <2>1. comptime_max \in Int /\ comptime_max > PAST /\ comptime_max >= 0
    BY <1>1, <1>6, Times DEF CountType
  <2>2. \E line \in Lines : Collected(ROB, read_queue, longest_req, line, comptime_max)
    BY <1>1, <2>1, Zenon DEF LongestInRob
  <2>3. \A line : Waits(ROB, longest_req, line, comptime_max) => Waits(ROB', longest_req, line, comptime_max)
    BY <1>14, <2>1, Zenon
  <2>. QED  BY <2>2, <2>3, CollectedFrame, Zenon
<1>17. Wakeup'
  <2>1. ASSUME ~last_read_served' PROVE InRob(ROB', determineReq')
    <3>1. InRob(ROB, determineReq)
      BY <1>1, <1>3, <1>6, <2>1, Zenon DEF Wakeup
    <3>2. PICK line \in Lines : Waits(ROB, determineReq, line, PAST)
      BY <3>1, Zenon DEF InRob
    <3>. HIDE DEF h
    <3>3. Waits(ROB', determineReq, line, PAST)
      BY <1>3, <1>4, <1>6, <2>1, <3>2, WaitsTail DEF h
    <3>. QED  BY <1>6, <2>1, <3>2, <3>3, Zenon DEF InRob
  <2>. QED  BY <2>1, Zenon DEF Wakeup
<1>18. BatchInv'
  <2>1. SameReads(read_queue', read_queue)
    BY <1>2, Zenon DEF SameReads
  <2>2. CurFetched' <=> CurFetched
    BY <1>2, Zenon DEF CurFetched
  <2>. QED  BY <1>1, <1>2, <1>6, <2>1, <2>2, BatchFrame, Zenon
<1>. QED
  BY <1>7, <1>8, <1>10, <1>11, <1>12, <1>13, <1>15, <1>16, <1>17, <1>18, Zenon DEF Inv

-------------------------------------------------------------------------------
(* The counts of a batch before the first eviction. *)
LEMMA CurBatch ==
  ASSUME SourceType, InSequence, NoEviction, cur.op \in OpType, cur.type = "R"
  PROVE  LET b == << cur.op, "R" >>
         IN  /\ b \in BatchType /\ to_serve[b] \in Nat \ {0} /\ Size(b) \in Nat \ {0}
             /\ Place \in Nat /\ Place >= 1 /\ Place <= to_serve[b] /\ Place <= Size(b)
             /\ Place = to_serve[b] => cur.last
             /\ cur.line = 0 => /\ cur.k = Place /\ to_serve[b] = Size(b)
                                /\ cur.last <=> cur.k = Size(b)
             /\ cur.line # 0 => cur.last
<1>. DEFINE b == << cur.op, "R" >>
<1>1. /\ b \in BatchType /\ to_serve[b] \in Nat \ {0} /\ Size(b) \in Nat \ {0}
      /\ b # << "e", "R" >> => to_serve[b] = Size(b)
  BY Sizes DEF BatchType, Type
<1>2. CASE cur.line = 0
  <2>1. b # << "e", "R" >>
    BY <1>2, Zenon DEF NoEviction
  <2>2. cur.k \in Nat /\ Place = cur.k
    BY <1>2 DEF SourceType, Cur, Place
  <2>3. cur.k >= 1 /\ cur.k <= Size(b) /\ (cur.last <=> cur.k \in LastOf(b))
    BY <1>2, Zenon DEF InSequence
  <2>4. LastOf(b) = { Size(b) }
    BY <2>1 DEF LastOf
  <2>. QED  BY <1>1, <1>2, <2>1, <2>2, <2>3, <2>4
<1>3. CASE cur.line # 0
  <2>1. cur.last /\ Place = 1
    BY <1>3, Zenon DEF NoEviction, Place
  <2>. QED  BY <1>1, <1>3, <2>1
<1>. QED  BY <1>2, <1>3

LEMMA WaitsLess ==
  ASSUME NEW q \in Seq(RobEntry), NEW id, NEW line, NEW t \in Int, NEW u \in Int, u <= t,
         Waits(q, id, line, t)
  PROVE  Waits(q, id, line, u)
<1>1. \A i \in DOMAIN q : q[i] \in RobEntry
  OBVIOUS
<1>2. \A i \in DOMAIN q : q[i].t \in Int
  BY <1>1, Times DEF RobEntry
<1>3. \A i \in DOMAIN q : q[i].t >= t => q[i].t >= u
  BY <1>2
<1>. QED  BY <1>3, Zenon DEF Waits

(* The flags after a read is served. *)
LEMMA WakeupServed ==
  ASSUME CountType, cur \in Cur, NEW r, r.id \in 0 .. cur.id, NEW t \in 0 .. BIGNUM - 1,
         NEW deleted \in BOOLEAN, ReadServed(r, t, deleted),
         ROB' \in Seq(RobEntry), LongestInRob',
         deleted /\ ~last_read_served' => InRob(ROB', determineReq)
  PROVE  Wakeup'
<1>. DEFINE b == ReadOf(r)
<1>1. /\ comptime_max' \in 0 .. BIGNUM - 1
      /\ last_read_deleted' <=> deleted \/ AllServed(b, deleted)
      /\ AllServed(b, deleted) => determineReq' = longest_req'
      /\ ~AllServed(b, deleted) => determineReq' = determineReq
  BY ReadServedIs, Zenon
<1>2. InRob(ROB', longest_req')
  <2>1. comptime_max' \in Int /\ comptime_max' >= 0 /\ PAST \in Int /\ PAST <= comptime_max'
    BY <1>1, Times
  <2>2. PICK line \in Lines : Waits(ROB', longest_req', line, comptime_max')
    BY <2>1, Zenon DEF LongestInRob, Collected
  <2>3. Waits(ROB', longest_req', line, PAST)
    BY <2>1, <2>2, WaitsLess
  <2>. QED  BY <2>2, <2>3, Zenon DEF InRob
<1>. QED  BY <1>1, <1>2, Zenon DEF Wakeup

LEMMA CleanNext ==
  ASSUME Inv, Clean
  PROVE  Inv'
<1>1. /\ ControlType /\ SourceType /\ MemoryType /\ GateType /\ CountType
      /\ Flags /\ InSequence /\ EachFetchedOnce /\ ReadsAwaited /\ LongestInRob
      /\ Wakeup /\ BatchInv
  BY Zenon DEF Inv
<1>2. /\ UNCHANGED << phase, clk, num, invokectr, ring_evictctr, oramQ, cur, nonmemops, ROB >>
      /\ UNCHANGED << write_queue, write_served, drain_writes >>
      /\ UNCHANGED << last_read_served, last_lock_released >>
  BY DEF Clean, source
<1>3. PICK r \in read_queue :
        r.issued /\ ReadServed(r, r.t, last_read_deleted) /\ read_queue' = read_queue \ { r }
  BY Zenon DEF Clean
<1>. DEFINE b == ReadOf(r)
<1>4. /\ Fetched \in Int /\ Fetched <= cur.id /\ cur \in Cur /\ cur.id \in Nat
      /\ Fetched' = Fetched /\ Newest' = Newest
      /\ (CurFetched' <=> CurFetched) /\ Soonest' = Soonest
  <2>1. (CurFetched' <=> CurFetched) /\ Soonest' = Soonest
    BY <1>2, Zenon DEF CurFetched, Soonest
  <2>. QED  BY <1>1, <1>2, <2>1, FetchedFrame, NumberFetched DEF SourceType
<1>5. /\ r.id \in 0 .. cur.id /\ r.t \in 0 .. BIGNUM - 1 /\ last_read_deleted \in BOOLEAN
      /\ Waits(ROB, r.id, r.line, r.t) /\ r.op \in Ops /\ r.line \in Lines
  <2>1. r.id \in Nat /\ r.t \in Nat /\ r.op \in Ops /\ r.line \in Lines
    BY <1>1, Times DEF MemoryType, QueuedRead
  <2>2. r.id <= Fetched /\ r.t <= READ_TIME /\ Waits(ROB, r.id, r.line, r.t)
    BY <1>1, <1>3, Zenon DEF ReadsAwaited, Known
  <2>. QED  BY <1>1, <1>4, <2>1, <2>2, Times DEF GateType
<1>6. /\ comptime_max' \in 0 .. BIGNUM - 1
      /\ \/ comptime_max' = r.t /\ longest_req' = r.id
         \/ comptime_max' = comptime_max /\ longest_req' = longest_req
      /\ longest_req' \in 0 .. cur.id
      /\ last_read_deleted' <=> last_read_deleted \/ AllServed(b, last_read_deleted)
      /\ last_read_deleted' \in BOOLEAN
  BY <1>1, <1>3, <1>4, <1>5, ReadServedIs, Zenon
<1>7. /\ cur_served' \in [ BatchType -> Nat ]
      /\ \A d \in BatchType : cur_served'[d] <= to_serve[d]
      /\ \A d \in BatchType : d # b => cur_served'[d] = cur_served[d]
      /\ determineReq' \in 0 .. cur.id
      /\ b \notin BatchType => ~AllServed(b, last_read_deleted)
      /\ b \in BatchType /\ cur_served[b] < to_serve[b] =>
           /\ AllServed(b, last_read_deleted)
                <=> ~last_read_deleted /\ cur_served[b] + 1 = to_serve[b]
           /\ cur_served'[b] = IF AllServed(b, last_read_deleted) THEN 0 ELSE cur_served[b] + 1
  BY <1>1, <1>3, <1>4, <1>5, ReadCount, Zenon
<1>8. ControlType' /\ SourceType'
  BY <1>1, <1>2, Zenon DEF ControlType, SourceType
<1>9. MemoryType'
  <2>1. read_queue' \in SUBSET QueuedRead
    BY <1>1, <1>3 DEF MemoryType
  <2>. QED  BY <1>1, <1>2, <1>4, <2>1, Zenon DEF MemoryType
<1>10. GateType' /\ Flags'
  BY <1>1, <1>2, <1>6, Zenon DEF GateType, Flags
<1>11. CountType'
  <2>1. comptime_max' \in ZERO .. BIGNUM - 1
    BY <1>6, Times
  <2>. QED  BY <1>2, <1>6, <1>7, <2>1, Zenon DEF CountType
<1>12. InSequence'
  BY <1>1, <1>2, SequenceFrame
<1>13. EachFetchedOnce'
  BY <1>1, <1>2, <1>4, OnceIsOrder, Zenon
<1>14. ReadsAwaited'
  BY <1>1, <1>2, <1>3, <1>4, Zenon DEF ReadsAwaited
<1>15. LongestInRob'
  <2>1. CASE comptime_max' = r.t /\ longest_req' = r.id
    <3>1. \A q \in read_queue' : q.id # r.id \/ q.line # r.line
      BY <1>1, <1>3, Zenon DEF ReadsAwaited
    <3>2. Collected(ROB', read_queue', longest_req', r.line, comptime_max')
      BY <1>2, <1>5, <2>1, <3>1, Zenon DEF Collected
    <3>. QED  BY <1>5, <3>2, Zenon DEF LongestInRob
  <2>2. CASE comptime_max' = comptime_max /\ longest_req' = longest_req
    <3>1. \A line : Collected(ROB, read_queue, longest_req, line, comptime_max)
            => Collected(ROB', read_queue', longest_req', line, comptime_max')
      BY <1>2, <1>3, <2>2, Zenon DEF Collected
    <3>. QED  BY <1>1, <2>2, <3>1, Zenon DEF LongestInRob
  <2>. QED  BY <1>6, <2>1, <2>2
<1>16. Wakeup'
  <2>1. ROB \in Seq(RobEntry) /\ ROB' \in Seq(RobEntry)
    BY <1>1, <1>2 DEF MemoryType
  <2>2. last_read_deleted /\ ~last_read_served' => InRob(ROB', determineReq)
    BY <1>1, <1>2, Zenon DEF Wakeup
  <2>. QED  BY <1>1, <1>3, <1>4, <1>5, <1>15, <2>1, <2>2, WakeupServed
<1>17. BatchInv'
  <2>. SUFFICES ASSUME ring_evictctr = 0 PROVE NoEviction' /\ Counted'
    BY <1>2, Zenon DEF BatchInv
  <2>1. NoEviction /\ Counted
    BY <1>1, Zenon DEF BatchInv
  <2>2. NoEviction'
    BY <1>2, <2>1, Zenon DEF NoEviction
  <2>. DEFINE I == Ids(read_queue)
              n == Cardinality(I)
  <2>3. CASE r.op \notin OpType
    <3>1. ~AllServed(b, last_read_deleted)
      BY <1>7, <2>3, Zenon DEF BatchType, ReadOf
    <3>2. (last_read_deleted' <=> last_read_deleted) /\ Taken' = Taken
      BY <1>2, <1>4, <1>6, <3>1, Zenon DEF Taken, Place
    <3>3. Ids(read_queue') = Ids(read_queue)
      BY <1>3, <2>3 DEF Ids
    <3>4. \A o \in OpType : cur_served'[<< o, "R" >>] = cur_served[<< o, "R" >>]
      BY <1>7, <2>3 DEF BatchType, Type, ReadOf
    <3>5. \A q \in read_queue' :
            q.op \in OpType => q.op = cur.op /\ q.line = cur.line /\ q.id > Fetched - Taken
      BY <1>3, <2>1, Zenon DEF Counted
    <3>. QED  BY <1>2, <1>4, <2>1, <2>2, <3>2, <3>3, <3>4, <3>5, Zenon DEF Counted
  <2>4. CASE r.op \in OpType
    <3>1. r.op = cur.op /\ cur.op \in OpType /\ IsFiniteSet(I)
      BY <2>1, <2>4, Zenon DEF Counted
    <3>2. r.id \in I /\ Ids(read_queue') = I \ { r.id }
      <4>1. r.id \in I
        BY <2>4, Zenon DEF Ids
      <4>2. \A x \in Ids(read_queue') : x \in I /\ x # r.id
        <5>1. \A q \in read_queue : q.op \in OpType => q.line = r.line
          BY <2>1, <2>4, Zenon DEF Counted
        <5>2. \A q \in read_queue : q.op \in OpType /\ q.id = r.id => q = r
          BY <1>1, <5>1, Zenon DEF ReadsAwaited
        <5>. QED  BY <1>3, <5>2 DEF Ids
      <4>3. \A x \in I \ { r.id } : x \in Ids(read_queue')
        BY <1>3 DEF Ids
      <4>. QED  BY <4>1, <4>2, <4>3
    <3>3. /\ n \in Nat /\ n >= 1 /\ IsFiniteSet(Ids(read_queue'))
          /\ Cardinality(Ids(read_queue')) = n - 1
      <4>1. n \in Nat /\ n # 0
        BY <3>1, <3>2, FS_CardinalityType, FS_EmptySet
      <4>2. IsFiniteSet(I \ { r.id }) /\ Cardinality(I \ { r.id }) = n - 1
        BY <3>1, <3>2, FS_RemoveElement
      <4>. QED  BY <3>2, <4>1, <4>2
    <3>4. b \in BatchType /\ cur_served[b] \in Nat /\ cur_served[b] = Taken - n
      <4>1. b \in BatchType
        BY <2>4 DEF BatchType, Type, ReadOf
      <4>. QED  BY <1>1, <2>1, <3>1, <4>1 DEF CountType, Counted, ReadOf
    <3>5. cur.type = "R" /\ ~(last_read_deleted /\ CurFetched /\ cur.last)
          /\ Taken = IF CurFetched THEN Place ELSE Place - 1
      <4>1. Taken # 0
        BY <3>3, <3>4
      <4>. QED  BY <4>1, Zenon DEF Taken
    <3>6. /\ to_serve[b] \in Nat \ {0}
          /\ Place \in Nat /\ Place >= 1 /\ Place <= to_serve[b]
          /\ Place = to_serve[b] => cur.last
      BY <1>1, <2>1, <3>1, <3>5, CurBatch DEF ReadOf
    <3>7. Taken \in Int /\ Taken <= to_serve[b] /\ cur_served[b] < to_serve[b]
      BY <3>3, <3>4, <3>5, <3>6
    <3>8. \A o \in OpType : o # cur.op => cur_served'[<< o, "R" >>] = 0
      <4>1. \A o \in OpType : << o, "R" >> \in BatchType /\ (o # cur.op => << o, "R" >> # b)
        BY <3>1 DEF BatchType, Type, ReadOf
      <4>. QED  BY <1>7, <2>1, <4>1, Zenon DEF Counted
    <3>9. CASE AllServed(b, last_read_deleted)
      <4>1. ~last_read_deleted /\ cur_served[b] + 1 = to_serve[b] /\ cur_served'[b] = 0
        BY <1>7, <3>4, <3>6, <3>7, <3>9
      <4>2. cur.last /\ CurFetched
        BY <1>1, <4>1, Zenon DEF Flags, CurFetched
      <4>3. n = 1
        BY <3>3, <3>4, <3>5, <3>6, <4>1, <4>2
      <4>4. Ids(read_queue') = {} /\ Cardinality(Ids(read_queue')) = 0
        BY <3>3, <4>3, FS_EmptySet
      <4>5. Taken' = 0
        BY <1>2, <1>4, <1>6, <3>9, <4>2, Zenon DEF Taken
      <4>6. \A q \in read_queue' : q.op \notin OpType
        BY <4>4 DEF Ids
      <4>7. \A o \in OpType : cur_served'[<< o, "R" >>] =
              IF o = cur.op THEN Taken' - Cardinality(Ids(read_queue')) ELSE 0
        <5>1. cur_served'[<< cur.op, "R" >>] = Taken' - Cardinality(Ids(read_queue'))
          BY <3>1, <4>1, <4>4, <4>5 DEF ReadOf
        <5>. QED  BY <3>8, <5>1, Zenon
      <4>. QED  BY <1>2, <2>2, <3>1, <3>3, <4>6, <4>7, Zenon DEF Counted
    <3>10. CASE ~AllServed(b, last_read_deleted)
      <4>1. cur_served'[b] = cur_served[b] + 1
        BY <1>7, <3>4, <3>7, <3>10
      <4>2. (last_read_deleted' <=> last_read_deleted) /\ Taken' = Taken
        BY <1>2, <1>4, <1>6, <3>10, Zenon DEF Taken, Place
      <4>3. \A o \in OpType : cur_served'[<< o, "R" >>] =
              IF o = cur.op THEN Taken - Cardinality(Ids(read_queue')) ELSE 0
        <5>1. cur_served'[b] = Taken - Cardinality(Ids(read_queue'))
          BY <3>3, <3>4, <3>7, <4>1
        <5>2. cur_served'[<< cur.op, "R" >>] = Taken - Cardinality(Ids(read_queue'))
          BY <3>1, <5>1 DEF ReadOf
        <5>. QED  BY <3>8, <5>2, Zenon
      <4>4. \A q \in read_queue' :
              q.op \in OpType => q.op = cur.op /\ q.line = cur.line /\ q.id > Fetched - Taken
        BY <1>3, <2>1, Zenon DEF Counted
      <4>. QED  BY <1>2, <1>4, <2>2, <3>1, <3>3, <4>2, <4>3, <4>4, Zenon DEF Counted
    <3>. QED  BY <3>9, <3>10
  <2>. QED  BY <2>3, <2>4
<1>. QED
  BY <1>8, <1>9, <1>10, <1>11, <1>12, <1>13, <1>14, <1>15, <1>16, <1>17, Zenon DEF Inv

-------------------------------------------------------------------------------
(* The steps that change only times: of the issued read, and of all. *)
LEMMA RobChanged ==
  ASSUME NEW q \in Seq(RobEntry), NEW p, DOMAIN p = DOMAIN q, p = [ i \in DOMAIN q |-> p[i] ],
         \A i \in DOMAIN q : p[i] \in RobEntry
  PROVE  p \in Seq(RobEntry) /\ Len(p) = Len(q)
<1>1. DOMAIN q = 1 .. Len(q) /\ Len(q) \in Nat
  OBVIOUS
<1>2. p \in [ 1 .. Len(q) -> RobEntry ]
  BY <1>1
<1>. QED  BY <1>1, <1>2

LEMMA IssuedRead ==
  ASSUME NEW r \in QueuedRead
  PROVE  LET p == [ r EXCEPT !.issued = TRUE, !.t = READ_TIME ]
         IN  p \in QueuedRead /\ p.id = r.id /\ p.line = r.line /\ p.op = r.op /\ p.issued /\ p.t = READ_TIME
<1>. DEFINE p == [ r EXCEPT !.issued = TRUE, !.t = READ_TIME ]
<1>1. READ_TIME \in 0 .. BIGNUM
  BY Times
<1>2. p \in QueuedRead /\ p.id = r.id /\ p.line = r.line /\ p.op = r.op /\ p.t = READ_TIME
  BY <1>1 DEF QueuedRead
<1>3. p.issued = TRUE
  BY DEF QueuedRead
<1>. QED  BY <1>2, <1>3

LEMMA ScheduleNext ==
  ASSUME Inv, NEW issued, issued = {} \/ (\E r \in read_queue : issued = { r }),
         NEW w \in { 0, 1 }, w <= Writes, Schedule(issued, w)
  PROVE  Inv'
<1>. DEFINE Issued(r) ==
              IF r \in issued THEN [ r EXCEPT !.issued = TRUE, !.t = READ_TIME ] ELSE r
            Is(i) == \E r \in issued : Same(r, ROB[i])
            Timed(i) ==
              IF Is(i) THEN [ ROB[i] EXCEPT !.t = READ_TIME + PIPELINEDEPTH ] ELSE ROB[i]
<1>1. /\ ControlType /\ SourceType /\ MemoryType /\ GateType /\ CountType
      /\ Flags /\ InSequence /\ EachFetchedOnce /\ ReadsAwaited /\ LongestInRob
      /\ Wakeup /\ BatchInv
  BY Zenon DEF Inv
<1>2. /\ UNCHANGED << clk, num, invokectr, ring_evictctr, oramQ, cur, nonmemops >>
      /\ UNCHANGED << last_read_served, last_lock_released, last_read_deleted >>
      /\ UNCHANGED << determineReq, longest_req, comptime_max, cur_served >>
      /\ phase = "memory" /\ phase' = "gate"
  BY DEF Schedule, source, gate, count
<1>3. /\ \A r \in read_queue : ~r.issued
      /\ drain_writes' = Drain /\ write_queue' = Writes /\ write_served' = w
      /\ read_queue' = { Issued(r) : r \in read_queue }
      /\ ROB' = [ i \in DOMAIN ROB |-> Timed(i) ]
  BY Zenon DEF Schedule
<1>4. /\ Fetched \in Int /\ Fetched' = Fetched /\ Newest' = Newest /\ (CurFetched' <=> CurFetched)
  <2>1. CurFetched' <=> CurFetched
    BY <1>2, Zenon DEF CurFetched
  <2>. QED  BY <1>1, <1>2, <2>1, FetchedFrame, NumberFetched
<1>5. /\ ROB \in Seq(RobEntry) /\ \A i \in DOMAIN ROB : ROB[i] \in RobEntry
      /\ issued \subseteq read_queue
      /\ \A r \in read_queue : r \in QueuedRead
  BY <1>1 DEF MemoryType
<1>6. ASSUME NEW i \in DOMAIN ROB
      PROVE  /\ Timed(i) \in RobEntry
             /\ SameEntry(Timed(i), ROB[i])
             /\ Is(i) => Timed(i).t = READ_TIME + PIPELINEDEPTH
             /\ ~Is(i) => Timed(i).t = ROB[i].t
  <2>1. ROB[i] \in RobEntry
    BY <1>5
  <2>2. CASE Is(i)
    <3>1. Timed(i) = [ ROB[i] EXCEPT !.t = READ_TIME + PIPELINEDEPTH ]
      BY <2>2, Zenon
    <3>. QED  BY <2>1, <2>2, <3>1, Times DEF RobEntry, SameEntry
  <2>3. CASE ~Is(i)
    <3>1. Timed(i) = ROB[i]
      BY <2>3, Zenon
    <3>. QED  BY <2>1, <2>3, <3>1, Zenon DEF SameEntry
  <2>. QED  BY <2>2, <2>3
<1>. HIDE DEF Timed
<1>7. /\ ROB' \in Seq(RobEntry) /\ Len(ROB') = Len(ROB) /\ DOMAIN ROB' = DOMAIN ROB
      /\ \A i \in DOMAIN ROB : ROB'[i] = Timed(i)
  <2>. HIDE DEF Is
  <2>1. DOMAIN ROB' = DOMAIN ROB /\ \A i \in DOMAIN ROB : ROB'[i] = Timed(i)
    BY <1>3
  <2>2. ROB' = [ i \in DOMAIN ROB |-> ROB'[i] ]
    BY <1>3
  <2>3. \A i \in DOMAIN ROB : ROB'[i] \in RobEntry
    BY <1>6, <2>1
  <2>. QED  BY <1>5, <2>1, <2>2, <2>3, RobChanged
<1>8. SameRequests(ROB', ROB)
  <2>. HIDE DEF Is
  <2>. QED  BY <1>6, <1>7, Zenon DEF SameRequests
<1>9. ASSUME NEW r \in read_queue
      PROVE  /\ Issued(r) \in QueuedRead /\ Issued(r).id = r.id /\ Issued(r).line = r.line
             /\ Issued(r).op = r.op
             /\ r \in issued => Issued(r).issued /\ Issued(r).t = READ_TIME
             /\ r \notin issued => Issued(r) = r
  <2>1. r \in QueuedRead
    BY <1>5
  <2>2. CASE r \in issued
    <3>1. Issued(r) = [ r EXCEPT !.issued = TRUE, !.t = READ_TIME ]
      BY <2>2, Zenon
    <3>. QED  BY <2>1, <2>2, <3>1, IssuedRead, Zenon
  <2>3. CASE r \notin issued
    <3>1. Issued(r) = r
      BY <2>3, Zenon
    <3>. QED  BY <2>1, <2>3, <3>1, Zenon
  <2>. QED  BY <2>2, <2>3
<1>. HIDE DEF Issued
<1>10. SameReads(read_queue', read_queue)
  <2>1. \A r \in read_queue' : \E s \in read_queue : s.op = r.op /\ s.id = r.id /\ s.line = r.line
    BY <1>3, <1>9
  <2>2. \A s \in read_queue : \E r \in read_queue' : s.op = r.op /\ s.id = r.id /\ s.line = r.line
    BY <1>3, <1>9
  <2>. QED  BY <2>1, <2>2, Zenon DEF SameReads
<1>11. ControlType' /\ SourceType'
  <2>1. ControlType'
    BY <1>1, <1>2 DEF ControlType, Phase
  <2>. QED  BY <1>1, <1>2, <2>1, Zenon DEF SourceType
<1>12. MemoryType'
  <2>1. /\ write_queue' \in Nat /\ write_queue' <= WQ_CAPACITY
        /\ write_served' \in Nat /\ write_served' <= write_queue'
    BY <1>1, <1>3, Limits DEF MemoryType, Writes
  <2>2. drain_writes' \in BOOLEAN
    BY <1>1, <1>3, Zenon DEF Drain, MemoryType
  <2>3. read_queue' \in SUBSET QueuedRead
    BY <1>3, <1>9
  <2>4. \A i \in DOMAIN ROB' : ROB'[i].kind \in Type => Known(ROB'[i], Fetched', Newest')
    BY <1>1, <1>4, <1>8, Zenon DEF SameRequests, SameEntry, Known, MemoryType
  <2>. QED  BY <1>1, <1>7, <2>1, <2>2, <2>3, <2>4, Zenon DEF MemoryType
<1>13. GateType' /\ CountType' /\ Flags'
  BY <1>1, <1>2, Zenon DEF GateType, CountType, Flags
<1>14. InSequence'
  BY <1>1, <1>2, SequenceFrame
<1>15. EachFetchedOnce'
  BY <1>1, <1>4, <1>8, OnceIsOrder, OrderSame
<1>16. ReadsAwaited'
  <2>1. Soonest' <= READ_TIME /\ Soonest' = READ_TIME - clk
    BY <1>1, <1>2, Times DEF Soonest, ControlType
  <2>2. ASSUME NEW r \in read_queue
        PROVE  /\ Waits(ROB', Issued(r).id, Issued(r).line, Issued(r).t)
               /\ Known(Issued(r), Fetched, Newest)
               /\ IF Issued(r).issued THEN Soonest' <= Issued(r).t /\ Issued(r).t <= READ_TIME
                  ELSE Issued(r).t = BIGNUM
    <3>1. /\ Waits(ROB, r.id, r.line, r.t) /\ Known(r, Fetched, Newest)
          /\ r.t = BIGNUM /\ ~r.issued
      BY <1>1, <1>3, Zenon DEF ReadsAwaited
    <3>2. Known(Issued(r), Fetched, Newest)
      BY <1>9, <3>1, Zenon DEF Known
    <3>3. CASE r \in issued
      <4>1. \A i \in DOMAIN ROB :
              ROB[i].kind = "R" /\ ROB[i].id = r.id /\ ROB[i].line = r.line => ROB'[i].t >= READ_TIME
        <5>1. \A i \in DOMAIN ROB : Is(i) => ROB'[i].t = READ_TIME + PIPELINEDEPTH
          BY <1>6, <1>7, Zenon
        <5>2. READ_TIME + PIPELINEDEPTH >= READ_TIME
          BY Times
        <5>. QED  BY <3>3, <5>1, <5>2, Zenon DEF Same
      <4>2. Waits(ROB', r.id, r.line, READ_TIME)
        BY <1>8, <3>1, <4>1, WaitsSame
      <4>3. READ_TIME <= READ_TIME
        BY Times
      <4>. QED  BY <1>9, <2>1, <3>1, <3>3, <3>2, <4>2, <4>3, Zenon
    <3>4. CASE r \notin issued
      <4>1. \A i \in DOMAIN ROB : ROB[i].id = r.id /\ ROB[i].line = r.line => ~Is(i)
        BY <1>1, <1>5, <3>4, Zenon DEF ReadsAwaited, Same
      <4>2. \A i \in DOMAIN ROB :
              ROB[i].id = r.id /\ ROB[i].line = r.line => ROB'[i].t = ROB[i].t
        BY <1>6, <1>7, <4>1, Zenon
      <4>3. \A i \in DOMAIN ROB :
              ROB[i].kind = "R" /\ ROB[i].id = r.id /\ ROB[i].line = r.line /\ ROB[i].t >= r.t
                => ROB'[i].t >= r.t
        BY <4>2, Zenon
      <4>4. Waits(ROB', r.id, r.line, r.t)
        BY <1>8, <3>1, <4>3, WaitsSame
      <4>. QED  BY <1>9, <3>1, <3>4, <3>2, <4>4, Zenon
    <3>. QED  BY <3>3, <3>4
  <2>3. ASSUME NEW r \in read_queue, NEW q \in read_queue,
               Issued(r).id = Issued(q).id, Issued(r).line = Issued(q).line
        PROVE  Issued(r) = Issued(q)
    <3>1. r.id = q.id /\ r.line = q.line
      BY <1>9, <2>3, Zenon
    <3>2. r = q
      BY <1>1, <3>1, Zenon DEF ReadsAwaited
    <3>. QED  BY <3>2
  <2>4. \A p \in read_queue' : \E r \in read_queue : p = Issued(r)
    BY <1>3
  <2>5. ASSUME NEW p \in read_queue'
        PROVE  /\ Waits(ROB', p.id, p.line, p.t) /\ Known(p, Fetched, Newest)
               /\ IF p.issued THEN Soonest' <= p.t /\ p.t <= READ_TIME ELSE p.t = BIGNUM
    BY <2>2, <2>4, Zenon
  <2>6. ASSUME NEW p \in read_queue', NEW u \in read_queue', p.id = u.id, p.line = u.line
        PROVE  p = u
    BY <2>3, <2>4, <2>6, Zenon
  <2>. QED  BY <1>4, <2>5, <2>6, Zenon DEF ReadsAwaited
<1>17. LongestInRob'
  <2>. SUFFICES ASSUME comptime_max >= 0
                PROVE  \E line \in Lines : Collected(ROB', read_queue', longest_req, line, comptime_max)
    BY <1>2, Zenon DEF LongestInRob
  <2>1. PICK line \in Lines : Collected(ROB, read_queue, longest_req, line, comptime_max)
    BY <1>1, Zenon DEF LongestInRob
  <2>2. /\ Waits(ROB, longest_req, line, comptime_max)
        /\ \A r \in read_queue : r.id # longest_req \/ r.line # line
    BY <2>1, Zenon DEF Collected
  <2>3. \A i \in DOMAIN ROB : ROB[i].id = longest_req /\ ROB[i].line = line => ~Is(i)
    BY <1>5, <2>2, Zenon DEF Same
  <2>4. \A i \in DOMAIN ROB :
          ROB[i].id = longest_req /\ ROB[i].line = line => ROB'[i].t = ROB[i].t
    BY <1>6, <1>7, <2>3, Zenon
  <2>5. \A i \in DOMAIN ROB :
          ROB[i].kind = "R" /\ ROB[i].id = longest_req /\ ROB[i].line = line
            /\ ROB[i].t >= comptime_max => ROB'[i].t >= comptime_max
    BY <2>4, Zenon
  <2>6. Waits(ROB', longest_req, line, comptime_max)
    BY <1>8, <2>2, <2>5, WaitsSame
  <2>7. ASSUME NEW r \in read_queue'
        PROVE  r.id # longest_req \/ r.line # line
    <3>1. PICK s \in read_queue : s.id = r.id /\ s.line = r.line
      BY <1>10, Zenon DEF SameReads
    <3>. QED  BY <2>2, <3>1, Zenon
  <2>. QED  BY <2>6, <2>7, Zenon DEF Collected
<1>18. Wakeup'
  <2>1. \A i \in DOMAIN ROB : ROB'[i].t >= PAST
    BY <1>6, <1>7, Times DEF RobEntry
  <2>2. \A id, line : Waits(ROB, id, line, PAST) => Waits(ROB', id, line, PAST)
    BY <1>8, <2>1, WaitsSame
  <2>. QED  BY <1>1, <1>2, <2>2, Zenon DEF Wakeup, InRob
<1>19. BatchInv'
  BY <1>1, <1>2, <1>4, <1>10, BatchFrame, Zenon
<1>. QED
  BY <1>11, <1>12, <1>13, <1>14, <1>15, <1>16, <1>17, <1>18, <1>19, Zenon DEF Inv

LEMMA IssueNext ==
  ASSUME Inv, IssueRead \/ IssueWrite \/ IssueNothing
  PROVE  Inv'
<1>1. Writes \in Nat
  BY DEF Inv, MemoryType, Writes
<1>2. CASE IssueRead
  <2>1. PICK r \in read_queue : Schedule({ r }, 0)
    BY <1>2, Zenon DEF IssueRead
  <2>2. 0 <= Writes /\ 0 \in { 0, 1 } /\ \E q \in read_queue : { r } = { q }
    BY <1>1
  <2>. QED  BY <2>1, <2>2, ScheduleNext, Zenon
<1>3. CASE IssueWrite
  <2>1. 1 <= Writes /\ 1 \in { 0, 1 }
    BY <1>1, <1>3 DEF IssueWrite
  <2>. QED  BY <1>3, <2>1, ScheduleNext, Zenon DEF IssueWrite
<1>4. CASE IssueNothing
  <2>1. 0 <= Writes /\ 0 \in { 0, 1 }
    BY <1>1
  <2>. QED  BY <1>4, <2>1, ScheduleNext, Zenon DEF IssueNothing
<1>. QED  BY <1>2, <1>3, <1>4

LEMMA NextClock ==
  ASSUME ControlType, phase = "tick", clk' = (clk + 1) % PROCESSOR_CLK_MULTIPLIER, phase' = "retire"
  PROVE  /\ clk' \in 0 .. PROCESSOR_CLK_MULTIPLIER - 1
         /\ Soonest \in Nat \ {0} /\ Soonest' = Soonest - 1
<1>. DEFINE M == PROCESSOR_CLK_MULTIPLIER
<1>1. M \in Nat \ {0} /\ M <= READ_TIME /\ READ_TIME \in Nat
  BY Times
<1>2. clk \in 0 .. M - 1
  BY DEF ControlType
<1>3. Soonest = READ_TIME - clk
  BY DEF Soonest
<1>4. Soonest' = IF clk' = 0 THEN READ_TIME - M ELSE READ_TIME - clk'
  BY DEF Soonest
<1>5. CASE clk + 1 < M
  <2>1. clk' = clk + 1
    BY <1>1, <1>2, <1>5
  <2>. QED  BY <1>1, <1>2, <1>3, <1>4, <1>5, <2>1
<1>6. CASE ~(clk + 1 < M)
  <2>1. clk + 1 = M /\ M % M = 0
    BY <1>1, <1>2, <1>6
  <2>2. clk' = 0
    BY <2>1
  <2>. QED  BY <1>1, <1>2, <1>3, <1>4, <2>1, <2>2
<1>. QED  BY <1>5, <1>6

LEMMA AgedRead ==
  ASSUME NEW r \in QueuedRead, Aged(r.t) \in 0 .. BIGNUM
  PROVE  LET p == [ r EXCEPT !.t = Aged(@) ]
         IN  /\ p \in QueuedRead /\ p.id = r.id /\ p.line = r.line /\ p.op = r.op /\ (p.issued <=> r.issued)
             /\ p.t = Aged(r.t)
<1>. DEFINE p == [ r EXCEPT !.t = Aged(@) ]
<1>1. p \in QueuedRead /\ p.id = r.id /\ p.line = r.line /\ p.op = r.op /\ p.t = Aged(r.t)
  BY DEF QueuedRead
<1>2. p.issued = r.issued
  BY DEF QueuedRead
<1>. QED  BY <1>1, <1>2

LEMMA AgedEntry ==
  ASSUME NEW e \in RobEntry
  PROVE  LET p == [ e EXCEPT !.t = Aged(@) ]
         IN  p \in RobEntry /\ SameEntry(p, e) /\ p.t = Aged(e.t)
<1>1. e.t \in ZERO .. BIGNUM /\ e.t >= PAST
  BY Times DEF RobEntry
<1>2. Aged(e.t) \in PAST .. BIGNUM
  BY <1>1, Aging, Times
<1>. QED  BY <1>2 DEF RobEntry, SameEntry

LEMMA TickNext ==
  ASSUME Inv, Tick
  PROVE  Inv'
<1>. DEFINE Older(r) == [ r EXCEPT !.t = Aged(@) ]
<1>1. /\ ControlType /\ SourceType /\ MemoryType /\ GateType /\ CountType
      /\ Flags /\ InSequence /\ EachFetchedOnce /\ ReadsAwaited /\ LongestInRob
      /\ Wakeup /\ BatchInv
  BY Zenon DEF Inv
<1>2. /\ UNCHANGED << invokectr, ring_evictctr, oramQ, cur, nonmemops >>
      /\ UNCHANGED << write_queue, write_served, drain_writes >>
      /\ UNCHANGED << last_read_served, last_lock_released, last_read_deleted >>
      /\ UNCHANGED << determineReq, longest_req, cur_served >>
      /\ phase = "tick" /\ phase' = "retire" /\ num' = 0
  BY DEF Tick, source, gate
<1>3. /\ read_queue' = { Older(r) : r \in read_queue }
      /\ ROB' = [ i \in DOMAIN ROB |-> Older(ROB[i]) ]
      /\ comptime_max' = Aged(comptime_max)
  BY DEF Tick
<1>4. /\ Fetched \in Int /\ Fetched' = Fetched /\ Newest' = Newest /\ (CurFetched' <=> CurFetched)
  <2>1. CurFetched' <=> CurFetched
    BY <1>2, Zenon DEF CurFetched
  <2>. QED  BY <1>1, <1>2, <2>1, FetchedFrame, NumberFetched
<1>5. /\ clk' \in 0 .. PROCESSOR_CLK_MULTIPLIER - 1
      /\ Soonest \in Nat \ {0} /\ Soonest' = Soonest - 1
  <2>1. clk' = (clk + 1) % PROCESSOR_CLK_MULTIPLIER
    BY DEF Tick
  <2>. QED  BY <1>1, <1>2, <2>1, NextClock
<1>6. /\ ROB \in Seq(RobEntry) /\ \A i \in DOMAIN ROB : ROB[i] \in RobEntry
      /\ \A r \in read_queue : r \in QueuedRead
  BY <1>1 DEF MemoryType
<1>7. ASSUME NEW i \in DOMAIN ROB
      PROVE  /\ ROB'[i] \in RobEntry /\ SameEntry(ROB'[i], ROB[i])
             /\ ROB'[i].t = Aged(ROB[i].t)
  <2>1. ROB'[i] = Older(ROB[i])
    BY <1>3
  <2>. QED  BY <1>6, <2>1, AgedEntry
<1>8. ROB' \in Seq(RobEntry) /\ Len(ROB') = Len(ROB) /\ DOMAIN ROB' = DOMAIN ROB
  <2>. HIDE DEF Older
  <2>1. DOMAIN ROB' = DOMAIN ROB /\ ROB' = [ i \in DOMAIN ROB |-> ROB'[i] ]
    BY <1>3
  <2>. QED  BY <1>6, <1>7, <2>1, RobChanged
<1>9. SameRequests(ROB', ROB)
  BY <1>7, <1>8, Zenon DEF SameRequests
<1>10. ASSUME NEW r \in read_queue
       PROVE  /\ Older(r) \in QueuedRead /\ Older(r).id = r.id /\ Older(r).line = r.line
              /\ Older(r).op = r.op
              /\ Older(r).issued <=> r.issued
              /\ Older(r).t = Aged(r.t)
              /\ IF r.issued THEN Aged(r.t) = r.t - 1 ELSE r.t = BIGNUM /\ Aged(r.t) = BIGNUM
  <2>1. r \in QueuedRead /\ r.t \in Nat
    BY <1>6, Times DEF QueuedRead
  <2>2. IF r.issued THEN Soonest <= r.t /\ r.t <= READ_TIME ELSE r.t = BIGNUM
    BY <1>1, Zenon DEF ReadsAwaited
  <2>3. CASE r.issued
    <3>1. r.t >= 1 /\ r.t \in ZERO .. BIGNUM - 1
      BY <1>5, <2>1, <2>2, <2>3, Times
    <3>2. Aged(r.t) = r.t - 1
      BY <2>1, <3>1, Aging
    <3>3. Aged(r.t) \in 0 .. BIGNUM
      BY <3>1, <3>2, Times
    <3>. QED  BY <2>1, <2>3, <3>2, <3>3, AgedRead, Zenon
  <2>4. CASE ~r.issued
    <3>1. r.t = BIGNUM /\ Aged(r.t) = BIGNUM /\ BIGNUM \in 0 .. BIGNUM
      BY <2>2, <2>4, Aging, Times
    <3>. QED  BY <2>1, <2>4, <3>1, AgedRead, Zenon
  <2>. QED  BY <2>3, <2>4
<1>. HIDE DEF Older
<1>11. SameReads(read_queue', read_queue)
  <2>1. \A r \in read_queue' : \E s \in read_queue : s.op = r.op /\ s.id = r.id /\ s.line = r.line
    BY <1>3, <1>10
  <2>2. \A s \in read_queue : \E r \in read_queue' : s.op = r.op /\ s.id = r.id /\ s.line = r.line
    BY <1>3, <1>10
  <2>. QED  BY <2>1, <2>2, Zenon DEF SameReads
<1>12. ControlType' /\ SourceType'
  <2>1. ControlType'
    BY <1>1, <1>2, <1>5, Limits DEF ControlType, Phase
  <2>. QED  BY <1>1, <1>2, <2>1, Zenon DEF SourceType
<1>13. MemoryType'
  <2>1. read_queue' \in SUBSET QueuedRead
    BY <1>3, <1>10
  <2>2. \A i \in DOMAIN ROB' : ROB'[i].kind \in Type => Known(ROB'[i], Fetched', Newest')
    BY <1>1, <1>4, <1>9, Zenon DEF SameRequests, SameEntry, Known, MemoryType
  <2>. QED  BY <1>1, <1>2, <1>8, <2>1, <2>2, Zenon DEF MemoryType
<1>14. GateType' /\ CountType' /\ Flags'
  <2>1. comptime_max' \in ZERO .. BIGNUM - 1
    BY <1>1, <1>3, Aging DEF CountType
  <2>. QED  BY <1>1, <1>2, <2>1, Zenon DEF GateType, CountType, Flags
<1>15. InSequence'
  BY <1>1, <1>2, SequenceFrame
<1>16. EachFetchedOnce'
  BY <1>1, <1>4, <1>9, OnceIsOrder, OrderSame
<1>17. ASSUME NEW id, NEW line, NEW t \in ZERO .. BIGNUM, Waits(ROB, id, line, t)
       PROVE  Waits(ROB', id, line, Aged(t))
  <2>1. ASSUME NEW i \in DOMAIN ROB, ROB[i].t >= t PROVE ROB'[i].t >= Aged(t)
    <3>1. ROB[i].t \in ZERO .. BIGNUM
      BY <1>6, Times DEF RobEntry
    <3>2. Aged(t) <= Aged(ROB[i].t) /\ Aged(t) \in Int /\ Aged(ROB[i].t) \in Int
      BY <2>1, <3>1, Aging, Times
    <3>. QED  BY <1>7, <3>2
  <2>. QED  BY <1>9, <1>17, <2>1, WaitsSame
<1>18. ReadsAwaited'
  <2>1. ASSUME NEW r \in read_queue
        PROVE  /\ Waits(ROB', r.id, r.line, Aged(r.t)) /\ Known(r, Fetched, Newest)
               /\ IF r.issued THEN Soonest' <= Aged(r.t) /\ Aged(r.t) <= READ_TIME
                  ELSE Aged(r.t) = BIGNUM
    <3>1. /\ Waits(ROB, r.id, r.line, r.t) /\ Known(r, Fetched, Newest)
          /\ IF r.issued THEN Soonest <= r.t /\ r.t <= READ_TIME ELSE r.t = BIGNUM
      BY <1>1, Zenon DEF ReadsAwaited
    <3>2. r.t \in ZERO .. BIGNUM /\ r.t \in Int
      BY <1>6, Times DEF QueuedRead
    <3>3. r.issued => Soonest' <= Aged(r.t) /\ Aged(r.t) <= READ_TIME
      <4>1. r.issued => Aged(r.t) = r.t - 1 /\ Soonest <= r.t /\ r.t <= READ_TIME
        BY <1>10, <3>1, Zenon
      <4>. QED  BY <1>5, <3>2, <4>1, Times
    <3>4. ~r.issued => Aged(r.t) = BIGNUM
      BY <1>10, Zenon
    <3>. QED  BY <1>17, <3>1, <3>2, <3>3, <3>4, Zenon
  <2>2. \A p \in read_queue' : \E r \in read_queue : p = Older(r)
    BY <1>3
  <2>3. ASSUME NEW p \in read_queue'
        PROVE  /\ Waits(ROB', p.id, p.line, p.t) /\ Known(p, Fetched, Newest)
               /\ IF p.issued THEN Soonest' <= p.t /\ p.t <= READ_TIME ELSE p.t = BIGNUM
    <3>1. PICK r \in read_queue : p = Older(r)
      BY <2>2
    <3>2. p.id = r.id /\ p.line = r.line /\ p.t = Aged(r.t) /\ (p.issued <=> r.issued)
      BY <1>10, <3>1, Zenon
    <3>. QED  BY <2>1, <3>2, Zenon DEF Known
  <2>4. ASSUME NEW p \in read_queue', NEW u \in read_queue', p.id = u.id, p.line = u.line
        PROVE  p = u
    <3>1. PICK r \in read_queue : p = Older(r)
      BY <2>2
    <3>2. PICK q \in read_queue : u = Older(q)
      BY <2>2
    <3>3. r.id = q.id /\ r.line = q.line
      BY <1>10, <2>4, <3>1, <3>2, Zenon
    <3>4. r = q
      BY <1>1, <3>3, Zenon DEF ReadsAwaited
    <3>. QED  BY <3>1, <3>2, <3>4
  <2>. QED  BY <1>4, <2>3, <2>4, Zenon DEF ReadsAwaited
<1>19. LongestInRob'
  <2>. SUFFICES ASSUME comptime_max' >= 0
                PROVE  \E line \in Lines : Collected(ROB', read_queue', longest_req, line, comptime_max')
    BY <1>2, Zenon DEF LongestInRob
  <2>1. comptime_max \in ZERO .. BIGNUM /\ comptime_max >= 0
    BY <1>1, <1>3, Aging, Times DEF CountType
  <2>2. PICK line \in Lines : Collected(ROB, read_queue, longest_req, line, comptime_max)
    BY <1>1, <2>1, Zenon DEF LongestInRob
  <2>3. ASSUME NEW r \in read_queue'
        PROVE  r.id # longest_req \/ r.line # line
    <3>1. PICK s \in read_queue : s.id = r.id /\ s.line = r.line
      BY <1>11, Zenon DEF SameReads
    <3>. QED  BY <2>2, <3>1, Zenon DEF Collected
  <2>4. Waits(ROB', longest_req, line, comptime_max')
    BY <1>3, <1>17, <2>1, <2>2, Zenon DEF Collected
  <2>. QED  BY <2>3, <2>4, Zenon DEF Collected
<1>20. Wakeup'
  <2>1. PAST \in ZERO .. BIGNUM /\ Aged(PAST) = PAST
    BY Times DEF Aged
  <2>2. \A id, line : Waits(ROB, id, line, PAST) => Waits(ROB', id, line, PAST)
    BY <1>17, <2>1
  <2>. QED  BY <1>1, <1>2, <2>2, Zenon DEF Wakeup, InRob
<1>21. BatchInv'
  BY <1>1, <1>2, <1>4, <1>11, BatchFrame, Zenon
<1>. QED
  BY <1>12, <1>13, <1>14, <1>15, <1>16, <1>18, <1>19, <1>20, <1>21, Zenon DEF Inv

-------------------------------------------------------------------------------
(* The last request of a batch was fetched and the gate is open.           *)
LEMMA BatchOver ==
  ASSUME SourceType, CountType, Flags, InSequence, BatchInv, ring_evictctr = 0,
         last_read_served, CurFetched, AtEnd
  PROVE  /\ NoEviction
         /\ cur.op \in OpType => cur.last
         /\ Ids(read_queue) = {} /\ IsFiniteSet(Ids(read_queue))
         /\ Cardinality(Ids(read_queue)) = 0
         /\ \A r \in read_queue : r.op \notin OpType
         /\ \A o \in OpType : cur_served[<< o, "R" >>] = 0
<1>1. NoEviction /\ Counted
  BY Zenon DEF BatchInv
<1>2. cur.op \in OpType => cur.last
  <2>1. CASE cur.line = 0
    <3>. DEFINE b == << cur.op, cur.type >>
    <3>1. b # << "e", "R" >> /\ cur.k = Size(b) /\ (cur.last <=> cur.k \in LastOf(b))
      BY <1>1, <2>1, Zenon DEF NoEviction, AtEnd, InSequence
    <3>2. LEVELS \in 1 .. LEVELS /\ LZ * LEVELS = LEVELS * LZ
      BY GateAssumption
    <3>3. Size(b) \in LastOf(b)
      <4>1. CASE b = << "e", "W" >>
        BY <3>2, <4>1 DEF Size, LastOf
      <4>2. CASE b # << "e", "W" >>
        BY <3>1, <4>2 DEF LastOf
      <4>. QED  BY <4>1, <4>2
    <3>. QED  BY <3>1, <3>3
  <2>2. CASE cur.line # 0
    BY <1>1, <2>2, Zenon DEF NoEviction
  <2>. QED  BY <2>1, <2>2
<1>3. Taken = 0
  <2>1. last_read_deleted
    BY Zenon DEF Flags
  <2>. QED  BY <1>2, <2>1, Zenon DEF Taken
<1>4. Ids(read_queue) = {}
  <2>1. CASE cur.op \in OpType
    <3>1. << cur.op, "R" >> \in BatchType
      BY <2>1 DEF BatchType, Type
    <3>2. cur_served[<< cur.op, "R" >>] \in Nat
      BY <3>1 DEF CountType
    <3>3. cur_served[<< cur.op, "R" >>] = 0 - Cardinality(Ids(read_queue))
      BY <1>1, <1>3, <2>1 DEF Counted
    <3>4. IsFiniteSet(Ids(read_queue)) /\ Cardinality(Ids(read_queue)) \in Nat
      BY <1>1, FS_CardinalityType DEF Counted
    <3>5. Cardinality(Ids(read_queue)) = 0
      BY <3>2, <3>3, <3>4
    <3>. QED  BY <3>4, <3>5, FS_EmptySet
  <2>2. CASE cur.op \notin OpType
    BY <1>1, <2>2, Zenon DEF Counted
  <2>. QED  BY <2>1, <2>2
<1>5. Cardinality(Ids(read_queue)) = 0 /\ IsFiniteSet(Ids(read_queue))
  BY <1>4, FS_EmptySet
<1>6. \A r \in read_queue : r.op \notin OpType
  BY <1>4 DEF Ids
<1>7. \A o \in OpType : cur_served[<< o, "R" >>] = 0
  <2>1. \A o \in OpType : o = cur.op => cur_served[<< cur.op, "R" >>] = Taken - Cardinality(Ids(read_queue))
    BY <1>1, Zenon DEF Counted
  <2>2. \A o \in OpType : o = cur.op => cur_served[<< cur.op, "R" >>] = 0
    BY <1>3, <1>5, <2>1
  <2>. QED  BY <1>1, <2>2, Zenon DEF Counted
<1>. QED  BY <1>1, <1>2, <1>4, <1>5, <1>6, <1>7, Zenon

(* An access is invoked when the last one was dequeued.  If it inserts no   *)
(* request, the line of the trace is fetched next.                         *)
LEMMA InvokeNext ==
  ASSUME Inv, Invoke
  PROVE  Inv'
<1>1. /\ ControlType /\ SourceType /\ MemoryType /\ GateType /\ CountType
      /\ Flags /\ InSequence /\ EachFetchedOnce /\ ReadsAwaited /\ LongestInRob
      /\ Wakeup /\ BatchInv
  BY Zenon DEF Inv
<1>2. /\ UNCHANGED << clk, num, ROB >> /\ phase = "next" /\ last_read_served
      /\ UNCHANGED << read_queue, write_queue, write_served, drain_writes >>
      /\ UNCHANGED << last_read_served, last_lock_released, last_read_deleted >>
      /\ UNCHANGED << determineReq, longest_req, comptime_max, cur_served >>
      /\ oramQ = << >> /\ invokectr < MAX_ACCESS
      /\ invokectr' = invokectr + 1 /\ nonmemops' \in 0 .. MAX_NONMEM
  BY DEF Invoke, memq, gate, count, Open
<1>3. PICK acc \in Accesses, type \in Type :
        /\ cur' = TraceLine(cur, type, invokectr + 1)
        /\ phase' = IF acc = << >> THEN "fetch" ELSE "next"
        /\ oramQ' = insert_oramQ(acc)
        /\ ring_evictctr' =
             ring_evictctr + (IF \E i \in DOMAIN acc : acc[i] = << "e", "R" >> THEN 1 ELSE 0)
  BY Zenon DEF Invoke
<1>4. acc \in Seq(BatchType) /\ DOMAIN acc = 1 .. Len(acc) /\ Len(acc) \in Nat
  BY GateAssumption DEF BatchType
<1>5. /\ DOMAIN oramQ' = 1 .. Len(acc)
      /\ \A i \in 1 .. Len(acc) : /\ acc[i] \in BatchType /\ oramQ'[i] = [ b |-> acc[i], k |-> 1 ]
                                  /\ oramQ'[i] \in Queued /\ oramQ'[i].b = acc[i] /\ oramQ'[i].k = 1
      /\ oramQ' \in Seq(Queued)
  <2>1. oramQ' = [ i \in 1 .. Len(acc) |-> [ b |-> acc[i], k |-> 1 ] ]
    BY <1>3, <1>4 DEF insert_oramQ
  <2>2. \A i \in 1 .. Len(acc) : acc[i] \in BatchType
    BY <1>4
  <2>3. \A i \in 1 .. Len(acc) : [ b |-> acc[i], k |-> 1 ] \in Queued
    BY <2>2 DEF Queued
  <2>4. oramQ' \in [ 1 .. Len(acc) -> Queued ]
    BY <2>1, <2>3
  <2>. QED  BY <1>4, <2>1, <2>2, <2>3, <2>4
<1>6. /\ cur' \in Cur /\ cur'.type \in Type /\ cur'.line = invokectr + 2 /\ cur'.line # 0
      /\ cur'.op = cur.op /\ cur'.last = cur.last /\ cur'.id = cur.id
  <2>1. cur \in Cur /\ invokectr \in 0 .. MAX_ACCESS /\ MAX_ACCESS \in Nat
    BY <1>1, Limits, Zenon DEF SourceType
  <2>2. invokectr + 2 \in Lines /\ invokectr + 2 # 0 /\ (invokectr + 1) + 1 = invokectr + 2
    BY <1>2, <2>1 DEF Lines
  <2>3. cur' = [ cur EXCEPT !.type = type, !.line = invokectr + 2 ]
    BY <1>3, <2>2, Zenon DEF TraceLine
  <2>. QED  BY <2>1, <2>2, <2>3 DEF Cur
<1>7. /\ CurFetched /\ Fetched' = Fetched /\ Fetched \in Int /\ Soonest' = Soonest
      /\ Newest \in Int /\ Newest' \in Int /\ Newest <= Newest'
  <2>1. CurFetched /\ Soonest' = Soonest
    BY <1>2, <1>3 DEF CurFetched, Soonest
  <2>2. Fetched = cur.id /\ Fetched' = cur'.id
    BY <1>6, <2>1, Zenon DEF Fetched
  <2>3. invokectr \in Int /\ Newest = invokectr + 1
    BY <1>1, <2>1 DEF Newest, SourceType
  <2>4. Newest' = invokectr + 1 \/ Newest' = invokectr + 2
    BY <1>2, <1>6, <2>3 DEF Newest
  <2>. QED  BY <1>1, <1>6, <2>1, <2>2, <2>3, <2>4, NumberFetched
<1>8. ControlType' /\ GateType' /\ CountType' /\ Flags'
  <2>1. ControlType'
    BY <1>1, <1>2, <1>3 DEF ControlType, Phase
  <2>2. CountType' /\ GateType' /\ Flags'
    BY <1>1, <1>2, <1>6, Zenon DEF CountType, GateType, Flags
  <2>. QED  BY <2>1, <2>2
<1>9. SourceType'
  <2>1. invokectr' \in 0 .. MAX_ACCESS
    BY <1>1, <1>2, Limits DEF SourceType
  <2>2. ring_evictctr' \in 0 .. invokectr'
    BY <1>1, <1>2, <1>3 DEF SourceType
  <2>3. \A i \in DOMAIN oramQ' : oramQ'[i].k >= 1 /\ oramQ'[i].k <= Size(oramQ'[i].b)
    BY <1>5, Sizes
  <2>4. cur'.line = invokectr' + 1
    BY <1>1, <1>2, <1>6 DEF SourceType
  <2>. QED  BY <1>1, <1>2, <1>5, <1>6, <2>1, <2>2, <2>3, <2>4, Zenon DEF SourceType
<1>10. MemoryType'
  <2>1. \A i \in DOMAIN ROB : ROB[i] \in RobEntry
    BY <1>1 DEF MemoryType
  <2>2. \A i \in DOMAIN ROB : ROB[i].id \in Nat /\ ROB[i].line \in Lines
    BY <2>1 DEF RobEntry
  <2>3. ASSUME NEW i \in DOMAIN ROB, ROB[i].kind \in Type
        PROVE  Known(ROB[i], Fetched', Newest')
    <3>1. Known(ROB[i], Fetched, Newest)
      BY <1>1, <2>3, Zenon DEF MemoryType
    <3>2. Fetched <= Fetched'
      BY <1>7
    <3>. QED  BY <1>7, <2>2, <3>1, <3>2, KnownMore
  <2>. QED  BY <1>1, <1>2, <2>3, Zenon DEF MemoryType
<1>11. InSequence'
  <2>1. AtEnd'
    BY <1>6, Zenon DEF AtEnd
  <2>2. oramQ' # << >> => oramQ'[1].k = 1
    BY <1>4, <1>5
  <2>3. \A i \in DOMAIN oramQ' : oramQ'[i].k = 1
    BY <1>5
  <2>. QED  BY <1>6, <2>1, <2>2, <2>3, Zenon DEF InSequence, Follows
<1>12. EachFetchedOnce'
  BY <1>1, <1>2, <1>7, OnceIsOrder, Zenon
<1>13. ReadsAwaited' /\ LongestInRob'
  <2>1. Fetched' \in Int /\ Fetched <= Fetched' /\ read_queue \in SUBSET QueuedRead
    BY <1>1, <1>7 DEF MemoryType
  <2>. QED  BY <1>1, <1>2, <1>7, <2>1, ReadsFrame
<1>14. Wakeup'
  BY <1>1, <1>2, Zenon DEF Wakeup
<1>15. BatchInv'
  <2>. SUFFICES ASSUME ring_evictctr' = 0 PROVE NoEviction' /\ Counted'
    BY Zenon DEF BatchInv
  <2>1. ring_evictctr = 0 /\ \A i \in DOMAIN acc : acc[i] # << "e", "R" >>
    BY <1>1, <1>3 DEF SourceType
  <2>2. AtEnd
    BY <1>1, <1>2, Zenon DEF InSequence
  <2>3. /\ cur.op \in OpType => cur.last
        /\ Ids(read_queue) = {} /\ IsFiniteSet(Ids(read_queue))
        /\ Cardinality(Ids(read_queue)) = 0
        /\ \A r \in read_queue : r.op \notin OpType
        /\ \A o \in OpType : cur_served[<< o, "R" >>] = 0
    BY <1>1, <1>2, <1>7, <2>1, <2>2, BatchOver, Zenon
  <2>4. NoEviction'
    <3>1. \A i \in DOMAIN oramQ' : oramQ'[i].b # << "e", "R" >>
      BY <1>4, <1>5, <2>1, Zenon
    <3>2. cur'.op \in OpType => cur'.last
      BY <1>6, <2>3, Zenon
    <3>. QED  BY <1>6, <3>1, <3>2, Zenon DEF NoEviction
  <2>5. Taken' = 0
    <3>1. last_read_deleted' /\ Place' = 1
      BY <1>1, <1>2, <1>6, Zenon DEF Flags, Place
    <3>2. cur'.op \in OpType => cur'.last
      BY <1>6, <2>3, Zenon
    <3>. QED  BY <3>1, <3>2 DEF Taken
  <2>6. Taken' - Cardinality(Ids(read_queue)) = 0
    BY <2>3, <2>5
  <2>. QED  BY <1>2, <2>3, <2>4, <2>6, Zenon DEF Counted
<1>. QED
  BY <1>8, <1>9, <1>10, <1>11, <1>12, <1>13, <1>14, <1>15, Zenon DEF Inv

(* The next request of oramQ. *)
LEMMA HeadQueue ==
  ASSUME oramQ \in Seq(Queued), oramQ # << >>,
         \A i \in DOMAIN oramQ : oramQ[i].k >= 1 /\ oramQ[i].k <= Size(oramQ[i].b)
  PROVE  LET h == Head(oramQ)
         IN  /\ h = oramQ[1] /\ 1 \in DOMAIN oramQ /\ h \in Queued
             /\ h.b \in BatchType /\ h.k \in Nat
             /\ h.k >= 1 /\ h.k <= Size(h.b) /\ Size(h.b) \in Nat
<1>. DEFINE h == Head(oramQ)
<1>1. h = oramQ[1] /\ 1 \in DOMAIN oramQ /\ h \in Queued
  BY RobTail
<1>2. h.b \in BatchType /\ h.k \in Nat
  BY <1>1 DEF Queued
<1>3. Size(h.b) \in Nat
  BY <1>2, Sizes
<1>. QED  BY <1>1, <1>2, <1>3

LEMMA DequeuedFrom ==
  ASSUME oramQ \in Seq(Queued), oramQ # << >>, NEW q,
         q = [ oramQ EXCEPT ![1].k = @ + 1 ]
  PROVE  /\ q \in Seq(Queued) /\ DOMAIN q = DOMAIN oramQ /\ 1 \in DOMAIN q /\ q # << >>
         /\ q[1].b = oramQ[1].b /\ q[1].k = oramQ[1].k + 1
         /\ \A i \in DOMAIN q : i # 1 => q[i] = oramQ[i]
<1>1. oramQ \in [ 1 .. Len(oramQ) -> Queued ] /\ Len(oramQ) \in Nat \ {0}
  OBVIOUS
<1>2. 1 \in 1 .. Len(oramQ) /\ oramQ[1] \in Queued
  BY <1>1
<1>3. [ oramQ[1] EXCEPT !.k = @ + 1 ] \in Queued
  BY <1>2 DEF Queued
<1>4. q = [ oramQ EXCEPT ![1] = [ oramQ[1] EXCEPT !.k = @ + 1 ] ]
  OBVIOUS
<1>5. q \in [ 1 .. Len(oramQ) -> Queued ]
  BY <1>1, <1>3, <1>4
<1>6. q[1] = [ oramQ[1] EXCEPT !.k = @ + 1 ] /\ \A i \in 1 .. Len(oramQ) : i # 1 => q[i] = oramQ[i]
  BY <1>1, <1>2, <1>4
<1>7. q[1].b = oramQ[1].b /\ q[1].k = oramQ[1].k + 1
  BY <1>2, <1>6 DEF Queued
<1>8. q \in Seq(Queued)
  BY <1>1, <1>5
<1>. QED  BY <1>1, <1>5, <1>6, <1>7, <1>8

LEMMA DequeueNext ==
  ASSUME Inv, Dequeue
  PROVE  Inv'
<1>. DEFINE h == Head(oramQ)
<1>1. /\ ControlType /\ SourceType /\ MemoryType /\ GateType /\ CountType
      /\ Flags /\ InSequence /\ EachFetchedOnce /\ ReadsAwaited /\ LongestInRob
      /\ Wakeup /\ BatchInv
  BY Zenon DEF Inv
<1>2. /\ UNCHANGED << clk, num, invokectr, ring_evictctr, nonmemops, ROB >>
      /\ UNCHANGED << read_queue, write_queue, write_served, drain_writes >>
      /\ UNCHANGED << last_read_served, last_read_deleted, determineReq, longest_req, cur_served >>
      /\ phase = "next" /\ phase' = "fetch" /\ last_lock_released' = TRUE
      /\ oramQ # << >> /\ last_read_served
  BY DEF Dequeue, memq, Open
<1>3. /\ cur' = Request(h.b, h.k, cur.id + 1)
      /\ oramQ' = IF h.k = Size(h.b) THEN Tail(oramQ) ELSE [ oramQ EXCEPT ![1].k = @ + 1 ]
      /\ comptime_max' = IF h.b[2] = "R" /\ h.k = Beginning(h.b) THEN ZERO ELSE comptime_max
  BY Zenon DEF Dequeue
<1>4. /\ h = oramQ[1] /\ 1 \in DOMAIN oramQ /\ h \in Queued
      /\ h.b \in BatchType /\ h.k \in Nat
      /\ h.k >= 1 /\ h.k <= Size(h.b) /\ Size(h.b) \in Nat
      /\ h.b[1] \in OpType /\ h.b[2] \in Type /\ h.b = << h.b[1], h.b[2] >>
  <2>1. oramQ \in Seq(Queued) /\ \A i \in DOMAIN oramQ : oramQ[i].k >= 1 /\ oramQ[i].k <= Size(oramQ[i].b)
    BY <1>1, Zenon DEF SourceType
  <2>2. /\ h = oramQ[1] /\ 1 \in DOMAIN oramQ /\ h \in Queued
        /\ h.b \in BatchType /\ h.k \in Nat
        /\ h.k >= 1 /\ h.k <= Size(h.b) /\ Size(h.b) \in Nat
    BY <1>2, <2>1, HeadQueue, Zenon
  <2>. HIDE DEF h
  <2>3. h.b[1] \in OpType /\ h.b[2] \in Type /\ h.b = << h.b[1], h.b[2] >>
    BY <2>2 DEF BatchType
  <2>. QED  BY <2>2, <2>3, Zenon
<1>. HIDE DEF h
<1>5. cur \in Cur /\ cur.id \in Nat
  BY <1>1 DEF SourceType, Cur
<1>6. /\ cur'.op = h.b[1] /\ cur'.type = h.b[2] /\ cur'.k = h.k /\ cur'.id = cur.id + 1
      /\ cur'.last <=> h.k \in LastOf(h.b)
      /\ cur' \in Cur /\ cur'.line = 0
  <2>1. cur' = [ op |-> h.b[1], type |-> h.b[2], k |-> h.k, last |-> h.k \in LastOf(h.b), id |-> cur.id + 1,
                 line |-> 0 ]
    BY <1>3 DEF Request
  <2>2. /\ cur'.op = h.b[1] /\ cur'.type = h.b[2] /\ cur'.k = h.k /\ cur'.id = cur.id + 1
        /\ cur'.last <=> h.k \in LastOf(h.b)
        /\ cur'.line = 0
    BY <2>1, Zenon
  <2>3. (h.k \in LastOf(h.b)) \in BOOLEAN /\ h.b[1] \in Ops /\ cur.id + 1 \in Nat
    BY <1>4, <1>5 DEF Ops
  <2>4. 0 \in Lines
    BY Limits
  <2>5. cur' \in Cur
    BY <1>4, <2>1, <2>3, <2>4 DEF Cur
  <2>. QED  BY <2>2, <2>5
<1>7. /\ ~CurFetched' /\ CurFetched /\ Fetched' = Fetched /\ Fetched = cur.id
      /\ Soonest' = Soonest /\ Newest' = Newest
  <2>1. CurFetched /\ ~CurFetched' /\ Soonest' = Soonest
    BY <1>2 DEF CurFetched, Soonest
  <2>2. Fetched = cur.id /\ Fetched' = cur'.id - 1
    BY <1>6, <2>1, Zenon DEF Fetched
  <2>3. Newest' = Newest
    BY <1>2, <1>6, <2>1, Zenon DEF Newest
  <2>. QED  BY <1>5, <1>6, <2>1, <2>2, <2>3
<1>8. \/ /\ h.k = Size(h.b) /\ oramQ' \in Seq(Queued) /\ oramQ' = Tail(oramQ)
         /\ \A i \in DOMAIN oramQ' : i + 1 \in DOMAIN oramQ /\ i + 1 > 1 /\ oramQ'[i] = oramQ[i + 1]
         /\ oramQ' # << >> => 1 \in DOMAIN oramQ'
      \/ /\ h.k < Size(h.b) /\ oramQ' \in Seq(Queued) /\ DOMAIN oramQ' = DOMAIN oramQ
         /\ oramQ' # << >> /\ oramQ'[1].b = h.b /\ oramQ'[1].k = h.k + 1
         /\ \A i \in DOMAIN oramQ' : i # 1 => oramQ'[i] = oramQ[i]
  <2>1. oramQ \in Seq(Queued)
    BY <1>1 DEF SourceType
  <2>2. CASE h.k = Size(h.b)
    <3>1. oramQ' = Tail(oramQ)
      BY <1>3, <2>2
    <3>2. /\ oramQ' \in Seq(Queued)
          /\ \A i \in DOMAIN oramQ' : i + 1 \in DOMAIN oramQ /\ i + 1 > 1 /\ oramQ'[i] = oramQ[i + 1]
      BY <1>2, <2>1, <3>1, RobTail
    <3>3. oramQ' # << >> => 1 \in DOMAIN oramQ'
      BY <3>2
    <3>. QED  BY <2>2, <3>1, <3>2, <3>3
  <2>3. CASE h.k # Size(h.b)
    <3>1. oramQ' = [ oramQ EXCEPT ![1].k = @ + 1 ]
      BY <1>3, <2>3
    <3>2. h.k < Size(h.b)
      BY <1>4, <2>3
    <3>. QED  BY <1>2, <1>4, <2>1, <3>1, <3>2, DequeuedFrom
  <2>. QED  BY <2>2, <2>3
<1>9. ControlType'
  BY <1>1, <1>2 DEF ControlType, Phase
<1>10. SourceType'
  <2>1. ASSUME NEW i \in DOMAIN oramQ'
        PROVE  oramQ'[i].k >= 1 /\ oramQ'[i].k <= Size(oramQ'[i].b)
    <3>1. \A j \in DOMAIN oramQ : oramQ[j].k >= 1 /\ oramQ[j].k <= Size(oramQ[j].b)
      BY <1>1, Zenon DEF SourceType
    <3>2. CASE \E j \in DOMAIN oramQ : oramQ'[i] = oramQ[j]
      BY <3>1, <3>2, Zenon
    <3>3. CASE ~ \E j \in DOMAIN oramQ : oramQ'[i] = oramQ[j]
      <4>1. /\ i = 1 /\ h.k < Size(h.b) /\ oramQ'[1].b = h.b /\ oramQ'[1].k = h.k + 1
        BY <1>8, <3>3, Zenon
      <4>2. h.k + 1 >= 1 /\ h.k + 1 <= Size(h.b)
        BY <1>4, <4>1
      <4>. QED  BY <4>1, <4>2, Zenon
    <3>. QED  BY <3>2, <3>3
  <2>2. oramQ' \in Seq(Queued)
    BY <1>8
  <2>. QED  BY <1>1, <1>2, <1>6, <2>1, <2>2, Zenon DEF SourceType
<1>11. MemoryType'
  BY <1>1, <1>2, <1>7, Zenon DEF MemoryType
<1>12. GateType' /\ Flags'
  BY <1>1, <1>2, Zenon DEF GateType, Flags
<1>13. comptime_max' = ZERO \/ comptime_max' = comptime_max
  BY <1>3
<1>14. CountType'
  <2>1. determineReq' \in 0 .. cur'.id /\ longest_req' \in 0 .. cur'.id
    BY <1>1, <1>2, <1>5, <1>6 DEF CountType
  <2>2. comptime_max' \in ZERO .. BIGNUM - 1
    BY <1>1, <1>13, Times DEF CountType
  <2>. QED  BY <1>1, <1>2, <2>1, <2>2, Zenon DEF CountType
<1>15. InSequence'
  <2>1. ASSUME NEW i \in DOMAIN oramQ', i > 1
        PROVE  oramQ'[i].k = 1
    <3>1. \A j \in DOMAIN oramQ : j > 1 => oramQ[j].k = 1
      BY <1>1, Zenon DEF InSequence
    <3>2. i # 1
      BY <2>1
    <3>. QED  BY <1>8, <2>1, <3>1, <3>2, Zenon
  <2>2. LET b == << cur'.op, cur'.type >>
        IN  cur'.op \in OpType /\ cur'.k >= 1 /\ cur'.k <= Size(b) /\ (cur'.last <=> cur'.k \in LastOf(b))
    BY <1>4, <1>6, Zenon
  <2>3. CASE h.k = Size(h.b)
    <3>1. AtEnd'
      BY <1>4, <1>6, <2>3, Zenon DEF AtEnd
    <3>2. oramQ' # << >> => oramQ'[1].k = 1
      BY <1>1, <1>8, <2>3, <1>4 DEF InSequence
    <3>. QED  BY <2>1, <2>2, <3>1, <3>2, Zenon DEF InSequence, Follows
  <2>4. CASE h.k # Size(h.b)
    <3>1. oramQ' # << >> /\ oramQ'[1].b = h.b /\ oramQ'[1].k = h.k + 1
      BY <1>8, <2>4
    <3>2. oramQ'[1].k # 1 /\ cur'.k = oramQ'[1].k - 1
      BY <1>4, <1>6, <3>1
    <3>3. Follows(oramQ[1])'
      BY <1>6, <3>1, <3>2, Zenon DEF Follows
    <3>. QED  BY <2>1, <2>2, <3>1, <3>3, Zenon DEF InSequence
  <2>. QED  BY <2>3, <2>4
<1>16. EachFetchedOnce'
  BY <1>1, <1>2, <1>7, OnceIsOrder, Zenon
<1>17. ReadsAwaited'
  BY <1>1, <1>2, <1>7, Zenon DEF ReadsAwaited
<1>18. LongestInRob'
  <2>1. comptime_max' >= 0 => comptime_max' = comptime_max
    BY <1>13, Times
  <2>. QED  BY <1>1, <1>2, <2>1, Zenon DEF LongestInRob
<1>19. Wakeup'
  BY <1>1, <1>2, Zenon DEF Wakeup
<1>20. BatchInv'
  <2>. SUFFICES ASSUME ring_evictctr = 0 PROVE NoEviction' /\ Counted'
    BY <1>2, Zenon DEF BatchInv
  <2>1. NoEviction /\ Counted
    BY <1>1, Zenon DEF BatchInv
  <2>2. NoEviction'
    <3>1. h.b # << "e", "R" >>
      BY <1>4, <2>1 DEF NoEviction
    <3>2. \A i \in DOMAIN oramQ' : \E j \in DOMAIN oramQ : oramQ'[i].b = oramQ[j].b
      BY <1>4, <1>8
    <3>3. << cur'.op, cur'.type >> # << "e", "R" >>
      BY <1>4, <1>6, <3>1
    <3>4. \A i \in DOMAIN oramQ' : oramQ'[i].b # << "e", "R" >>
      BY <2>1, <3>2, Zenon DEF NoEviction
    <3>. QED  BY <1>6, <3>3, <3>4, Zenon DEF NoEviction
  <2>3. Taken' = IF h.b[2] = "R" THEN h.k - 1 ELSE 0
    BY <1>4, <1>6, <1>7 DEF Taken, Place, Type
  <2>4. last_read_deleted
    BY <1>1, <1>2, Zenon DEF Flags
  <2>5. CASE h.k = 1
    <3>1. Taken' = 0
      BY <2>3, <2>5
    <3>2. AtEnd
      BY <1>1, <1>2, <1>4, <2>5, Zenon DEF InSequence, Follows
    <3>3. /\ Ids(read_queue) = {} /\ IsFiniteSet(Ids(read_queue))
          /\ Cardinality(Ids(read_queue)) = 0
          /\ \A r \in read_queue : r.op \notin OpType
          /\ \A o \in OpType : cur_served[<< o, "R" >>] = 0
      BY <1>1, <1>2, <1>7, <3>2, BatchOver, Zenon
    <3>4. Taken' - Cardinality(Ids(read_queue)) = 0
      BY <3>1, <3>3
    <3>. QED  BY <1>2, <2>2, <3>3, <3>4, Zenon DEF Counted
  <2>6. CASE h.k # 1
    <3>1. cur.line = 0 /\ cur.op = h.b[1] /\ cur.type = h.b[2] /\ cur.k = h.k - 1
      BY <1>1, <1>2, <1>4, <2>6, Zenon DEF InSequence, Follows
    <3>2. cur.type = "R" => ~cur.last
      BY <1>1, <1>4, <2>1, <3>1, CurBatch
    <3>3. Taken' = Taken
      BY <1>4, <1>7, <2>3, <3>1, <3>2 DEF Taken, Place
    <3>4. cur'.op = cur.op /\ cur'.line = cur.line
      BY <1>6, <3>1
    <3>. QED  BY <1>2, <1>7, <2>1, <2>2, <3>3, <3>4, Zenon DEF Counted
  <2>. QED  BY <2>5, <2>6
<1>. QED
  BY <1>9, <1>10, <1>11, <1>12, <1>14, <1>15, <1>16, <1>17, <1>18, <1>19, <1>20, Zenon DEF Inv

-------------------------------------------------------------------------------
(* A request is fetched: its entry is the last of the ROB. *)
LEMMA FetchedNext ==
  ASSUME Inv, CanFetch, last_lock_released, phase' = "next", clk' = clk, num' = num + 1,
         UNCHANGED << invokectr, ring_evictctr, oramQ, cur, nonmemops >>,
         NEW kind \in Type, NEW t \in PAST .. BIGNUM, ROB' = Append(ROB, Entry(kind, cur, t))
  PROVE  /\ last_read_served /\ last_read_deleted
         /\ ~CurFetched /\ CurFetched' /\ Soonest' = Soonest
         /\ cur \in Cur /\ cur.id \in Nat /\ cur.line \in Lines
         /\ Fetched \in Int /\ Fetched' = cur.id
         /\ Fetched = IF cur.line = 0 THEN cur.id - 1 ELSE cur.id
         /\ Newest \in Int /\ Newest' \in Int /\ Newest <= Newest' /\ Known(cur, Fetched', Newest')
         /\ cur.line # 0 => cur.line = Newest + 1
         /\ ControlType' /\ SourceType' /\ InSequence' /\ EachFetchedOnce'
         /\ ROB \in Seq(RobEntry) /\ ROB' \in Seq(RobEntry) /\ Len(ROB') <= ROBSIZE
         /\ \A i \in DOMAIN ROB' : ROB'[i].kind \in Type => Known(ROB'[i], Fetched', Newest')
         /\ \A id, line, u : Waits(ROB, id, line, u) => Waits(ROB', id, line, u)
         /\ kind = "R" => \A u : t >= u => Waits(ROB', cur.id, cur.line, u)
<1>. DEFINE e == Entry(kind, cur, t)
<1>1. /\ ControlType /\ SourceType /\ MemoryType /\ GateType /\ Flags
      /\ InSequence /\ EachFetchedOnce
  BY Zenon DEF Inv
<1>2. /\ phase = "fetch" /\ num < MAX_FETCH /\ Len(ROB) # ROBSIZE
  BY DEF CanFetch
<1>3. last_read_served /\ last_read_deleted
  BY <1>1, Zenon DEF Flags
<1>4. cur \in Cur /\ cur.id \in Nat /\ cur.line \in Lines
  BY <1>1 DEF SourceType, Cur
<1>5. ~CurFetched /\ CurFetched' /\ Soonest' = Soonest
  BY <1>2 DEF CurFetched, Soonest
<1>6. /\ Fetched = (IF cur.line = 0 THEN cur.id - 1 ELSE cur.id) /\ Fetched' = cur.id
      /\ Fetched \in Int /\ Fetched <= Fetched'
  <2>1. Fetched = (IF cur.line = 0 THEN cur.id - 1 ELSE cur.id) /\ Fetched' = cur.id
    BY <1>5, Zenon DEF Fetched
  <2>. QED  BY <1>4, <2>1
<1>7. /\ Newest \in Int /\ Newest' \in Int /\ Newest <= Newest'
      /\ cur.line # 0 => cur.line = Newest + 1
      /\ cur.line <= Newest'
  <2>1. invokectr \in Nat /\ cur.line \in { 0, invokectr + 1 }
    BY <1>1 DEF SourceType
  <2>2. Newest = (IF cur.line # 0 THEN invokectr ELSE invokectr + 1) /\ Newest' = invokectr + 1
    BY <1>5, Zenon DEF Newest
  <2>. QED  BY <2>1, <2>2
<1>8. Known(cur, Fetched', Newest')
  BY <1>4, <1>6, <1>7 DEF Known
<1>9. e \in RobEntry /\ e.kind = kind /\ e.id = cur.id /\ e.line = cur.line /\ e.t = t
  <2>1. cur.op \in Ops
    BY <1>4 DEF Cur
  <2>. QED  BY <1>4, <2>1 DEF Entry, RobEntry
<1>10. ROB \in Seq(RobEntry) /\ Len(ROB) <= ROBSIZE
  BY <1>1 DEF MemoryType
<1>. HIDE DEF e
<1>11. /\ ROB' = Append(ROB, e) /\ ROB' \in Seq(RobEntry) /\ Len(ROB') <= ROBSIZE
       /\ \A i \in DOMAIN ROB' : (i \in DOMAIN ROB /\ ROB'[i] = ROB[i]) \/ ROB'[i] = e
  <2>1. ROB' = Append(ROB, e)
    BY DEF e
  <2>. QED  BY <1>2, <1>9, <1>10, <2>1, RobAppend, Limits
<1>12. \A i \in DOMAIN ROB' : ROB'[i].kind \in Type => Known(ROB'[i], Fetched', Newest')
  <2>1. ASSUME NEW i \in DOMAIN ROB', ROB'[i].kind \in Type
        PROVE  Known(ROB'[i], Fetched', Newest')
    <3>1. CASE i \in DOMAIN ROB /\ ROB'[i] = ROB[i]
      <4>1. Known(ROB[i], Fetched, Newest)
        BY <1>1, <2>1, <3>1, Zenon DEF MemoryType
      <4>2. ROB[i] \in RobEntry
        BY <1>10, <3>1
      <4>3. ROB[i].id \in Nat /\ ROB[i].line \in Lines
        BY <4>2 DEF RobEntry
      <4>4. Fetched' \in Int
        BY <1>4, <1>6
      <4>5. Known(ROB[i], Fetched', Newest')
        BY <1>6, <1>7, <4>1, <4>3, <4>4, KnownMore
      <4>. QED  BY <3>1, <4>5, Zenon
    <3>2. CASE ROB'[i] = e
      BY <1>8, <1>9, <3>2, Zenon DEF Known
    <3>. QED  BY <1>11, <3>1, <3>2
  <2>. QED  BY <2>1
<1>13. EachFetchedOnce'
  <2>1. InOrder(ROB, Fetched)
    BY <1>1, OnceIsOrder
  <2>2. CASE cur.line = 0
    <3>1. IsRequest(e) /\ e.id = Fetched + 1 /\ Fetched + 1 = Fetched'
      BY <1>4, <1>6, <1>9, <2>2 DEF IsRequest
    <3>2. InOrder(Append(ROB, e), Fetched + 1)
      BY <1>6, <1>9, <1>10, <2>1, <3>1, OrderAppend
    <3>. QED  BY <1>11, <3>1, <3>2, OnceIsOrder
  <2>3. CASE cur.line # 0
    <3>1. ~IsRequest(e) /\ Fetched = Fetched'
      BY <1>6, <1>9, <2>3 DEF IsRequest
    <3>2. InOrder(Append(ROB, e), Fetched)
      BY <1>6, <1>9, <1>10, <2>1, <3>1, OrderAppendOther
    <3>. QED  BY <1>11, <3>1, <3>2, OnceIsOrder
  <2>. QED  BY <2>2, <2>3
<1>14. ControlType'
  BY <1>1, <1>2, Limits DEF ControlType, Phase
<1>15. SourceType' /\ InSequence'
  BY <1>1, SequenceFrame, Zenon DEF SourceType
<1>16. \A id, line, u : Waits(ROB, id, line, u) => Waits(ROB', id, line, u)
  BY <1>9, <1>10, <1>11, WaitsAppend
<1>17. kind = "R" => \A u : t >= u => Waits(ROB', cur.id, cur.line, u)
  BY <1>9, <1>10, <1>11, WaitsAppend
<1>. QED
  BY <1>3, <1>4, <1>5, <1>6, <1>7, <1>8, <1>10, <1>11, <1>12, <1>13, <1>14, <1>15, <1>16, <1>17

(* No read in the memory is the request or the line that is fetched now.   *)
LEMMA NotTwice ==
  ASSUME cur.id \in Nat, Fetched' = cur.id,
         Fetched = IF cur.line = 0 THEN cur.id - 1 ELSE cur.id,
         Newest \in Int, Newest' \in Int, Newest <= Newest', cur.line \in Lines,
         cur.line # 0 => cur.line = Newest + 1,
         NEW q, q.id \in Nat, q.line \in Lines, Known(q, Fetched, Newest)
  PROVE  /\ Known(q, Fetched', Newest')
         /\ q.id # cur.id \/ q.line # cur.line
<1>1. MAX_ACCESS \in Nat
  BY Limits
<1>2. Fetched \in Int /\ Fetched' \in Int /\ Fetched <= Fetched'
  OBVIOUS
<1>3. Known(q, Fetched', Newest')
  BY <1>2, KnownMore
<1>4. q.id <= Fetched /\ q.line <= Newest
  BY Zenon DEF Known
<1>5. q.id # cur.id \/ q.line # cur.line
  BY <1>1, <1>4 DEF Lines
<1>. QED  BY <1>3, <1>5

(* The counts of the batch while the current request is not fetched.       *)
LEMMA BeforeFetch ==
  ASSUME Inv, ring_evictctr = 0, ~CurFetched, cur.op \in OpType, cur.type = "R"
  PROVE  LET b == << cur.op, "R" >>
             n == Cardinality(Ids(read_queue))
         IN  /\ b \in BatchType /\ to_serve[b] \in Nat \ {0}
             /\ Place \in Nat /\ Place >= 1 /\ Place <= to_serve[b]
             /\ Place = to_serve[b] => cur.last
             /\ n \in Nat /\ cur_served[b] \in Nat
             /\ Taken = Place - 1 /\ cur_served[b] = Place - 1 - n
             /\ cur_served[b] < to_serve[b]
<1>. DEFINE b == << cur.op, "R" >>
            n == Cardinality(Ids(read_queue))
<1>1. SourceType /\ InSequence /\ CountType /\ NoEviction /\ Counted
  BY Zenon DEF Inv, BatchInv
<1>2. /\ b \in BatchType /\ to_serve[b] \in Nat \ {0}
      /\ Place \in Nat /\ Place >= 1 /\ Place <= to_serve[b]
      /\ Place = to_serve[b] => cur.last
  BY <1>1, CurBatch
<1>3. n \in Nat
  BY <1>1, FS_CardinalityType DEF Counted
<1>4. cur_served[b] \in Nat
  BY <1>1, <1>2 DEF CountType
<1>5. Taken = Place - 1
  BY DEF Taken
<1>6. cur_served[b] = Taken - n
  BY <1>1 DEF Counted
<1>. HIDE DEF b, n
<1>7. cur_served[b] = Place - 1 - n /\ cur_served[b] < to_serve[b]
  BY <1>2, <1>3, <1>4, <1>5, <1>6
<1>. QED  BY <1>2, <1>3, <1>4, <1>5, <1>7 DEF b, n

LEMMA Shifted ==
  /\ \A k, n \in Int : k - 1 - n = k - (n + 1)
  /\ \A f, i, k \in Int :
       f = i - 1 \/ f = i => \A x \in Int : x > f - (k - 1) => x > i - k
OBVIOUS

(* A read that another request answers is served at once. *)
LEMMA FetchMatched ==
  ASSUME Inv, CanFetch, last_lock_released, phase' = "next", clk' = clk, num' = num + 1,
         UNCHANGED << invokectr, ring_evictctr, oramQ, cur, nonmemops >>,
         UNCHANGED << read_queue, write_queue, write_served, drain_writes >>,
         cur.type = "R", NEW t \in 0 .. BIGNUM - 1, ROB' = Append(ROB, Entry("R", cur, t)),
         ReadServed(cur, t, last_read_deleted /\ ~cur.last),
         last_read_served' = (last_read_served /\ ~cur.last), last_lock_released' = ~cur.last
  PROVE  Inv'
<1>. DEFINE deleted == last_read_deleted /\ ~cur.last
            b == ReadOf(cur)
<1>1. /\ MemoryType /\ GateType /\ CountType /\ Flags /\ ReadsAwaited /\ LongestInRob /\ BatchInv
  BY Zenon DEF Inv
<1>2. /\ last_read_served /\ last_read_deleted
      /\ ~CurFetched /\ CurFetched' /\ Soonest' = Soonest
      /\ cur \in Cur /\ cur.id \in Nat /\ cur.line \in Lines
      /\ Fetched \in Int /\ Fetched' = cur.id
      /\ Fetched = IF cur.line = 0 THEN cur.id - 1 ELSE cur.id
      /\ Newest \in Int /\ Newest' \in Int /\ Newest <= Newest' /\ Known(cur, Fetched', Newest')
      /\ cur.line # 0 => cur.line = Newest + 1
      /\ ControlType' /\ SourceType' /\ InSequence' /\ EachFetchedOnce'
      /\ ROB \in Seq(RobEntry) /\ ROB' \in Seq(RobEntry) /\ Len(ROB') <= ROBSIZE
      /\ \A i \in DOMAIN ROB' : ROB'[i].kind \in Type => Known(ROB'[i], Fetched', Newest')
      /\ \A id, line, u : Waits(ROB, id, line, u) => Waits(ROB', id, line, u)
      /\ \A u : t >= u => Waits(ROB', cur.id, cur.line, u)
  <2>1. "R" \in Type /\ t \in PAST .. BIGNUM
    BY Times DEF Type
  <2>. QED  BY <2>1, FetchedNext
<1>3. cur.id \in 0 .. cur.id /\ deleted \in BOOLEAN /\ cur.last \in BOOLEAN /\ (deleted <=> ~cur.last)
  BY <1>2 DEF Cur
<1>. HIDE DEF deleted
<1>4. /\ comptime_max' \in 0 .. BIGNUM - 1
      /\ \/ comptime_max' = t /\ longest_req' = cur.id
         \/ comptime_max' = comptime_max /\ longest_req' = longest_req
      /\ longest_req' \in 0 .. cur.id
      /\ last_read_deleted' <=> deleted \/ AllServed(b, deleted)
      /\ last_read_deleted' \in BOOLEAN
  BY <1>1, <1>2, <1>3, ReadServedIs, Zenon DEF deleted
<1>5. /\ cur_served' \in [ BatchType -> Nat ]
      /\ \A d \in BatchType : cur_served'[d] <= to_serve[d]
      /\ \A d \in BatchType : d # b => cur_served'[d] = cur_served[d]
      /\ determineReq' \in 0 .. cur.id
      /\ b \notin BatchType => ~AllServed(b, deleted)
      /\ b \in BatchType /\ cur_served[b] < to_serve[b] =>
           /\ AllServed(b, deleted) <=> ~deleted /\ cur_served[b] + 1 = to_serve[b]
           /\ cur_served'[b] = IF AllServed(b, deleted) THEN 0 ELSE cur_served[b] + 1
  BY <1>1, <1>2, <1>3, ReadCount, Zenon DEF deleted
<1>6. MemoryType'
  BY <1>1, <1>2, Zenon DEF MemoryType
<1>7. GateType' /\ Flags'
  BY <1>1, <1>2, <1>3, <1>4, Zenon DEF GateType, Flags
<1>8. CountType'
  <2>1. comptime_max' \in ZERO .. BIGNUM - 1
    BY <1>4, Times
  <2>. QED  BY <1>4, <1>5, <2>1, Zenon DEF CountType
<1>9. ASSUME NEW r \in read_queue
      PROVE  /\ r.id \in Nat /\ Known(r, Fetched', Newest')
             /\ r.id # cur.id \/ r.line # cur.line
  <2>1. r.id \in Nat /\ r.line \in Lines
    BY <1>1 DEF MemoryType, QueuedRead
  <2>2. Known(r, Fetched, Newest)
    BY <1>1, Zenon DEF ReadsAwaited
  <2>. QED  BY <1>2, <2>1, <2>2, NotTwice
<1>10. ReadsAwaited'
  BY <1>1, <1>2, <1>9, Zenon DEF ReadsAwaited
<1>11. LongestInRob'
  <2>1. CASE comptime_max' = t /\ longest_req' = cur.id
    <3>1. t >= t
      OBVIOUS
    <3>2. Collected(ROB', read_queue', longest_req', cur.line, comptime_max')
      BY <1>2, <1>9, <2>1, <3>1, Zenon DEF Collected
    <3>. QED  BY <1>2, <3>2, Zenon DEF LongestInRob
  <2>2. CASE comptime_max' = comptime_max /\ longest_req' = longest_req
    BY <1>1, <1>2, <2>2, CollectedFrame, Zenon DEF LongestInRob
  <2>. QED  BY <1>4, <2>1, <2>2
<1>12. Wakeup'
  <2>1. deleted /\ ~last_read_served' => InRob(ROB', determineReq)
    BY <1>2, <1>3, Zenon
  <2>. QED  BY <1>1, <1>2, <1>3, <1>11, <2>1, WakeupServed DEF deleted
<1>13. BatchInv'
  <2>. SUFFICES ASSUME ring_evictctr = 0 PROVE NoEviction' /\ Counted'
    BY Zenon DEF BatchInv
  <2>1. NoEviction /\ Counted
    BY <1>1, Zenon DEF BatchInv
  <2>2. NoEviction'
    BY <2>1, Zenon DEF NoEviction
  <2>. DEFINE n == Cardinality(Ids(read_queue))
  <2>3. CASE cur.op \notin OpType
    <3>1. b \notin BatchType
      BY <2>3 DEF BatchType, ReadOf
    <3>2. \A o \in OpType : << o, "R" >> \in BatchType /\ << o, "R" >> # b
      BY <3>1 DEF BatchType, Type
    <3>3. \A o \in OpType : cur_served'[<< o, "R" >>] = 0
      BY <1>5, <2>1, <2>3, <3>2, Zenon DEF Counted
    <3>4. \A r \in read_queue : r.op \notin OpType
      BY <2>1, <2>3, Zenon DEF Counted
    <3>. QED  BY <2>1, <2>2, <2>3, <3>3, <3>4, Zenon DEF Counted
  <2>4. CASE cur.op \in OpType
    <3>1. /\ b \in BatchType /\ to_serve[b] \in Nat \ {0}
          /\ Place \in Nat /\ Place >= 1 /\ Place <= to_serve[b]
          /\ Place = to_serve[b] => cur.last
          /\ n \in Nat /\ cur_served[b] \in Nat
          /\ Taken = Place - 1 /\ cur_served[b] = Place - 1 - n
          /\ cur_served[b] < to_serve[b]
      BY <1>2, <2>4, BeforeFetch DEF ReadOf
    <3>2. /\ AllServed(b, deleted) <=> ~deleted /\ cur_served[b] + 1 = to_serve[b]
          /\ cur_served'[b] = IF AllServed(b, deleted) THEN 0 ELSE cur_served[b] + 1
      BY <1>5, <3>1, Zenon
    <3>3. \A o \in OpType : o # cur.op => cur_served'[<< o, "R" >>] = 0
      <4>1. \A o \in OpType : << o, "R" >> \in BatchType /\ (o # cur.op => << o, "R" >> # b)
        BY DEF BatchType, Type, ReadOf
      <4>. QED  BY <1>5, <2>1, <4>1, Zenon DEF Counted
    <3>. HIDE DEF b, n
    <3>4. CASE AllServed(b, deleted)
      <4>1. cur.last /\ n = 0 /\ cur_served'[b] = 0
        BY <1>3, <3>1, <3>2, <3>4
      <4>2. Taken' = 0
        BY <1>2, <1>4, <3>4, <4>1, Zenon DEF Taken
      <4>3. Ids(read_queue) = {}
        BY <2>1, <4>1, FS_EmptySet DEF Counted, n
      <4>4. \A r \in read_queue : r.op \notin OpType
        BY <4>3 DEF Ids
      <4>5. cur_served'[<< cur.op, "R" >>] = Taken' - n
        BY <4>1, <4>2 DEF b, ReadOf
      <4>. QED  BY <2>1, <2>2, <2>4, <3>3, <4>4, <4>5, Zenon DEF Counted, n
    <3>5. CASE ~AllServed(b, deleted)
      <4>1. cur_served'[b] = Place - n
        BY SMTT(60), <3>1, <3>2, <3>5
      <4>2. Taken' = Place
        <5>1. ~(last_read_deleted' /\ cur.last)
          BY <1>3, <1>4, <3>5, Zenon
        <5>. QED  BY <1>2, <2>4, <5>1, Zenon DEF Taken, Place
      <4>3. cur_served'[<< cur.op, "R" >>] = Taken' - n
        BY <4>1, <4>2 DEF b, ReadOf
      <4>4. \A r \in read_queue : r.id > Fetched - Taken => r.id > Fetched' - Taken'
        <5>1. /\ Fetched \in Int /\ cur.id \in Int /\ Place \in Int
              /\ Fetched = cur.id - 1 \/ Fetched = cur.id
          BY <1>2, <3>1
        <5>2. \A r \in read_queue : r.id \in Int
          BY <1>9
        <5>3. \A r \in read_queue : r.id > Fetched - (Place - 1) => r.id > cur.id - Place
          BY <5>1, <5>2, Shifted, Zenon
        <5>. QED  BY <1>2, <3>1, <4>2, <5>3, Zenon
      <4>. QED  BY <2>1, <2>2, <2>4, <3>3, <4>3, <4>4, Zenon DEF Counted, n
    <3>. QED  BY <3>4, <3>5
  <2>. QED  BY <2>3, <2>4
<1>. QED
  BY <1>2, <1>6, <1>7, <1>8, <1>10, <1>11, <1>12, <1>13, Zenon DEF Inv

(* Any other read is put in the read queue. *)
LEMMA FetchQueued ==
  ASSUME Inv, CanFetch, last_lock_released, phase' = "next", clk' = clk, num' = num + 1,
         UNCHANGED << invokectr, ring_evictctr, oramQ, cur, nonmemops >>,
         UNCHANGED << write_queue, write_served, drain_writes >>,
         UNCHANGED << determineReq, longest_req, comptime_max, cur_served >>,
         cur.type = "R", ROB' = Append(ROB, Entry("R", cur, BIGNUM)),
         NEW r, r = [ op |-> cur.op, id |-> cur.id, line |-> cur.line, issued |-> FALSE, t |-> BIGNUM ],
         read_queue' = read_queue \cup { r },
         last_read_deleted' = (last_read_deleted /\ ~cur.last),
         last_read_served' = (last_read_served /\ ~cur.last), last_lock_released' = ~cur.last
  PROVE  Inv'
<1>1. /\ MemoryType /\ GateType /\ CountType /\ Flags /\ ReadsAwaited /\ LongestInRob /\ BatchInv
  BY Zenon DEF Inv
<1>2. /\ last_read_served /\ last_read_deleted
      /\ ~CurFetched /\ CurFetched' /\ Soonest' = Soonest
      /\ cur \in Cur /\ cur.id \in Nat /\ cur.line \in Lines
      /\ Fetched \in Int /\ Fetched' = cur.id
      /\ Fetched = IF cur.line = 0 THEN cur.id - 1 ELSE cur.id
      /\ Newest \in Int /\ Newest' \in Int /\ Newest <= Newest' /\ Known(cur, Fetched', Newest')
      /\ cur.line # 0 => cur.line = Newest + 1
      /\ ControlType' /\ SourceType' /\ InSequence' /\ EachFetchedOnce'
      /\ ROB \in Seq(RobEntry) /\ ROB' \in Seq(RobEntry) /\ Len(ROB') <= ROBSIZE
      /\ \A i \in DOMAIN ROB' : ROB'[i].kind \in Type => Known(ROB'[i], Fetched', Newest')
      /\ \A id, line, u : Waits(ROB, id, line, u) => Waits(ROB', id, line, u)
      /\ \A u : BIGNUM >= u => Waits(ROB', cur.id, cur.line, u)
  <2>1. "R" \in Type /\ BIGNUM \in PAST .. BIGNUM
    BY Times DEF Type
  <2>. QED  BY <2>1, FetchedNext
<1>3. cur.last \in BOOLEAN /\ (last_read_deleted' <=> ~cur.last) /\ (last_read_served' <=> ~cur.last)
  BY <1>2 DEF Cur
<1>4. /\ r.op = cur.op /\ r.id = cur.id /\ r.line = cur.line /\ ~r.issued /\ r.t = BIGNUM
      /\ r \in QueuedRead
  <2>1. cur.op \in Ops /\ BIGNUM \in 0 .. BIGNUM
    BY <1>2, Times DEF Cur
  <2>2. r \in QueuedRead
    BY <1>2, <2>1 DEF QueuedRead
  <2>. QED  BY <2>2
<1>5. MemoryType'
  <2>1. read_queue' \in SUBSET QueuedRead
    BY <1>1, <1>4 DEF MemoryType
  <2>. QED  BY <1>1, <1>2, <2>1, Zenon DEF MemoryType
<1>6. GateType' /\ Flags'
  BY <1>1, <1>2, <1>3, Zenon DEF GateType, Flags
<1>7. CountType'
  BY <1>1, Zenon DEF CountType
<1>8. ASSUME NEW q \in read_queue
      PROVE  /\ q.id \in Nat /\ q.id <= Fetched /\ Known(q, Fetched', Newest')
             /\ q.id # cur.id \/ q.line # cur.line
  <2>1. q.id \in Nat /\ q.line \in Lines
    BY <1>1 DEF MemoryType, QueuedRead
  <2>2. Known(q, Fetched, Newest)
    BY <1>1, Zenon DEF ReadsAwaited
  <2>3. q.id <= Fetched
    BY <2>2, Zenon DEF Known
  <2>. QED  BY <1>2, <2>1, <2>2, <2>3, NotTwice
<1>9. \A q \in read_queue' : q \in read_queue \/ q = r
  BY Zenon
<1>10. ReadsAwaited'
  <2>1. ASSUME NEW q \in read_queue'
        PROVE  /\ Waits(ROB', q.id, q.line, q.t) /\ Known(q, Fetched', Newest')
               /\ IF q.issued THEN Soonest' <= q.t /\ q.t <= READ_TIME ELSE q.t = BIGNUM
    <3>1. CASE q \in read_queue
      BY <1>1, <1>2, <1>8, <3>1, Zenon DEF ReadsAwaited
    <3>2. CASE q = r
      <4>1. BIGNUM >= BIGNUM
        BY Times
      <4>2. Known(r, Fetched', Newest')
        BY <1>2, <1>4, Zenon DEF Known
      <4>. QED  BY <1>2, <1>4, <3>2, <4>1, <4>2, Zenon
    <3>. QED  BY <1>9, <3>1, <3>2
  <2>2. ASSUME NEW q \in read_queue', NEW p \in read_queue', q.id = p.id, q.line = p.line
        PROVE  q = p
    BY <1>1, <1>4, <1>8, <1>9, <2>2, Zenon DEF ReadsAwaited
  <2>. QED  BY <2>1, <2>2, Zenon DEF ReadsAwaited
<1>11. LongestInRob'
  <2>. SUFFICES ASSUME comptime_max >= 0
                PROVE  \E line \in Lines : Collected(ROB', read_queue', longest_req, line, comptime_max)
    BY Zenon DEF LongestInRob
  <2>1. PICK line \in Lines : Collected(ROB, read_queue, longest_req, line, comptime_max)
    BY <1>1, Zenon DEF LongestInRob
  <2>2. PICK i \in DOMAIN ROB : ROB[i].kind = "R" /\ ROB[i].id = longest_req /\ ROB[i].line = line
    BY <2>1, Zenon DEF Waits, Collected
  <2>3. /\ ROB[i].kind \in Type /\ ROB[i] \in RobEntry
    BY <1>2, <2>2 DEF Type
  <2>4. ROB[i].id \in Nat /\ ROB[i].line \in Lines /\ Known(ROB[i], Fetched, Newest)
    BY <1>1, <2>3 DEF MemoryType, RobEntry
  <2>5. cur.id # longest_req \/ cur.line # line
    BY <1>2, <2>2, <2>4, NotTwice
  <2>6. \A q \in read_queue' : q.id # longest_req \/ q.line # line
    BY <1>4, <1>9, <2>1, <2>5, Zenon DEF Collected
  <2>. QED  BY <1>2, <2>1, <2>6, Zenon DEF Collected
<1>12. Wakeup'
  BY <1>2, <1>3, Zenon DEF Wakeup
<1>13. BatchInv'
  <2>. SUFFICES ASSUME ring_evictctr = 0 PROVE NoEviction' /\ Counted'
    BY Zenon DEF BatchInv
  <2>1. NoEviction /\ Counted
    BY <1>1, Zenon DEF BatchInv
  <2>2. NoEviction'
    BY <2>1, Zenon DEF NoEviction
  <2>. DEFINE I == Ids(read_queue)
              n == Cardinality(I)
  <2>3. CASE cur.op \notin OpType
    <3>1. Ids(read_queue') = I
      BY <1>4, <2>3 DEF Ids
    <3>2. \A q \in read_queue' : q.op \notin OpType
      BY <1>4, <1>9, <2>1, <2>3, Zenon DEF Counted
    <3>3. \A o \in OpType : cur_served[<< o, "R" >>] = 0
      BY <2>1, <2>3, Zenon DEF Counted
    <3>. QED  BY <2>1, <2>2, <2>3, <3>1, <3>2, <3>3, Zenon DEF Counted
  <2>4. CASE cur.op \in OpType
    <3>1. /\ Place \in Nat /\ Place >= 1 /\ n \in Nat
          /\ Taken = Place - 1 /\ cur_served[<< cur.op, "R" >>] = Place - 1 - n
      BY <1>2, <2>4, BeforeFetch
    <3>2. Ids(read_queue') = I \cup { cur.id }
      <4>1. \A x \in Ids(read_queue') : x \in I \/ x = cur.id
        BY <1>4, <1>9, Zenon DEF Ids
      <4>2. \A x \in I : x \in Ids(read_queue')
        BY DEF Ids
      <4>3. cur.id \in Ids(read_queue')
        BY <1>4, <2>4 DEF Ids
      <4>. QED  BY <4>1, <4>2, <4>3
    <3>3. IsFiniteSet(I) /\ cur.id \notin I
      <4>1. IsFiniteSet(I)
        BY <2>1, Zenon DEF Counted
      <4>2. ASSUME NEW q \in read_queue, q.op \in OpType PROVE q.id # cur.id
        BY <1>8, <2>1, <4>2, Zenon DEF Counted
      <4>3. cur.id \notin I
        BY <4>2, Zenon DEF Ids
      <4>. QED  BY <4>1, <4>3
    <3>4. IsFiniteSet(Ids(read_queue')) /\ Cardinality(Ids(read_queue')) = n + 1
      <4>1. IsFiniteSet(I \cup { cur.id }) /\ Cardinality(I \cup { cur.id }) = n + 1
        BY <3>3, FS_AddElement
      <4>. QED  BY <3>2, <4>1
    <3>5. Taken' = Place
      <4>1. ~(last_read_deleted' /\ cur.last)
        BY <1>3
      <4>. QED  BY <1>2, <2>4, <4>1, Zenon DEF Taken, Place
    <3>. HIDE DEF n, I
    <3>6. cur_served[<< cur.op, "R" >>] = Taken' - Cardinality(Ids(read_queue'))
      <4>1. Place \in Int /\ n \in Int
        BY <3>1
      <4>2. cur_served[<< cur.op, "R" >>] = Place - (n + 1)
        BY <3>1, <4>1, Shifted, Zenon
      <4>. QED  BY <3>4, <3>5, <4>2, Zenon
    <3>7. /\ \A q \in read_queue : q.id > Fetched - Taken => q.id > Fetched' - Taken'
          /\ cur.id > Fetched' - Taken'
      <4>1. /\ Fetched \in Int /\ cur.id \in Int /\ Place \in Int /\ Place >= 1
            /\ Fetched = cur.id - 1 \/ Fetched = cur.id
        BY <1>2, <3>1
      <4>2. \A q \in read_queue : q.id \in Int
        BY <1>8
      <4>3. \A q \in read_queue : q.id > Fetched - (Place - 1) => q.id > cur.id - Place
        BY <4>1, <4>2, Shifted, Zenon
      <4>4. cur.id > cur.id - Place
        BY <4>1
      <4>. QED  BY <1>2, <3>1, <3>5, <4>3, <4>4, Zenon
    <3>8. \A q \in read_queue' :
            q.op \in OpType => q.op = cur.op /\ q.line = cur.line /\ q.id > Fetched' - Taken'
      BY <1>4, <1>9, <2>1, <3>7, Zenon DEF Counted
    <3>. QED  BY <2>1, <2>2, <2>4, <3>4, <3>6, <3>8, Zenon DEF Counted
  <2>. QED  BY <2>3, <2>4
<1>. QED
  BY <1>2, <1>5, <1>6, <1>7, <1>10, <1>11, <1>12, <1>13, Zenon DEF Inv

LEMMA FetchReadNext ==
  ASSUME Inv, FetchRead
  PROVE  Inv'
<1>. DEFINE deleted == last_read_deleted /\ ~cur.last
            r == [ op |-> cur.op, id |-> cur.id, line |-> cur.line, issued |-> FALSE, t |-> BIGNUM ]
<1>1. /\ UNCHANGED << clk, invokectr, ring_evictctr, oramQ, cur, nonmemops >>
      /\ UNCHANGED << write_queue, write_served, drain_writes >>
      /\ CanFetch /\ cur.type = "R" /\ last_lock_released
      /\ phase' = "next" /\ num' = num + 1
      /\ last_read_served' = (last_read_served /\ ~cur.last)
      /\ last_lock_released' = ~cur.last
  BY DEF FetchRead, source, LockAfter
<1>2. PICK lat \in Match :
        IF lat > 0
        THEN /\ ROB' = Append(ROB, Entry("R", cur, lat + PIPELINEDEPTH))
             /\ ReadServed(cur, lat + PIPELINEDEPTH, deleted)
             /\ UNCHANGED read_queue
        ELSE /\ ROB' = Append(ROB, Entry("R", cur, BIGNUM))
             /\ read_queue' = read_queue \cup { r }
             /\ last_read_deleted' = deleted
             /\ UNCHANGED count
  BY Zenon DEF FetchRead
<1>3. CASE lat > 0
  <2>1. lat + PIPELINEDEPTH \in 0 .. BIGNUM - 1
    <3>1. lat \in { 0, WQ_LOOKUP_LATENCY, RQ_LOOKUP_LATENCY }
      BY DEF Match
    <3>. QED  BY <3>1, Times
  <2>. QED  BY <1>1, <1>2, <1>3, <2>1, FetchMatched
<1>4. CASE ~(lat > 0)
  <2>1. UNCHANGED << determineReq, longest_req, comptime_max, cur_served >>
    BY <1>2, <1>4 DEF count
  <2>. QED  BY <1>1, <1>2, <1>4, <2>1, FetchQueued
<1>. QED  BY <1>3, <1>4

(* A write leaves the gate open. *)
LEMMA FetchWriteNext ==
  ASSUME Inv, FetchWrite
  PROVE  Inv'
<1>1. /\ MemoryType /\ GateType /\ CountType /\ Flags /\ ReadsAwaited /\ LongestInRob
      /\ Wakeup /\ BatchInv
  BY Zenon DEF Inv
<1>2. /\ UNCHANGED << clk, invokectr, ring_evictctr, oramQ, cur, nonmemops >>
      /\ UNCHANGED << read_queue, write_served, drain_writes >>
      /\ UNCHANGED << determineReq, longest_req, comptime_max, cur_served >>
      /\ CanFetch /\ cur.type = "W" /\ last_lock_released
      /\ phase' = "next" /\ num' = num + 1
      /\ ROB' = Append(ROB, Entry("W", cur, PIPELINEDEPTH))
  BY DEF FetchWrite, source, count
<1>3. \/ UNCHANGED << write_queue, last_read_served, last_lock_released, last_read_deleted >>
      \/ /\ write_queue' = write_queue + 1
         /\ last_read_deleted' = (last_read_deleted \/ cur.last)
         /\ last_read_served' = TRUE
         /\ last_lock_released' = TRUE
  BY Zenon DEF FetchWrite, gate
<1>4. /\ last_read_served /\ last_read_deleted
      /\ ~CurFetched /\ CurFetched' /\ Soonest' = Soonest
      /\ cur \in Cur /\ cur.id \in Nat /\ cur.line \in Lines
      /\ Fetched \in Int /\ Fetched' = cur.id
      /\ Fetched = IF cur.line = 0 THEN cur.id - 1 ELSE cur.id
      /\ Newest \in Int /\ Newest' \in Int /\ Newest <= Newest' /\ Known(cur, Fetched', Newest')
      /\ cur.line # 0 => cur.line = Newest + 1
      /\ ControlType' /\ SourceType' /\ InSequence' /\ EachFetchedOnce'
      /\ ROB \in Seq(RobEntry) /\ ROB' \in Seq(RobEntry) /\ Len(ROB') <= ROBSIZE
      /\ \A i \in DOMAIN ROB' : ROB'[i].kind \in Type => Known(ROB'[i], Fetched', Newest')
      /\ \A id, line, u : Waits(ROB, id, line, u) => Waits(ROB', id, line, u)
  <2>1. "W" \in Type /\ PIPELINEDEPTH \in PAST .. BIGNUM
    BY Times DEF Type
  <2>. QED  BY <1>2, <2>1, FetchedNext
<1>5. /\ last_read_served' /\ last_read_deleted' /\ last_lock_released'
      /\ last_read_served' \in BOOLEAN /\ last_read_deleted' \in BOOLEAN
      /\ last_lock_released' \in BOOLEAN
  BY <1>1, <1>2, <1>3, <1>4, Zenon DEF GateType
<1>6. MemoryType'
  <2>1. /\ write_queue' \in Nat /\ write_queue' <= WQ_CAPACITY
        /\ write_served' \in Nat /\ write_served' <= write_queue'
    <3>1. /\ write_queue \in Nat /\ write_queue <= WQ_CAPACITY /\ WQ_CAPACITY \in Nat
          /\ write_served \in Nat /\ write_served <= write_queue /\ write_served' = write_served
      BY <1>1, <1>2, Limits, Zenon DEF MemoryType
    <3>2. write_queue # WQ_CAPACITY
      BY <1>2, Zenon DEF CanFetch
    <3>3. write_queue' = write_queue \/ write_queue' = write_queue + 1
      BY <1>3, Zenon
    <3>. QED  BY <3>1, <3>2, <3>3
  <2>. QED  BY <1>1, <1>2, <1>4, <2>1, Zenon DEF MemoryType
<1>7. GateType' /\ CountType' /\ Flags'
  BY <1>1, <1>2, <1>5, Zenon DEF GateType, CountType, Flags
<1>8. ReadsAwaited' /\ LongestInRob'
  <2>1. Fetched' \in Int /\ Fetched <= Fetched' /\ read_queue \in SUBSET QueuedRead
    BY <1>1, <1>4 DEF MemoryType
  <2>. QED  BY <1>1, <1>2, <1>4, <2>1, ReadsFrame
<1>9. Wakeup'
  BY <1>4, <1>5, Zenon DEF Wakeup
<1>10. BatchInv'
  <2>. SUFFICES ASSUME ring_evictctr = 0 PROVE NoEviction' /\ Counted'
    BY <1>2, Zenon DEF BatchInv
  <2>1. NoEviction /\ Counted
    BY <1>1, Zenon DEF BatchInv
  <2>2. NoEviction'
    BY <1>2, <2>1, Zenon DEF NoEviction
  <2>3. Taken = 0 /\ Taken' = 0
    BY <1>2 DEF Taken
  <2>4. \A r \in read_queue : r.op \notin OpType
    <3>1. \A r \in read_queue : r.id \in Nat /\ r.id <= Fetched
      BY <1>1, Zenon DEF ReadsAwaited, Known, MemoryType, QueuedRead
    <3>2. \A r \in read_queue : r.op \in OpType => r.id > Fetched - 0
      BY <2>1, <2>3, Zenon DEF Counted
    <3>3. \A n, f \in Int : n <= f => ~(n > f - 0)
      OBVIOUS
    <3>4. \A n \in Nat : n \in Int
      OBVIOUS
    <3>. QED  BY <1>4, <3>1, <3>2, <3>3, <3>4, Zenon
  <2>. QED  BY <1>2, <2>1, <2>2, <2>3, <2>4, Zenon DEF Counted
<1>. QED
  BY <1>2, <1>4, <1>6, <1>7, <1>8, <1>9, <1>10, Zenon DEF Inv

-------------------------------------------------------------------------------
LEMMA InvInit == Init => Inv
<1>. SUFFICES ASSUME Init PROVE Inv
  OBVIOUS
<1>1. /\ phase = "retire" /\ clk = 0 /\ num = 0
      /\ invokectr = 0 /\ ring_evictctr = 0 /\ oramQ = << >>
      /\ nonmemops \in 0 .. MAX_NONMEM
      /\ ROB = << >> /\ read_queue = {} /\ write_queue = 0 /\ write_served = 0
      /\ drain_writes = FALSE
      /\ last_read_served = TRUE /\ last_lock_released = TRUE /\ last_read_deleted = TRUE
      /\ determineReq = 0 /\ longest_req = 0 /\ comptime_max = ZERO
      /\ cur_served = [ b \in OpType \X Type |-> 0 ]
  BY Zenon DEF Init
<1>2. cur \in Cur /\ cur.op = "n" /\ cur.id = 0 /\ cur.line = 1 /\ cur.op \notin OpType
  <2>1. FIRST_LAST_READ \in BOOLEAN
    BY GateAssumption
  <2>2. cur \in [ op : { "n" }, type : Type, k : { 0 }, last : { FIRST_LAST_READ }, id : { 0 }, line : { 1 } ]
    BY Zenon DEF Init
  <2>3. 1 \in Lines
    BY Limits DEF Lines
  <2>. QED  BY <2>1, <2>2, <2>3 DEF Cur, Ops, OpType
<1>3. ControlType
  BY <1>1, Limits DEF ControlType, Phase
<1>4. SourceType
  BY <1>1, <1>2, Limits DEF SourceType
<1>5. MemoryType
  <2>1. ROB \in Seq(RobEntry) /\ Len(ROB) = 0 /\ DOMAIN ROB = {} /\ 0 <= ROBSIZE /\ 0 <= WQ_CAPACITY
    BY <1>1, Limits
  <2>2. 0 \in Nat /\ 0 <= 0
    OBVIOUS
  <2>. QED  BY <1>1, <2>1, <2>2, Zenon DEF MemoryType
<1>6. GateType /\ Flags
  BY <1>1 DEF GateType, Flags
<1>7. CountType
  <2>1. cur_served \in [ BatchType -> Nat ] /\ \A b \in BatchType : cur_served[b] = 0
    BY <1>1 DEF BatchType
  <2>2. \A b \in BatchType : cur_served[b] <= to_serve[b]
    BY <2>1, Sizes
  <2>3. comptime_max \in ZERO .. BIGNUM - 1
    BY <1>1, Times
  <2>4. determineReq \in 0 .. cur.id /\ longest_req \in 0 .. cur.id
    BY <1>1, <1>2
  <2>. QED  BY <2>1, <2>2, <2>3, <2>4, Zenon DEF CountType
<1>8. InSequence
  BY <1>1, <1>2 DEF InSequence, AtEnd
<1>9. EachFetchedOnce
  BY <1>1 DEF EachFetchedOnce, Requests
<1>10. ReadsAwaited /\ Wakeup
  BY <1>1 DEF ReadsAwaited, Wakeup
<1>11. LongestInRob
  BY <1>1, Times DEF LongestInRob
<1>12. BatchInv
  <2>1. NoEviction
    BY <1>1, <1>2 DEF NoEviction, OpType
  <2>2. Ids(read_queue) = {} /\ IsFiniteSet(Ids(read_queue))
    BY <1>1, FS_EmptySet DEF Ids
  <2>3. \A o \in OpType : << o, "R" >> \in OpType \X Type
    BY DEF Type
  <2>4. \A o \in OpType : cur_served[<< o, "R" >>] = 0
    BY <1>1, <2>3
  <2>. QED  BY <1>1, <1>2, <2>1, <2>2, <2>4, Zenon DEF BatchInv, Counted
<1>. QED
  BY <1>3, <1>4, <1>5, <1>6, <1>7, <1>8, <1>9, <1>10, <1>11, <1>12, Zenon DEF Inv

LEMMA InvNext == Inv /\ [Next]_vars => Inv'
<1>. SUFFICES ASSUME Inv, [Next]_vars PROVE Inv'
  OBVIOUS
<1>1. CASE RetireEnd \/ Enter \/ Wait \/ FetchEnd \/ Finish
  BY <1>1, LoopsNext
<1>2. CASE FetchNonMem \/ FetchFiller
  BY <1>2, OtherNext
<1>3. CASE Retire
  BY <1>3, RetireNext
<1>4. CASE Clean
  BY <1>4, CleanNext
<1>5. CASE IssueRead \/ IssueWrite \/ IssueNothing
  BY <1>5, IssueNext
<1>6. CASE FetchRead
  BY <1>6, FetchReadNext
<1>7. CASE FetchWrite
  BY <1>7, FetchWriteNext
<1>8. CASE Invoke
  BY <1>8, InvokeNext
<1>9. CASE Dequeue
  BY <1>9, DequeueNext
<1>10. CASE Tick
  BY <1>10, TickNext
<1>11. CASE UNCHANGED vars
  <2>1. UNCHANGED << source, ROB, memq, gate, count >> /\ UNCHANGED << phase, clk, num >>
    BY <1>11 DEF vars
  <2>2. cur' = cur /\ last_lock_released' = last_lock_released
    BY <2>1 DEF source, gate
  <2>3. ControlType' /\ (CurFetched' <=> CurFetched) /\ Soonest' = Soonest
    BY <2>1, <2>2, Zenon DEF Inv, ControlType, CurFetched, Soonest
  <2>. QED  BY <2>1, <2>3, QuietStep
<1>. QED
  BY <1>1, <1>2, <1>3, <1>4, <1>5, <1>6, <1>7, <1>8, <1>9, <1>10, <1>11 DEF Next

(* The invariant of the cycle, for every ROB, queue, tree and trace. *)
THEOREM Inductive == Spec => []Inv
<1>. QED  BY InvInit, InvNext, PTL DEF Spec

(* Types, and the limits of the ROB, of the write queue and of the counts   *)
(* of served requests.                                                      *)
THEOREM TypeCorrect == Spec => []TypeOK
<1>1. Inv => TypeOK
  <2>. SUFFICES ASSUME Inv PROVE TypeOK
    OBVIOUS
  <2>1. ControlType /\ SourceType /\ MemoryType /\ GateType /\ CountType
    BY Zenon DEF Inv
  <2>2. phase \in Phase /\ clk \in 0 .. PROCESSOR_CLK_MULTIPLIER - 1
    BY <2>1, Zenon DEF ControlType
  <2>3. num \in 0 .. MAX_FETCH \/ num \in 0 .. MAX_RETIRE
    BY <2>1, Limits DEF ControlType
  <2>4. gate \in BOOLEAN \X BOOLEAN \X BOOLEAN
    BY <2>1 DEF GateType, gate
  <2>5. \A b \in OpType \X Type : cur_served[b] \in 0 .. to_serve[b]
    <3>1. \A b \in BatchType : cur_served[b] \in Nat /\ cur_served[b] <= to_serve[b] /\ to_serve[b] \in Nat
      BY <2>1, Sizes DEF CountType
    <3>. QED  BY <3>1 DEF BatchType
  <2>. QED
    BY <2>1, <2>2, <2>3, <2>4, <2>5, Zenon DEF TypeOK, Phase, SourceType, MemoryType, CountType
<1>. QED  BY <1>1, Inductive, PTL

(* Each request is fetched once and in order, through every closing of the  *)
(* gate and every filler.                                                  *)
THEOREM FetchedOnce == Spec => []EachFetchedOnce
<1>1. Inv => EachFetchedOnce
  BY Zenon DEF Inv
<1>. QED  BY <1>1, Inductive, PTL

(* Until the first eviction a closed gate has only reads of its batch in    *)
(* the memory.                                                             *)
THEOREM OneBatch == Spec => []OneBatchInMemory
<1>1. Inv => OneBatchInMemory
  <2>. SUFFICES ASSUME Inv, ring_evictctr = 0, cur.op \in OpType, cur.type = "R", cur.last,
                       ~last_read_served,
                       NEW r \in read_queue, r.op \in OpType
                PROVE  r.op = cur.op /\ InBatch(r.id)
    BY Zenon DEF OneBatchInMemory
  <2>1. /\ SourceType /\ MemoryType /\ Flags /\ InSequence /\ ReadsAwaited
        /\ NoEviction /\ Counted
    BY Zenon DEF Inv, BatchInv
  <2>. DEFINE b == << cur.op, "R" >>
  <2>2. CurFetched /\ Fetched = cur.id
    BY <2>1, Zenon DEF Flags, CurFetched, Fetched
  <2>3. r.op = cur.op /\ r.id > Fetched - Taken
    BY <2>1, Zenon DEF Counted
  <2>4. r.id \in Nat /\ cur.id \in Nat
    BY <2>1 DEF MemoryType, QueuedRead, SourceType, Cur
  <2>5. Size(b) \in Nat /\ Place \in Nat /\ Place <= Size(b)
    BY <2>1, CurBatch
  <2>6. Taken = 0 \/ Taken = Place
    BY <2>2, <2>5, Zenon DEF Taken
  <2>. HIDE DEF b
  <2>7. r.id > cur.id - Size(b)
    BY <2>2, <2>3, <2>4, <2>5, <2>6
  <2>. QED  BY <2>3, <2>7, Zenon DEF InBatch, b
<1>. QED  BY <1>1, Inductive, PTL

(* A gate that a batch has closed misses only reads that are in the memory, *)
(* until the first eviction, and a closed gate whose reads have left the    *)
(* memory has in the ROB the read that opens it when it is retired.        *)
THEOREM Awoken == Spec => []WakeupPending
<1>1. Inv => WakeupPending
  <2>. SUFFICES ASSUME Inv PROVE WakeupPending
    OBVIOUS
  <2>1. SourceType /\ Flags /\ InSequence /\ Wakeup /\ BatchInv
    BY Zenon DEF Inv
  <2>2. ASSUME ~last_read_deleted, cur.line = 0, ring_evictctr = 0
        PROVE  cur_served[<< cur.op, "R" >>] + Cardinality(Ids(read_queue)) = to_serve[<< cur.op, "R" >>]
    <3>. DEFINE b == << cur.op, "R" >>
                n == Cardinality(Ids(read_queue))
    <3>1. NoEviction /\ Counted
      BY <2>1, <2>2, Zenon DEF BatchInv
    <3>2. cur.op \in OpType /\ cur.type = "R" /\ cur.last /\ CurFetched
      BY <2>1, <2>2, Zenon DEF InSequence, Flags, CurFetched
    <3>3. cur.k = Place /\ to_serve[b] = Size(b) /\ cur.k = Size(b) /\ Size(b) \in Nat
      BY <2>1, <2>2, <3>1, <3>2, CurBatch
    <3>4. Taken = to_serve[b]
      BY <2>2, <3>2, <3>3, Zenon DEF Taken
    <3>5. cur_served[b] = Taken - n /\ n \in Nat
      BY <3>1, <3>2, FS_CardinalityType DEF Counted
    <3>. HIDE DEF b, n
    <3>6. cur_served[b] + n = to_serve[b]
      BY <3>3, <3>4, <3>5
    <3>. QED  BY <3>6 DEF b, n
  <2>3. ASSUME last_read_deleted, ~last_read_served
        PROVE  \E i \in DOMAIN ROB : ROB[i].kind = "R" /\ ROB[i].id = determineReq
    BY <2>1, <2>3, Zenon DEF Wakeup, InRob, Waits
  <2>. QED  BY <2>2, <2>3, Zenon DEF WakeupPending, Ids
<1>. QED  BY <1>1, Inductive, PTL

===============================================================================

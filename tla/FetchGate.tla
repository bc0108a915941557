------------------------------ MODULE FetchGate ------------------------------
(***************************************************************************)
(* The cycle of main.c around the ORAM queue when WAIT_ENABLE is set:      *)
(* retirement from the reorder buffer, one step of the memory system, and  *)
(* the fetch loop, which moves requests from oramQ to the ROB and to the   *)
(* read and write queues and stops after the last request of a batch until *)
(* the batch is served.                                                    *)
(*                                                                         *)
(* An access is a sequence of batches <<op_type, type>>: what one metadata *)
(* access, path read, eviction or reshuffle inserts with insert_oramQ.     *)
(* One read of a batch is its "beginning" and one has last_read set.       *)
(* The access of a block that is in the stash inserts nothing: the fetch   *)
(* loop then takes the line of the trace for a request, with the operation, *)
(* the number and the last_read of the request before.                     *)
(*                                                                         *)
(* The configuration is NVM_ENABLE, DUMMY_ENABLE, TIMING_ENABLE and        *)
(* NONSEC_ENABLE off and one channel.  A bank that cannot take a command   *)
(* now is a choice: schedule may issue nothing, or any read, in a memory   *)
(* cycle.                                                                  *)
(*                                                                         *)
(* Times are relative to CYCLE_VAL and are not told apart once past.       *)
(***************************************************************************)
EXTENDS Integers, Sequences, FiniteSets

CONSTANTS
  ROBSIZE, MAX_FETCH, MAX_RETIRE, PIPELINEDEPTH, PROCESSOR_CLK_MULTIPLIER,
  WQ_CAPACITY, HI_WM, LO_WM, WQ_LOOKUP_LATENCY, RQ_LOOKUP_LATENCY,
  READ_TIME,       (* T_CAS + T_DATA_TRANS, each a multiple of the clock    *)
  LEVELS,          (* LEVEL - TOP_CACHE: the levels of the tree in memory   *)
  RING_Z,          (* reads of a bucket in an eviction or a reshuffle       *)
  LZ,              (* slots of a bucket                                     *)
  COUNTED,         (* CB_ENABLE \/ (DEAD_ENABLE /\ DYNAMIC_S)               *)
  Accesses,        (* the sequences of batches an access may consist of,    *)
                   (* << >> that of a block in the stash                    *)
  MAX_NONMEM,      (* bound: other instructions between two trace lines     *)
  MAX_ACCESS,      (* bound: accesses until the end of the trace            *)
  FIRST_LAST_READ  (* last_read[] before its first assignment: main's stack *)

Type == { "R", "W" }

(* Metadata, path read, eviction, reshuffle. *)
OpType == { "m", "o", "e", "r" }

(* The requests of a batch.  An eviction reads and writes a bucket on every *)
(* level, a path read and a metadata access have one request per level.     *)
Size(b) ==
  CASE b[1] = "e" -> LEVELS * (IF b[2] = "R" THEN RING_Z ELSE LZ)
    [] b[1] = "r" -> IF b[2] = "R" THEN RING_Z ELSE LZ
    [] OTHER -> LEVELS

ASSUME GateAssumption ==
  /\ { ROBSIZE, MAX_FETCH, MAX_RETIRE, PROCESSOR_CLK_MULTIPLIER, READ_TIME } \subseteq Nat \ {0}
  /\ { PIPELINEDEPTH, WQ_LOOKUP_LATENCY, RQ_LOOKUP_LATENCY, MAX_NONMEM, MAX_ACCESS } \subseteq Nat
  /\ READ_TIME >= PROCESSOR_CLK_MULTIPLIER
  /\ LO_WM \in Nat /\ HI_WM \in Nat /\ WQ_CAPACITY \in Nat
  /\ LO_WM < HI_WM /\ HI_WM < WQ_CAPACITY
  /\ LEVELS \in Nat \ {0} /\ RING_Z \in Nat \ {0} /\ LZ \in Nat /\ LZ >= RING_Z
  /\ COUNTED \in BOOLEAN
  /\ Accesses \subseteq Seq(OpType \X Type)
  /\ FIRST_LAST_READ \in BOOLEAN

VARIABLES
  phase,       (* part of the cycle: retire, memory, fetch, tick; or done   *)
  clk,         (* CYCLE_VAL % PROCESSOR_CLK_MULTIPLIER                      *)
  num,         (* num_ret or num_fetch                                      *)
  invokectr,   (* accesses invoked                                          *)
  ring_evictctr, (* those of them with an eviction                          *)
  oramQ,       (* by batches: b with its requests k .. Size(b)              *)
  cur,         (* addr[], opertype[], op_type[], last_read[], ... of core 0 *)
  nonmemops,
  ROB,         (* the inflight entries, head first                          *)
  read_queue,
  write_queue, (* write_queue_length                                        *)
  write_served,(* writes of it that were issued                             *)
  drain_writes,
  last_read_served, last_lock_released, last_read_deleted,
  determineReq,
  longest_req, comptime_max,
  cur_served   (* cur_dram_served_o, _e_r, _e_w, _r_r, _r_w                 *)

gate == << last_read_served, last_lock_released, last_read_deleted >>
count == << determineReq, longest_req, comptime_max, cur_served >>
memq == << read_queue, write_queue, write_served, drain_writes >>
source == << invokectr, ring_evictctr, oramQ, cur, nonmemops >>
vars == << phase, clk, num, source, ROB, memq, gate, count >>

(* Times: BIGNUM, later than all others, until the read is issued, PAST     *)
(* when comptime < CYCLE_VAL, ZERO for a comptime_max that was reset.       *)
BIGNUM == READ_TIME + WQ_LOOKUP_LATENCY + RQ_LOOKUP_LATENCY + PIPELINEDEPTH + 1
PAST == -1
ZERO == -2
Aged(t) == IF t = BIGNUM \/ t <= PAST THEN t ELSE t - 1

(* The eviction reads from the tree-top cache down: its "last read" is the  *)
(* last one of the first level, its beginning the first of the last level.  *)
Beginning(b) == IF b[1] = "e" THEN Size(b) - RING_Z + 1 ELSE 1

(* A written bucket has last_read set on its last slot. *)
LastOf(b) ==
  CASE b = << "e", "R" >> -> { RING_Z }
    [] b = << "e", "W" >> -> { LZ * i : i \in 1 .. LEVELS }
    [] OTHER -> { Size(b) }

(* dram_to_serve_*: the size of the batch; with dtser the count of the      *)
(* eviction when its "last read" is inserted.                               *)
to_serve ==
  [ b \in OpType \X Type |-> IF b = << "e", "R" >> /\ COUNTED THEN RING_Z ELSE Size(b) ]

(* Request k of batch b, the n-th since the start.  line is auxiliary: 0    *)
(* here, another number in each line of the trace that is fetched as it is. *)
Request(b, k, n) ==
  [ op |-> b[1], type |-> b[2], k |-> k, last |-> k \in LastOf(b), id |-> n, line |-> 0 ]

(* The line of the trace of access n, after the request r.                 *)
TraceLine(r, type, n) == [ r EXCEPT !.type = type, !.line = n + 1 ]

insert_oramQ(acc) == [ i \in DOMAIN acc |-> [ b |-> acc[i], k |-> 1 ] ]

Entry(kind, r, t) == [ kind |-> kind, op |-> r.op, id |-> r.id, line |-> r.line, t |-> t ]
Other(kind, t) == [ kind |-> kind, op |-> "n", id |-> 0, line |-> 0, t |-> t ]

(* A read of the memory and its ROB entry (instruction_id).                *)
Same(r, e) == e.kind = "R" /\ e.id = r.id /\ e.line = r.line

-------------------------------------------------------------------------------
(* The served counters. *)

(* update_served_count: one more of the batch, until all of it. *)
update_served_count_one_short(b) ==
  IF b \in OpType \X Type /\ cur_served[b] < to_serve[b] - 1
  THEN [ cur_served EXCEPT ![b] = @ + 1 ]
  ELSE cur_served
update_served_count(b) ==
  IF b \in OpType \X Type /\ cur_served[b] < to_serve[b]
  THEN [ cur_served EXCEPT ![b] = @ + 1 ]
  ELSE cur_served

(* set_comptime_max: the completion times t that exceed comptime_max. *)
Exceeds_earliest(t) == { t < comptime_max \/ comptime_max = ZERO }
Exceeds(t) ==
  { x \in BOOLEAN : IF t = PAST /\ comptime_max = PAST THEN TRUE ELSE x = (t > comptime_max) }

(* The read r completes at t: deleted is last_read_deleted before it. *)
ReadServed(r, t, deleted) ==
  \E x \in Exceeds(t) :
    LET b == << r.op, "R" >>
        s == update_served_count(b)
        all == ~deleted /\ b \in DOMAIN s /\ s[b] = to_serve[b]
        longest == IF x THEN r.id ELSE longest_req
    IN  /\ comptime_max' = IF x THEN t ELSE comptime_max
        /\ longest_req' = longest
        /\ last_read_deleted' = (deleted \/ all)
        /\ determineReq' = IF all THEN longest ELSE determineReq
        /\ cur_served' = IF all THEN [ s EXCEPT ![b] = 0 ] ELSE s

(* The same for a write, which opens the gate itself. *)
WriteServed(r, t) ==
  \E x \in Exceeds(t) :
    LET b == << r.op, "W" >>
        s == update_served_count(b)
        all == ~last_read_served /\ b \in DOMAIN s /\ s[b] = to_serve[b]
    IN  /\ comptime_max' = IF x THEN t ELSE comptime_max
        /\ longest_req' = IF x THEN r.id ELSE longest_req
        /\ last_read_served' = (last_read_served \/ all)
        /\ cur_served' = IF all THEN [ s EXCEPT ![b] = 0 ] ELSE s

-------------------------------------------------------------------------------
(* main: the retire loop.  It does not start before last_read_deleted.  A   *)
(* filler, and an entry of the same operation as the last one, takes no     *)
(* retire width: the loop may go on after MAX_RETIRE entries.               *)
Retirable == ROB # << >> /\ Head(ROB).t = PAST

Retire ==
  /\ phase = "retire"
  /\ last_read_deleted /\ Retirable
  /\ LET h == Head(ROB)
     IN  /\ IF h.kind = "W"
            THEN WriteServed(h, h.t) /\ UNCHANGED determineReq
            ELSE LET served == h.kind = "R" /\ h.id = determineReq /\ ~last_read_served
                 IN  /\ last_read_served' = (last_read_served \/ served)
                     /\ determineReq' = IF served THEN 0 ELSE determineReq
                     /\ UNCHANGED << longest_req, comptime_max, cur_served >>
         /\ num' = IF h.kind = "D" \/ num = MAX_RETIRE THEN num ELSE num + 1
  /\ ROB' = Tail(ROB)
  /\ UNCHANGED << phase, clk, source, memq, last_lock_released, last_read_deleted >>

(* PROCESSOR_CLK_MULTIPLIER cycles of the processor are one of the memory. *)
RetireEnd ==
  /\ phase = "retire"
  /\ last_read_deleted /\ Retirable => num = MAX_RETIRE
  /\ phase' = IF clk = 0 THEN "memory" ELSE "gate"
  /\ num' = 0
  /\ UNCHANGED << clk, source, ROB, memq, gate, count >>

-------------------------------------------------------------------------------
(* update_memory: clean_queues removes the reads that were issued. *)
Clean ==
  /\ phase = "memory"
  /\ \E r \in read_queue :
       /\ r.issued
       /\ ReadServed(r, r.t, last_read_deleted)
       /\ read_queue' = read_queue \ { r }
  /\ UNCHANGED << phase, clk, num, source, ROB, write_queue, write_served, drain_writes,
                  last_read_served, last_lock_released >>

(* The writes left after clean_queues, and the mode that schedule takes. *)
Writes == write_queue - write_served

Drain == Writes > HI_WM \/ read_queue = {} \/ (drain_writes /\ Writes > LO_WM)

(* schedule, after clean_queues: issued is the read that gets its COL_READ  *)
(* in this cycle, and w the number of writes that get their COL_WRITE.      *)
Schedule(issued, w) ==
  /\ phase = "memory" /\ \A r \in read_queue : ~r.issued
  /\ drain_writes' = Drain
  /\ write_queue' = Writes
  /\ write_served' = w
  /\ read_queue' = { IF r \in issued THEN [ r EXCEPT !.issued = TRUE, !.t = READ_TIME ] ELSE r :
                     r \in read_queue }
  /\ ROB' = [ i \in DOMAIN ROB |->
              IF \E r \in issued : Same(r, ROB[i])
              THEN [ ROB[i] EXCEPT !.t = READ_TIME + PIPELINEDEPTH ] ELSE ROB[i] ]
  /\ phase' = "gate"
  /\ UNCHANGED << clk, num, source, gate, count >>

IssueRead == ~Drain /\ \E r \in read_queue : Schedule({ r }, 0)

IssueWrite == Drain /\ Writes > 0 /\ Schedule({}, 1)

(* No bank can take a column command. *)
IssueNothing == Schedule({}, 0)

-------------------------------------------------------------------------------
(* main: the fetch loop starts when the last batch was served. *)
Open_always == TRUE
Open == last_read_served

(* The lock after the request r was fetched. *)
LockAfter_kept(r) == TRUE
LockAfter(r) == ~r.last

Enter ==
  /\ phase = "gate"
  /\ phase' = IF Open THEN "fetch" ELSE "tick"
  /\ UNCHANGED << clk, num, source, ROB, memq, gate, count >>

CanFetch_full_queue ==
  /\ phase = "fetch"
  /\ num < MAX_FETCH /\ Len(ROB) # ROBSIZE
CanFetch ==
  /\ phase = "fetch"
  /\ num < MAX_FETCH /\ Len(ROB) # ROBSIZE /\ write_queue # WQ_CAPACITY

FetchNonMem ==
  /\ CanFetch
  /\ nonmemops > 0 /\ last_lock_released
  /\ ROB' = Append(ROB, Other("N", PIPELINEDEPTH))
  /\ nonmemops' = nonmemops - 1
  /\ num' = num + 1
  /\ UNCHANGED << phase, clk, invokectr, ring_evictctr, oramQ, cur, memq, gate, count >>

(* read_matches_write_or_read_queue: the latency of a request that holds    *)
(* the same address, 0 if none does.                                        *)
Match ==
  { 0 } \cup (IF write_queue > 0 THEN { WQ_LOOKUP_LATENCY } ELSE {})
        \cup (IF read_queue # {} THEN { RQ_LOOKUP_LATENCY } ELSE {})

FetchRead ==
  /\ CanFetch
  /\ ~(nonmemops > 0 /\ last_lock_released)
  /\ cur.type = "R" /\ last_lock_released
  /\ LET deleted == last_read_deleted /\ ~cur.last
     IN  \E lat \in Match :
           IF lat > 0
           THEN /\ ROB' = Append(ROB, Entry("R", cur, lat + PIPELINEDEPTH))
                /\ ReadServed(cur, lat + PIPELINEDEPTH, deleted)
                /\ UNCHANGED read_queue
           ELSE /\ ROB' = Append(ROB, Entry("R", cur, BIGNUM))
                /\ read_queue' = read_queue \cup
                     { [ op |-> cur.op, id |-> cur.id, line |-> cur.line,
                         issued |-> FALSE, t |-> BIGNUM ] }
                /\ last_read_deleted' = deleted
                /\ UNCHANGED count
  /\ last_read_served' = (last_read_served /\ ~cur.last)
  /\ last_lock_released' = LockAfter(cur)
  /\ num' = num + 1
  /\ phase' = "next"
  /\ UNCHANGED << clk, source, write_queue, write_served, drain_writes >>

(* A write that is merged with one in the queue (write_exists_in_write_queue) *)
(* gets its ROB entry and leaves the gate as it is.                         *)
FetchWrite ==
  /\ CanFetch
  /\ ~(nonmemops > 0 /\ last_lock_released)
  /\ cur.type = "W" /\ last_lock_released
  /\ \/ /\ write_queue > 0
        /\ UNCHANGED << write_queue, gate >>
     \/ /\ write_queue' = write_queue + 1
        /\ last_read_deleted' = (last_read_deleted \/ cur.last)
        /\ last_read_served' = TRUE
        /\ last_lock_released' = TRUE
  /\ ROB' = Append(ROB, Entry("W", cur, PIPELINEDEPTH))
  /\ num' = num + 1
  /\ phase' = "next"
  /\ UNCHANGED << clk, source, read_queue, write_served, drain_writes, count >>

(* The lock is not released: the loop advances the tail over an entry that  *)
(* it does not write, which was retired (optype 'D') long ago.              *)
FetchFiller ==
  /\ CanFetch
  /\ ~last_lock_released
  /\ ROB' = Append(ROB, Other("D", PAST))
  /\ num' = num + 1
  /\ phase' = "next"
  /\ UNCHANGED << clk, source, memq, gate, count >>

(* oramQ is empty: the next miss of the trace invokes an ORAM access.  If   *)
(* it inserts nothing, no request replaces the line and the loop goes on.  *)
Invoke ==
  /\ phase = "next"
  /\ oramQ = << >> /\ Open
  /\ invokectr < MAX_ACCESS
  /\ \E acc \in Accesses, type \in Type :
       /\ oramQ' = insert_oramQ(acc)
       /\ ring_evictctr' =
            ring_evictctr + (IF \E i \in DOMAIN acc : acc[i] = << "e", "R" >> THEN 1 ELSE 0)
       /\ cur' = TraceLine(cur, type, invokectr + 1)
       /\ phase' = IF acc = << >> THEN "fetch" ELSE "next"
  /\ nonmemops' \in 0 .. MAX_NONMEM
  /\ invokectr' = invokectr + 1
  /\ UNCHANGED << clk, num, ROB, memq, gate, count >>

(* The end of the trace. *)
Finish ==
  /\ phase = "next"
  /\ oramQ = << >> /\ Open
  /\ invokectr = MAX_ACCESS
  /\ phase' = "done"
  /\ UNCHANGED << clk, num, source, ROB, memq, gate, count >>

Dequeue ==
  /\ phase = "next"
  /\ oramQ # << >> /\ Open
  /\ last_lock_released' = TRUE
  /\ LET h == Head(oramQ)
     IN  /\ cur' = Request(h.b, h.k, cur.id + 1)
         /\ oramQ' = IF h.k = Size(h.b) THEN Tail(oramQ) ELSE [ oramQ EXCEPT ![1].k = @ + 1 ]
         /\ comptime_max' =
              IF h.b[2] = "R" /\ h.k = Beginning(h.b) THEN ZERO ELSE comptime_max
  /\ phase' = "fetch"
  /\ UNCHANGED << clk, num, invokectr, ring_evictctr, nonmemops, ROB, memq,
                  last_read_served, last_read_deleted, determineReq, longest_req, cur_served >>

(* The batch is not served: the request is kept. *)
Wait ==
  /\ phase = "next"
  /\ ~Open
  /\ phase' = "fetch"
  /\ UNCHANGED << clk, num, source, ROB, memq, gate, count >>

FetchEnd ==
  /\ phase = "fetch" /\ ~CanFetch
  /\ phase' = "tick"
  /\ UNCHANGED << clk, num, source, ROB, memq, gate, count >>

-------------------------------------------------------------------------------
(* CYCLE_VAL++ *)
Tick ==
  /\ phase = "tick"
  /\ ROB' = [ i \in DOMAIN ROB |-> [ ROB[i] EXCEPT !.t = Aged(@) ] ]
  /\ read_queue' = { [ r EXCEPT !.t = Aged(@) ] : r \in read_queue }
  /\ comptime_max' = Aged(comptime_max)
  /\ clk' = (clk + 1) % PROCESSOR_CLK_MULTIPLIER
  /\ num' = 0
  /\ phase' = "retire"
  /\ UNCHANGED << source, write_queue, write_served, drain_writes, gate,
                  determineReq, longest_req, cur_served >>

(* The first line of the trace is fetched as it is, before any access.      *)
Init ==
  /\ phase = "retire" /\ clk = 0 /\ num = 0
  /\ invokectr = 0 /\ ring_evictctr = 0
  /\ oramQ = << >>
  /\ cur \in [ op : { "n" }, type : Type, k : { 0 }, last : { FIRST_LAST_READ }, id : { 0 }, line : { 1 } ]
  /\ nonmemops \in 0 .. MAX_NONMEM
  /\ ROB = << >>
  /\ read_queue = {} /\ write_queue = 0 /\ write_served = 0 /\ drain_writes = FALSE
  /\ last_read_served = TRUE /\ last_lock_released = TRUE /\ last_read_deleted = TRUE
  /\ determineReq = 0 /\ longest_req = 0 /\ comptime_max = ZERO
  /\ cur_served = [ b \in OpType \X Type |-> 0 ]

Next ==
  \/ Retire \/ RetireEnd
  \/ Clean \/ IssueRead \/ IssueWrite \/ IssueNothing
  \/ Enter \/ FetchNonMem \/ FetchRead \/ FetchWrite \/ FetchFiller
  \/ Invoke \/ Finish \/ Dequeue \/ Wait \/ FetchEnd
  \/ Tick

Spec == Init /\ [][Next]_vars

(* The program never blocks, and the timing of the banks leaves every       *)
(* command issuable again and again.                                        *)
FairSpec == Spec /\ WF_vars(Next) /\ SF_vars(IssueRead) /\ SF_vars(IssueWrite)
-------------------------------------------------------------------------------
(* Types, and the limits of ROB, write queue and served counters. *)
TypeOK ==
  /\ phase \in { "retire", "memory", "gate", "fetch", "next", "tick", "done" }
  /\ clk \in 0 .. PROCESSOR_CLK_MULTIPLIER - 1
  /\ num \in 0 .. MAX_FETCH \/ num \in 0 .. MAX_RETIRE
  /\ invokectr \in 0 .. MAX_ACCESS /\ ring_evictctr \in 0 .. invokectr /\ nonmemops \in 0 .. MAX_NONMEM
  /\ Len(ROB) <= ROBSIZE
  /\ write_served <= write_queue /\ write_queue <= WQ_CAPACITY
  /\ gate \in BOOLEAN \X BOOLEAN \X BOOLEAN
  /\ determineReq \in 0 .. cur.id /\ longest_req \in 0 .. cur.id
  /\ \A b \in OpType \X Type : cur_served[b] \in 0 .. to_serve[b]

Requests == { i \in DOMAIN ROB : ROB[i].kind \in Type /\ ROB[i].line = 0 }

(* The requests fetched so far: cur is one of them once it is in the ROB.  *)
CurFetched == phase \in { "next", "done" } \/ ~last_lock_released
Fetched == IF CurFetched \/ cur.line # 0 THEN cur.id ELSE cur.id - 1

(* No request of oramQ is fetched twice and none is skipped, whatever the   *)
(* fetch loop does while the gate is closed and whichever lines of the     *)
(* trace it takes between two accesses: the requests in the ROB are        *)
(* consecutive, and the lock tells whether the current one is among them.   *)
EachFetchedOnce ==
  \A i \in Requests :
    /\ \A j \in Requests :
         i < j /\ (\A k \in Requests : k <= i \/ k >= j) => ROB[j].id = ROB[i].id + 1
    /\ (\A j \in Requests : j <= i) => ROB[i].id = Fetched

(* The last batch of reads that was fetched has Size requests.             *)
InBatch(id) == id > cur.id - Size(<< cur.op, "R" >>)

(* While the gate is closed for a batch, only its reads are in the memory:  *)
(* a read queue never holds two batches.  The first eviction ends that: its *)
(* reads below the first level pass the gate uncounted, and counted later   *)
(* they open it for the batch after.                                        *)
OneBatchInMemory ==
  /\ ring_evictctr = 0
  /\ cur.op \in OpType /\ cur.type = "R" /\ cur.last /\ ~last_read_served
  => \A r \in read_queue : r.op \in OpType => r.op = cur.op /\ InBatch(r.id)

(* A gate that is closed for a batch opens again: a read that its count     *)
(* still waits for is in the memory (until the first eviction), and once    *)
(* they have all left the memory, the read that the retire loop waits for   *)
(* is in the ROB.  A line of the trace may close the gate for a batch that  *)
(* nobody has fetched; its count does not come.                             *)
WakeupPending ==
  /\ ~last_read_deleted /\ cur.line = 0 /\ ring_evictctr = 0 =>
       LET b == << cur.op, "R" >>
       IN  cur_served[b] + Cardinality({ r.id : r \in { q \in read_queue : q.op \in OpType } })
             = to_serve[b]
  /\ last_read_deleted /\ ~last_read_served =>
       \E i \in DOMAIN ROB : ROB[i].kind = "R" /\ ROB[i].id = determineReq

(* WAIT_ENABLE, "wait for last read req to complete" (params.h:196): the    *)
(* read completes, so the wait ends.                                        *)
WaitEnds == ~last_read_served ~> last_read_served

(* The read of a line of the trace has closed the gate: it had last_read    *)
(* set from the request before it.                                          *)
ClosedByLine == cur.line # 0 /\ ~last_read_served

(* Every batch is served and the fetch loop goes on: unless a line of the   *)
(* trace closes the gate, the trace is consumed.                            *)
TraceConsumed == <>(phase = "done" \/ ClosedByLine)
===============================================================================

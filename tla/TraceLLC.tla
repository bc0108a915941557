------------------------------- MODULE TraceLLC -------------------------------
(***************************************************************************)
(* How main.c gets its requests: it reads the trace through the last-level *)
(* cache (cache.c) until a line misses, and invokes the ORAM for the miss. *)
(* When the miss evicts a dirty block, the write of that block is invoked  *)
(* first and the miss waits for the next turn.                             *)
(*                                                                         *)
(* One turn is what the fetch loop does when oramQ is empty.  The accesses *)
(* go to oramQ, which the loop empties before the next turn (OramQueue).   *)
(* A turn that is used for a background eviction or a dummy access of Path *)
(* ORAM sets skip_invokation.  Evictions while oramQ is not empty only add *)
(* to it and are left out.  One core, simulation on, one set of the cache; *)
(* RHO, the prefetcher and the early writeback are off.                    *)
(***************************************************************************)
EXTENDS OramQueue, SequencesExt

CONSTANTS
  Addr,          (* blocks of the trace, all of one cache set               *)
  NUM_WAY,       (* ways of the set                                         *)
  LLC_DIRTY,     (* every access makes its line dirty                       *)
  WARMUP_CACHE,  (* trace lines that only fill the cache                    *)
  TRACE_SIZE,    (* trace lines to be read                                  *)
  SKIP,          (* turns may be used for evictions or dummy accesses       *)
  NONE

Type == { "R", "W" }

ASSUME TraceAssumption ==
  /\ NUM_WAY \in Nat \ {0}
  /\ WARMUP_CACHE \in Nat /\ TRACE_SIZE \in Nat
  /\ LLC_DIRTY \in BOOLEAN /\ SKIP \in BOOLEAN
  /\ SKIP => ~DUMMY_ENABLE
  /\ NONE \notin Addr
  /\ NONE \notin [addr : Addr, type : Type, line : Nat]

Way == 0 .. NUM_WAY - 1

VARIABLES
  LLC,                 (* the cache lines: valid, addr, dirty               *)
  LRU,                 (* cache_clk when a way was last used                *)
  cache_clk,           (* lines taken from the trace file                   *)
  tracectr,            (* lines of the trace that were interpreted          *)
  no_miss_occured,
  req,                 (* addr, opertype of the core, and its trace line    *)
  waited_for_evicted,  (* the miss that waits for a write, or NONE          *)
  skip_invokation,
  pc,
  exited,              (* cache_fill called exit(1)                         *)
  missed,              (* history: lines that missed and were not invoked   *)
  owed,                (* history: dirty blocks evicted and not invoked     *)
  used                 (* history: line at which a block was last used      *)

vars == << LLC, LRU, cache_clk, tracectr, no_miss_occured, req, waited_for_evicted,
           skip_invokation, pc, exited, missed, owed, used, oramQ, ring_dummy, failure >>

Request == [addr : Addr \cup {NONE}, type : Type, line : Nat]

-------------------------------------------------------------------------------
Hit(a) == { j \in Way : LLC[j].valid /\ LLC[j].addr = a }

(* The line a request of type t leaves in the cache. *)
Dirtied(t) == t = "W" \/ LLC_DIRTY

(* find_spot, and find_victim when there is none: the lowest way with the  *)
(* smallest stamp below the clock, -1 if there is no such way.             *)
Spots == { j \in Way : ~LLC[j].valid }
Older(clk) == { j \in Way : LRU[j] < clk }
Lowest(S) == CHOOSE j \in S : \A i \in S : j <= i
find_victim(clk) ==
  IF Older(clk) = {} THEN -1
  ELSE Lowest({ j \in Older(clk) : \A i \in Older(clk) : LRU[j] <= LRU[i] })
WayFor(clk) == IF Spots # {} THEN Lowest(Spots) ELSE find_victim(clk)

(* cache_fill reports the block it replaces if that one is dirty. *)
Replaced(clk) ==
  LET j == WayFor(clk)
  IN  IF Spots = {} /\ j # -1 /\ LLC[j].dirty THEN LLC[j].addr ELSE NONE

(* The clock advances with every line, so no two lines share a stamp. *)
Tick == cache_clk + 1

InWarmup(n) == n < WARMUP_CACHE

more_trace_one_more == tracectr <= TRACE_SIZE
more_trace == tracectr < TRACE_SIZE

-------------------------------------------------------------------------------
Init ==
  /\ LLC = [j \in Way |-> [valid |-> FALSE, addr |-> NONE, dirty |-> FALSE]]
  /\ LRU = [j \in Way |-> 0]
  /\ cache_clk = 0 /\ tracectr = 0
  /\ no_miss_occured = TRUE
  /\ req = [addr |-> NONE, type |-> "R", line |-> 0]
  /\ waited_for_evicted = NONE
  /\ skip_invokation = FALSE
  /\ oramQ = << >> /\ ring_dummy = FALSE /\ failure = "none"
  /\ pc = "turn" /\ exited = FALSE
  /\ missed = {} /\ owed = {}
  /\ used = [a \in Addr |-> 0]

At(where) == ~exited /\ failure = "none" /\ pc = where

cacheVars   == << LLC, LRU, used, exited >>
traceVars   == << cache_clk, tracectr >>
requestVars == << req, waited_for_evicted, missed, owed >>
queueVars   == << oramQ, ring_dummy, failure >>

(* The next cycle of the main loop. *)
NewCycle ==
  /\ At("turn") \/ At("cycle")
  /\ IF tracectr >= TRACE_SIZE - 3
     THEN pc' = "done" /\ UNCHANGED no_miss_occured
     ELSE pc' = "turn" /\ no_miss_occured' = TRUE
  /\ UNCHANGED << cacheVars, traceVars, requestVars, queueVars, skip_invokation >>

(* oramQ is empty and the gate for dummy accesses is open.  A background   *)
(* eviction or a dummy access of Path ORAM fills oramQ; in either case the *)
(* loop that reads the trace is entered.  Further turns of the cycle in    *)
(* which the trace ran out repeat its last line: left out.                 *)
Turn ==
  /\ At("turn") /\ oramQ = << >> /\ more_trace
  /\ ~DUMMY_ENABLE \/ ~ring_dummy
  /\ \/ skip_invokation' = FALSE /\ UNCHANGED queueVars
     \/ SKIP /\ skip_invokation' = TRUE /\ AddAccess(<< Forward >>)
  /\ pc' = "read"
  /\ UNCHANGED << cacheVars, traceVars, requestVars, no_miss_occured >>

(* The loop takes an element of oramQ.  A cycle takes fewer than an access *)
(* has, so the one that takes the last has not begun with an empty queue.  *)
Fetch ==
  /\ At("turn")
  /\ FetchHead \/ (\E ops \in Operations : FetchDummy(ops))
  /\ pc' = IF oramQ' = << >> THEN "cycle" ELSE "turn"
  /\ UNCHANGED << cacheVars, traceVars, requestVars, no_miss_occured, skip_invokation >>

(* A line is taken from the file, but a miss waits: its request becomes    *)
(* the current one, and the line is not looked at.                         *)
RestoreWaiting ==
  /\ At("read") /\ no_miss_occured
  /\ more_trace
  /\ waited_for_evicted # NONE
  /\ cache_clk' = Tick
  /\ req' = waited_for_evicted
  /\ waited_for_evicted' = NONE
  /\ pc' = "invoke"
  /\ UNCHANGED << cacheVars, tracectr, missed, owed, no_miss_occured, skip_invokation, queueVars >>

(* A line whose block is in the cache (cache_access), or else in the PLB   *)
(* or the stash: the loop reads on.                                        *)
cache_access_not_stamped(a, t) ==
  IF Hit(a) = {} THEN UNCHANGED << LLC, LRU >>
  ELSE LET j == Lowest(Hit(a))
       IN  /\ LLC' = [LLC EXCEPT ![j].dirty = @ \/ Dirtied(t)]
           /\ UNCHANGED LRU
cache_access(a, t) ==
  IF Hit(a) = {} THEN UNCHANGED << LLC, LRU >>
  ELSE LET j == Lowest(Hit(a))
       IN  /\ LLC' = [LLC EXCEPT ![j].dirty = @ \/ Dirtied(t)]
           /\ LRU' = [LRU EXCEPT ![j] = Tick]

ReadHit(a, t) ==
  /\ At("read") /\ no_miss_occured
  /\ more_trace
  /\ waited_for_evicted = NONE
  /\ cache_clk' = Tick
  /\ tracectr' = tracectr + 1
  /\ req' = [addr |-> a, type |-> t, line |-> cache_clk']
  /\ cache_access(a, t)
  /\ used' = IF Hit(a) = {} THEN used ELSE [used EXCEPT ![a] = cache_clk']
  /\ UNCHANGED << exited, waited_for_evicted, missed, owed, no_miss_occured,
                  skip_invokation, pc, queueVars >>

(* A line that misses: the cache is filled; the victim's write comes       *)
(* before the request of the line.  In the warm-up nothing is requested.   *)
cache_fill(a, t) ==
  LET j == WayFor(Tick)
  IN  /\ exited' = (j = -1)
      /\ LLC' = IF j = -1 THEN LLC
                ELSE [LLC EXCEPT ![j] = [valid |-> TRUE, addr |-> a, dirty |-> Dirtied(t)]]
      /\ LRU' = IF j = -1 THEN LRU ELSE [LRU EXCEPT ![j] = Tick]

Wait_forgotten(r) == waited_for_evicted' = NONE
Wait(r) == waited_for_evicted' = r

ReadMiss(a, t) ==
  /\ At("read") /\ no_miss_occured
  /\ more_trace
  /\ waited_for_evicted = NONE
  /\ Hit(a) = {}
  /\ cache_clk' = Tick
  /\ tracectr' = tracectr + 1
  /\ cache_fill(a, t)
  /\ used' = [used EXCEPT ![a] = cache_clk']
  /\ LET victim == Replaced(Tick)
         r      == [addr |-> a, type |-> t, line |-> cache_clk']
     IN  /\ IF victim = NONE THEN req' = r
            ELSE req' = [addr |-> victim, type |-> "W", line |-> 0]
         /\ IF InWarmup(tracectr') \/ victim = NONE THEN waited_for_evicted' = NONE ELSE Wait(r)
         /\ no_miss_occured' = InWarmup(tracectr')
         /\ missed' = IF tracectr' < WARMUP_CACHE THEN missed ELSE missed \cup { r.line }
         /\ owed' = IF tracectr' < WARMUP_CACHE THEN owed ELSE owed \cup ({ victim } \ {NONE})
  /\ UNCHANGED << skip_invokation, pc, queueVars >>

(* The trace is used up inside the loop.  The last line, a hit, is invoked *)
(* as if it had missed.                                                    *)
TraceDone ==
  /\ At("read") /\ no_miss_occured
  /\ ~more_trace
  /\ cache_clk' = Tick
  /\ pc' = "invoke"
  /\ UNCHANGED << cacheVars, tracectr, requestVars, no_miss_occured, skip_invokation, queueVars >>

(* The loop is left, or was not entered a second time in the same cycle:   *)
(* the current request is invoked unless the turn was used.                *)
invoke_oram ==
  /\ At("invoke") \/ (At("read") /\ ~no_miss_occured)
  /\ IF skip_invokation THEN UNCHANGED << missed, owed, queueVars >>
     ELSE /\ \E ops \in Operations \cup { << >> } : AddAccess(ops)
          /\ missed' = missed \ { req.line }
          /\ owed' = IF req.type = "W" THEN owed \ { req.addr } ELSE owed
  /\ skip_invokation' = FALSE
  /\ pc' = "turn"
  /\ UNCHANGED << cacheVars, traceVars, req, waited_for_evicted, no_miss_occured >>

Next ==
  \/ NewCycle
  \/ Turn
  \/ Fetch
  \/ RestoreWaiting
  \/ \E a \in Addr, t \in Type : ReadHit(a, t)
  \/ \E a \in Addr, t \in Type : ReadMiss(a, t)
  \/ TraceDone
  \/ invoke_oram

Spec == Init /\ [][Next]_vars

(* The main loop goes on to its next cycle, and dummy accesses bring the   *)
(* stash below DUMMY_TH again (StashDrains of RingOram).                   *)
FairSpec ==
  /\ Spec
  /\ WF_vars(Next) /\ SF_vars(NewCycle)
  /\ SF_vars(Fetch /\ ~ring_dummy')

-------------------------------------------------------------------------------
TypeOK ==
  /\ LLC \in [Way -> [valid : BOOLEAN, addr : Addr \cup {NONE}, dirty : BOOLEAN]]
  /\ LRU \in [Way -> Nat]
  /\ cache_clk \in Nat
  /\ tracectr \in 0 .. TRACE_SIZE
  /\ no_miss_occured \in BOOLEAN
  /\ req \in Request
  /\ waited_for_evicted \in Request \cup {NONE}
  /\ skip_invokation \in BOOLEAN /\ exited \in BOOLEAN
  /\ pc \in { "turn", "cycle", "read", "invoke", "done" }
  /\ missed \subseteq Nat
  /\ owed \subseteq Addr
  /\ used \in [Addr -> Nat]
  /\ QueueTypeOK

(* The block that a fill drops is the one whose last use, by a hit or by   *)
(* its own fill, is the longest ago.                                       *)
VictimIsOldest ==
  [][ \A j, i \in Way :
        LLC[j].valid /\ LLC[i].valid /\ LLC'[j].addr # LLC[j].addr =>
          used[LLC[j].addr] <= used[LLC[i].addr] ]_vars

(* A line that missed is either the current request or the one that waits, *)
(* until the ORAM has been invoked for it: no later line takes its place.  *)
NoRequestLost ==
  missed \subseteq { req.line }
    \cup (IF waited_for_evicted = NONE THEN {} ELSE { waited_for_evicted.line })

(* The requests that the trace has caused and the ORAM has not been asked  *)
(* for: writes of evicted blocks, then lines that missed.                  *)
pending ==
  SetToSeq({ [kind |-> "write", of |-> a] : a \in owed })
    \o SetToSeq({ [kind |-> "miss", of |-> n] : n \in missed })

Requests == INSTANCE MissStream WITH pending <- pending

(* Cache, trace loop, the flags for the waiting miss and for a used turn,  *)
(* and the queue implement a queue of at most two requests, the write of   *)
(* an evicted block before the miss that evicted it: none is lost, served  *)
(* twice or out of order.                                                  *)
ImplementsMissStream == Requests!Spec

(* Neither the cache nor the queue fails: cache_fill always finds a victim, *)
(* whose stamp has to be below a clock that moves at every line, and dummy  *)
(* accesses go in front of oramQ only when those before them have been      *)
(* fetched and an operation of a real access is at its head, so that        *)
(* EnqueueHead finds that element and the queue has room.                   *)
NeverFails == ~exited /\ failure = "none"

(* A dummy access comes only before an element with the flag beginning:    *)
(* the elements of a path read or a reshuffle stay together.               *)
OperationsWhole ==
  \A i \in DOMAIN oramQ : i > 1 /\ ~oramQ[i].beginning =>
    oramQ[i - 1].dummy = oramQ[i].dummy

(* The trace is read to its end, whatever accesses and dummy accesses lie  *)
(* between its lines: the gate of the dummy accesses is never left closed  *)
(* with an empty queue, where nothing would compare the stash again.       *)
TraceEnds == <>(pc = "done")
===============================================================================

------------------------------- MODULE DeadBlocks -------------------------------
(***************************************************************************)
(* The reuse of dead slots (DEAD_ENABLE and DYNAMIC_S) in                  *)
(* memory_controller.c: a slot that was read is dead until its bucket is   *)
(* written again; meanwhile it may be lent, through a queue per level, to  *)
(* another bucket, whose slot then redirects to it.                        *)
(*                                                                         *)
(* Slots are lent within a level, so the module is one level from          *)
(* GATHER_START on, with its buckets, in the order they are evicted.  An   *)
(* access is ring_access as far as this level is concerned: the read of a  *)
(* slot, after every RING_A accesses the eviction of a bucket, and then    *)
(* the reshuffle and the gathering of the bucket that was read.  Blocks    *)
(* have no names: how many of the stash fit into a bucket is a choice.     *)
(***************************************************************************)
EXTENDS Integers, Sequences, FiniteSets, Functions

CONSTANTS
  BUCKETS,      (* buckets of the level                                     *)
  LZ,           (* slots of a bucket of its own                             *)
  RING_Z,       (* real blocks of a bucket at most, LZ - LS                 *)
  S_INC,        (* slots that a bucket may have on top of its own           *)
  DEADQ_SIZE, SHADQ_SIZE, REMOTE_CAP,
  RING_A

ASSUME DeadAssumption ==
  /\ { BUCKETS, LZ, RING_A, DEADQ_SIZE } \subseteq Nat \ {0}
  /\ { RING_Z, S_INC, SHADQ_SIZE, REMOTE_CAP } \subseteq Nat
  /\ RING_Z < LZ

Bucket == 0 .. BUCKETS - 1
Own == 0 .. LZ - 1
Offset == 0 .. LZ + S_INC - 1
Place == Bucket \X Own
NONE == << >>

DeadState == { "REFRESHED", "REMEMBERED", "ALLOCATED", "DEAD" }
Slot == [ isReal : BOOLEAN, valid : BOOLEAN, dd : DeadState, remote : Place \cup { NONE } ]

VARIABLES
  mem,      (* slot: the slots of the buckets; allctr; deadQ, deadQ_shadow   *)
            (* of the level; taken: a queued slot was found in use: exit(1)  *)
  count, s, (* reads since the bucket was written, reads it can serve        *)
  ring_G,             (* the next bucket to evict                            *)
  ring_round,         (* accesses since the last eviction                    *)
  phase, bucket,      (* the part of the access, and the bucket it reads     *)
  failed              (* the check that ended the program, or "no"           *)

vars == << mem, count, s, ring_G, ring_round, phase, bucket, failed >>

dd(m, p) == m.slot[p[1]][p[2]].dd
SetDd(m, p, state) == [ m EXCEPT !.slot[p[1]][p[2]].dd = state ]

(* The dead slot p is queued to be lent.                                    *)
Remember_no_limit(m, p) ==
  IF m.allctr[p[1]] >= REMOTE_CAP THEN m
  ELSE [ SetDd(m, p, "REMEMBERED") EXCEPT !.allctr[p[1]] = @ + 1, !.deadQ = Append(@, p) ]
Remember(m, p) ==
  IF m.allctr[p[1]] >= REMOTE_CAP THEN m
  ELSE IF Len(m.deadQ) < DEADQ_SIZE
    THEN [ SetDd(m, p, "REMEMBERED") EXCEPT !.allctr[p[1]] = @ + 1, !.deadQ = Append(@, p) ]
  ELSE IF Len(m.shadowQ) < SHADQ_SIZE THEN [ m EXCEPT !.shadowQ = Append(@, p) ]
  ELSE m

RememberDead(m, p) == IF dd(m, p) = "DEAD" THEN Remember(m, p) ELSE m
gather_dead(m, b) ==
  LET n[j \in 0 .. LZ] == IF j = 0 THEN m ELSE RememberDead(n[j - 1], << b, j - 1 >>)
  IN  n[LZ]

-------------------------------------------------------------------------------
(* calc_mem_addr of type 'R'. *)
inplace_access(m, b, j) == SetDd(m, << b, j >>, "DEAD")

remote_access(m, b, j) ==
  LET p == m.slot[b][j].remote
      n == [ m EXCEPT !.slot[b][j].remote = NONE ]
  IN  Remember([ SetDd(n, p, "DEAD") EXCEPT !.allctr[p[1]] = @ - 1 ], p)

Read(m, b, j) ==
  IF m.slot[b][j].remote # NONE THEN remote_access(m, b, j) ELSE inplace_access(m, b, j)

(* calc_mem_addr of type 'W'. *)
inplace_allocate(m, b, js) ==
  [ m EXCEPT !.slot[b] = [ j \in Offset |->
      IF j \in js THEN [ @[j] EXCEPT !.remote = NONE, !.dd = "REFRESHED" ] ELSE @[j] ] ]

(* A slot beyond its own needs more than half of the queue (the ratio of   *)
(* REMOTE_ALLOC_RATIO).                                                    *)
Allocatable(m, j) == IF j < LZ THEN m.deadQ # << >> ELSE 2 * Len(m.deadQ) > DEADQ_SIZE

remote_allocate(m, b, j) ==
  LET p == Head(m.deadQ)
  IN  [ SetDd(m, p, "ALLOCATED") EXCEPT
          !.deadQ = Tail(@),
          !.taken = @ \/ dd(m, p) \in { "ALLOCATED", "REFRESHED" },
          !.slot[b][j].remote = p ]

-------------------------------------------------------------------------------
ValidDummies(m, b) == { j \in Offset : ~m.slot[b][j].isReal /\ m.slot[b][j].valid }
Reals(m, b) == { j \in Offset : m.slot[b][j].isReal }

InOrder(S) ==
  CHOOSE js \in [ 1 .. Cardinality(S) -> S ] : \A k, l \in DOMAIN js : k < l => js[k] < js[l]
ReadAll(m, b, js) ==
  LET n[k \in 0 .. Len(js)] == IF k = 0 THEN m ELSE Read(n[k - 1], b, js[k])
  IN  n[Len(js)]

Unreal(m, b) ==
  [ m EXCEPT !.slot[b] = [ j \in Offset |-> [ @[j] EXCEPT !.isReal = FALSE ] ] ]
Invalid(m, b) ==
  [ m EXCEPT !.slot[b] = [ j \in Offset |-> [ @[j] EXCEPT !.valid = FALSE ] ] ]

(* read_bucket reads the real blocks, and dummies in any order to make up   *)
(* RING_Z reads; an eviction then reads the rest and invalidates all.       *)
Quota(m, b) == RING_Z - Cardinality(Reals(m, b))
Enough(m, b) == Cardinality(ValidDummies(m, b)) >= Quota(m, b)
DummyReads(m, b) == { ds \in [ 1 .. Quota(m, b) -> ValidDummies(m, b) ] : IsInjective(ds) }

reshuffle_read(m, b, dummies) == Unreal(ReadAll(m, b, InOrder(Reals(m, b)) \o dummies), b)

evict_read_keeps_valid(m, b, dummies) == reshuffle_read(m, b, dummies)
evict_read(m, b, dummies) ==
  Invalid(ReadAll(reshuffle_read(m, b, dummies), b,
                  InOrder(ValidDummies(m, b) \ Range(dummies))), b)

(* detect_inplace_available: own slots that nobody else has. *)
Free(m, b, j) == dd(m, << b, j >>) \in { "DEAD", "REFRESHED" }
inplace(m, b) == InOrder({ j \in Own : Free(m, b, j) })
taken_slot(m, b) == InOrder({ j \in Own : ~Free(m, b, j) })
surplus_slot == [ k \in 1 .. S_INC |-> LZ + k - 1 ]

(* The slots of js in turn get a place of the queue, up to the first that   *)
(* finds none: the others stay as they are.                                 *)
Claim(a, b, js, k) ==
  IF a.n = k - 1 /\ Allocatable(a.m, js[k])
  THEN [ m |-> remote_allocate(a.m, b, js[k]), n |-> k ]
  ELSE a
Borrow(w, b, js) ==
  LET a[k \in 0 .. Len(js)] ==
        IF k = 0 THEN [ m |-> w.m, n |-> 0 ] ELSE Claim(a[k - 1], b, js, k)
      end == a[Len(js)]
  IN  [ m |-> end.m, got |-> w.got \o SubSeq(js, 1, end.n) ]

(* The rest of the dead slots that did not fit into the queue; those that   *)
(* are no longer dead are dropped.                                          *)
Dequeue(m) ==
  LET p == Head(m.shadowQ)
      n == [ m EXCEPT !.shadowQ = Tail(@) ]
  IN  IF dd(n, p) = "DEAD"
      THEN [ SetDd(n, p, "REMEMBERED") EXCEPT !.allctr[p[1]] = @ + 1, !.deadQ = Append(@, p) ]
      ELSE n
ShadowMove(m) == IF Len(m.deadQ) < DEADQ_SIZE THEN Dequeue(m) ELSE m
ShadowIn(m) ==
  LET n[k \in 0 .. Len(m.shadowQ)] == IF k = 0 THEN m ELSE ShadowMove(n[k - 1])
  IN  n[Len(m.shadowQ)]

(* write_bucket with c blocks for it in the stash: those are written to the *)
(* first own slots that the bucket has, in place or borrowed.               *)
Written(m, b) ==
  LET first == [ m |-> inplace_allocate(m, b, Range(inplace(m, b))), got |-> inplace(m, b) ]
      own == Borrow(first, b, taken_slot(m, b))
      all == Borrow(own, b, surplus_slot)
  IN  [ m |-> all.m, own |-> own.got, got |-> all.got ]

(* The slots of got hold blocks, those of real no dummies.                  *)
Fill(m, b, got, real) ==
  [ m EXCEPT !.slot[b] = [ j \in Offset |->
      [ @[j] EXCEPT !.valid = m.slot[b][j].valid \/ j \in got, !.isReal = j \in real ] ] ]

write_bucket_reals_counted(m, b, c) ==
  LET w == Written(m, b)
      real == { w.own[k] : k \in 1 .. IF c < Len(w.own) THEN c ELSE Len(w.own) }
  IN  [ m |-> ShadowIn(Fill(w.m, b, Range(w.got), real)),
        s |-> Len(w.got),
        real |-> Cardinality(real) ]
write_bucket(m, b, c) ==
  LET w == Written(m, b)
      real == { w.own[k] : k \in 1 .. IF c < Len(w.own) THEN c ELSE Len(w.own) }
  IN  [ m |-> ShadowIn(Fill(w.m, b, Range(w.got), real)),
        s |-> Len(w.got) - RING_Z,
        real |-> Cardinality(real) ]

-------------------------------------------------------------------------------
Running == failed = "no" /\ ~mem.taken

Fail(why) == failed' = why

(* ring_read_path at this level: the block that is asked for, or a dummy.   *)
Wanted(b) == Reals(mem, b) \cup ValidDummies(mem, b)
ReadSlot(b, j) ==
  /\ mem' = [ Read(mem, b, j) EXCEPT !.slot[b][j].valid = FALSE, !.slot[b][j].isReal = FALSE ]
  /\ count' = [ count EXCEPT ![b] = @ + 1 ]
  /\ UNCHANGED failed

ring_read_path ==
  /\ Running /\ phase = "read"
  /\ \E b \in Bucket :
       /\ bucket' = b
       /\ \/ \E j \in Wanted(b) : ReadSlot(b, j)
          \/ ValidDummies(mem, b) = {} /\ Fail("no dummy") /\ UNCHANGED << mem, count >>
  /\ ring_round' = (ring_round + 1) % RING_A
  /\ phase' = IF ring_round' = 0 THEN "evict" ELSE "reshuffle"
  /\ UNCHANGED << s, ring_G >>

(* The bucket b is rewritten after it was read, with c blocks of the stash; *)
(* r of them, at least, were read from it.  The check that s is at most     *)
(* RING_S + BIGBUCK is left out: the array slot[Z] of a bucket has RING_Z + *)
(* RING_S + BIGBUCK elements, so s is no more while S_INC slots fit into it. *)
Rewrite(b, m, c, r) ==
  LET w == write_bucket(m, b, c)
  IN  /\ mem' = w.m
      /\ s' = [ s EXCEPT ![b] = w.s ]
      /\ count' = [ count EXCEPT ![b] = 0 ]
      /\ Fail(IF w.s < 0 THEN "few slots" ELSE IF w.real < r THEN "stash grew" ELSE failed)

Shuffle(b, read(_, _, _), r) ==
  IF Enough(mem, b)
  THEN \E dummies \in DummyReads(mem, b), c \in r .. RING_Z :
         Rewrite(b, read(mem, b, dummies), c, r)
  ELSE Fail("few dummies") /\ UNCHANGED << mem, count, s >>

ring_evict_path ==
  /\ Running /\ phase = "evict"
  /\ Shuffle(ring_G % BUCKETS, evict_read, 0)
  /\ ring_G' = (ring_G + 1) % BUCKETS
  /\ phase' = "reshuffle"
  /\ UNCHANGED << ring_round, bucket >>

MustReshuffle_late(b) == count[b] > s[b]
MustReshuffle(b) == count[b] >= s[b]

(* ring_early_reshuffle of the bucket that was read: what was read fits     *)
(* again.                                                                   *)
ring_early_reshuffle ==
  /\ Running /\ phase = "reshuffle"
  /\ MustReshuffle(bucket)
  /\ Shuffle(bucket, reshuffle_read, Cardinality(Reals(mem, bucket)))
  /\ phase' = "gather"
  /\ UNCHANGED << ring_G, ring_round, bucket >>

gather ==
  /\ Running
  /\ \/ phase = "gather"
     \/ phase = "reshuffle" /\ ~MustReshuffle(bucket)
  /\ mem' = gather_dead(mem, bucket)
  /\ phase' = "read"
  /\ UNCHANGED << count, s, ring_G, ring_round, bucket, failed >>

-------------------------------------------------------------------------------
(* oram_alloc and the blocks that assign_a_path placed, r in bucket b.      *)
Fresh(r) ==
  [ j \in Offset |-> [ isReal |-> j < r, valid |-> j < LZ, remote |-> NONE,
                       dd |-> IF j < LZ THEN "REFRESHED" ELSE "DEAD" ] ]

Init ==
  /\ \E r \in [ Bucket -> 0 .. RING_Z ] :
       mem = [ slot |-> [ b \in Bucket |-> Fresh(r[b]) ],
               allctr |-> [ b \in Bucket |-> 0 ],
               deadQ |-> << >>, shadowQ |-> << >>, taken |-> FALSE ]
  /\ count = [ b \in Bucket |-> 0 ]
  /\ s = [ b \in Bucket |-> LZ - RING_Z ]
  /\ ring_G = 0 /\ ring_round = 0
  /\ phase = "read" /\ bucket = 0
  /\ failed = "no"

Next == ring_read_path \/ ring_evict_path \/ ring_early_reshuffle \/ gather

Spec == Init /\ [][Next]_vars

-------------------------------------------------------------------------------
QueueBound ==
  /\ Len(mem.deadQ) <= DEADQ_SIZE
  /\ Len(mem.shadowQ) <= SHADQ_SIZE

TypeOK ==
  /\ mem.slot \in [ Bucket -> [ Offset -> Slot ] ]
  /\ mem.allctr \in [ Bucket -> Int ]
  /\ mem.deadQ \in Seq(Place) /\ mem.shadowQ \in Seq(Place)
  /\ QueueBound
  /\ count \in [ Bucket -> Nat ]
  /\ s \in [ Bucket -> Int ]

Holders(p) ==
  { q \in Bucket \X Offset :
      LET t == mem.slot[q[1]][q[2]]
      IN  t.valid /\ IF t.remote = NONE THEN q = p ELSE t.remote = p }

(* A slot never holds the block of two buckets, and none while it waits in *)
(* the queue; a slot that is lent out is in use, it does not leak; and      *)
(* allctr counts the slots that the bucket has given away.                  *)
OneHolder ==
  /\ \A p \in Place :
       /\ Cardinality(Holders(p)) <= 1
       /\ p \in Range(mem.deadQ) <=> dd(mem, p) = "REMEMBERED"
       /\ dd(mem, p) \in { "REMEMBERED", "DEAD" } => Holders(p) = {}
       /\ dd(mem, p) = "REFRESHED" => Holders(p) \subseteq { p }
       /\ dd(mem, p) = "ALLOCATED" => Holders(p) # {}
  /\ \A b \in Bucket : mem.allctr[b] =
       Cardinality({ j \in Own : dd(mem, << b, j >>) \in { "REMEMBERED", "ALLOCATED" } })

(* What is left in a bucket serves the reads until its reshuffle, which    *)
(* finds RING_Z slots to read.                                              *)
BudgetKept ==
  \A b \in Bucket :
    s[b] - count[b] <= Cardinality(Reals(mem, b) \cup ValidDummies(mem, b)) - RING_Z

ChecksPass == failed = "no"
===============================================================================

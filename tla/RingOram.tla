------------------------------- MODULE RingOram -------------------------------
(***************************************************************************)
(* One ORAM access from freecursive_access to its end: the lookup of the   *)
(* position-map blocks in the PLB, the Ring ORAM access (ring_access) of   *)
(* each block that misses, and the dummy accesses that drain the stash.    *)
(*                                                                         *)
(* The program is sequential; the actions below are the calls it makes, in *)
(* the order of pc.  A call of exit(1) sets err to its reason, and nothing *)
(* happens after it.  The configuration is the default one (4channel.cfg): *)
(* RING_ENABLE, POSACT_ENABLE and DUMMY_ENABLE on, the compact bucket,     *)
(* dead-block, super-node, bucket-skip and duplication features off.       *)
(*                                                                         *)
(* A bucket is abstracted to the set of its real slots and the number of   *)
(* its valid dummy slots: which slot holds what is left out.  A block that *)
(* a write takes from the stash is any candidate, where the program takes  *)
(* the candidate with the lowest stash index.                              *)
(***************************************************************************)
EXTENDS OramTree, FiniteSets

CONSTANTS
  RING_Z,      (* real blocks a bucket may hold: LZ - LS of the program     *)
  RING_S,      (* reads a bucket serves before it is reshuffled: LS         *)
  RING_A,      (* accesses per eviction of a path                           *)
  TOP_CACHE,   (* levels above it are on chip: read without a dummy quota   *)
  STASH_SIZE,  (* slots of the stash                                        *)
  DUMMY_TH,    (* stash occupancy from which dummy accesses are made        *)
  H,           (* levels of the position map, data and on-chip map included *)
  Data,        (* data blocks                                               *)
  Pos,         (* position-map blocks that live in the tree                 *)
  PosTag,      (* PosTag[a][i]: calc_posact_addr(a, i), for i in 1..H-2     *)
  PlbSets,     (* sets of the direct-mapped PLB                             *)
  PlbIndex,    (* plb_index of a position-map block                         *)
  NONE         (* the address -1: of a dummy access, of an empty PLB line   *)

ASSUME SizeAssumption ==
  /\ RING_Z \in Nat \ {0}
  /\ RING_S \in Nat \ {0}
  /\ RING_A \in Nat \ {0}
  /\ TOP_CACHE \in Nat
  /\ STASH_SIZE \in Nat
  /\ DUMMY_TH \in Nat \ {0}
  /\ H \in Nat /\ H >= 2

ASSUME BlockAssumption ==
  /\ IsFiniteSet(Data) /\ IsFiniteSet(Pos)
  /\ Data \cap Pos = {}
  /\ NONE \notin Data \cup Pos

ASSUME PosmapAssumption ==
  /\ PosTag \in [Data -> [1 .. H - 2 -> Pos]]
  /\ \A a, b \in Data, i, j \in 1 .. H - 2 : PosTag[a][i] = PosTag[b][j] => i = j
  /\ PlbIndex \in [Pos -> PlbSets]

Block == Data \cup Pos

Slot == [addr : Block, label : Path]

(* Slots of a bucket: LZ of the program. *)
LZ == RING_Z + RING_S

VARIABLES
  PosMap,       (* label of each block                                      *)
  tree,         (* real slots of each bucket                                *)
  dumvalid,     (* valid dummy slots of each bucket                         *)
  count,        (* reads of each bucket since it was last written           *)
  stash,        (* slots in the stash                                       *)
  plb,          (* block in each PLB set, or NONE                           *)
  ring_round,   (* accesses since the last eviction, modulo RING_A          *)
  ring_G,       (* evictions made, modulo PATH                              *)
  pc,           (* the call the program makes next                          *)
  req,          (* data block freecursive_access was called with            *)
  i_saved,      (* position-map level freecursive_access has to fetch       *)
  cur,          (* argument of ring_access, NONE in a dummy access          *)
  label,        (* path the access reads                                    *)
  evict_label,  (* path the eviction of this access writes                  *)
  lvl,          (* level the write or reshuffle loop is at                  *)
  pinFlag,      (* cur must stay in the stash                               *)
  stash_occu,   (* stash occupancy when ring_access was entered             *)
  err           (* "none", or the reason of the exit(1) that ended the run  *)

vars == << PosMap, tree, dumvalid, count, stash, plb, ring_round, ring_G, pc, req,
           i_saved, cur, label, evict_label, lvl, pinFlag, stash_occu, err >>

oramVars   == << PosMap, tree, dumvalid, count, stash >>
roundVars  == << ring_round, ring_G >>
accessVars == << cur, label, pinFlag, stash_occu >>
loopVars   == << evict_label, lvl >>

Control == { "idle", "posmap", "read", "remap", "round", "evict", "reshuffle", "done", "fill" }

Errors == { "none", "no valid dummy", "remainCount", "not in stash", "already in stash",
            "stash overflow", "reshuffle grew stash" }

-------------------------------------------------------------------------------
(* The first of the checks that fails decides the exit; in the state after *)
(* an exit the other variables do not matter.                              *)
Check(bad, reason, otherwise) == IF bad THEN reason ELSE otherwise

At(where) == err = "none" /\ pc = where

stash_contain(b) == \E s \in stash : s.addr = b

plb_access(b) == plb[PlbIndex[b]] = b

Holds(n, b) == \E s \in tree[n] : s.addr = b

(* A bucket that is read as a whole must have one valid dummy for every    *)
(* real block it is short of its quota; on-chip levels are not checked.    *)
ShortOfDummies(n) == n[1] >= TOP_CACHE /\ RING_Z - Cardinality(tree[n]) > dumvalid[n]

(* Reads served: the bucket is written again before it is read once more. *)
must_reshuffle(n) == count[n] >= RING_S

(* The stash is so full that the next access is a dummy access. *)
ring_dummy_late == Cardinality(stash) > DUMMY_TH
ring_dummy == Cardinality(stash) >= DUMMY_TH

(* The number of the next path to evict. *)
ring_G_stuck == ring_G
NextEviction == (ring_G + 1) % PATH

(* The slots of the stash content S that may be written into bucket n. *)
pick_candidate_unpinned(S, n) == { s \in S : NodeAt(s.label, n[1]) = n }
pick_candidate_all_pinned(S, n) ==
  { s \in S : NodeAt(s.label, n[1]) = n /\ ~pinFlag }
pick_candidate(S, n) ==
  { s \in S : NodeAt(s.label, n[1]) = n /\ ~(pinFlag /\ s.addr = cur) }

(* W is what write_bucket takes from the candidates C: as many as fit. *)
FillsOneLess(W, C) ==
  /\ W \subseteq C
  /\ Cardinality(W) <= RING_Z - 1
  /\ W = C \/ Cardinality(W) = RING_Z - 1
Fills(W, C) ==
  /\ W \subseteq C
  /\ Cardinality(W) <= RING_Z
  /\ W = C \/ Cardinality(W) = RING_Z

(* The effect of write_bucket on bucket n, given the blocks W put into it. *)
write_bucket_no_reset(n, W) ==
  /\ tree' = [tree EXCEPT ![n] = W]
  /\ dumvalid' = [dumvalid EXCEPT ![n] = LZ - Cardinality(W)]
  /\ UNCHANGED count
write_bucket(n, W) ==
  /\ tree' = [tree EXCEPT ![n] = W]
  /\ dumvalid' = [dumvalid EXCEPT ![n] = LZ - Cardinality(W)]
  /\ count' = [count EXCEPT ![n] = 0]

(* The stash after remap_block gives block b the label p. *)
Relabel_posmap_only(S, b, p) == S
Relabel(S, b, p) == { IF s.addr = b THEN [addr |-> b, label |-> p] ELSE s : s \in S }

(* A PLB search for data block a leaves i_saved = k: no level up to k hits *)
(* and the next one does, or k is the last level in the tree.              *)
PlbSearch_past_hit(a, k) == \A i \in 1 .. k : ~plb_access(PosTag[a][i])
PlbSearch(a, k) ==
  /\ \A i \in 1 .. k : ~plb_access(PosTag[a][i])
  /\ k < H - 2 => plb_access(PosTag[a][k + 1])

(* What plb_fill(tag) sends back to the stash: the block that had the line. *)
Victim_dropped(tag) == {}
Victim(tag) ==
  LET b == plb[PlbIndex[tag]]
  IN  IF b = NONE THEN {} ELSE { [addr |-> b, label |-> PosMap[b]] }

-------------------------------------------------------------------------------
(* oram_init puts every block, leaf first, into the first bucket of its    *)
(* path with room; a block is above the leaf only if the buckets below it  *)
(* were full when it was placed.                                           *)
Placement(pm, depth) ==
  LET In(n) == { b \in Block : NodeAt(pm[b], depth[b]) = n }
  IN  /\ \A n \in Node : Cardinality(In(n)) <= RING_Z
      /\ \A b \in Block, l \in Level :
           l > depth[b] => Cardinality(In(NodeAt(pm[b], l))) = RING_Z

Init ==
  /\ PosMap \in [Block -> Path]
  /\ \E depth \in [Block -> Level] :
       /\ Placement(PosMap, depth)
       /\ tree = [n \in Node |-> { [addr |-> b, label |-> PosMap[b]] :
                                   b \in { c \in Block : NodeAt(PosMap[c], depth[c]) = n } }]
  /\ dumvalid = [n \in Node |-> LZ - Cardinality(tree[n])]
  /\ count = [n \in Node |-> 0]
  /\ stash = {}
  /\ plb = [w \in PlbSets |-> NONE]
  /\ ring_round = 0 /\ ring_G = 0
  /\ pc = "idle" /\ req = NONE /\ i_saved = 0
  /\ cur = NONE /\ label = 0 /\ pinFlag = FALSE /\ stash_occu = 0
  /\ evict_label = 0 /\ lvl = 0
  /\ err = "none"

-------------------------------------------------------------------------------
(* freecursive_access(a) for a block in the stash returns at once. *)
StashHit(a) ==
  /\ At("idle")
  /\ ~ring_dummy
  /\ stash_contain(a)
  /\ UNCHANGED vars

(* For any other block the PLB is searched from level 1 up. *)
freecursive_access(a) ==
  /\ At("idle")
  /\ ~ring_dummy
  /\ ~stash_contain(a)
  /\ \E k \in 0 .. H - 2 : PlbSearch(a, k) /\ i_saved' = k
  /\ req' = a
  /\ pc' = "posmap"
  /\ UNCHANGED << oramVars, plb, roundVars, accessVars, loopVars, err >>

(* The entry of ring_access(b) for a block that is not in the stash. *)
Enter(b, pin) ==
  /\ cur' = b
  /\ label' = PosMap[b]
  /\ pinFlag' = pin
  /\ stash_occu' = Cardinality(stash)
  /\ pc' = "read"
  /\ UNCHANGED << oramVars, plb, roundVars, loopVars, req, i_saved, err >>

(* The loop over the position map: the block of level i_saved is fetched   *)
(* from the tree, pinned, unless the stash already holds it.               *)
PosmapAccess ==
  /\ At("posmap") /\ i_saved >= 1
  /\ ~stash_contain(PosTag[req][i_saved])
  /\ Enter(PosTag[req][i_saved], TRUE)

PosmapInStash ==
  /\ At("posmap") /\ i_saved >= 1
  /\ stash_contain(PosTag[req][i_saved])
  /\ pc' = "fill"
  /\ UNCHANGED << oramVars, plb, roundVars, accessVars, loopVars, req, i_saved, err >>

(* The access of the data block.  An eviction during the position-map      *)
(* accesses can have moved it into the stash: then ring_access returns.    *)
DataAccess ==
  /\ At("posmap") /\ i_saved = 0
  /\ ~stash_contain(req)
  /\ Enter(req, FALSE)

DataInStash ==
  /\ At("posmap") /\ i_saved = 0
  /\ stash_contain(req)
  /\ pc' = "idle"
  /\ req' = NONE
  /\ UNCHANGED << oramVars, plb, roundVars, accessVars, loopVars, i_saved, err >>

(* ring_access(-1): made while the stash holds DUMMY_TH blocks or more, in *)
(* place of the next access.                                               *)
DummyAccess(p) ==
  /\ At("idle")
  /\ ring_dummy
  /\ cur' = NONE
  /\ label' = p
  /\ pinFlag' = FALSE
  /\ stash_occu' = Cardinality(stash)
  /\ pc' = "read"
  /\ UNCHANGED << oramVars, plb, roundVars, loopVars, req, i_saved, err >>

(* ring_read_path: in every bucket of the path the slot of cur is read     *)
(* into the stash, or else one valid dummy; the slot becomes invalid.      *)
ring_read_path ==
  /\ At("read")
  /\ LET path  == OnPath(label)
         found == { s \in UNION { tree[n] : n \in path } : s.addr = cur }
     IN  /\ tree' = [n \in Node |-> IF n \in path THEN tree[n] \ found ELSE tree[n]]
         /\ dumvalid' = [n \in Node |-> IF n \in path /\ ~Holds(n, cur)
                                      THEN dumvalid[n] - 1 ELSE dumvalid[n]]
         /\ count' = [n \in Node |-> IF n \in path THEN count[n] + 1 ELSE count[n]]
         /\ stash' = stash \cup found
         /\ err' = Check(\E n \in path : ~Holds(n, cur) /\ dumvalid[n] = 0, "no valid dummy",
                   Check(Cardinality(stash \cup found) > STASH_SIZE, "stash overflow", "none"))
  /\ pc' = IF cur = NONE THEN "round" ELSE "remap"
  /\ UNCHANGED << PosMap, plb, roundVars, accessVars, loopVars, req, i_saved >>

(* remap_block(cur): a new label p, in PosMap and in the stash. *)
remap_block(p) ==
  /\ At("remap")
  /\ PosMap' = [PosMap EXCEPT ![cur] = p]
  /\ stash' = Relabel(stash, cur, p)
  /\ err' = Check(~stash_contain(cur), "not in stash", "none")
  /\ pc' = "round"
  /\ UNCHANGED << tree, dumvalid, count, plb, roundVars, accessVars, loopVars, req, i_saved >>

(* ring_round advances; without an eviction the reshuffle loop comes next. *)
NoEviction ==
  /\ At("round")
  /\ (ring_round + 1) % RING_A # 0
  /\ ring_round' = (ring_round + 1) % RING_A
  /\ lvl' = LEVEL - 1
  /\ pc' = "reshuffle"
  /\ UNCHANGED << oramVars, plb, ring_G, accessVars, evict_label, req, i_saved, err >>

(* ring_evict_path and read_path: every real block of the path goes to the *)
(* stash and every slot of the path becomes invalid.                       *)
ring_evict_path ==
  /\ At("round")
  /\ (ring_round + 1) % RING_A = 0
  /\ LET el     == reverse_lex(ring_G)
         path   == OnPath(el)
         pulled == UNION { tree[n] : n \in path }
     IN  /\ evict_label' = el
         /\ tree' = [n \in Node |-> IF n \in path THEN {} ELSE tree[n]]
         /\ dumvalid' = [n \in Node |-> IF n \in path THEN 0 ELSE dumvalid[n]]
         /\ stash' = stash \cup pulled
         /\ err' = Check(\E n \in path : ShortOfDummies(n), "remainCount",
                   Check(Cardinality(stash \cup pulled) > STASH_SIZE, "stash overflow", "none"))
  /\ ring_round' = 0
  /\ ring_G' = NextEviction
  /\ lvl' = LEVEL - 1
  /\ pc' = "evict"
  /\ UNCHANGED << PosMap, count, plb, accessVars, req, i_saved >>

(* One turn of the loop of write_path, from the leaf to the root. *)
write_path(W) ==
  /\ At("evict")
  /\ LET n == NodeAt(evict_label, lvl)
     IN  /\ Fills(W, pick_candidate(stash, n))
         /\ write_bucket(n, W)
  /\ stash' = stash \ W
  /\ IF lvl = 0 THEN lvl' = LEVEL - 1 /\ pc' = "reshuffle"
                ELSE lvl' = lvl - 1 /\ pc' = "evict"
  /\ UNCHANGED << PosMap, plb, roundVars, accessVars, evict_label, req, i_saved, err >>

(* The reshuffle loop goes from the leaf to the root. *)
NextReshuffle_past_root ==
  IF lvl < 0 THEN lvl' = 0 /\ pc' = "done" ELSE lvl' = lvl - 1 /\ pc' = "reshuffle"
NextReshuffle ==
  IF lvl = 0 THEN lvl' = 0 /\ pc' = "done" ELSE lvl' = lvl - 1 /\ pc' = "reshuffle"

(* One turn of ring_early_reshuffle at a bucket that can serve more reads. *)
NoReshuffle ==
  /\ At("reshuffle")
  /\ ~must_reshuffle(NodeAt(label, lvl))
  /\ NextReshuffle
  /\ UNCHANGED << oramVars, plb, roundVars, accessVars, evict_label, req, i_saved, err >>

(* One turn at a bucket that has served RING_S reads: its real blocks are  *)
(* read into the stash and it is written again from the whole stash.       *)
ring_early_reshuffle(W) ==
  /\ At("reshuffle")
  /\ LET n   == NodeAt(label, lvl)
         mid == stash \cup tree[n]
     IN  /\ must_reshuffle(n)
         /\ Fills(W, pick_candidate(mid, n))
         /\ write_bucket(n, W)
         /\ stash' = mid \ W
         /\ err' = Check(ShortOfDummies(n), "remainCount",
                   Check(Cardinality(mid) > STASH_SIZE, "stash overflow",
                   Check(Cardinality(mid \ W) > Cardinality(stash), "reshuffle grew stash",
                         "none")))
  /\ NextReshuffle
  /\ UNCHANGED << PosMap, plb, roundVars, accessVars, evict_label, req, i_saved >>

(* ring_access returns: to the position-map loop, where pinOff is called,  *)
(* to the end of freecursive_access, or to the caller of the dummy access. *)
EndAccess ==
  /\ At("done")
  /\ pc' = IF pinFlag THEN "fill" ELSE "idle"
  /\ req' = IF pinFlag THEN req ELSE NONE
  /\ cur' = NONE /\ label' = 0 /\ pinFlag' = FALSE /\ stash_occu' = 0 /\ evict_label' = 0
  /\ UNCHANGED << oramVars, plb, roundVars, lvl, i_saved, err >>

(* plb_fill and what follows it: the block that loses its PLB line returns *)
(* to the stash, the fetched block leaves the stash for the line.          *)
plb_fill ==
  /\ At("fill")
  /\ LET tag  == PosTag[req][i_saved]
         back == Victim(tag)
     IN  /\ plb' = [plb EXCEPT ![PlbIndex[tag]] = tag]
         /\ stash' = { s \in stash \cup back : s.addr # tag }
         /\ err' = Check(\E s \in back : stash_contain(s.addr), "already in stash",
                   Check(Cardinality(stash \cup back) > STASH_SIZE, "stash overflow",
                   Check(~stash_contain(tag), "not in stash", "none")))
  /\ i_saved' = i_saved - 1
  /\ pc' = "posmap"
  /\ UNCHANGED << PosMap, tree, dumvalid, count, roundVars, accessVars, loopVars, req >>

-------------------------------------------------------------------------------
Next ==
  \/ \E a \in Data : StashHit(a)
  \/ \E a \in Data : freecursive_access(a)
  \/ PosmapAccess
  \/ PosmapInStash
  \/ DataAccess
  \/ DataInStash
  \/ \E p \in Path : DummyAccess(p)
  \/ ring_read_path
  \/ \E p \in Path : remap_block(p)
  \/ NoEviction
  \/ ring_evict_path
  \/ \E W \in SUBSET stash : write_path(W)
  \/ NoReshuffle
  \/ \E W \in SUBSET (stash \cup tree[NodeAt(label, lvl)]) : ring_early_reshuffle(W)
  \/ EndAccess
  \/ plb_fill

Spec == Init /\ [][Next]_vars

(* The program never waits: it makes its next call as long as there is one. *)
FairSpec == Spec /\ WF_vars(Next)

-------------------------------------------------------------------------------
TypeOK ==
  /\ PosMap \in [Block -> Path]
  /\ tree \in [Node -> SUBSET Slot]
  /\ dumvalid \in [Node -> Int]
  /\ count \in [Node -> Nat]
  /\ stash \in SUBSET Slot
  /\ plb \in [PlbSets -> Pos \cup {NONE}]
  /\ ring_round \in 0 .. RING_A - 1
  /\ ring_G \in Path
  /\ pc \in Control
  /\ req \in Data \cup {NONE}
  /\ i_saved \in 0 .. H - 2
  /\ cur \in Block \cup {NONE}
  /\ label \in Path
  /\ evict_label \in Path
  /\ lvl \in Level
  /\ pinFlag \in BOOLEAN
  /\ stash_occu \in Nat
  /\ err \in Errors

(* No legal sequence of accesses takes the program to one of its exit(1)   *)
(* calls other than the stash overflow, which is a question of the sizes   *)
(* (StashBound): a bucket always has the valid dummies a read asks for,    *)
(* remap and the PLB fill find their block in the stash, the PLB victim is *)
(* not there already, and no reshuffle grows the stash.                    *)
NoExit == err \in { "none", "stash overflow" }

InTree(b) == \E n \in Node : Holds(n, b)
InPlb(b) == b \in Pos /\ plb_access(b)

(* Every block is in exactly one place: one bucket, the stash, or its PLB  *)
(* line; the moves between the three by ring_read_path, the evictions, the *)
(* reshuffles and plb_fill lose none and copy none.                        *)
SingleCopy ==
  /\ \A b \in Block : InTree(b) \/ stash_contain(b) \/ InPlb(b)
  /\ \A b \in Block : /\ ~(InTree(b) /\ stash_contain(b))
                      /\ ~(InTree(b) /\ InPlb(b))
                      /\ ~(stash_contain(b) /\ InPlb(b))
  /\ \A n, m \in Node : \A s \in tree[n], t \in tree[m] : s.addr = t.addr => n = m /\ s = t
  /\ \A s, t \in stash : s.addr = t.addr => s = t

(* A block in the tree is on the path its PosMap entry names, so the read  *)
(* of that path finds it; the labels kept with the slots never go stale.   *)
BlockOnItsPath ==
  /\ \A n \in Node : \A s \in tree[n] :
       s.label = PosMap[s.addr] /\ NodeAt(s.label, n[1]) = n
  /\ \A s \in stash : s.label = PosMap[s.addr]

(* Buckets that an eviction has read and not yet written. *)
Emptied(n) == pc = "evict" /\ n \in OnPath(evict_label) /\ n[1] <= lvl

(* Buckets of the current access that the reshuffle loop has yet to visit. *)
ToReshuffle(n) ==
  /\ n \in OnPath(label)
  /\ \/ pc \in {"remap", "round", "evict"}
     \/ pc = "reshuffle" /\ n[1] <= lvl

BucketBudget(n) ==
  /\ Cardinality(tree[n]) <= RING_Z
  /\ count[n] <= IF ToReshuffle(n) THEN RING_S ELSE RING_S - 1
  /\ IF Emptied(n) THEN tree[n] = {} /\ dumvalid[n] = 0
     ELSE Cardinality(tree[n]) + dumvalid[n] + count[n] = LZ

(* A bucket's slots are its real blocks, its valid dummies and the slots   *)
(* read since it was written, and every bucket keeps a read in reserve     *)
(* between accesses: a dummy access, a posmap access and an eviction on    *)
(* the same bucket never run it dry.                                       *)
DummyBudget == \A n \in Node : BucketBudget(n)

(* The block a position-map access fetched stays in the stash until        *)
(* plb_fill takes it, whatever the eviction and the reshuffles in between  *)
(* write back.                                                             *)
PinnedStays ==
  /\ pc \in {"remap", "round", "evict", "reshuffle", "done"} /\ pinFlag =>
       stash_contain(cur) /\ cur = PosTag[req][i_saved]
  /\ pc = "fill" => stash_contain(PosTag[req][i_saved])

(* The labels of level i_saved are read only while the position-map block  *)
(* that holds them, of level i_saved + 1, is in the PLB.                   *)
ChainInPlb ==
  req # NONE /\ i_saved < H - 2 => plb_access(PosTag[req][i_saved + 1])

(* The last check of ring_access ("stash was %d became %d"): an access     *)
(* leaves at most one block more in the stash; a dummy access leaves none. *)
AccessGrowth ==
  pc = "done" => Cardinality(stash) <= stash_occu + (IF cur = NONE THEN 0 ELSE 1)

(* Between accesses the stash holds fewer than DUMMY_TH blocks plus one    *)
(* for every ring_access a freecursive_access can make.                    *)
StashBound ==
  pc = "idle" => Cardinality(stash) <= DUMMY_TH + H - 2

(* An eviction pushes blocks as deep as they go: when its last bucket is   *)
(* written, a block that stays in the stash has met a full bucket at every *)
(* level where it could have gone.                                         *)
EvictionIsMaximal ==
  [][ pc = "evict" /\ pc' = "reshuffle" =>
        \A s \in stash' : ~(pinFlag /\ s.addr = cur) =>
          \A n \in OnPath(evict_label) \cap OnPath(s.label) :
            Cardinality(tree'[n]) = RING_Z ]_vars

(* Dummy accesses work: a stash at the threshold is below it some dummy    *)
(* accesses later, so that the program accepts the next request.           *)
StashDrains ==
  (pc = "idle" /\ Cardinality(stash) >= DUMMY_TH) ~>
    (pc = "idle" /\ Cardinality(stash) < DUMMY_TH)

-------------------------------------------------------------------------------
Accessing == pc \in { "read", "remap", "round", "evict", "reshuffle", "done" }

(* What the variables of an access mean at each of its steps: which block  *)
(* it is for, which blocks of its request the PLB still misses, and where  *)
(* its block is before and after the read.                                 *)
AccessPhase ==
  /\ pc = "idle" => req = NONE
  /\ pc \in { "posmap", "fill" } => req # NONE
  /\ pc = "fill" => i_saved >= 1
  /\ ~Accessing => cur = NONE /\ ~pinFlag
  /\ Accessing /\ pinFlag => req # NONE /\ i_saved >= 1 /\ cur = PosTag[req][i_saved]
  /\ Accessing /\ ~pinFlag => cur = req
  /\ pc = "read" /\ cur # NONE => label = PosMap[cur] /\ ~stash_contain(cur)
  /\ pc = "remap" => cur # NONE /\ stash_contain(cur)
  /\ req # NONE => \A i \in 1 .. i_saved : ~plb_access(PosTag[req][i])
  /\ \A w \in PlbSets : plb[w] # NONE => PlbIndex[plb[w]] = w

(* The invariant that every step preserves: the properties above need one  *)
(* another, and the phases of the access, to be carried through a step.    *)
IndInv ==
  /\ TypeOK
  /\ NoExit
  /\ AccessPhase
  /\ SingleCopy
  /\ BlockOnItsPath
  /\ DummyBudget
  /\ PinnedStays
  /\ ChainInPlb
===============================================================================

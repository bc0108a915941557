------------------------------- MODULE PathOram -------------------------------
(***************************************************************************)
(* The Path ORAM that the program runs when RING_ENABLE is off: the access *)
(* of a path (read_path, remap_block, write_path), the recursive lookup    *)
(* through the PLB, background eviction, and the stash top tree (STT), a   *)
(* set-associative table that takes blocks from the stash between requests.*)
(*                                                                         *)
(* The program is sequential; the actions are the calls it makes, in the   *)
(* order of pc.  A call of exit(1) sets err to its reason, and nothing     *)
(* happens after it.  A bucket is the set of its real slots.  The slots    *)
(* that a write takes from the stash or the STT are any candidates, where  *)
(* the program takes those with the lowest index.  RHO, the write bypass,  *)
(* LLC_DIRTY, level skipping and duplication are off.                      *)
(***************************************************************************)
EXTENDS OramTree, FiniteSets

CONSTANTS
  Z,             (* slots of a bucket                                       *)
  EMPTY_TOP,     (* levels above it have no slots                           *)
  STASH_SIZE,    (* slots of the stash                                      *)
  OV_THRESHOLD,  (* stash occupancy from which paths are evicted            *)
  H,             (* levels of the position map, data and on-chip included   *)
  Data,          (* data blocks                                             *)
  Pos,           (* position-map blocks that live in the tree               *)
  PosTag,        (* PosTag[a][i]: calc_posact_addr(a, i), for i in 1..H-2   *)
  PlbSets,       (* sets of the direct-mapped PLB                           *)
  PlbIndex,      (* plb_index of a position-map block                       *)
  STT_WAY,       (* ways of an STT set; 0: STT_ENABLE is off                *)
  SttIndex,      (* stt_index of a block                                    *)
  Modes,         (* ways to run the program that are considered             *)
  NONE           (* the address -1                                          *)

Block == Data \cup Pos

Slot == [addr : Block, label : Path]

ASSUME SizeAssumption ==
  /\ Z \in Nat \ {0}
  /\ EMPTY_TOP \in 0 .. LEVEL - 1
  /\ STASH_SIZE \in Nat
  /\ OV_THRESHOLD \in Nat \ {0}
  /\ STT_WAY \in Nat
  /\ H \in Nat /\ H >= 2

ASSUME BlockAssumption ==
  /\ IsFiniteSet(Data) /\ IsFiniteSet(Pos)
  /\ Data \cap Pos = {}
  /\ NONE \notin Data \cup Pos

ASSUME TableAssumption ==
  /\ PosTag \in [Data -> [1 .. H - 2 -> Pos]]
  /\ \A a, b \in Data, i, j \in 1 .. H - 2 : PosTag[a][i] = PosTag[b][j] => i = j
  /\ PlbIndex \in [Pos -> PlbSets]
  /\ DOMAIN SttIndex = Block

(* "trace" and "timing" serve a trace after oram_init, without and with    *)
(* TIMING_ENABLE; "snapshot" is SNAPSHOT_ENABLE: oram_init_path, then      *)
(* accesses that bypass the position map.                                  *)
ASSUME ModeAssumption == Modes \subseteq { "trace", "timing", "snapshot" }

VARIABLES
  mode,      (* the way the program was configured to run                   *)
  PosMap,    (* label of each block, -1 before oram_init_path reaches it    *)
  tree,      (* real slots of each bucket                                   *)
  stash,     (* slots in the stash                                          *)
  STT,       (* blocks in the stash top tree                                *)
  plb,       (* block in each PLB set, or NONE                              *)
  pc,        (* the call the program makes next                             *)
  req,       (* data block freecursive_access was called with               *)
  i_saved,   (* position-map level freecursive_access has to fetch          *)
  cur,       (* block the access is for, NONE when only a path is evicted   *)
  label,     (* path that has been read and is to be written                *)
  lvl,       (* level the loop of write_path is at                          *)
  pinFlag,   (* cur must stay in the stash                                  *)
  before,    (* history: blocks in stash and STT when the path was read     *)
  err        (* "none", or the reason of the exit(1) that ended the run     *)

vars == << mode, PosMap, tree, stash, STT, plb, pc, req, i_saved, cur, label, lvl,
           pinFlag, before, err >>

requestVars == << plb, req, i_saved >>
pathVars    == << cur, label, lvl, pinFlag, before >>

Control == { "idle", "snapshot", "posmap", "remap", "write", "fill", "free" }

Errors == { "none", "not in stash", "already in stash", "stash overflow" }

-------------------------------------------------------------------------------
Check(bad, reason, otherwise) == IF bad THEN reason ELSE otherwise

At(where) == err = "none" /\ pc = where

InStash(b) == \E s \in stash : s.addr = b

stash_contain(b) == InStash(b) \/ b \in STT

plb_access(b) == plb[PlbIndex[b]] = b

(* Blocks that are neither in the tree nor in the PLB. *)
Outside == Cardinality(stash) + Cardinality(STT)

bk_evict_needed == Cardinality(stash) >= OV_THRESHOLD

(* add_to_stash finds no free slot for one of the slots of S. *)
Overflows(S) == Cardinality(S) > STASH_SIZE

(* The stash after remap_block gives block b the label p. *)
Relabel(b, p) == { IF s.addr = b THEN [addr |-> b, label |-> p] ELSE s : s \in stash }

remove_from_stash(S, b) == { s \in S : s.addr # b }

(* The slots of the stash, and the blocks of the STT, that may go into     *)
(* bucket n.                                                               *)
pick_candidate(n) ==
  { s \in stash : NodeAt(s.label, n[1]) = n /\ ~(pinFlag /\ s.addr = cur) }
stt_candidate(n) == { b \in STT : NodeAt(PosMap[b], n[1]) = n /\ ~(pinFlag /\ b = cur) }

AtMost(k, S) == IF Cardinality(S) < k THEN Cardinality(S) ELSE k

(* What one bucket takes: STT blocks T first.  The slot of an STT block    *)
(* uses up the stash candidate with the number of the slot, so T takes the *)
(* place of candidates even when slots remain empty.                       *)
Takes_one_less(T, W, n) ==
  /\ T \subseteq stt_candidate(n) /\ Cardinality(T) = AtMost(Z, stt_candidate(n))
  /\ W \subseteq pick_candidate(n)
  /\ Cardinality(W) = IF Cardinality(T) < AtMost(Z - 1, pick_candidate(n))
                      THEN AtMost(Z - 1, pick_candidate(n)) - Cardinality(T) ELSE 0
Takes(T, W, n) ==
  /\ T \subseteq stt_candidate(n) /\ Cardinality(T) = AtMost(Z, stt_candidate(n))
  /\ W \subseteq pick_candidate(n)
  /\ Cardinality(W) = IF Cardinality(T) < AtMost(Z, pick_candidate(n))
                      THEN AtMost(Z, pick_candidate(n)) - Cardinality(T) ELSE 0

(* The path is written from the leaf up to the first level with slots. *)
Written_past_top == lvl < EMPTY_TOP
Written_short == lvl = EMPTY_TOP + 1
Written == lvl = EMPTY_TOP

(* A PLB search for data block a leaves i_saved = k. *)
PlbSearch_from_two(a, k) ==
  /\ \A i \in 2 .. k : ~plb_access(PosTag[a][i])
  /\ k < H - 2 => plb_access(PosTag[a][k + 1])
PlbSearch(a, k) ==
  /\ \A i \in 1 .. k : ~plb_access(PosTag[a][i])
  /\ k < H - 2 => plb_access(PosTag[a][k + 1])

Victim(tag) ==
  LET b == plb[PlbIndex[tag]]
  IN  IF b = NONE THEN {} ELSE { [addr |-> b, label |-> PosMap[b]] }

(* stt_fill(b) finds a way: set of b holds fewer than STT_WAY blocks of S. *)
stt_fill(S, b) == Cardinality({ c \in S : SttIndex[c] = SttIndex[b] }) < STT_WAY

(* Where the program is when write_path returns and when a request ends.   *)
EndOfRequest == IF STT_WAY > 0 THEN "free" ELSE "idle"
EndOfPath ==
  IF pinFlag THEN "fill"
  ELSE IF mode = "snapshot" THEN "snapshot"
  ELSE IF cur = NONE /\ mode = "timing" THEN "idle" ELSE EndOfRequest

-------------------------------------------------------------------------------
(* oram_init puts every block, leaf first, into the first bucket of its    *)
(* path with room.                                                         *)
Placement(pm, depth) ==
  LET In(n) == { b \in Block : NodeAt(pm[b], depth[b]) = n }
  IN  /\ \A n \in Node : Cardinality(In(n)) <= Z
      /\ \A b \in Block, l \in EMPTY_TOP .. LEVEL - 1 :
           l > depth[b] => Cardinality(In(NodeAt(pm[b], l))) = Z

oram_init ==
  /\ PosMap \in [Block -> Path]
  /\ \E depth \in [Block -> EMPTY_TOP .. LEVEL - 1] :
       /\ Placement(PosMap, depth)
       /\ tree = [n \in Node |-> { [addr |-> b, label |-> PosMap[b]] :
                                   b \in { c \in Block : NodeAt(PosMap[c], depth[c]) = n } }]

Init ==
  /\ mode \in Modes
  /\ IF mode = "snapshot"
     THEN /\ PosMap = [b \in Block |-> -1] /\ tree = [n \in Node |-> {}]
          /\ pc = "snapshot"
     ELSE oram_init /\ pc = "idle"
  /\ stash = {} /\ STT = {}
  /\ plb = [w \in PlbSets |-> NONE]
  /\ req = NONE /\ i_saved = 0
  /\ cur = NONE /\ label = 0 /\ lvl = 0 /\ pinFlag = FALSE /\ before = 0
  /\ err = "none"

-------------------------------------------------------------------------------
(* read_path(p) for block b: the real blocks of the path go to the stash   *)
(* S, which the caller has brought up to date.  What follows is the remap  *)
(* of b, or the write of the path when there is no b.                      *)
read_path(p, b, S) ==
  LET pulled == UNION { tree[n] : n \in OnPath(p) }
  IN  /\ stash' = S \cup pulled
      /\ tree' = [n \in Node |-> IF n \in OnPath(p) THEN {} ELSE tree[n]]
      /\ err' = Check(Overflows(S \cup pulled), "stash overflow", "none")
      /\ label' = p /\ cur' = b /\ lvl' = LEVEL - 1
      /\ before' = Cardinality(S) + Cardinality(STT)
      /\ pc' = IF b = NONE THEN "write" ELSE "remap"

(* invoke_oram(a) of a block in the stash or the STT. *)
StashHit(a) ==
  /\ At("idle")
  /\ mode = "timing" \/ ~bk_evict_needed
  /\ stash_contain(a)
  /\ pc' = EndOfRequest
  /\ UNCHANGED << mode, PosMap, tree, stash, STT, err, requestVars, pathVars >>

(* Any other block: the PLB is searched from level 1 up. *)
freecursive_access(a) ==
  /\ At("idle")
  /\ mode = "timing" \/ ~bk_evict_needed
  /\ ~stash_contain(a)
  /\ \E k \in 0 .. H - 2 : PlbSearch(a, k) /\ i_saved' = k
  /\ req' = a
  /\ pc' = "posmap"
  /\ UNCHANGED << mode, PosMap, tree, stash, STT, plb, err, pathVars >>

PosmapAccess ==
  /\ At("posmap") /\ i_saved >= 1
  /\ ~stash_contain(PosTag[req][i_saved])
  /\ read_path(PosMap[PosTag[req][i_saved]], PosTag[req][i_saved], stash)
  /\ pinFlag' = TRUE
  /\ UNCHANGED << mode, PosMap, STT, requestVars >>

PosmapInStash ==
  /\ At("posmap") /\ i_saved >= 1
  /\ stash_contain(PosTag[req][i_saved])
  /\ pc' = "fill"
  /\ UNCHANGED << mode, PosMap, tree, stash, STT, err, requestVars, pathVars >>

(* The data block is accessed whether or not a position-map access has     *)
(* brought it into the stash.                                              *)
oram_access ==
  /\ At("posmap") /\ i_saved = 0
  /\ read_path(PosMap[req], req, stash)
  /\ req' = NONE
  /\ UNCHANGED << mode, PosMap, STT, plb, i_saved, pinFlag >>

(* background_eviction, or in snapshot mode the loop that calls read_path  *)
(* and write_path with a random label; dummy_access with TIMING_ENABLE.    *)
background_eviction_of_zero(p) ==
  /\ At("idle") \/ At("snapshot")
  /\ mode = "timing" \/ bk_evict_needed
  /\ p = 0
  /\ read_path(p, NONE, stash)
  /\ UNCHANGED << mode, PosMap, STT, pinFlag, requestVars >>
background_eviction(p) ==
  /\ At("idle") \/ At("snapshot")
  /\ mode = "timing" \/ bk_evict_needed
  /\ read_path(p, NONE, stash)
  /\ UNCHANGED << mode, PosMap, STT, pinFlag, requestVars >>

(* One turn of oram_init_path: block b gets its first label and enters the *)
(* stash, and the path of that label is accessed for it.                   *)
oram_init_path(b, p) ==
  /\ At("snapshot") /\ ~bk_evict_needed
  /\ PosMap[b] = -1
  /\ PosMap' = [PosMap EXCEPT ![b] = p]
  /\ read_path(p, b, stash \cup { [addr |-> b, label |-> p] })
  /\ UNCHANGED << mode, STT, pinFlag, requestVars >>

(* One turn of take_snapshot, once every block has been placed. *)
take_snapshot(b) ==
  /\ At("snapshot") /\ ~bk_evict_needed
  /\ \A c \in Block : PosMap[c] # -1
  /\ read_path(PosMap[b], b, stash)
  /\ UNCHANGED << mode, PosMap, STT, pinFlag, requestVars >>

(* remap_block(cur): a new label p in PosMap, and in the stash unless the  *)
(* STT has the block.                                                      *)
remap_block(p) ==
  /\ At("remap")
  /\ PosMap' = [PosMap EXCEPT ![cur] = p]
  /\ stash' = IF cur \in STT THEN stash ELSE Relabel(cur, p)
  /\ err' = Check(~stash_contain(cur), "not in stash", "none")
  /\ pc' = "write"
  /\ UNCHANGED << mode, tree, STT, requestVars, pathVars >>

(* One turn of the loop of write_path, from the leaf to EMPTY_TOP. *)
write_path_label_of_path(T, W) ==
  /\ At("write")
  /\ LET n == NodeAt(label, lvl)
     IN  /\ Takes(T, W, n)
         /\ tree' = [tree EXCEPT ![n] = W \cup { [addr |-> b, label |-> label] : b \in T }]
  /\ STT' = STT \ T
  /\ stash' = stash \ W
  /\ IF Written
     THEN /\ pc' = EndOfPath
          /\ cur' = NONE /\ label' = 0 /\ lvl' = 0 /\ pinFlag' = FALSE /\ before' = 0
     ELSE /\ lvl' = lvl - 1
          /\ UNCHANGED << pc, cur, label, pinFlag, before >>
  /\ UNCHANGED << mode, PosMap, err, requestVars >>
write_path(T, W) ==
  /\ At("write")
  /\ LET n == NodeAt(label, lvl)
     IN  /\ Takes(T, W, n)
         /\ tree' = [tree EXCEPT ![n] = W \cup { [addr |-> b, label |-> PosMap[b]] : b \in T }]
  /\ STT' = STT \ T
  /\ stash' = stash \ W
  /\ IF Written
     THEN /\ pc' = EndOfPath
          /\ cur' = NONE /\ label' = 0 /\ lvl' = 0 /\ pinFlag' = FALSE /\ before' = 0
     ELSE /\ lvl' = lvl - 1
          /\ UNCHANGED << pc, cur, label, pinFlag, before >>
  /\ UNCHANGED << mode, PosMap, err, requestVars >>

(* plb_fill and what follows it: the victim returns to the stash, the      *)
(* fetched block leaves the stash or the STT for its PLB line.             *)
plb_fill ==
  /\ At("fill")
  /\ LET tag  == PosTag[req][i_saved]
         back == Victim(tag)
     IN  /\ plb' = [plb EXCEPT ![PlbIndex[tag]] = tag]
         /\ stash' = IF tag \in STT THEN stash \cup back
                     ELSE remove_from_stash(stash \cup back, tag)
         /\ STT' = STT \ {tag}
         /\ err' = Check(\E s \in back : stash_contain(s.addr), "already in stash",
                   Check(Overflows(stash \cup back), "stash overflow",
                   Check(~stash_contain(tag), "not in stash", "none")))
  /\ i_saved' = i_saved - 1
  /\ pc' = "posmap"
  /\ UNCHANGED << mode, PosMap, tree, req, pathVars >>

(* free_stash: every stash block whose STT set has room moves there. *)
free_stash_copies(F) ==
  /\ At("free")
  /\ F \subseteq { s.addr : s \in stash }
  /\ \A b \in F : stt_fill((STT \cup F) \ {b}, b)
  /\ \A s \in stash : s.addr \notin F => ~stt_fill(STT \cup F, s.addr)
  /\ STT' = STT \cup F
  /\ pc' = "idle"
  /\ UNCHANGED << mode, PosMap, tree, stash, err, requestVars, pathVars >>
free_stash(F) ==
  /\ At("free")
  /\ F \subseteq { s.addr : s \in stash }
  /\ \A b \in F : stt_fill((STT \cup F) \ {b}, b)
  /\ \A s \in stash : s.addr \notin F => ~stt_fill(STT \cup F, s.addr)
  /\ STT' = STT \cup F
  /\ stash' = { s \in stash : s.addr \notin F }
  /\ pc' = "idle"
  /\ UNCHANGED << mode, PosMap, tree, err, requestVars, pathVars >>

-------------------------------------------------------------------------------
Next ==
  \/ \E a \in Data : StashHit(a)
  \/ \E a \in Data : freecursive_access(a)
  \/ PosmapAccess
  \/ PosmapInStash
  \/ oram_access
  \/ \E p \in Path : background_eviction(p)
  \/ \E b \in Block, p \in Path : oram_init_path(b, p)
  \/ \E b \in Block : take_snapshot(b)
  \/ \E p \in Path : remap_block(p)
  \/ \E T \in SUBSET STT, W \in SUBSET stash : write_path(T, W)
  \/ plb_fill
  \/ \E F \in SUBSET { s.addr : s \in stash } : free_stash(F)

Spec == Init /\ [][Next]_vars

(* The program never waits, and rand() gives every label again and again   *)
(* to the evictions it is called for.                                      *)
FairSpec ==
  /\ Spec
  /\ WF_vars(Next)
  /\ \A p \in Path : SF_vars(background_eviction(p))

-------------------------------------------------------------------------------
TypeOK ==
  /\ mode \in Modes
  /\ PosMap \in [Block -> Path \cup {-1}]
  /\ tree \in [Node -> SUBSET Slot]
  /\ stash \in SUBSET Slot
  /\ STT \in SUBSET Block
  /\ plb \in [PlbSets -> Pos \cup {NONE}]
  /\ pc \in Control
  /\ req \in Data \cup {NONE}
  /\ i_saved \in 0 .. H - 2
  /\ cur \in Block \cup {NONE}
  /\ label \in Path
  /\ lvl \in Level
  /\ pinFlag \in BOOLEAN
  /\ before \in Nat
  /\ err \in Errors

(* No legal sequence of requests, evictions and moves to the STT ends in   *)
(* one of the exits for a block that is missing from the stash (remap,     *)
(* PLB fill) or already there (PLB victim); only the capacity of the stash *)
(* can end a run.                                                          *)
NoExit == err \in { "none", "stash overflow" }

InTree(b) == \E n \in Node : \E s \in tree[n] : s.addr = b
InPlb(b) == b \in Pos /\ plb_access(b)

(* Every block that has been placed is in exactly one of the tree, the     *)
(* stash, the stash top tree and the PLB, whatever moves between them: the *)
(* read and write of a path, the PLB fill, and free_stash; and the checks  *)
(* of the program never find a block missing or there already.             *)
SinglePlace ==
  /\ NoExit
  /\ err = "none" =>
       /\ \A b \in Block :
            LET places == << InTree(b), InStash(b), b \in STT, InPlb(b) >>
            IN  /\ PosMap[b] # -1 => \E i \in 1 .. 4 : places[i]
                /\ \A i, j \in 1 .. 4 : places[i] /\ places[j] => i = j
       /\ \A n, m \in Node : \A s \in tree[n], t \in tree[m] : s.addr = t.addr => n = m /\ s = t
       /\ \A s, t \in stash : s.addr = t.addr => s = t

(* The label kept with a slot is the block's PosMap entry, and a block in  *)
(* the tree is on the path of it: a block that passes through the STT,     *)
(* which keeps no label, gets its current one back.                        *)
LabelsCurrent ==
  /\ \A n \in Node : \A s \in tree[n] :
       s.label = PosMap[s.addr] /\ NodeAt(s.label, n[1]) = n
  /\ \A s \in stash : s.label = PosMap[s.addr]

(* An access adds at most its own block to the stash and the STT taken     *)
(* together, and the eviction of a path adds none, although a slot that an *)
(* STT block takes also uses up a stash candidate.                         *)
OutsideGrowth ==
  [][ pc = "write" /\ pc' # "write" =>
        Outside' <= before + (IF cur = NONE THEN 0 ELSE 1) ]_vars

(* Without an STT a path is written greedily: a block that stays in the    *)
(* stash has met a full bucket at every level where it could have gone.    *)
WriteIsMaximal ==
  [][ pc = "write" /\ pc' # "write" =>
        \A s \in stash' : ~(pinFlag /\ s.addr = cur) =>
          \A n \in OnPath(label) \cap OnPath(s.label) :
            n[1] >= EMPTY_TOP => Cardinality(tree'[n]) = Z ]_vars

(* Background eviction works: paths of random labels bring the stash below *)
(* the threshold again, so that the program accepts the next request.      *)
EvictionDrains ==
  (pc \in {"idle", "snapshot"} /\ mode # "timing" /\ bk_evict_needed) ~>
    (pc \in {"idle", "snapshot"} /\ ~bk_evict_needed)
===============================================================================

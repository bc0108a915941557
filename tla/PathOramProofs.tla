---------------------------- MODULE PathOramProofs ----------------------------
(***************************************************************************)
(* Proofs about PathOram, for every size of the tree, the buckets, the     *)
(* stash, the position map, the PLB and the STT, in all three modes.  Inv  *)
(* is inductive; it also holds in the states in which the stash has        *)
(* overflowed, so that none of its parts needs err = "none".               *)
(***************************************************************************)
EXTENDS PathOram, OramTreeProofs

-------------------------------------------------------------------------------
(* Where the control variables stand: a request exists while its blocks    *)
(* are looked up, and a block is accessed while a path is read and written.*)
RequestPhase ==
  /\ pc \in { "posmap", "fill" } => req # NONE
  /\ pc = "fill" => i_saved >= 1
  /\ pc \in { "idle", "snapshot", "free" } => req = NONE
  /\ pc = "snapshot" => mode = "snapshot"
  /\ mode = "snapshot" => /\ pc \in { "snapshot", "remap", "write" } /\ ~pinFlag
                          /\ \A w \in PlbSets : plb[w] = NONE
  /\ mode # "snapshot" => \A b \in Block : PosMap[b] \in Path

PathPhase ==
  /\ pc \notin { "remap", "write" } => cur = NONE /\ ~pinFlag
  /\ pc = "remap" => cur # NONE /\ lvl = LEVEL - 1
  /\ pc \in { "remap", "write" } => lvl >= EMPTY_TOP
  /\ pc \in { "remap", "write" } /\ ~pinFlag => req = NONE
  /\ pinFlag => req # NONE /\ i_saved >= 1 /\ cur = PosTag[req][i_saved]

(* A block that the next step takes for granted is in the stash or the STT.*)
Pinned ==
  /\ pc = "remap" \/ pinFlag => stash_contain(cur)
  /\ pc = "fill" => stash_contain(PosTag[req][i_saved])

(* The levels that the PLB search has passed stay out of the PLB.          *)
ChainOut == req # NONE => \A i \in 1 .. i_saved : ~plb_access(PosTag[req][i])

(* A PLB line holds a block of its set.                                    *)
PlbSound == \A w \in PlbSets : plb[w] # NONE => PlbIndex[plb[w]] = w

(* SinglePlace, in the form that steps preserve: a block that has a label  *)
(* is somewhere, nothing is in two places, and only such blocks are.       *)
OnePlace ==
  /\ \A b \in Block : PosMap[b] # -1 <=> InTree(b) \/ InStash(b) \/ b \in STT \/ InPlb(b)
  /\ \A b \in Block : InTree(b) => ~InStash(b) /\ b \notin STT /\ ~InPlb(b)
  /\ \A b \in Block : InStash(b) => b \notin STT /\ ~InPlb(b)
  /\ \A b \in Block : b \in STT => ~InPlb(b)
  /\ \A n, m \in Node : \A s \in tree[n], t \in tree[m] : s.addr = t.addr => n = m /\ s = t
  /\ \A s, t \in stash : s.addr = t.addr => s = t

(* A bucket has at most Z slots and those above EMPTY_TOP none; the part   *)
(* of the path that write_path has not reached is empty.                   *)
Buckets ==
  /\ \A n \in Node : Cardinality(tree[n]) <= Z
  /\ \A n \in Node : n[1] < EMPTY_TOP => tree[n] = {}
  /\ pc \in { "remap", "write" } => \A l \in 0 .. lvl : tree[NodeAt(label, l)] = {}

Inv ==
  /\ TypeOK
  /\ NoExit
  /\ RequestPhase /\ PathPhase
  /\ Pinned /\ ChainOut /\ PlbSound
  /\ OnePlace /\ LabelsCurrent
  /\ Buckets

-------------------------------------------------------------------------------
(* There are finitely many slot contents, so the stash and every bucket    *)
(* are finite, and so is the STT.                                          *)
LEMMA SlotFinite == IsFiniteSet(Slot) /\ IsFiniteSet(Block)
<1>1. IsFiniteSet(Block)
  BY BlockAssumption, FS_Union DEF Block
<1>. QED  BY <1>1, RecordsFinite DEF Slot

LEMMA SlotsFinite ==
  ASSUME NEW S \in SUBSET Slot
  PROVE  IsFiniteSet(S) /\ Cardinality(S) \in Nat
BY SlotFinite, FS_Subset, FS_CardinalityType

LEMMA BlocksFinite ==
  ASSUME NEW S \in SUBSET Block
  PROVE  IsFiniteSet(S) /\ Cardinality(S) \in Nat
BY SlotFinite, FS_Subset, FS_CardinalityType

(* NONE is no block, and -1 no label. *)
LEMMA NotBlockNotPath == NONE \notin Block /\ -1 \notin Path
BY BlockAssumption, PathPositive DEF Block, Path

(* The position-map block of a request is a block of the tree.             *)
LEMMA PosTagType ==
  ASSUME TypeOK, req # NONE, i_saved >= 1
  PROVE  /\ PosTag[req][i_saved] \in Pos
         /\ PosTag[req][i_saved] \in Block
         /\ PlbIndex[PosTag[req][i_saved]] \in PlbSets
<1>1. req \in Data /\ i_saved \in 1 .. H - 2
  BY SizeAssumption DEF TypeOK
<1>2. PosTag[req][i_saved] \in Pos
  <2>1. PosTag[req] \in [1 .. H - 2 -> Pos]
    BY <1>1, TableAssumption
  <2>. QED  BY <1>1, <2>1
<1>. QED  BY <1>2, TableAssumption DEF Block

-------------------------------------------------------------------------------
(* What a read of a path does to every variable but PosMap and pinFlag.    *)
LEMMA ReadType ==
  ASSUME TypeOK, NEW p \in Path, NEW b \in Block \cup {NONE}, NEW S \in SUBSET Slot,
         read_path(p, b, S)
  PROVE  /\ stash' \in SUBSET Slot /\ tree' \in [Node -> SUBSET Slot]
         /\ err' \in { "none", "stash overflow" }
         /\ label' \in Path /\ cur' \in Block \cup {NONE} /\ lvl' \in Level
         /\ before' \in Nat
         /\ pc' \in { "remap", "write" }
<1>1. \A n \in OnPath(p) : tree[n] \in SUBSET Slot
  BY OnPathLevel DEF TypeOK
<1>2. Cardinality(S) \in Nat /\ Cardinality(STT) \in Nat
  BY SlotsFinite, BlocksFinite DEF TypeOK
<1>3. stash' \in SUBSET Slot
  BY <1>1 DEF read_path
<1>4. tree' \in [Node -> SUBSET Slot]
  BY DEF read_path, TypeOK
<1>5. err' \in { "none", "stash overflow" } /\ pc' \in { "remap", "write" }
  BY DEF read_path, Check
<1>6. label' = p /\ cur' = b /\ lvl' = LEVEL - 1 /\ before' = Cardinality(S) + Cardinality(STT)
  BY DEF read_path
<1>7. label' \in Path /\ cur' \in Block \cup {NONE} /\ lvl' \in Level /\ before' \in Nat
  BY <1>2, <1>6, FirstAndLast
<1>. QED  BY <1>3, <1>4, <1>5, <1>7

(* A turn of write_path either is the last or goes on one level up.        *)
LastTurn ==
  /\ lvl = EMPTY_TOP /\ pc' = EndOfPath
  /\ cur' = NONE /\ label' = 0 /\ lvl' = 0 /\ pinFlag' = FALSE /\ before' = 0
NextTurn ==
  /\ lvl # EMPTY_TOP /\ lvl' = lvl - 1
  /\ pc' = pc /\ cur' = cur /\ label' = label /\ pinFlag' = pinFlag /\ before' = before

LEMMA WriteTurn ==
  ASSUME NEW T, NEW W, write_path(T, W)
  PROVE  LastTurn \/ NextTurn
<1>1. CASE Written
  BY <1>1 DEF write_path, Written, LastTurn
<1>2. CASE ~Written
  BY <1>2 DEF write_path, Written, NextTurn
<1>. QED  BY <1>1, <1>2

(* Initially every variable has its type. *)
LEMMA TypeInit == Init => TypeOK
<1>. SUFFICES ASSUME Init
              PROVE  TypeOK
  OBVIOUS
<1>1. PosMap \in [Block -> Path \cup {-1}] /\ tree \in [Node -> SUBSET Slot]
  <2>1. CASE mode = "snapshot"
    BY <2>1 DEF Init
  <2>2. CASE mode # "snapshot"
    BY <2>2 DEF Init, oram_init, Slot
  <2>. QED  BY <2>1, <2>2
<1>2. plb \in [PlbSets -> Pos \cup {NONE}]
  BY DEF Init
<1>3. i_saved \in 0 .. H - 2 /\ label \in Path /\ lvl \in Level
  BY SizeAssumption, FirstAndLast DEF Init
<1>4. mode \in Modes /\ stash \in SUBSET Slot /\ STT \in SUBSET Block
  BY DEF Init
<1>5. pc \in Control /\ err \in Errors
  BY DEF Init, Control, Errors
<1>6. req \in Data \cup {NONE} /\ cur \in Block \cup {NONE} /\ pinFlag \in BOOLEAN /\ before \in Nat
  BY DEF Init
<1>. QED  BY <1>1, <1>2, <1>3, <1>4, <1>5, <1>6 DEF TypeOK

(* A step keeps every variable in its range. *)
LEMMA TypeNext == Inv /\ [Next]_vars => TypeOK'
<1>. SUFFICES ASSUME Inv, [Next]_vars
              PROVE  TypeOK'
  OBVIOUS
<1>. USE DEF Inv
<1>1. ASSUME NEW p \in Path, NEW b \in Block \cup {NONE}, NEW S \in SUBSET Slot,
             read_path(p, b, S), mode' = mode, PosMap' \in [Block -> Path \cup {-1}],
             STT' = STT, plb' = plb, req' \in Data \cup {NONE}, i_saved' = i_saved,
             pinFlag' \in BOOLEAN
      PROVE  TypeOK'
  <2>1. err' \in Errors /\ pc' \in Control
    BY <1>1, ReadType DEF Errors, Control
  <2>. QED  BY <1>1, <2>1, ReadType DEF TypeOK
<1>2. CASE \E a \in Data : StashHit(a)
  BY <1>2 DEF StashHit, requestVars, pathVars, TypeOK, EndOfRequest, Control
<1>3. CASE \E a \in Data : freecursive_access(a)
  <2>1. i_saved' \in 0 .. H - 2 /\ req' \in Data /\ pc' \in Control
    BY <1>3 DEF freecursive_access, Control
  <2>. QED  BY <1>3, <2>1 DEF freecursive_access, pathVars, TypeOK
<1>4. CASE PosmapAccess
  <2>1. PICK x \in Block : x = PosTag[req][i_saved]
    BY <1>4, PosTagType DEF PosmapAccess, At, RequestPhase
  <2>2. mode # "snapshot"
    BY <1>4 DEF PosmapAccess, At, RequestPhase
  <2>3. PosMap[x] \in Path
    BY <2>2 DEF RequestPhase
  <2>. QED  BY <1>1, <1>4, <2>1, <2>3 DEF PosmapAccess, requestVars, TypeOK
<1>5. CASE PosmapInStash
  BY <1>5 DEF PosmapInStash, requestVars, pathVars, TypeOK, Control
<1>6. CASE oram_access
  <2>1. req \in Block /\ mode # "snapshot"
    BY <1>6 DEF oram_access, At, RequestPhase, TypeOK, Block
  <2>2. PosMap[req] \in Path
    BY <2>1 DEF RequestPhase
  <2>. QED  BY <1>1, <1>6, <2>1, <2>2 DEF oram_access, TypeOK
<1>7. CASE \E p \in Path : background_eviction(p)
  BY <1>1, <1>7 DEF background_eviction, requestVars, TypeOK
<1>8. ASSUME NEW b \in Block, NEW p \in Path, oram_init_path(b, p)
      PROVE  TypeOK'
  <2>1. stash \cup {[addr |-> b, label |-> p]} \in SUBSET Slot
    BY DEF TypeOK, Slot
  <2>2. PosMap' \in [Block -> Path \cup {-1}]
    BY <1>8 DEF oram_init_path, TypeOK
  <2>. QED  BY <1>1, <1>8, <2>1, <2>2 DEF oram_init_path, requestVars, TypeOK
<1>9. ASSUME NEW b \in Block, take_snapshot(b)
      PROVE  TypeOK'
  <2>1. PosMap[b] \in Path
    BY <1>9 DEF take_snapshot, TypeOK
  <2>. QED  BY <1>1, <1>9, <2>1 DEF take_snapshot, requestVars, TypeOK
<1>10. ASSUME NEW p \in Path, remap_block(p)
       PROVE  TypeOK'
  <2>1. cur \in Block
    BY <1>10 DEF remap_block, At, PathPhase, TypeOK
  <2>2. PosMap' \in [Block -> Path \cup {-1}]
    BY <1>10, <2>1 DEF remap_block, TypeOK
  <2>3. stash' \in SUBSET Slot
    <3>1. \A s \in stash : (IF s.addr = cur THEN [addr |-> cur, label |-> p] ELSE s) \in Slot
      BY <2>1 DEF TypeOK, Slot
    <3>2. Relabel(cur, p) \in SUBSET Slot
      BY <3>1 DEF Relabel
    <3>. QED  BY <1>10, <3>2 DEF remap_block, TypeOK
  <2>4. err' \in Errors /\ pc' \in Control
    BY <1>10 DEF remap_block, Check, Errors, Control
  <2>. QED  BY <1>10, <2>2, <2>3, <2>4 DEF remap_block, requestVars, pathVars, TypeOK
<1>11. ASSUME NEW T \in SUBSET STT, NEW W \in SUBSET stash, write_path(T, W)
       PROVE  TypeOK'
  <2>1. PICK n \in Node : n = NodeAt(label, lvl)
    BY NodeAtLevel DEF TypeOK
  <2>2. \A b \in T : b \in Block /\ PosMap[b] \in Path
    <3>1. \A b \in T : b \in Block /\ PosMap[b] # -1
      BY DEF OnePlace, TypeOK
    <3>. QED  BY <3>1 DEF TypeOK
  <2>3. tree' = [tree EXCEPT ![n] = W \cup { [addr |-> b, label |-> PosMap[b]] : b \in T }]
    BY <1>11, <2>1 DEF write_path
  <2>4. W \cup { [addr |-> b, label |-> PosMap[b]] : b \in T } \in SUBSET Slot
    BY <2>2 DEF TypeOK, Slot
  <2>5. tree' \in [Node -> SUBSET Slot]
    BY <2>3, <2>4 DEF TypeOK
  <2>6. stash' \in SUBSET Slot /\ STT' \in SUBSET Block
    BY <1>11 DEF write_path, TypeOK
  <2>7. pc' \in Control
    BY <1>11 DEF write_path, EndOfPath, EndOfRequest, Control, At
  <2>8. lvl' \in Level
    <3>1. lvl >= EMPTY_TOP /\ lvl \in Level
      <4>1. pc = "write"
        BY <1>11 DEF write_path, At
      <4>. QED  BY <4>1 DEF PathPhase, TypeOK
    <3>2. EMPTY_TOP \in Nat /\ LEVEL \in Nat
      BY SizeAssumption, LevelAssumption
    <3>3. CASE LastTurn
      BY <3>3, FirstAndLast DEF LastTurn
    <3>4. CASE NextTurn
      BY <3>1, <3>2, <3>4 DEF NextTurn, Level
    <3>. QED  BY <1>11, <3>3, <3>4, WriteTurn
  <2>9. /\ cur' \in Block \cup {NONE} /\ label' \in Path /\ pinFlag' \in BOOLEAN /\ before' \in Nat
    <3>1. CASE LastTurn
      BY <3>1, FirstAndLast DEF LastTurn
    <3>2. CASE NextTurn
      BY <3>2 DEF NextTurn, TypeOK
    <3>. QED  BY <1>11, <3>1, <3>2, WriteTurn
  <2>10. mode' = mode /\ PosMap' = PosMap /\ err' = err /\ plb' = plb /\ req' = req /\ i_saved' = i_saved
    BY <1>11 DEF write_path, requestVars
  <2>. QED  BY <2>5, <2>6, <2>7, <2>8, <2>9, <2>10 DEF TypeOK
<1>12. CASE plb_fill
  <2>1. req # NONE /\ i_saved >= 1
    BY <1>12 DEF plb_fill, At, RequestPhase
  <2>2. PICK tag \in Pos : tag = PosTag[req][i_saved]
    BY <2>1, PosTagType
  <2>3. PICK w \in PlbSets : w = PlbIndex[tag]
    BY TableAssumption
  <2>4. Victim(tag) \in SUBSET Slot
    <3>1. CASE plb[w] = NONE
      BY <2>3, <3>1 DEF Victim
    <3>2. CASE plb[w] # NONE
      <4>1. plb[w] \in Block /\ PosMap[plb[w]] # -1
        <5>1. plb[w] \in Pos /\ PlbIndex[plb[w]] = w
          BY <3>2 DEF TypeOK, PlbSound
        <5>. QED  BY <5>1 DEF OnePlace, InPlb, plb_access, Block
      <4>2. PosMap[plb[w]] \in Path
        BY <4>1 DEF TypeOK
      <4>. QED  BY <2>3, <4>1, <4>2 DEF Victim, Slot
    <3>. QED  BY <3>1, <3>2
  <2>5. stash' \in SUBSET Slot /\ STT' \in SUBSET Block
    BY <1>12, <2>2, <2>4 DEF plb_fill, remove_from_stash, TypeOK
  <2>6. plb' \in [PlbSets -> Pos \cup {NONE}]
    BY <1>12, <2>2, <2>3 DEF plb_fill, TypeOK
  <2>7. err' \in Errors /\ pc' \in Control
    <3>1. err' \in { "already in stash", "stash overflow", "not in stash", "none" }
      BY <1>12 DEF plb_fill, Check
    <3>. QED  BY <1>12, <3>1 DEF plb_fill, Errors, Control
  <2>8. i_saved' \in 0 .. H - 2
    <3>1. i_saved' = i_saved - 1
      BY <1>12 DEF plb_fill
    <3>2. i_saved \in 0 .. H - 2 /\ H \in Nat
      BY SizeAssumption DEF TypeOK
    <3>. QED  BY <2>1, <3>1, <3>2
  <2>. QED  BY <1>12, <2>5, <2>6, <2>7, <2>8 DEF plb_fill, pathVars, TypeOK
<1>13. ASSUME NEW F \in SUBSET { s.addr : s \in stash }, free_stash(F)
       PROVE  TypeOK'
  BY <1>13 DEF free_stash, TypeOK, Slot, requestVars, pathVars, Control
<1>14. CASE UNCHANGED vars
  BY <1>14 DEF vars, TypeOK
<1>. QED
  BY <1>2, <1>3, <1>4, <1>5, <1>6, <1>7, <1>8, <1>9, <1>10, <1>11, <1>12, <1>13, <1>14 DEF Next

-------------------------------------------------------------------------------
(* A step keeps pc, req, cur and the mode of the program in agreement.     *)
LEMMA PhaseNext == Inv /\ [Next]_vars => RequestPhase' /\ PathPhase'
<1>. SUFFICES ASSUME Inv, [Next]_vars
              PROVE  RequestPhase' /\ PathPhase'
  OBVIOUS
<1>. USE DEF Inv
<1>0. LEVEL - 1 >= EMPTY_TOP
  BY SizeAssumption, LevelAssumption
<1>1. ASSUME NEW p \in Path, NEW b, NEW S, read_path(p, b, S)
      PROVE  /\ pc' \in { "remap", "write" } /\ cur' = b
             /\ pc' = "remap" => b # NONE
             /\ lvl' = LEVEL - 1 /\ lvl' >= EMPTY_TOP
  BY <1>0, <1>1 DEF read_path
<1>2. ASSUME PosMap' = PosMap, mode' = mode, mode # "snapshot",
             pc # "snapshot", pc' # "snapshot"
      PROVE  /\ pc' = "snapshot" => mode' = "snapshot"
             /\ mode' = "snapshot" => /\ pc' \in { "snapshot", "remap", "write" } /\ ~pinFlag'
                                      /\ \A w \in PlbSets : plb'[w] = NONE
             /\ mode' # "snapshot" => \A b \in Block : PosMap'[b] \in Path
  BY <1>2 DEF RequestPhase
<1>3. CASE \E a \in Data : StashHit(a)
  <2>1. /\ pc = "idle" /\ pc' \in { "idle", "free" }
        /\ UNCHANGED << mode, PosMap, plb, req, i_saved, cur, pinFlag, lvl >>
    BY <1>3 DEF StashHit, At, EndOfRequest, requestVars, pathVars
  <2>. QED  BY <2>1, <1>2 DEF RequestPhase, PathPhase
<1>4. ASSUME NEW a \in Data, freecursive_access(a)
      PROVE  RequestPhase' /\ PathPhase'
  <2>1. /\ pc = "idle" /\ pc' = "posmap" /\ req' = a /\ a # NONE
        /\ UNCHANGED << mode, PosMap, plb, cur, pinFlag, lvl >>
    BY <1>4, BlockAssumption DEF freecursive_access, At, pathVars
  <2>. QED  BY <2>1, <1>2 DEF RequestPhase, PathPhase
<1>5. CASE PosmapAccess
  <2>1. PICK x \in Block : x = PosTag[req][i_saved]
    BY <1>5, PosTagType DEF PosmapAccess, At, RequestPhase
  <2>2. /\ pc = "posmap" /\ i_saved >= 1 /\ req # NONE /\ mode # "snapshot"
    BY <1>5 DEF PosmapAccess, At, RequestPhase
  <2>3. PosMap[x] \in Path
    BY <2>2 DEF RequestPhase
  <2>4. read_path(PosMap[x], x, stash) /\ pinFlag' = TRUE
        /\ UNCHANGED << mode, PosMap, plb, req, i_saved >>
    BY <1>5, <2>1 DEF PosmapAccess, requestVars
  <2>. QED  BY <1>1, <1>2, <2>1, <2>2, <2>3, <2>4 DEF RequestPhase, PathPhase
<1>6. CASE PosmapInStash
  <2>1. /\ pc = "posmap" /\ pc' = "fill" /\ i_saved >= 1
        /\ UNCHANGED << mode, PosMap, plb, req, i_saved, cur, pinFlag, lvl >>
    BY <1>6 DEF PosmapInStash, At, requestVars, pathVars
  <2>. QED  BY <2>1, <1>2 DEF RequestPhase, PathPhase
<1>7. CASE oram_access
  <2>1. /\ pc = "posmap" /\ mode # "snapshot" /\ ~pinFlag
    BY <1>7 DEF oram_access, At, RequestPhase, PathPhase
  <2>2. PosMap[req] \in Path
    BY <2>1 DEF RequestPhase, TypeOK, Block
  <2>3. read_path(PosMap[req], req, stash) /\ req' = NONE
        /\ UNCHANGED << mode, PosMap, plb, i_saved, pinFlag >>
    BY <1>7 DEF oram_access
  <2>. QED  BY <1>1, <1>2, <2>1, <2>2, <2>3 DEF RequestPhase, PathPhase
<1>8. ASSUME NEW p \in Path, background_eviction(p)
      PROVE  RequestPhase' /\ PathPhase'
  <2>1. pc \in { "idle", "snapshot" } /\ ~pinFlag /\ req = NONE
    BY <1>8 DEF background_eviction, At, RequestPhase, PathPhase
  <2>2. read_path(p, NONE, stash)
        /\ UNCHANGED << mode, PosMap, plb, req, i_saved, pinFlag >>
    BY <1>8 DEF background_eviction, requestVars
  <2>3. pc' # "snapshot"
    BY <1>1, <2>2
  <2>. QED  BY <1>1, <2>1, <2>2, <2>3 DEF RequestPhase, PathPhase
<1>9. ASSUME NEW b \in Block, NEW p \in Path, oram_init_path(b, p) \/ (p = PosMap[b] /\ take_snapshot(b))
      PROVE  RequestPhase' /\ PathPhase'
  <2>1. pc = "snapshot" /\ ~pinFlag /\ req = NONE /\ mode = "snapshot"
    BY <1>9 DEF oram_init_path, take_snapshot, At, RequestPhase, PathPhase
  <2>2. PICK S : read_path(p, b, S)
    BY <1>9 DEF oram_init_path, take_snapshot
  <2>3. UNCHANGED << mode, plb, req, i_saved, pinFlag >>
    BY <1>9 DEF oram_init_path, take_snapshot, requestVars
  <2>. QED  BY <1>1, <2>1, <2>2, <2>3 DEF RequestPhase, PathPhase
<1>10. ASSUME NEW p \in Path, remap_block(p)
       PROVE  RequestPhase' /\ PathPhase'
  <2>1. /\ pc = "remap" /\ pc' = "write" /\ cur \in Block
        /\ UNCHANGED << mode, plb, req, i_saved, cur, pinFlag, lvl >>
    BY <1>10 DEF remap_block, At, PathPhase, TypeOK, requestVars, pathVars
  <2>2. \A b \in Block : PosMap[b] \in Path => PosMap'[b] \in Path
    BY <1>10 DEF remap_block, TypeOK
  <2>. QED  BY <2>1, <2>2 DEF RequestPhase, PathPhase
<1>11. ASSUME NEW T \in SUBSET STT, NEW W \in SUBSET stash, write_path(T, W)
       PROVE  RequestPhase' /\ PathPhase'
  <2>1. pc = "write" /\ UNCHANGED << mode, PosMap, plb, req, i_saved >>
    BY <1>11 DEF write_path, At, requestVars
  <2>2. CASE LastTurn
    <3>1. /\ pc' \in { "fill", "snapshot", "idle", "free" }
          /\ pc' = "fill" <=> pinFlag
          /\ ~pinFlag => (pc' = "snapshot" <=> mode = "snapshot")
          /\ cur' = NONE /\ pinFlag' = FALSE
      BY <2>2 DEF LastTurn, EndOfPath, EndOfRequest
    <3>2. CASE pinFlag
      <4>1. pc' = "fill" /\ req # NONE /\ i_saved >= 1 /\ mode # "snapshot"
        BY <3>1, <3>2 DEF PathPhase, RequestPhase
      <4>. QED  BY <2>1, <3>1, <4>1 DEF RequestPhase, PathPhase
    <3>3. CASE ~pinFlag
      <4>1. req = NONE
        BY <2>1, <3>3 DEF PathPhase
      <4>. QED  BY <2>1, <3>1, <3>3, <4>1 DEF RequestPhase, PathPhase
    <3>. QED  BY <3>2, <3>3
  <2>3. CASE NextTurn
    <3>1. pc' = "write" /\ cur' = cur /\ pinFlag' = pinFlag /\ lvl' = lvl - 1 /\ lvl # EMPTY_TOP
      BY <2>1, <2>3 DEF NextTurn
    <3>2. lvl' >= EMPTY_TOP
      <4>1. lvl \in Int /\ EMPTY_TOP \in Int /\ lvl >= EMPTY_TOP
        BY <2>1, SizeAssumption DEF TypeOK, Level, PathPhase
      <4>. QED  BY <3>1, <4>1
    <3>. QED  BY <2>1, <3>1, <3>2 DEF RequestPhase, PathPhase
  <2>. QED  BY <1>11, <2>2, <2>3, WriteTurn
<1>12. CASE plb_fill
  <2>1. /\ pc = "fill" /\ pc' = "posmap" /\ mode # "snapshot" /\ req # NONE
        /\ UNCHANGED << mode, PosMap, req, cur, pinFlag, lvl >>
    BY <1>12 DEF plb_fill, At, RequestPhase, pathVars
  <2>. QED  BY <2>1, <1>2 DEF RequestPhase, PathPhase
<1>13. CASE \E F \in SUBSET { s.addr : s \in stash } : free_stash(F)
  <2>1. /\ pc = "free" /\ pc' = "idle"
        /\ UNCHANGED << mode, PosMap, plb, req, i_saved, cur, pinFlag, lvl >>
    BY <1>13 DEF free_stash, At, requestVars, pathVars
  <2>. QED  BY <2>1, <1>2 DEF RequestPhase, PathPhase
<1>14. CASE UNCHANGED vars
  BY <1>14 DEF vars, RequestPhase, PathPhase
<1>15. CASE \E b \in Block : take_snapshot(b)
  <2>1. PICK b \in Block : take_snapshot(b)
    BY <1>15
  <2>2. PosMap[b] \in Path
    BY <2>1 DEF take_snapshot, TypeOK
  <2>. QED  BY <1>9, <2>1, <2>2
<1>. QED
  BY <1>3, <1>4, <1>5, <1>6, <1>7, <1>8, <1>9, <1>10, <1>11, <1>12, <1>13, <1>14, <1>15 DEF Next

-------------------------------------------------------------------------------
(* The path of a block that is in the tree holds it: after the read it is  *)
(* in the stash, and a block that was in the stash or the STT still is.    *)
LEMMA ReadKeeps ==
  ASSUME NEW p, NEW b, NEW S, stash \subseteq S, read_path(p, b, S), STT' = STT, NEW c
  PROVE  stash_contain(c) => stash_contain(c)'
BY DEF read_path, stash_contain, InStash

LEMMA ReadFinds ==
  ASSUME Inv, NEW c \in Block, PosMap[c] \in Path, ~InPlb(c),
         NEW b, NEW S, stash \subseteq S, read_path(PosMap[c], b, S), STT' = STT
  PROVE  stash_contain(c)'
<1>. USE DEF Inv
<1>1. PosMap[c] # -1
  BY NotBlockNotPath
<1>2. InTree(c) \/ stash_contain(c)
  BY <1>1 DEF OnePlace, stash_contain
<1>3. CASE stash_contain(c)
  BY <1>3, ReadKeeps
<1>4. CASE InTree(c)
  <2>1. PICK n \in Node : \E s \in tree[n] : s.addr = c
    BY <1>4 DEF InTree
  <2>2. PICK s \in tree[n] : s.addr = c
    BY <2>1
  <2>3. NodeAt(PosMap[c], n[1]) = n
    BY <2>2 DEF LabelsCurrent
  <2>4. n \in OnPath(PosMap[c])
    BY <2>3, NodeLevel, NodeAtLevel
  <2>5. s \in stash'
    BY <2>2, <2>4 DEF read_path
  <2>. QED  BY <2>2, <2>5 DEF stash_contain, InStash
<1>. QED  BY <1>2, <1>3, <1>4

(* What the next step takes for granted is there.                          *)
LEMMA PinNext == Inv /\ [Next]_vars => Pinned'
<1>. SUFFICES ASSUME Inv, [Next]_vars
              PROVE  Pinned'
  OBVIOUS
<1>. USE DEF Inv
<1>1. ASSUME pc' \notin { "remap", "fill" }, pinFlag' = FALSE
      PROVE  Pinned'
  BY <1>1 DEF Pinned
<1>2. ASSUME pc' \notin { "remap", "write", "fill" }
      PROVE  Pinned'
  <2>1. pinFlag' = FALSE
    BY <1>2, PhaseNext, TypeNext DEF PathPhase, TypeOK
  <2>. QED  BY <1>1, <1>2, <2>1
<1>3. ASSUME NEW c \in Block, NEW p, NEW S, stash_contain(c)', read_path(p, c, S)
      PROVE  Pinned'
  BY <1>3 DEF read_path, Pinned
<1>4. CASE PosmapAccess
  <2>1. /\ pc = "posmap" /\ i_saved >= 1 /\ req # NONE /\ mode # "snapshot"
    BY <1>4 DEF PosmapAccess, At, RequestPhase
  <2>2. PICK x \in Block : x = PosTag[req][i_saved]
    BY <2>1, PosTagType
  <2>3. PosMap[x] \in Path
    BY <2>1 DEF RequestPhase
  <2>4. read_path(PosMap[x], x, stash) /\ STT' = STT
    BY <1>4, <2>2 DEF PosmapAccess
  <2>5. ~InPlb(x)
    <3>1. i_saved \in 1 .. i_saved
      BY <2>1 DEF TypeOK
    <3>. QED  BY <2>1, <2>2, <3>1 DEF ChainOut, InPlb
  <2>. QED  BY <1>3, <2>3, <2>4, <2>5, ReadFinds
<1>5. CASE PosmapInStash
  <2>1. /\ pc = "posmap" /\ pc' = "fill" /\ stash_contain(PosTag[req][i_saved])
        /\ UNCHANGED << stash, STT, req, i_saved, cur, pinFlag >>
    BY <1>5 DEF PosmapInStash, At, requestVars, pathVars
  <2>. QED  BY <2>1 DEF Pinned, PathPhase, stash_contain, InStash
<1>6. CASE oram_access
  <2>1. /\ req \in Data /\ mode # "snapshot" /\ req \in Block /\ req \notin Pos
    BY <1>6, BlockAssumption DEF oram_access, At, RequestPhase, TypeOK, Block
  <2>2. PosMap[req] \in Path
    BY <2>1 DEF RequestPhase
  <2>3. read_path(PosMap[req], req, stash) /\ STT' = STT
    BY <1>6 DEF oram_access
  <2>. QED  BY <1>3, <2>1, <2>2, <2>3, ReadFinds DEF InPlb
<1>7. CASE \E p \in Path : background_eviction(p)
  <2>1. PICK p \in Path : background_eviction(p)
    BY <1>7
  <2>2. ~pinFlag /\ pinFlag' = pinFlag /\ pc' = "write"
    BY <2>1 DEF background_eviction, At, PathPhase, read_path
  <2>. QED  BY <2>2, <1>1 DEF TypeOK
<1>8. ASSUME NEW b \in Block, NEW p \in Path, oram_init_path(b, p)
      PROVE  Pinned'
  <2>1. read_path(p, b, stash \cup {[addr |-> b, label |-> p]})
    BY <1>8 DEF oram_init_path
  <2>2. stash_contain(b)'
    <3>1. [addr |-> b, label |-> p] \in stash'
      BY <2>1 DEF read_path
    <3>2. [addr |-> b, label |-> p].addr = b
      OBVIOUS
    <3>. QED  BY <3>1, <3>2 DEF stash_contain, InStash
  <2>. QED  BY <1>3, <2>1, <2>2
<1>9. ASSUME NEW b \in Block, take_snapshot(b)
      PROVE  Pinned'
  <2>1. /\ mode = "snapshot" /\ PosMap[b] # -1
        /\ read_path(PosMap[b], b, stash) /\ STT' = STT
    BY <1>9 DEF take_snapshot, At, RequestPhase
  <2>2. PosMap[b] \in Path
    BY <2>1 DEF TypeOK
  <2>3. ~InPlb(b)
    <3>1. b # NONE /\ (b \in Pos => PlbIndex[b] \in PlbSets)
      BY NotBlockNotPath, TableAssumption
    <3>. QED  BY <2>1, <3>1 DEF RequestPhase, InPlb, plb_access
  <2>. QED  BY <1>3, <2>1, <2>2, <2>3, ReadFinds
<1>10. ASSUME NEW p \in Path, remap_block(p)
       PROVE  Pinned'
  <2>1. /\ pc = "remap" /\ pc' = "write" /\ stash_contain(cur)
        /\ stash' = IF cur \in STT THEN stash ELSE Relabel(cur, p)
        /\ UNCHANGED << STT, cur, pinFlag >>
    BY <1>10 DEF remap_block, At, Pinned, pathVars
  <2>2. stash_contain(cur)'
    <3>1. CASE cur \in STT
      BY <2>1, <3>1 DEF stash_contain
    <3>2. CASE cur \notin STT
      <4>1. PICK s \in stash : s.addr = cur
        BY <2>1, <3>2 DEF stash_contain, InStash
      <4>2. [addr |-> cur, label |-> p] \in stash'
        BY <2>1, <3>2, <4>1 DEF Relabel
      <4>3. [addr |-> cur, label |-> p].addr = cur
        OBVIOUS
      <4>. QED  BY <2>1, <4>2, <4>3 DEF stash_contain, InStash
    <3>. QED  BY <3>1, <3>2
  <2>. QED  BY <2>1, <2>2 DEF Pinned
<1>11. ASSUME NEW T \in SUBSET STT, NEW W \in SUBSET stash, write_path(T, W)
       PROVE  Pinned'
  <2>1. /\ pc = "write" /\ UNCHANGED << req, i_saved >>
        /\ stash' = stash \ W /\ STT' = STT \ T
        /\ W \subseteq pick_candidate(NodeAt(label, lvl))
        /\ T \subseteq stt_candidate(NodeAt(label, lvl))
    BY <1>11 DEF write_path, At, requestVars, Takes
  <2>2. pinFlag => stash_contain(cur) /\ ~(\E s \in W : s.addr = cur) /\ cur \notin T
    BY <2>1 DEF Pinned, pick_candidate, stt_candidate
  <2>3. pinFlag => cur \in STT' \/ \E s \in stash' : s.addr = cur
    BY <2>1, <2>2 DEF stash_contain, InStash
  <2>4. CASE LastTurn
    <3>1. /\ pinFlag' = FALSE /\ pc' # "remap"
          /\ pc' = "fill" => pinFlag
      BY <2>4 DEF LastTurn, EndOfPath, EndOfRequest
    <3>2. pinFlag => PosTag[req'][i_saved'] = cur
      BY <2>1 DEF PathPhase
    <3>. QED  BY <2>3, <3>1, <3>2 DEF Pinned, stash_contain, InStash
  <2>5. CASE NextTurn
    <3>1. pc' = "write" /\ pinFlag' = pinFlag /\ cur' = cur
      BY <2>1, <2>5 DEF NextTurn
    <3>. QED  BY <2>3, <3>1 DEF Pinned, stash_contain, InStash
  <2>. QED  BY <1>11, <2>4, <2>5, WriteTurn
<1>12. CASE UNCHANGED vars
  BY <1>12 DEF vars, Pinned, stash_contain, InStash
<1>13. CASE (\E a \in Data : StashHit(a)) \/ (\E a \in Data : freecursive_access(a)) \/ plb_fill
             \/ \E F \in SUBSET { s.addr : s \in stash } : free_stash(F)
  <2>1. pc' \in { "idle", "free", "posmap" }
    BY <1>13 DEF StashHit, freecursive_access, plb_fill, free_stash, EndOfRequest
  <2>. QED  BY <1>2, <2>1
<1>. QED
  BY <1>4, <1>5, <1>6, <1>7, <1>8, <1>9, <1>10, <1>11, <1>12, <1>13 DEF Next

-------------------------------------------------------------------------------
(* A step that leaves the PLB alone disturbs nothing said about it; a fill *)
(* puts a block into its own set and one level below those still to fetch. *)
LEMMA ChainNext == Inv /\ [Next]_vars => ChainOut' /\ PlbSound'
<1>. SUFFICES ASSUME Inv, [Next]_vars
              PROVE  ChainOut' /\ PlbSound'
  OBVIOUS
<1>. USE DEF Inv
<1>1. ASSUME plb' = plb, (req' = req /\ i_saved' = i_saved) \/ req' = NONE
      PROVE  ChainOut' /\ PlbSound'
  BY <1>1 DEF ChainOut, PlbSound, plb_access
<1>2. ASSUME NEW a \in Data, freecursive_access(a)
      PROVE  ChainOut' /\ PlbSound'
  <2>1. plb' = plb /\ req' = a /\ PlbSearch(a, i_saved')
    BY <1>2 DEF freecursive_access
  <2>. QED  BY <2>1 DEF ChainOut, PlbSound, plb_access, PlbSearch
<1>3. CASE plb_fill
  <2>1. req # NONE /\ i_saved >= 1 /\ req' = req /\ i_saved' = i_saved - 1
    BY <1>3 DEF plb_fill, At, RequestPhase
  <2>2. PICK tag \in Pos, w \in PlbSets : tag = PosTag[req][i_saved] /\ w = PlbIndex[tag]
    BY <2>1, PosTagType
  <2>3. \A v \in PlbSets : plb'[v] = IF v = w THEN tag ELSE plb[v]
    BY <1>3, <2>2 DEF plb_fill, TypeOK
  <2>4. PlbSound'
    BY <2>2, <2>3 DEF PlbSound
  <2>5. ASSUME NEW i \in 1 .. i_saved'
        PROVE  plb'[PlbIndex[PosTag[req][i]]] # PosTag[req][i]
    <3>1. i \in 1 .. H - 2 /\ i_saved \in 1 .. H - 2 /\ i \in 1 .. i_saved /\ i # i_saved
      BY <2>1, SizeAssumption DEF TypeOK
    <3>2. req \in Data
      BY <2>1 DEF TypeOK
    <3>3. PosTag[req][i] \in Pos /\ PosTag[req][i] # tag
      <4>1. PosTag[req] \in [1 .. H - 2 -> Pos]
        BY <3>2, TableAssumption
      <4>2. PosTag[req][i] = PosTag[req][i_saved] => i = i_saved
        BY <3>1, <3>2, TableAssumption
      <4>. QED  BY <2>2, <3>1, <4>1, <4>2
    <3>4. PlbIndex[PosTag[req][i]] \in PlbSets
      BY <3>3, TableAssumption
    <3>5. plb[PlbIndex[PosTag[req][i]]] # PosTag[req][i]
      BY <2>1, <3>1 DEF ChainOut, plb_access
    <3>. QED  BY <2>3, <3>3, <3>4, <3>5
  <2>6. ChainOut'
    BY <2>1, <2>5 DEF ChainOut, plb_access
  <2>. QED  BY <2>4, <2>6
<1>. QED
  BY <1>1, <1>2, <1>3
     DEF Next, vars, StashHit, PosmapAccess, PosmapInStash, oram_access, background_eviction,
         oram_init_path, take_snapshot, remap_block, write_path, free_stash, requestVars

-------------------------------------------------------------------------------
(* Every slot holds a block and a label of the tree.                       *)
LEMMA SlotParts ==
  ASSUME TypeOK
  PROVE  /\ \A s \in stash : s.addr \in Block /\ s.label \in Path
         /\ \A n \in Node : \A s \in tree[n] : s.addr \in Block /\ s.label \in Path
BY DEF TypeOK, Slot

(* What a turn of write_path does: it fills the empty bucket n of its      *)
(* level and changes no other.                                             *)
Filled(T, W) == W \cup { [addr |-> b, label |-> PosMap[b]] : b \in T }

WritesTo(T, W, n) ==
  /\ n = NodeAt(label, lvl) /\ n[1] = lvl /\ n[1] >= EMPTY_TOP
  /\ pc = "write" /\ Takes(T, W, n)
  /\ tree[n] = {}
  /\ \A m \in Node : tree'[m] = IF m = n THEN Filled(T, W) ELSE tree[m]
  /\ stash' = stash \ W /\ STT' = STT \ T
  /\ PosMap' = PosMap /\ plb' = plb /\ mode' = mode

LEMMA WriteEffect ==
  ASSUME Inv, NEW T \in SUBSET STT, NEW W \in SUBSET stash, write_path(T, W)
  PROVE  \E n \in Node : WritesTo(T, W, n)
<1>. USE DEF Inv
<1>1. pc = "write" /\ label \in Path /\ lvl \in Level
  BY DEF write_path, At, TypeOK
<1>2. PICK n \in Node : n = NodeAt(label, lvl) /\ n[1] = lvl
  BY <1>1, NodeAtLevel
<1>3. n[1] >= EMPTY_TOP /\ tree[n] = {}
  <2>1. lvl \in 0 .. lvl
    BY <1>1 DEF Level
  <2>2. tree[NodeAt(label, lvl)] = {}
    BY <1>1, <2>1 DEF Buckets
  <2>. QED  BY <1>1, <1>2, <2>2 DEF PathPhase
<1>4. /\ Takes(T, W, n)
      /\ tree' = [tree EXCEPT ![n] = Filled(T, W)]
      /\ stash' = stash \ W /\ STT' = STT \ T
      /\ PosMap' = PosMap /\ plb' = plb /\ mode' = mode
  BY <1>2 DEF write_path, requestVars, Filled
<1>5. \A m \in Node : tree'[m] = IF m = n THEN Filled(T, W) ELSE tree[m]
  BY <1>4 DEF TypeOK
<1>. QED  BY <1>1, <1>2, <1>3, <1>4, <1>5 DEF WritesTo

(* A step keeps the label in a slot equal to the block's PosMap entry.     *)
LEMMA LabelsNext == Inv /\ [Next]_vars => LabelsCurrent'
<1>. SUFFICES ASSUME Inv, [Next]_vars
              PROVE  LabelsCurrent'
  OBVIOUS
<1>. USE DEF Inv
<1>1. ASSUME PosMap' = PosMap, tree' = tree, stash' \subseteq stash
      PROVE  LabelsCurrent'
  BY <1>1 DEF LabelsCurrent
<1>2. ASSUME NEW p \in Path, NEW b, NEW S, read_path(p, b, S),
             \A s \in S : s.label = PosMap'[s.addr],
             \A n \in Node : \A s \in tree[n] : PosMap'[s.addr] = PosMap[s.addr]
      PROVE  LabelsCurrent'
  <2>1. \A n \in Node : \A s \in tree[n] :
          s.label = PosMap'[s.addr] /\ NodeAt(s.label, n[1]) = n
    BY <1>2 DEF LabelsCurrent
  <2>2. \A n \in Node : tree'[n] \subseteq tree[n]
    BY <1>2 DEF read_path
  <2>3. \A s \in stash' : s \in S \/ \E n \in Node : s \in tree[n]
    BY <1>2, OnPathLevel DEF read_path
  <2>4. \A s \in stash' : s.label = PosMap'[s.addr]
    BY <1>2, <2>1, <2>3
  <2>. QED  BY <2>1, <2>2, <2>4 DEF LabelsCurrent
<1>3. ASSUME NEW p \in Path, NEW b, read_path(p, b, stash), PosMap' = PosMap
      PROVE  LabelsCurrent'
  BY <1>2, <1>3 DEF LabelsCurrent
<1>4. CASE PosmapAccess
  <2>1. /\ pc = "posmap" /\ i_saved >= 1 /\ req # NONE /\ mode # "snapshot"
    BY <1>4 DEF PosmapAccess, At, RequestPhase
  <2>2. PICK x \in Block : x = PosTag[req][i_saved]
    BY <2>1, PosTagType
  <2>. QED  BY <1>3, <1>4, <2>1, <2>2 DEF PosmapAccess, RequestPhase
<1>5. CASE oram_access
  <2>1. req \in Block /\ mode # "snapshot"
    BY <1>5 DEF oram_access, At, RequestPhase, TypeOK, Block
  <2>. QED  BY <1>3, <1>5, <2>1 DEF oram_access, RequestPhase
<1>6. CASE \E p \in Path : background_eviction(p)
  BY <1>3, <1>6 DEF background_eviction
<1>7. CASE \E b \in Block : take_snapshot(b)
  BY <1>3, <1>7 DEF take_snapshot, TypeOK
<1>8. ASSUME NEW b \in Block, NEW p \in Path, oram_init_path(b, p)
      PROVE  LabelsCurrent'
  <2>1. /\ PosMap[b] = -1 /\ \A c \in Block : PosMap'[c] = IF c = b THEN p ELSE PosMap[c]
        /\ read_path(p, b, stash \cup {[addr |-> b, label |-> p]})
    BY <1>8 DEF oram_init_path, TypeOK
  <2>2. /\ \A s \in stash : s.addr # b /\ s.addr \in Block
        /\ \A n \in Node : \A s \in tree[n] : s.addr # b /\ s.addr \in Block
    BY <2>1, SlotParts, NotBlockNotPath DEF LabelsCurrent
  <2>3. \A s \in stash \cup {[addr |-> b, label |-> p]} : s.label = PosMap'[s.addr]
    BY <2>1, <2>2 DEF LabelsCurrent
  <2>. QED  BY <1>2, <2>1, <2>2, <2>3
<1>9. ASSUME NEW p \in Path, remap_block(p)
      PROVE  LabelsCurrent'
  <2>1. /\ pc = "remap" /\ cur \in Block /\ stash_contain(cur)
    BY <1>9 DEF remap_block, At, PathPhase, TypeOK, Pinned
  <2>2. /\ tree' = tree /\ \A c \in Block : PosMap'[c] = IF c = cur THEN p ELSE PosMap[c]
        /\ stash' = IF cur \in STT THEN stash ELSE Relabel(cur, p)
    BY <1>9, <2>1 DEF remap_block, TypeOK
  <2>3. \A n \in Node : \A s \in tree[n] : s.addr # cur /\ s.addr \in Block
    BY <2>1, SlotParts DEF OnePlace, stash_contain, InTree
  <2>4. \A s \in stash' : s.label = PosMap'[s.addr]
    <3>1. CASE cur \in STT
      <4>1. \A s \in stash : s.addr # cur /\ s.addr \in Block
        BY <2>1, <3>1, SlotParts DEF OnePlace, InStash
      <4>. QED  BY <2>2, <3>1, <4>1 DEF LabelsCurrent
    <3>2. CASE cur \notin STT
      <4>1. ASSUME NEW s \in stash
            PROVE  LET t == IF s.addr = cur THEN [addr |-> cur, label |-> p] ELSE s
                   IN  t.label = PosMap'[t.addr]
        BY <2>1, <2>2, SlotParts DEF LabelsCurrent
      <4>. QED  BY <2>2, <3>2, <4>1 DEF Relabel
    <3>. QED  BY <3>1, <3>2
  <2>. QED  BY <2>2, <2>3, <2>4 DEF LabelsCurrent
<1>10. ASSUME NEW T \in SUBSET STT, NEW W \in SUBSET stash, write_path(T, W)
       PROVE  LabelsCurrent'
  <2>1. PICK n \in Node : WritesTo(T, W, n)
    BY <1>10, WriteEffect
  <2>2. \A s \in W : s.label = PosMap[s.addr] /\ NodeAt(s.label, n[1]) = n
    BY <2>1 DEF WritesTo, Takes, pick_candidate, LabelsCurrent
  <2>3. \A b \in T : NodeAt(PosMap[b], n[1]) = n
    BY <2>1 DEF WritesTo, Takes, stt_candidate
  <2>4. ASSUME NEW s \in Filled(T, W)
        PROVE  s.label = PosMap[s.addr] /\ NodeAt(s.label, n[1]) = n
    BY <2>2, <2>3 DEF Filled
  <2>5. ASSUME NEW m \in Node, NEW s \in tree'[m]
        PROVE  s.label = PosMap'[s.addr] /\ NodeAt(s.label, m[1]) = m
    <3>1. PosMap' = PosMap /\ tree'[m] = IF m = n THEN Filled(T, W) ELSE tree[m]
      BY <2>1 DEF WritesTo
    <3>. QED  BY <2>4, <3>1 DEF LabelsCurrent
  <2>6. \A s \in stash' : s.label = PosMap'[s.addr]
    BY <2>1 DEF WritesTo, LabelsCurrent
  <2>. QED  BY <2>5, <2>6 DEF LabelsCurrent
<1>11. CASE plb_fill
  <2>1. PICK tag : tag = PosTag[req][i_saved]
    OBVIOUS
  <2>2. tree' = tree /\ PosMap' = PosMap /\ stash' \subseteq stash \cup Victim(tag)
    BY <1>11, <2>1 DEF plb_fill, remove_from_stash
  <2>3. \A s \in Victim(tag) : s.label = PosMap[s.addr]
    <3>1. \A s \in Victim(tag) :
            s = [addr |-> plb[PlbIndex[tag]], label |-> PosMap[plb[PlbIndex[tag]]]]
      BY DEF Victim
    <3>. QED  BY <3>1
  <2>. QED  BY <2>2, <2>3 DEF LabelsCurrent
<1>12. CASE \E F \in SUBSET { s.addr : s \in stash } : free_stash(F)
  BY <1>1, <1>12 DEF free_stash
<1>13. CASE PosmapInStash \/ (\E a \in Data : StashHit(a)) \/ (\E a \in Data : freecursive_access(a))
            \/ UNCHANGED vars
  <2>1. PosMap' = PosMap /\ tree' = tree /\ stash' = stash
    BY <1>13 DEF PosmapInStash, StashHit, freecursive_access, vars
  <2>. QED  BY <1>1, <2>1
<1>. QED
  BY <1>4, <1>5, <1>6, <1>7, <1>8, <1>9, <1>10, <1>11, <1>12, <1>13 DEF Next

-------------------------------------------------------------------------------
(* A block of a set of slots. *)
Among(S, c) == \E s \in S : s.addr = c

(* The read of a path moves its blocks to the stash; a slot that the       *)
(* caller has added beforehand holds a block that was nowhere.             *)
LEMMA PlaceRead ==
  ASSUME Inv, NEW p \in Path, NEW b, NEW S \in SUBSET Slot, read_path(p, b, S),
         STT' = STT, plb' = plb, stash \subseteq S,
         \A c \in Block : Among(S, c) => InStash(c) \/ PosMap[c] = -1,
         \A s, t \in S : s.addr = t.addr => s = t,
         \A c \in Block : PosMap'[c] # -1 <=> PosMap[c] # -1 \/ Among(S, c)
  PROVE  OnePlace'
<1>. USE DEF Inv
<1>. DEFINE path   == OnPath(p)
            pulled == UNION { tree[n] : n \in path }
<1>1. /\ \A n \in Node : tree'[n] = IF n \in path THEN {} ELSE tree[n]
      /\ stash' = S \cup pulled
  BY DEF read_path
<1>2. /\ \A n \in path : n \in Node
      /\ \A s \in pulled : \E n \in Node : n \in path /\ s \in tree[n]
      /\ \A n \in Node : \A s \in tree[n] : n \in path => s \in pulled
  BY OnPathLevel
<1>. HIDE DEF path, pulled
<1>3. ASSUME NEW c \in Block
      PROVE  /\ InStash(c)' <=> Among(S, c) \/ Among(pulled, c)
             /\ InTree(c) <=> InTree(c)' \/ Among(pulled, c)
             /\ ~(InTree(c)' /\ Among(pulled, c))
             /\ InPlb(c)' <=> InPlb(c)
             /\ InStash(c) => Among(S, c)
  <2>1. InStash(c)' <=> Among(S, c) \/ Among(pulled, c)
    BY <1>1 DEF InStash, Among
  <2>2. InTree(c)' <=> \E n \in Node : n \notin path /\ \E s \in tree[n] : s.addr = c
    BY <1>1 DEF InTree
  <2>3. Among(pulled, c) <=> \E n \in Node : n \in path /\ \E s \in tree[n] : s.addr = c
    BY <1>2 DEF Among
  <2>4. InTree(c) <=> InTree(c)' \/ Among(pulled, c)
    BY <2>2, <2>3 DEF InTree
  <2>5. ~(InTree(c)' /\ Among(pulled, c))
    BY <2>2, <2>3 DEF OnePlace
  <2>6. (InPlb(c)' <=> InPlb(c)) /\ (InStash(c) => Among(S, c))
    BY DEF InPlb, plb_access, InStash, Among
  <2>. QED  BY <2>1, <2>4, <2>5, <2>6
<1>4. ASSUME NEW c \in Block
      PROVE  Among(S, c) => ~InTree(c) /\ c \notin STT /\ ~InPlb(c)
  BY DEF OnePlace
<1>5. ASSUME NEW c \in Block
      PROVE  /\ PosMap'[c] # -1 <=> InTree(c)' \/ InStash(c)' \/ c \in STT' \/ InPlb(c)'
             /\ InTree(c)' => ~InStash(c)' /\ c \notin STT' /\ ~InPlb(c)'
             /\ InStash(c)' => c \notin STT' /\ ~InPlb(c)'
             /\ c \in STT' => ~InPlb(c)'
  BY <1>3, <1>4 DEF OnePlace
<1>6. \A n, m \in Node : \A s \in tree'[n], t \in tree'[m] : s.addr = t.addr => n = m /\ s = t
  BY <1>1 DEF OnePlace
<1>7. ASSUME NEW s \in stash', NEW t \in stash', s.addr = t.addr
      PROVE  s = t
  <2>1. ASSUME NEW x \in S, NEW y \in pulled
        PROVE  x.addr # y.addr
    <3>1. x.addr \in Block /\ Among(S, x.addr)
      BY DEF Slot, Among
    <3>. QED  BY <3>1, <1>2, <1>4 DEF InTree
  <2>2. ASSUME NEW x \in pulled, NEW y \in pulled, x.addr = y.addr
        PROVE  x = y
    BY <1>2, <2>2 DEF OnePlace
  <2>. QED  BY <1>1, <1>7, <2>1, <2>2
<1>. QED  BY <1>5, <1>6, <1>7 DEF OnePlace

(* The same when the caller has added no slot. *)
LEMMA PlaceReadPath ==
  ASSUME Inv, NEW p \in Path, NEW b, read_path(p, b, stash), UNCHANGED << PosMap, STT, plb >>
  PROVE  OnePlace'
<1>1. stash \in SUBSET Slot /\ stash \subseteq stash
  BY DEF Inv, TypeOK
<1>2. \A c \in Block : Among(stash, c) => InStash(c) \/ PosMap[c] = -1
  BY DEF Among, InStash
<1>3. \A s, t \in stash : s.addr = t.addr => s = t
  BY DEF Inv, OnePlace
<1>4. \A c \in Block : PosMap'[c] # -1 <=> PosMap[c] # -1 \/ Among(stash, c)
  BY DEF Inv, OnePlace, Among, InStash
<1>. QED  BY <1>1, <1>2, <1>3, <1>4, PlaceRead

(* remap_block moves nothing. *)
LEMMA PlaceRemap ==
  ASSUME Inv, NEW p \in Path, remap_block(p)
  PROVE  OnePlace'
<1>. USE DEF Inv
<1>1. /\ tree' = tree /\ STT' = STT /\ plb' = plb
      /\ stash' = IF cur \in STT THEN stash ELSE Relabel(cur, p)
      /\ pc = "remap" /\ cur \in Block
  BY DEF remap_block, At, PathPhase, TypeOK, requestVars
<1>2. \A c \in Block : PosMap'[c] = IF c = cur THEN p ELSE PosMap[c]
  BY <1>1 DEF remap_block, TypeOK
<1>3. PosMap[cur] # -1 /\ p # -1
  BY <1>1, NotBlockNotPath DEF Pinned, OnePlace, stash_contain
<1>4. \A c \in Block : PosMap'[c] # -1 <=> PosMap[c] # -1
  BY <1>2, <1>3
<1>. DEFINE new(s) == IF s.addr = cur THEN [addr |-> cur, label |-> p] ELSE s
<1>5. \A s : new(s).addr = s.addr
  OBVIOUS
<1>6. stash' = stash \/ stash' = { new(s) : s \in stash }
  BY <1>1 DEF Relabel
<1>7. \A c : (\E s \in stash' : s.addr = c) <=> (\E s \in stash : s.addr = c)
  <2>. HIDE DEF new
  <2>. QED  BY <1>5, <1>6
<1>8. ASSUME NEW s \in stash', NEW t \in stash', s.addr = t.addr
      PROVE  s = t
  <2>1. CASE stash' = stash
    BY <1>8, <2>1 DEF OnePlace
  <2>2. CASE stash' = { new(s1) : s1 \in stash }
    <3>1. PICK x \in stash, y \in stash : s = new(x) /\ t = new(y)
      BY <2>2
    <3>2. x.addr = y.addr
      <4>. HIDE DEF new
      <4>. QED  BY <1>5, <1>8, <3>1
    <3>. QED  BY <3>1, <3>2 DEF OnePlace
  <2>. QED  BY <1>6, <2>1, <2>2
<1>9. \A c : (InTree(c)' <=> InTree(c)) /\ (InStash(c)' <=> InStash(c)) /\ (InPlb(c)' <=> InPlb(c))
  BY <1>1, <1>7 DEF InTree, InStash, InPlb, plb_access
<1>. QED  BY <1>1, <1>4, <1>8, <1>9 DEF OnePlace

(* One turn of write_path moves W and T to the empty bucket n.             *)
LEMMA PlaceWrite ==
  ASSUME Inv, NEW T \in SUBSET STT, NEW W \in SUBSET stash, NEW n \in Node, WritesTo(T, W, n)
  PROVE  OnePlace'
<1>. USE DEF Inv
<1>1. /\ tree[n] = {}
      /\ \A m \in Node : tree'[m] = IF m = n THEN Filled(T, W) ELSE tree[m]
      /\ stash' = stash \ W /\ STT' = STT \ T /\ PosMap' = PosMap /\ plb' = plb
  BY DEF WritesTo
<1>2. \A c : Among(Filled(T, W), c) <=> Among(W, c) \/ c \in T
  <2>1. \A b \in T : [addr |-> b, label |-> PosMap[b]].addr = b
    OBVIOUS
  <2>. QED  BY <2>1 DEF Among, Filled
<1>3. ASSUME NEW c \in Block
      PROVE  /\ InTree(c)' <=> InTree(c) \/ Among(W, c) \/ c \in T
             /\ InStash(c)' <=> InStash(c) /\ ~Among(W, c)
             /\ Among(W, c) => InStash(c)
             /\ c \in STT' <=> c \in STT /\ c \notin T
             /\ InPlb(c)' <=> InPlb(c)
  <2>1. InTree(c)' <=> InTree(c) \/ Among(W, c) \/ c \in T
    BY <1>1, <1>2 DEF InTree, Among
  <2>2. InStash(c)' <=> InStash(c) /\ ~Among(W, c)
    BY <1>1 DEF InStash, Among, OnePlace
  <2>. QED  BY <1>1, <2>1, <2>2 DEF InStash, Among, InPlb, plb_access
<1>4. ASSUME NEW c \in Block
      PROVE  /\ PosMap'[c] # -1 <=> InTree(c)' \/ InStash(c)' \/ c \in STT' \/ InPlb(c)'
             /\ InTree(c)' => ~InStash(c)' /\ c \notin STT' /\ ~InPlb(c)'
             /\ InStash(c)' => c \notin STT' /\ ~InPlb(c)'
             /\ c \in STT' => ~InPlb(c)'
  BY <1>1, <1>3 DEF OnePlace
<1>5. ASSUME NEW s \in Filled(T, W), NEW t \in Filled(T, W), s.addr = t.addr
      PROVE  s = t
  <2>1. \A x \in W, y \in W : x.addr = y.addr => x = y
    BY DEF OnePlace
  <2>2. \A x \in W, y \in T : x.addr # y
    BY SlotParts DEF OnePlace, InStash
  <2>. QED  BY <1>5, <2>1, <2>2 DEF Filled
<1>6. ASSUME NEW s \in Filled(T, W), NEW m \in Node, NEW t \in tree[m]
      PROVE  s.addr # t.addr
  <2>1. Among(W, s.addr) \/ s.addr \in T
    BY <1>2 DEF Among
  <2>2. s.addr \in Block /\ (InStash(s.addr) \/ s.addr \in STT)
    BY <2>1, SlotParts DEF Among, InStash, TypeOK
  <2>. QED  BY <2>2 DEF OnePlace, InTree
<1>7. \A m, k \in Node : \A s \in tree'[m], t \in tree'[k] : s.addr = t.addr => m = k /\ s = t
  BY <1>1, <1>5, <1>6 DEF OnePlace
<1>8. \A s, t \in stash' : s.addr = t.addr => s = t
  BY <1>1 DEF OnePlace
<1>. QED  BY <1>4, <1>7, <1>8 DEF OnePlace

(* free_stash moves the blocks F from the stash to the STT.                *)
LEMMA PlaceFree ==
  ASSUME Inv, NEW F \in SUBSET { s.addr : s \in stash }, free_stash(F)
  PROVE  OnePlace'
<1>. USE DEF Inv
<1>1. /\ tree' = tree /\ PosMap' = PosMap /\ plb' = plb
      /\ STT' = STT \cup F /\ stash' = { s \in stash : s.addr \notin F }
  BY DEF free_stash, requestVars
<1>2. ASSUME NEW c \in Block
      PROVE  /\ InTree(c)' <=> InTree(c)
             /\ InStash(c)' <=> InStash(c) /\ c \notin F
             /\ c \in F => InStash(c)
             /\ InPlb(c)' <=> InPlb(c)
  BY <1>1 DEF InTree, InStash, InPlb, plb_access
<1>3. \A c \in Block :
        /\ PosMap'[c] # -1 <=> InTree(c)' \/ InStash(c)' \/ c \in STT' \/ InPlb(c)'
        /\ InTree(c)' => ~InStash(c)' /\ c \notin STT' /\ ~InPlb(c)'
        /\ InStash(c)' => c \notin STT' /\ ~InPlb(c)'
        /\ c \in STT' => ~InPlb(c)'
  BY <1>1, <1>2 DEF OnePlace
<1>4. \A m, k \in Node : \A s \in tree'[m], t \in tree'[k] : s.addr = t.addr => m = k /\ s = t
  BY <1>1 DEF OnePlace
<1>5. \A s, t \in stash' : s.addr = t.addr => s = t
  BY <1>1 DEF OnePlace
<1>. QED  BY <1>3, <1>4, <1>5 DEF OnePlace

(* What plb_fill finds: the fetched block, which the PLB does not hold, in *)
(* the stash or the STT, and the block that has its line nowhere else.     *)
LEMMA FillFinds ==
  ASSUME Inv, plb_fill
  PROVE  \E tag \in Pos, w \in PlbSets :
           /\ tag = PosTag[req][i_saved] /\ w = PlbIndex[tag]
           /\ tag \in Block /\ stash_contain(tag) /\ ~InPlb(tag) /\ ~InTree(tag)
           /\ plb[w] # NONE => /\ plb[w] \in Pos /\ plb[w] \in Block /\ plb[w] # tag
                               /\ PosMap[plb[w]] \in Path
                               /\ PlbIndex[plb[w]] = w /\ InPlb(plb[w])
                               /\ ~stash_contain(plb[w]) /\ ~InTree(plb[w])
<1>. USE DEF Inv
<1>1. pc = "fill" /\ req # NONE /\ i_saved >= 1
  BY DEF plb_fill, At, RequestPhase
<1>2. PICK tag \in Pos, w \in PlbSets : tag = PosTag[req][i_saved] /\ w = PlbIndex[tag]
  BY <1>1, PosTagType
<1>3. ~plb_access(tag)
  <2>1. i_saved \in 1 .. i_saved
    BY <1>1 DEF TypeOK
  <2>. QED  BY <1>1, <1>2, <2>1 DEF ChainOut
<1>4. tag \in Block /\ stash_contain(tag) /\ ~InPlb(tag)
  BY <1>1, <1>2, <1>3 DEF Pinned, InPlb, Block
<1>5. ~InTree(tag)
  BY <1>4 DEF OnePlace, stash_contain
<1>6. ASSUME plb[w] # NONE
      PROVE  /\ plb[w] \in Pos /\ plb[w] \in Block /\ plb[w] # tag
             /\ PosMap[plb[w]] \in Path
             /\ PlbIndex[plb[w]] = w /\ InPlb(plb[w])
             /\ ~stash_contain(plb[w]) /\ ~InTree(plb[w])
  <2>1. plb[w] \in Pos /\ PlbIndex[plb[w]] = w
    BY <1>6 DEF TypeOK, PlbSound
  <2>2. plb[w] \in Block /\ InPlb(plb[w])
    BY <2>1 DEF InPlb, plb_access, Block
  <2>3. plb[w] # tag
    BY <1>4, <2>2
  <2>4. ~stash_contain(plb[w]) /\ ~InTree(plb[w]) /\ PosMap[plb[w]] # -1
    BY <2>2 DEF OnePlace, stash_contain
  <2>5. PosMap[plb[w]] \in Path
    BY <2>2, <2>4 DEF TypeOK
  <2>. QED  BY <2>1, <2>2, <2>3, <2>4, <2>5
<1>. QED  BY <1>2, <1>4, <1>5, <1>6

(* plb_fill trades the fetched block for the one that had its PLB line.    *)
LEMMA PlaceFill ==
  ASSUME Inv, plb_fill
  PROVE  OnePlace'
<1>. USE DEF Inv
<1>1. PICK tag \in Pos, w \in PlbSets :
           /\ tag = PosTag[req][i_saved] /\ w = PlbIndex[tag]
           /\ tag \in Block /\ stash_contain(tag) /\ ~InPlb(tag) /\ ~InTree(tag)
           /\ plb[w] # NONE => /\ plb[w] \in Pos /\ plb[w] \in Block /\ plb[w] # tag
                               /\ PosMap[plb[w]] \in Path
                               /\ PlbIndex[plb[w]] = w /\ InPlb(plb[w])
                               /\ ~stash_contain(plb[w]) /\ ~InTree(plb[w])
  BY FillFinds
<1>. DEFINE v == plb[w]
            back == Victim(tag)
            Back(c) == v # NONE /\ c = v
<1>2. /\ tree' = tree /\ PosMap' = PosMap /\ STT' = STT \ {tag}
      /\ stash' = IF tag \in STT THEN stash \cup back
                  ELSE { s \in stash \cup back : s.addr # tag }
      /\ \A x \in PlbSets : plb'[x] = IF x = w THEN tag ELSE plb[x]
  BY <1>1 DEF plb_fill, remove_from_stash, TypeOK
<1>3. \A c \in Block : (\E s \in back : s.addr = c) <=> Back(c)
  <2>1. back = IF v = NONE THEN {} ELSE { [addr |-> v, label |-> PosMap[v]] }
    BY <1>1 DEF Victim
  <2>2. [addr |-> v, label |-> PosMap[v]].addr = v
    OBVIOUS
  <2>. HIDE DEF v, back
  <2>. QED  BY <2>1, <2>2
<1>4. \A s, t \in back : s = t
  BY <1>1 DEF Victim
<1>5. \A s \in back : s.addr \in Block /\ \A t \in stash : s.addr # t.addr
  <2>1. \A s \in back : v # NONE /\ s.addr = v
    BY <1>1 DEF Victim
  <2>. QED  BY <1>1, <2>1 DEF stash_contain, InStash
<1>. HIDE DEF back, v
<1>6. ASSUME NEW c \in Block
      PROVE  /\ InTree(c)' <=> InTree(c)
             /\ InStash(c)' <=> (InStash(c) \/ Back(c)) /\ c # tag
             /\ c \in STT' <=> c \in STT /\ c # tag
             /\ InPlb(c)' <=> (InPlb(c) /\ ~Back(c)) \/ c = tag
  <2>1. InTree(c)' <=> InTree(c)
    BY <1>2 DEF InTree
  <2>2. InStash(c)' <=> (InStash(c) \/ Back(c)) /\ c # tag
    <3>1. CASE tag \in STT
      <4>1. ~InStash(tag) /\ ~Back(tag)
        BY <1>1, <3>1 DEF OnePlace, v
      <4>. QED  BY <1>2, <1>3, <3>1, <4>1 DEF InStash
    <3>2. CASE tag \notin STT
      BY <1>2, <1>3, <3>2 DEF InStash
    <3>. QED  BY <3>1, <3>2
  <2>3. InPlb(c)' <=> (InPlb(c) /\ ~Back(c)) \/ c = tag
    <3>1. c # NONE /\ (c \in Pos => PlbIndex[c] \in PlbSets)
      BY NotBlockNotPath, TableAssumption
    <3>2. InPlb(c)' <=> c \in Pos /\ plb'[PlbIndex[c]] = c
      BY DEF InPlb, plb_access
    <3>3. InPlb(c) <=> c \in Pos /\ plb[PlbIndex[c]] = c
      BY DEF InPlb, plb_access
    <3>4. CASE c = tag
      BY <1>1, <1>2, <3>2, <3>4
    <3>5. CASE c # tag
      <4>1. InPlb(c)' <=> c \in Pos /\ PlbIndex[c] # w /\ plb[PlbIndex[c]] = c
        BY <1>2, <3>1, <3>2, <3>5
      <4>2. Back(c) => PlbIndex[c] = w
        BY <1>1 DEF v
      <4>3. InPlb(c) /\ PlbIndex[c] = w => Back(c)
        BY <3>1, <3>3 DEF v
      <4>. QED  BY <3>3, <3>5, <4>1, <4>2, <4>3
    <3>. QED  BY <3>4, <3>5
  <2>. QED  BY <1>2, <2>1, <2>2, <2>3
<1>7. \A c \in Block : Back(c) => InPlb(c) /\ ~InTree(c) /\ ~InStash(c) /\ c \notin STT /\ c # tag
  BY <1>1 DEF stash_contain, v
<1>8. ASSUME NEW c \in Block
      PROVE  /\ PosMap'[c] # -1 <=> InTree(c)' \/ InStash(c)' \/ c \in STT' \/ InPlb(c)'
             /\ InTree(c)' => ~InStash(c)' /\ c \notin STT' /\ ~InPlb(c)'
             /\ InStash(c)' => c \notin STT' /\ ~InPlb(c)'
             /\ c \in STT' => ~InPlb(c)'
  BY <1>1, <1>2, <1>6, <1>7 DEF OnePlace, stash_contain
<1>9. \A m, k \in Node : \A s \in tree'[m], t \in tree'[k] : s.addr = t.addr => m = k /\ s = t
  BY <1>2 DEF OnePlace
<1>10. \A s, t \in stash' : s.addr = t.addr => s = t
  BY <1>2, <1>4, <1>5 DEF OnePlace
<1>. QED  BY <1>8, <1>9, <1>10 DEF OnePlace

(* A step leaves every block in exactly one place.                         *)
LEMMA PlaceNext == Inv /\ [Next]_vars => OnePlace'
<1>. SUFFICES ASSUME Inv, [Next]_vars
              PROVE  OnePlace'
  OBVIOUS
<1>. USE DEF Inv
<1>1. ASSUME UNCHANGED << PosMap, tree, stash, STT, plb >>
      PROVE  OnePlace'
  BY <1>1 DEF OnePlace, InTree, InStash, InPlb, plb_access
<1>2. CASE PosmapAccess
  <2>1. /\ pc = "posmap" /\ i_saved >= 1 /\ req # NONE /\ mode # "snapshot"
    BY <1>2 DEF PosmapAccess, At, RequestPhase
  <2>2. PICK x \in Block : x = PosTag[req][i_saved]
    BY <2>1, PosTagType
  <2>3. PosMap[x] \in Path
    BY <2>1 DEF RequestPhase
  <2>. QED  BY <1>2, <2>2, <2>3, PlaceReadPath DEF PosmapAccess, requestVars
<1>3. CASE oram_access
  <2>1. req \in Block /\ mode # "snapshot"
    BY <1>3 DEF oram_access, At, RequestPhase, TypeOK, Block
  <2>2. PosMap[req] \in Path
    BY <2>1 DEF RequestPhase
  <2>. QED  BY <1>3, <2>2, PlaceReadPath DEF oram_access
<1>4. CASE \E p \in Path : background_eviction(p)
  BY <1>4, PlaceReadPath DEF background_eviction, requestVars
<1>5. ASSUME NEW b \in Block, take_snapshot(b)
      PROVE  OnePlace'
  <2>1. PosMap[b] \in Path
    BY <1>5 DEF take_snapshot, TypeOK
  <2>. QED  BY <1>5, <2>1, PlaceReadPath DEF take_snapshot, requestVars
<1>6. ASSUME NEW b \in Block, NEW p \in Path, oram_init_path(b, p)
      PROVE  OnePlace'
  <2>. DEFINE slot == [addr |-> b, label |-> p]
              S == stash \cup {slot}
  <2>1. slot \in Slot /\ slot.addr = b
    BY DEF Slot
  <2>2. /\ PosMap[b] = -1 /\ \A c \in Block : PosMap'[c] = IF c = b THEN p ELSE PosMap[c]
        /\ read_path(p, b, S) /\ STT' = STT /\ plb' = plb
    BY <1>6 DEF oram_init_path, TypeOK, requestVars
  <2>. HIDE DEF slot
  <2>3. S \in SUBSET Slot /\ stash \subseteq S
    BY <2>1 DEF TypeOK
  <2>4. \A c : Among(S, c) <=> InStash(c) \/ c = b
    BY <2>1 DEF Among, InStash
  <2>5. \A c \in Block : Among(S, c) => InStash(c) \/ PosMap[c] = -1
    BY <2>2, <2>4
  <2>6. \A s, t \in S : s.addr = t.addr => s = t
    <3>1. \A s \in stash : s.addr # b
      BY <2>2 DEF OnePlace, InStash
    <3>. QED  BY <2>1, <3>1 DEF OnePlace
  <2>7. \A c \in Block : PosMap'[c] # -1 <=> PosMap[c] # -1 \/ Among(S, c)
    BY <2>2, <2>4, NotBlockNotPath DEF OnePlace
  <2>. HIDE DEF S
  <2>. QED  BY <2>2, <2>3, <2>5, <2>6, <2>7, PlaceRead
<1>7. CASE \E p \in Path : remap_block(p)
  BY <1>7, PlaceRemap
<1>8. CASE \E T \in SUBSET STT, W \in SUBSET stash : write_path(T, W)
  BY <1>8, WriteEffect, PlaceWrite
<1>9. CASE plb_fill
  BY <1>9, PlaceFill
<1>10. CASE \E F \in SUBSET { s.addr : s \in stash } : free_stash(F)
  BY <1>10, PlaceFree
<1>11. CASE PosmapInStash \/ (\E a \in Data : StashHit(a)) \/ (\E a \in Data : freecursive_access(a))
            \/ UNCHANGED vars
  <2>1. UNCHANGED << PosMap, tree, stash, STT, plb >>
    BY <1>11 DEF PosmapInStash, StashHit, freecursive_access, vars, requestVars
  <2>. QED  BY <1>1, <2>1
<1>. QED
  BY <1>2, <1>3, <1>4, <1>5, <1>6, <1>7, <1>8, <1>9, <1>10, <1>11 DEF Next

-------------------------------------------------------------------------------
(* What one bucket takes: at most Z blocks, and fewer only if it takes as  *)
(* many as the stash has candidates for it.                                *)
LEMMA TakesCount ==
  ASSUME TypeOK, NEW T \in SUBSET STT, NEW W \in SUBSET stash, NEW n, Takes(T, W, n)
  PROVE  /\ Cardinality(T) \in Nat /\ Cardinality(W) \in Nat /\ Cardinality(pick_candidate(n)) \in Nat
         /\ Cardinality(T) + Cardinality(W) <= Z
         /\ \/ Cardinality(T) + Cardinality(W) = Z
            \/ Cardinality(T) + Cardinality(W) >= Cardinality(pick_candidate(n))
<1>1. PICK C : C = pick_candidate(n)
  OBVIOUS
<1>2. PICK D : D = stt_candidate(n)
  OBVIOUS
<1>3. W \in SUBSET Slot /\ C \in SUBSET Slot /\ T \in SUBSET Block /\ D \in SUBSET Block
  BY <1>1, <1>2 DEF TypeOK, pick_candidate, stt_candidate
<1>4. /\ Cardinality(T) \in Nat /\ Cardinality(W) \in Nat
      /\ Cardinality(C) \in Nat /\ Cardinality(D) \in Nat /\ Z \in Nat
  BY <1>3, SlotsFinite, BlocksFinite, SizeAssumption
<1>5. PICK k \in Nat : k = AtMost(Z, C) /\ k <= Z /\ (k = Z \/ k = Cardinality(C))
  BY <1>4 DEF AtMost
<1>6. Cardinality(T) <= Z
  BY <1>2, <1>4 DEF Takes, AtMost
<1>7. Cardinality(W) = IF Cardinality(T) < k THEN k - Cardinality(T) ELSE 0
  BY <1>1, <1>5 DEF Takes
<1>. QED  BY <1>1, <1>4, <1>5, <1>6, <1>7

(* A bucket that takes T and W holds at most so many slots.                *)
LEMMA FilledCount ==
  ASSUME Inv, NEW T \in SUBSET STT, NEW W \in SUBSET stash
  PROVE  /\ Cardinality(Filled(T, W)) \in Nat
         /\ Cardinality(Filled(T, W)) <= Cardinality(T) + Cardinality(W)
<1>. USE DEF Inv
<1>. DEFINE R == { [addr |-> b, label |-> PosMap[b]] : b \in T }
            f == [b \in T |-> [addr |-> b, label |-> PosMap[b]]]
<1>1. f \in Surjection(T, R)
  BY DEF Surjection
<1>2. IsFiniteSet(T) /\ Cardinality(T) \in Nat
  BY BlocksFinite DEF TypeOK
<1>3. IsFiniteSet(W) /\ Cardinality(W) \in Nat
  BY SlotsFinite DEF TypeOK
<1>. HIDE DEF f, R
<1>4. IsFiniteSet(R) /\ Cardinality(R) <= Cardinality(T)
  BY <1>1, <1>2, FS_Surjection
<1>5. /\ Cardinality(R) \in Nat
      /\ Cardinality(W \cup R) <= Cardinality(W) + Cardinality(R)
      /\ Cardinality(W \cup R) \in Nat
  <2>1. IsFiniteSet(W \cup R)
    BY <1>3, <1>4, FS_Union
  <2>. QED  BY <1>3, <1>4, <2>1, SetCounts, FS_CardinalityType
<1>6. Filled(T, W) = W \cup R
  BY DEF Filled, R
<1>. QED  BY <1>2, <1>3, <1>4, <1>5, <1>6

(* A step keeps every bucket within Z, and the part of the path that is    *)
(* still to be written empty.                                              *)
LEMMA BucketsNext == Inv /\ [Next]_vars => Buckets'
<1>. SUFFICES ASSUME Inv, [Next]_vars
              PROVE  Buckets'
  OBVIOUS
<1>. USE DEF Inv
<1>1. ASSUME tree' = tree, pc' \notin { "remap", "write" }
      PROVE  Buckets'
  BY <1>1 DEF Buckets
<1>2. ASSUME NEW p \in Path, NEW b, NEW S, read_path(p, b, S)
      PROVE  Buckets'
  <2>1. /\ \A n \in Node : tree'[n] = IF n \in OnPath(p) THEN {} ELSE tree[n]
        /\ label' = p /\ lvl' = LEVEL - 1
    BY <1>2 DEF read_path
  <2>2. \A l \in 0 .. lvl' : tree'[NodeAt(label', l)] = {}
    <3>1. \A l \in 0 .. lvl' : l \in Level
      BY <2>1 DEF Level
    <3>. QED  BY <2>1, <3>1, NodeAtLevel
  <2>3. Cardinality({}) = 0 /\ Z \in Nat
    BY FS_EmptySet, SizeAssumption
  <2>4. \A n \in Node : Cardinality(tree'[n]) <= Z
    BY <2>1, <2>3 DEF Buckets
  <2>5. \A n \in Node : n[1] < EMPTY_TOP => tree'[n] = {}
    BY <2>1 DEF Buckets
  <2>. QED  BY <2>2, <2>4, <2>5 DEF Buckets
<1>3. CASE PosmapAccess
  <2>1. /\ pc = "posmap" /\ i_saved >= 1 /\ req # NONE /\ mode # "snapshot"
    BY <1>3 DEF PosmapAccess, At, RequestPhase
  <2>2. PICK x \in Block : x = PosTag[req][i_saved]
    BY <2>1, PosTagType
  <2>. QED  BY <1>2, <1>3, <2>1, <2>2 DEF PosmapAccess, RequestPhase
<1>4. CASE oram_access
  <2>1. req \in Block /\ mode # "snapshot"
    BY <1>4 DEF oram_access, At, RequestPhase, TypeOK, Block
  <2>. QED  BY <1>2, <1>4, <2>1 DEF oram_access, RequestPhase
<1>5. CASE \E p \in Path : background_eviction(p)
  BY <1>2, <1>5 DEF background_eviction
<1>6. CASE \E b \in Block : take_snapshot(b)
  BY <1>2, <1>6 DEF take_snapshot, TypeOK
<1>7. CASE \E b \in Block, p \in Path : oram_init_path(b, p)
  BY <1>2, <1>7 DEF oram_init_path
<1>8. CASE \E p \in Path : remap_block(p)
  <2>1. pc = "remap" /\ tree' = tree /\ UNCHANGED << label, lvl >>
    BY <1>8 DEF remap_block, At, pathVars
  <2>. QED  BY <2>1 DEF Buckets
<1>9. ASSUME NEW T \in SUBSET STT, NEW W \in SUBSET stash, write_path(T, W)
      PROVE  Buckets'
  <2>1. PICK n \in Node : WritesTo(T, W, n)
    BY <1>9, WriteEffect
  <2>2. /\ n = NodeAt(label, lvl) /\ n[1] = lvl /\ n[1] >= EMPTY_TOP /\ pc = "write"
        /\ \A m \in Node : tree'[m] = IF m = n THEN Filled(T, W) ELSE tree[m]
    BY <2>1 DEF WritesTo
  <2>3. Cardinality(Filled(T, W)) <= Z
    <3>1. /\ Cardinality(T) \in Nat /\ Cardinality(W) \in Nat
          /\ Cardinality(T) + Cardinality(W) <= Z
      BY <2>1, TakesCount DEF WritesTo
    <3>2. /\ Cardinality(Filled(T, W)) \in Nat
          /\ Cardinality(Filled(T, W)) <= Cardinality(T) + Cardinality(W)
      BY FilledCount
    <3>. QED  BY <3>1, <3>2, SizeAssumption
  <2>4. lvl \in Nat /\ EMPTY_TOP \in Nat /\ label \in Path /\ lvl <= LEVEL - 1
    BY SizeAssumption DEF TypeOK, Level
  <2>5. \A m \in Node : Cardinality(tree'[m]) <= Z
    BY <2>2, <2>3 DEF Buckets
  <2>6. \A m \in Node : m[1] < EMPTY_TOP => tree'[m] = {}
    <3>1. ~(n[1] < EMPTY_TOP)
      BY <2>2, <2>4
    <3>. QED  BY <2>2, <3>1 DEF Buckets
  <2>7. pc' \in { "remap", "write" } => \A l \in 0 .. lvl' : tree'[NodeAt(label', l)] = {}
    <3>1. CASE LastTurn
      BY <3>1 DEF LastTurn, EndOfPath, EndOfRequest
    <3>2. CASE NextTurn
      <4>1. lvl' = lvl - 1 /\ label' = label
        BY <3>2 DEF NextTurn
      <4>2. ASSUME NEW l \in 0 .. lvl'
            PROVE  tree'[NodeAt(label, l)] = {}
        <5>1. l \in Level /\ l \in 0 .. lvl /\ l # lvl
          BY <2>4, <4>1, LevelAssumption DEF Level
        <5>2. NodeAt(label, l) \in Node /\ NodeAt(label, l) # n
          BY <2>2, <2>4, <5>1, NodeAtLevel
        <5>. QED  BY <2>2, <5>1, <5>2 DEF Buckets
      <4>. QED  BY <4>1, <4>2
    <3>. QED  BY <1>9, <3>1, <3>2, WriteTurn
  <2>. QED  BY <2>5, <2>6, <2>7 DEF Buckets
<1>10. CASE UNCHANGED vars
  BY <1>10 DEF vars, Buckets
<1>11. CASE PosmapInStash \/ (\E a \in Data : StashHit(a)) \/ (\E a \in Data : freecursive_access(a))
            \/ plb_fill \/ \E F \in SUBSET { s.addr : s \in stash } : free_stash(F)
  <2>1. tree' = tree /\ pc' \notin { "remap", "write" }
    BY <1>11 DEF PosmapInStash, StashHit, freecursive_access, plb_fill, free_stash, EndOfRequest
  <2>. QED  BY <1>1, <2>1
<1>. QED
  BY <1>3, <1>4, <1>5, <1>6, <1>7, <1>8, <1>9, <1>10, <1>11 DEF Next

-------------------------------------------------------------------------------
(* The checks of remap_block and plb_fill find what they look for.         *)
LEMMA ExitNext == Inv /\ [Next]_vars => NoExit'
<1>. SUFFICES ASSUME Inv, [Next]_vars
              PROVE  NoExit'
  OBVIOUS
<1>. USE DEF Inv, NoExit
<1>1. CASE \E p \in Path : remap_block(p)
  <2>1. pc = "remap" /\ err' = Check(~stash_contain(cur), "not in stash", "none")
    BY <1>1 DEF remap_block, At
  <2>. QED  BY <2>1 DEF Pinned, Check
<1>2. CASE plb_fill
  <2>1. PICK tag \in Pos, w \in PlbSets :
           /\ tag = PosTag[req][i_saved] /\ w = PlbIndex[tag] /\ stash_contain(tag)
           /\ plb[w] # NONE => ~stash_contain(plb[w])
    BY <1>2, FillFinds
  <2>2. ~ \E s \in Victim(tag) : stash_contain(s.addr)
    <3>1. PICK v : v = plb[w]
      OBVIOUS
    <3>2. Victim(tag) = IF v = NONE THEN {} ELSE { [addr |-> v, label |-> PosMap[v]] }
      BY <2>1, <3>1 DEF Victim
    <3>3. [addr |-> v, label |-> PosMap[v]].addr = v
      OBVIOUS
    <3>4. ASSUME NEW s \in Victim(tag)
          PROVE  ~stash_contain(s.addr)
      <4>1. v # NONE /\ s = [addr |-> v, label |-> PosMap[v]]
        BY <3>2
      <4>. QED  BY <2>1, <3>1, <3>3, <4>1
    <3>. QED  BY <3>4
  <2>3. err' = Check(\E s \in Victim(tag) : stash_contain(s.addr), "already in stash",
               Check(Overflows(stash \cup Victim(tag)), "stash overflow",
               Check(~stash_contain(tag), "not in stash", "none")))
    BY <1>2, <2>1 DEF plb_fill
  <2>. QED  BY <2>1, <2>2, <2>3 DEF Check
<1>3. CASE err' = err
  BY <1>3
<1>4. CASE err' \in { "none", "stash overflow" }
  BY <1>4
<1>. QED
  BY <1>1, <1>2, <1>3, <1>4
     DEF Next, vars, StashHit, freecursive_access, PosmapAccess, PosmapInStash, oram_access,
         background_eviction, oram_init_path, take_snapshot, write_path, free_stash, read_path, Check

-------------------------------------------------------------------------------
(* oram_init puts every block into one bucket of its path.                 *)
LEMMA InitTree ==
  ASSUME Init, mode # "snapshot"
  PROVE  /\ PosMap \in [Block -> Path]
         /\ \E depth \in [Block -> EMPTY_TOP .. LEVEL - 1] :
              /\ Placement(PosMap, depth)
              /\ \A n \in Node : \A s : s \in tree[n] <=>
                   \E b \in Block : /\ NodeAt(PosMap[b], depth[b]) = n
                                    /\ s = [addr |-> b, label |-> PosMap[b]]
<1>1. oram_init
  BY DEF Init
<1>2. PICK depth \in [Block -> EMPTY_TOP .. LEVEL - 1] :
        /\ Placement(PosMap, depth)
        /\ tree = [n \in Node |-> { [addr |-> b, label |-> PosMap[b]] :
                                    b \in { c \in Block : NodeAt(PosMap[c], depth[c]) = n } }]
  BY <1>1 DEF oram_init
<1>3. ASSUME NEW n \in Node, NEW s
      PROVE  s \in tree[n] <=>
               \E b \in Block : /\ NodeAt(PosMap[b], depth[b]) = n
                                /\ s = [addr |-> b, label |-> PosMap[b]]
  <2>1. tree[n] = { [addr |-> b, label |-> PosMap[b]] :
                    b \in { c \in Block : NodeAt(PosMap[c], depth[c]) = n } }
    BY <1>2
  <2>. QED  BY <2>1
<1>. QED  BY <1>1, <1>2, <1>3 DEF oram_init

(* Initially every block that has a label is in its bucket alone, and no   *)
(* bucket has more than Z.                                                 *)
LEMMA InitPlaces == Init => OnePlace /\ LabelsCurrent /\ Buckets
<1>. SUFFICES ASSUME Init
              PROVE  OnePlace /\ LabelsCurrent /\ Buckets
  OBVIOUS
<1>1. stash = {} /\ STT = {} /\ pc \notin { "remap", "write" } /\ \A c : ~InStash(c)
  BY DEF Init, InStash
<1>2. \A b \in Block : ~InPlb(b)
  <2>1. \A b \in Pos : b # NONE /\ PlbIndex[b] \in PlbSets
    BY NotBlockNotPath, TableAssumption DEF Block
  <2>. QED  BY <2>1 DEF Init, InPlb, plb_access
<1>3. Cardinality({}) = 0 /\ Z \in Nat /\ EMPTY_TOP \in Nat
  BY FS_EmptySet, SizeAssumption
<1>4. CASE mode = "snapshot"
  <2>1. /\ \A b \in Block : PosMap[b] = -1
        /\ \A n \in Node : tree[n] = {}
    BY <1>4 DEF Init
  <2>2. \A c : ~InTree(c)
    BY <2>1 DEF InTree
  <2>. QED  BY <1>1, <1>2, <1>3, <2>1, <2>2 DEF OnePlace, LabelsCurrent, Buckets
<1>5. CASE mode # "snapshot"
  <2>1. PICK depth \in [Block -> EMPTY_TOP .. LEVEL - 1] :
              /\ Placement(PosMap, depth)
              /\ \A n \in Node : \A s : s \in tree[n] <=>
                   \E b \in Block : /\ NodeAt(PosMap[b], depth[b]) = n
                                    /\ s = [addr |-> b, label |-> PosMap[b]]
    BY <1>5, InitTree
  <2>2. \A b \in Block : PosMap[b] \in Path /\ PosMap[b] # -1
    BY <1>5, InitTree, NotBlockNotPath
  <2>3. ASSUME NEW b \in Block
        PROVE  /\ depth[b] \in Level /\ depth[b] >= EMPTY_TOP
               /\ NodeAt(PosMap[b], depth[b]) \in Node
               /\ NodeAt(PosMap[b], depth[b])[1] = depth[b]
    <3>1. depth[b] \in Level /\ depth[b] >= EMPTY_TOP
      BY <1>3, LevelAssumption DEF Level
    <3>. QED  BY <2>2, <3>1, NodeAtLevel
  <2>4. ASSUME NEW b \in Block
        PROVE  InTree(b)
    <3>. DEFINE slot == [addr |-> b, label |-> PosMap[b]]
    <3>1. slot \in tree[NodeAt(PosMap[b], depth[b])]
      BY <2>1, <2>3
    <3>. QED  BY <2>3, <3>1 DEF InTree
  <2>5. \A n, m \in Node : \A s \in tree[n], t \in tree[m] : s.addr = t.addr => n = m /\ s = t
    BY <2>1
  <2>6. OnePlace
    BY <1>1, <1>2, <2>2, <2>4, <2>5 DEF OnePlace
  <2>7. \A n \in Node : \A s \in tree[n] : s.label = PosMap[s.addr] /\ NodeAt(s.label, n[1]) = n
    BY <2>1, <2>3
  <2>8. \A n \in Node : n[1] < EMPTY_TOP => tree[n] = {}
    <3>1. ASSUME NEW n \in Node, NEW s \in tree[n]
          PROVE  ~(n[1] < EMPTY_TOP)
      <4>1. PICK b \in Block : NodeAt(PosMap[b], depth[b]) = n
        BY <2>1
      <4>2. n[1] = depth[b] /\ depth[b] >= EMPTY_TOP /\ depth[b] \in Level
        BY <2>3, <4>1
      <4>. QED  BY <1>3, <4>2 DEF Level
    <3>. QED  BY <3>1
  <2>9. ASSUME NEW n \in Node
        PROVE  Cardinality(tree[n]) <= Z
    <3>. DEFINE In == { b \in Block : NodeAt(PosMap[b], depth[b]) = n }
                f  == [b \in In |-> [addr |-> b, label |-> PosMap[b]]]
    <3>1. Cardinality(In) <= Z
      BY <2>1 DEF Placement
    <3>2. IsFiniteSet(In) /\ Cardinality(In) \in Nat
      BY BlocksFinite
    <3>3. f \in Surjection(In, tree[n])
      <4>1. \A b \in In : [addr |-> b, label |-> PosMap[b]] \in tree[n]
        BY <2>1
      <4>2. \A s \in tree[n] : \E b \in In : s = [addr |-> b, label |-> PosMap[b]]
        BY <2>1
      <4>. HIDE DEF In
      <4>. QED  BY <4>1, <4>2 DEF Surjection
    <3>. HIDE DEF In, f
    <3>4. Cardinality(tree[n]) <= Cardinality(In) /\ IsFiniteSet(tree[n])
      BY <3>2, <3>3, FS_Surjection
    <3>. QED  BY <1>3, <3>1, <3>2, <3>4, FS_CardinalityType
  <2>. QED  BY <1>1, <2>6, <2>7, <2>8, <2>9 DEF LabelsCurrent, Buckets
<1>. QED  BY <1>4, <1>5

(* The invariant holds initially. *)
LEMMA InvInit == Init => Inv
<1>. SUFFICES ASSUME Init
              PROVE  Inv
  OBVIOUS
<1>1. /\ req = NONE /\ cur = NONE /\ pinFlag = FALSE
      /\ \A w \in PlbSets : plb[w] = NONE
      /\ pc = IF mode = "snapshot" THEN "snapshot" ELSE "idle"
  BY DEF Init
<1>2. mode # "snapshot" => \A b \in Block : PosMap[b] \in Path
  BY InitTree
<1>3. RequestPhase /\ PathPhase
  BY <1>1, <1>2 DEF RequestPhase, PathPhase
<1>4. Pinned /\ ChainOut /\ PlbSound /\ NoExit
  BY <1>1 DEF Pinned, ChainOut, PlbSound, NoExit, Init
<1>. QED  BY <1>3, <1>4, TypeInit, InitPlaces DEF Inv

(* What holds of every access, in every mode. *)
THEOREM Inductive == Spec => []Inv
<1>1. Inv /\ [Next]_vars => Inv'
  BY TypeNext, ExitNext, PhaseNext, PinNext, ChainNext, PlaceNext, LabelsNext, BucketsNext DEF Inv
<1>. QED  BY <1>1, InvInit, PTL DEF Spec

(* Every variable keeps to its range. *)
THEOREM TypeCorrect == Spec => []TypeOK
<1>1. Inv => TypeOK
  BY DEF Inv
<1>. QED  BY <1>1, Inductive, PTL

(* The exits of remap_block and plb_fill for a block that is missing from  *)
(* the stash, or is there already, are never taken.                        *)
THEOREM NeverExits == Spec => []NoExit
<1>1. Inv => NoExit
  BY DEF Inv
<1>. QED  BY <1>1, Inductive, PTL

(* Whatever moves between tree, stash, STT and PLB, a block that has been  *)
(* placed is in exactly one of them.                                       *)
THEOREM PlacesConserved == Spec => []SinglePlace
<1>1. Inv => SinglePlace
  <2>. SUFFICES ASSUME Inv
                PROVE  SinglePlace
    OBVIOUS
  <2>1. ASSUME NEW b \in Block
        PROVE  LET places == << InTree(b), InStash(b), b \in STT, InPlb(b) >>
               IN  /\ PosMap[b] # -1 => \E i \in 1 .. 4 : places[i]
                   /\ \A i, j \in 1 .. 4 : places[i] /\ places[j] => i = j
    <3>1. /\ PosMap[b] # -1 => InTree(b) \/ InStash(b) \/ b \in STT \/ InPlb(b)
          /\ ~(InTree(b) /\ InStash(b)) /\ ~(InTree(b) /\ b \in STT) /\ ~(InTree(b) /\ InPlb(b))
          /\ ~(InStash(b) /\ b \in STT) /\ ~(InStash(b) /\ InPlb(b))
          /\ ~(b \in STT /\ InPlb(b))
      BY DEF Inv, OnePlace
    <3>2. \A i \in 1 .. 4 : i = 1 \/ i = 2 \/ i = 3 \/ i = 4
      OBVIOUS
    <3>. DEFINE places == << InTree(b), InStash(b), b \in STT, InPlb(b) >>
    <3>3. /\ places[1] = InTree(b) /\ places[2] = InStash(b)
          /\ places[3] = (b \in STT) /\ places[4] = InPlb(b)
      OBVIOUS
    <3>. HIDE DEF places
    <3>4. PosMap[b] # -1 => \E i \in 1 .. 4 : places[i]
      <4>1. 1 \in 1 .. 4 /\ 2 \in 1 .. 4 /\ 3 \in 1 .. 4 /\ 4 \in 1 .. 4
        OBVIOUS
      <4>. QED  BY <3>1, <3>3, <4>1, Zenon
    <3>5. ASSUME NEW i \in 1 .. 4, NEW j \in 1 .. 4, places[i], places[j]
          PROVE  i = j
      <4>1. i = 1 \/ i = 2 \/ i = 3 \/ i = 4
        BY <3>2
      <4>2. j = 1 \/ j = 2 \/ j = 3 \/ j = 4
        BY <3>2
      <4>3. CASE i = 1
        BY <3>1, <3>3, <3>5, <4>2, <4>3, Zenon
      <4>4. CASE i = 2
        BY <3>1, <3>3, <3>5, <4>2, <4>4, Zenon
      <4>5. CASE i = 3
        BY <3>1, <3>3, <3>5, <4>2, <4>5, Zenon
      <4>6. CASE i = 4
        BY <3>1, <3>3, <3>5, <4>2, <4>6, Zenon
      <4>. QED  BY <4>1, <4>3, <4>4, <4>5, <4>6
    <3>. QED  BY <3>4, <3>5 DEF places
  <2>. QED  BY <2>1 DEF SinglePlace, Inv, OnePlace
<1>. QED  BY <1>1, Inductive, PTL

(* A slot carries its block's current label and lies on that path, also    *)
(* when the block has been in the STT, which keeps no label.               *)
THEOREM LabelsKept == Spec => []LabelsCurrent
<1>1. Inv => LabelsCurrent
  BY DEF Inv
<1>. QED  BY <1>1, Inductive, PTL

-------------------------------------------------------------------------------
(* The strengthening that carries OutsideGrowth through the read and the   *)
(* write of a path.  The slots of the stash, that of the accessed block    *)
(* aside, that cannot go to level l of the path were there before or come  *)
(* from one of the levels above l, with at most Z from each.               *)
Misfits(l) == { s \in stash : s.addr # cur /\ NodeAt(s.label, l) # NodeAt(label, l) }

Own == IF cur = NONE THEN 0 ELSE 1

PathGrowth ==
  /\ Outside <= before + Own + (lvl + 1 - EMPTY_TOP) * Z
  /\ \A l \in EMPTY_TOP .. lvl :
       Cardinality(Misfits(l)) + Cardinality(STT) <= before + (l - EMPTY_TOP) * Z

GrowthInv == pc \in { "remap", "write" } => PathGrowth

(* The numbers of this section are numbers. *)
LEMMA GrowthTypes ==
  ASSUME TypeOK
  PROVE  /\ Cardinality(stash) \in Nat /\ Cardinality(STT) \in Nat /\ Outside \in Nat
         /\ before \in Nat /\ Own \in 0 .. 1
         /\ Z \in Nat /\ EMPTY_TOP \in Nat /\ LEVEL \in Nat /\ EMPTY_TOP <= LEVEL - 1
         /\ lvl \in Nat /\ lvl <= LEVEL - 1
<1>1. Cardinality(stash) \in Nat /\ Cardinality(STT) \in Nat
  BY SlotsFinite, BlocksFinite DEF TypeOK
<1>. QED  BY <1>1, SizeAssumption, LevelAssumption DEF TypeOK, Outside, Own, Level

(* A read of the path pulls at most Z slots from every level that has any; *)
(* those that come from level l or below fit into level l again.           *)
LEMMA ReadGrowth ==
  ASSUME Inv, NEW p \in Path, NEW b, NEW S \in SUBSET Slot, read_path(p, b, S), STT' = STT
  PROVE  PathGrowth'
<1>. USE DEF Inv
<1>. DEFINE O == [j \in Level |-> tree[NodeAt(p, j)]]
            Above(l) == UNION { O[j + EMPTY_TOP] : j \in 0 .. (l - EMPTY_TOP) - 1 }
            pulled == UNION { tree[n] : n \in OnPath(p) }
<1>0. /\ Z \in Nat /\ EMPTY_TOP \in Nat /\ LEVEL \in Nat /\ EMPTY_TOP <= LEVEL - 1
      /\ Cardinality(S) \in Nat /\ Cardinality(STT) \in Nat
  BY GrowthTypes, SlotsFinite
<1>1. /\ stash' = S \cup pulled
      /\ label' = p /\ cur' = b /\ lvl' = LEVEL - 1
      /\ before' = Cardinality(S) + Cardinality(STT)
  BY DEF read_path
<1>2. \A j \in Level : /\ O[j] \in SUBSET Slot /\ Cardinality(O[j]) <= Z
                       /\ j < EMPTY_TOP => O[j] = {}
  BY NodeAtLevel DEF TypeOK, Buckets
<1>3. ASSUME NEW j \in Level, NEW s \in O[j], NEW l \in EMPTY_TOP .. LEVEL, j < l
      PROVE  s \in Above(l)
  <2>1. j \in Nat /\ j >= EMPTY_TOP
    BY <1>0, <1>2, <1>3 DEF Level
  <2>2. j - EMPTY_TOP \in 0 .. (l - EMPTY_TOP) - 1 /\ (j - EMPTY_TOP) + EMPTY_TOP = j
    BY <1>0, <1>3, <2>1
  <2>. HIDE DEF O
  <2>. QED  BY <1>3, <2>2
<1>4. ASSUME NEW l \in EMPTY_TOP .. LEVEL
      PROVE  Above(l) \in SUBSET Slot /\ Cardinality(Above(l)) <= (l - EMPTY_TOP) * Z
  <2>1. PICK k \in Nat : k = l - EMPTY_TOP
    BY <1>0
  <2>. DEFINE F == [j \in 0 .. k - 1 |-> O[j + EMPTY_TOP]]
  <2>2. \A j \in 0 .. k - 1 : j + EMPTY_TOP \in Level
    BY <1>0, <2>1 DEF Level
  <2>3. \A j \in 0 .. k - 1 : F[j] \in SUBSET Slot /\ Cardinality(F[j]) <= Z
    <3>. HIDE DEF O
    <3>. QED  BY <1>2, <2>2
  <2>4. \A j \in 0 .. k - 1 : IsFiniteSet(F[j])
    BY <2>3, SlotsFinite
  <2>5. Above(l) = UNION { F[j] : j \in 0 .. k - 1 }
    <3>. HIDE DEF O
    <3>. QED  BY <2>1
  <2>6. Cardinality(UNION { F[j] : j \in 0 .. k - 1 }) <= k * Z
    <3>. HIDE DEF F
    <3>. QED  BY <1>0, <2>3, <2>4, UnionSize
  <2>7. UNION { F[j] : j \in 0 .. k - 1 } \in SUBSET Slot
    <3>. HIDE DEF F
    <3>. QED  BY <2>3
  <2>. HIDE DEF F, Above
  <2>. QED  BY <2>1, <2>5, <2>6, <2>7
<1>5. \A s \in pulled : \E j \in Level : s \in O[j]
  BY DEF OnPath
<1>6. ASSUME NEW l \in EMPTY_TOP .. LEVEL, NEW X \in SUBSET (S \cup Above(l))
      PROVE  /\ Cardinality(X) \in Nat
             /\ Cardinality(X) + Cardinality(STT) <= before' + (l - EMPTY_TOP) * Z
  <2>1. Above(l) \in SUBSET Slot /\ Cardinality(Above(l)) <= (l - EMPTY_TOP) * Z
    BY <1>4
  <2>. HIDE DEF Above
  <2>2. X \in SUBSET Slot /\ S \cup Above(l) \in SUBSET Slot
    BY <2>1
  <2>3. /\ Cardinality(X) \in Nat /\ Cardinality(Above(l)) \in Nat
        /\ Cardinality(S \cup Above(l)) \in Nat
    BY <2>1, <2>2, SlotsFinite
  <2>4. Cardinality(X) <= Cardinality(S \cup Above(l))
    BY <2>2, SlotsFinite, FS_Subset
  <2>5. Cardinality(S \cup Above(l)) <= Cardinality(S) + Cardinality(Above(l))
    BY <2>1, SlotsFinite, SetCounts
  <2>6. (l - EMPTY_TOP) * Z \in Nat
    BY <1>0
  <2>. QED  BY <1>0, <1>1, <2>1, <2>3, <2>4, <2>5, <2>6
<1>7. Outside' <= before' + Own' + (lvl' + 1 - EMPTY_TOP) * Z
  <2>1. LEVEL \in EMPTY_TOP .. LEVEL /\ \A j \in Level : j < LEVEL
    BY <1>0 DEF Level
  <2>2. stash' \subseteq S \cup Above(LEVEL)
    <3>. HIDE DEF pulled, O, Above
    <3>. QED  BY <1>1, <1>3, <1>5, <2>1
  <2>3. /\ Cardinality(stash') \in Nat
        /\ Cardinality(stash') + Cardinality(STT) <= before' + (LEVEL - EMPTY_TOP) * Z
    <3>. HIDE DEF Above
    <3>. QED  BY <1>6, <2>1, <2>2
  <2>4. Outside' = Cardinality(stash') + Cardinality(STT)
    BY DEF Outside
  <2>5. Own' \in 0 .. 1
    BY DEF Own
  <2>6. before' \in Nat /\ (LEVEL - EMPTY_TOP) * Z \in Nat /\ lvl' + 1 = LEVEL
    BY <1>0, <1>1
  <2>7. PICK most \in Nat : most = (LEVEL - EMPTY_TOP) * Z
    BY <2>6
  <2>8. (lvl' + 1 - EMPTY_TOP) * Z = most
    <3>1. lvl' + 1 - EMPTY_TOP = LEVEL - EMPTY_TOP
      BY <1>0, <1>1
    <3>. QED  BY <2>7, <3>1, Zenon
  <2>. QED  BY <1>0, <2>3, <2>4, <2>5, <2>6, <2>7, <2>8
<1>8. ASSUME NEW l \in EMPTY_TOP .. lvl'
      PROVE  Cardinality(Misfits(l)') + Cardinality(STT') <= before' + (l - EMPTY_TOP) * Z
  <2>1. l \in Level /\ l \in EMPTY_TOP .. LEVEL
    BY <1>0, <1>1 DEF Level
  <2>2. ASSUME NEW s \in pulled, NodeAt(s.label, l) # NodeAt(p, l)
        PROVE  s \in Above(l)
    <3>1. PICK j \in Level : s \in O[j]
      BY <1>5
    <3>2. s.label \in Path /\ NodeAt(s.label, j) = NodeAt(p, j)
      <4>1. NodeAt(p, j) \in Node /\ NodeAt(p, j)[1] = j /\ s \in tree[NodeAt(p, j)]
        BY <3>1, NodeAtLevel
      <4>. QED  BY <4>1, SlotParts DEF LabelsCurrent
    <3>3. ~(l <= j)
      BY <2>1, <2>2, <3>2, Nested
    <3>4. j < l
      BY <2>1, <3>3 DEF Level
    <3>. QED  BY <1>3, <2>1, <3>1, <3>4
  <2>3. Misfits(l)' = { s \in stash' : s.addr # b /\ NodeAt(s.label, l) # NodeAt(p, l) }
    BY <1>1 DEF Misfits
  <2>4. Misfits(l)' \in SUBSET (S \cup Above(l))
    <3>. HIDE DEF pulled, Above
    <3>. QED  BY <1>1, <2>2, <2>3
  <2>5. STT' = STT
    OBVIOUS
  <2>. HIDE DEF Above
  <2>. QED  BY <1>6, <2>1, <2>4, <2>5
<1>. QED  BY <1>7, <1>8 DEF PathGrowth

(* remap_block relabels a slot and adds none; misfits leave that slot out. *)
LEMMA RemapGrowth ==
  ASSUME Inv, PathGrowth, NEW p \in Path, remap_block(p)
  PROVE  PathGrowth'
<1>. USE DEF Inv
<1>1. /\ cur \in Block /\ pc = "remap"
      /\ STT' = STT /\ cur' = cur /\ label' = label /\ lvl' = lvl /\ before' = before
      /\ stash' = IF cur \in STT THEN stash ELSE Relabel(cur, p)
  BY DEF remap_block, At, PathPhase, TypeOK, pathVars
<1>. DEFINE new(s) == IF s.addr = cur THEN [addr |-> cur, label |-> p] ELSE s
            f == [s \in stash |-> new(s)]
<1>2. stash' = stash \/ stash' = { new(s) : s \in stash }
  BY <1>1 DEF Relabel
<1>3. Cardinality(stash') <= Cardinality(stash) /\ Cardinality(stash') \in Nat
  <2>1. CASE stash' = stash
    BY <2>1, GrowthTypes
  <2>2. CASE stash' = { new(s) : s \in stash }
    <3>1. f \in Surjection(stash, stash')
      <4>. HIDE DEF new
      <4>. QED  BY <2>2 DEF Surjection
    <3>2. IsFiniteSet(stash)
      BY SlotsFinite DEF TypeOK
    <3>. HIDE DEF f, new
    <3>3. Cardinality(stash') <= Cardinality(stash) /\ IsFiniteSet(stash')
      BY <3>1, <3>2, FS_Surjection
    <3>. QED  BY <3>3, FS_CardinalityType
  <2>. QED  BY <1>2, <2>1, <2>2
<1>4. \A s : new(s).addr = s.addr /\ (s.addr # cur => new(s) = s)
  OBVIOUS
<1>. HIDE DEF new, f
<1>5. ASSUME NEW l \in EMPTY_TOP .. lvl
      PROVE  Misfits(l)' = Misfits(l)
  <2>1. Misfits(l)' = { s \in stash' : s.addr # cur /\ NodeAt(s.label, l) # NodeAt(label, l) }
    BY <1>1 DEF Misfits
  <2>2. \A s : s.addr # cur => (s \in stash' <=> s \in stash)
    BY <1>2, <1>4
  <2>. QED  BY <2>1, <2>2 DEF Misfits
<1>6. Outside' <= Outside /\ Outside' \in Nat /\ Own' = Own
  BY <1>1, <1>3, GrowthTypes DEF Outside, Own
<1>7. (lvl + 1 - EMPTY_TOP) * Z \in Int /\ \A l \in EMPTY_TOP .. lvl : (l - EMPTY_TOP) * Z \in Int
  BY GrowthTypes
<1>. QED  BY <1>1, <1>5, <1>6, <1>7, GrowthTypes DEF PathGrowth

(* One turn of write_path: a bucket that ends up full has taken Z blocks;  *)
(* any other has taken as many as the stash had candidates, so that the    *)
(* slots left are no more than the misfits and the one of the access.      *)
LEMMA WriteGrowth ==
  ASSUME Inv, PathGrowth, NEW T \in SUBSET STT, NEW W \in SUBSET stash, write_path(T, W)
  PROVE  /\ Outside' <= before + Own + (lvl - EMPTY_TOP) * Z
         /\ \A l \in EMPTY_TOP .. lvl :
              Cardinality({ s \in stash' : s.addr # cur /\ NodeAt(s.label, l) # NodeAt(label, l) })
                + Cardinality(STT') <= before + (l - EMPTY_TOP) * Z
<1>. USE DEF Inv
<1>1. PICK n \in Node : WritesTo(T, W, n)
  BY WriteEffect
<1>2. /\ n = NodeAt(label, lvl) /\ n[1] = lvl /\ lvl >= EMPTY_TOP /\ Takes(T, W, n)
      /\ stash' = stash \ W /\ STT' = STT \ T
  BY <1>1 DEF WritesTo
<1>3. PICK C : C = pick_candidate(n)
  OBVIOUS
<1>4. PICK t \in Nat, w \in Nat, c \in Nat :
        /\ t = Cardinality(T) /\ w = Cardinality(W) /\ c = Cardinality(C)
        /\ t + w = Z \/ t + w >= c
  BY <1>2, <1>3, TakesCount
<1>5. PICK s0 \in Nat, t0 \in Nat : s0 = Cardinality(stash) /\ t0 = Cardinality(STT)
  BY GrowthTypes
<1>6. /\ IsFiniteSet(stash) /\ IsFiniteSet(STT) /\ IsFiniteSet(T) /\ IsFiniteSet(W) /\ IsFiniteSet(C)
      /\ C \subseteq stash
  BY <1>3, SlotsFinite, BlocksFinite DEF TypeOK, pick_candidate
<1>7. /\ Cardinality(stash') = s0 - w /\ Cardinality(STT') = t0 - t
      /\ Cardinality(stash \ C) = s0 - c
  BY <1>2, <1>4, <1>5, <1>6, SetCounts
<1>8. PICK m \in Nat : m = (lvl - EMPTY_TOP) * Z /\ m + Z = (lvl + 1 - EMPTY_TOP) * Z
  <2>1. PICK d \in Nat : d = lvl - EMPTY_TOP
    BY <1>2, GrowthTypes
  <2>2. lvl + 1 - EMPTY_TOP = d + 1
    BY <2>1, GrowthTypes
  <2>3. d * Z \in Nat /\ (d + 1) * Z = d * Z + Z
    BY GrowthTypes
  <2>. QED  BY <2>1, <2>2, <2>3
<1>9. s0 - c + t0 <= before + Own + m
  <2>1. PICK M : M = Misfits(lvl)
    OBVIOUS
  <2>2. PICK own : own = { s \in stash : s.addr = cur }
    OBVIOUS
  <2>3. stash \ C \subseteq M \cup own
    BY <1>2, <1>3, <2>1, <2>2 DEF pick_candidate, Misfits
  <2>4. IsFiniteSet(M) /\ IsFiniteSet(own)
    BY <1>6, <2>1, <2>2, FS_Subset DEF Misfits
  <2>5. Cardinality(own) <= Own /\ Cardinality(own) \in Nat
    <3>1. CASE own = {}
      BY <3>1, FS_EmptySet, GrowthTypes
    <3>2. CASE own # {}
      <4>1. PICK s : s \in own
        BY <3>2
      <4>2. own = {s}
        BY <2>2, <4>1 DEF OnePlace
      <4>3. cur # NONE
        BY <2>2, <4>1, SlotParts, NotBlockNotPath
      <4>4. Cardinality({s}) = 1
        BY FS_Singleton
      <4>. QED  BY <4>2, <4>3, <4>4 DEF Own
    <3>. QED  BY <3>1, <3>2
  <2>6. Cardinality(M) + t0 <= before + m /\ Cardinality(M) \in Nat
    <3>1. lvl \in EMPTY_TOP .. lvl
      BY <1>2, GrowthTypes
    <3>. QED  BY <1>5, <1>8, <2>1, <2>4, <3>1, FS_CardinalityType DEF PathGrowth
  <2>7. Cardinality(stash \ C) <= Cardinality(M) + Cardinality(own)
    <3>1. IsFiniteSet(M \cup own) /\ Cardinality(M \cup own) <= Cardinality(M) + Cardinality(own)
      BY <2>4, FS_Union, SetCounts
    <3>2. Cardinality(stash \ C) <= Cardinality(M \cup own)
      BY <2>3, <3>1, FS_Subset
    <3>3. Cardinality(M \cup own) \in Nat
      BY <3>1, FS_CardinalityType, Zenon
    <3>4. Cardinality(stash \ C) \in Int
      BY <1>4, <1>5, <1>7
    <3>. QED  BY <2>5, <2>6, <3>1, <3>2, <3>3, <3>4
  <2>. QED  BY <1>4, <1>5, <1>7, <2>5, <2>6, <2>7, GrowthTypes
<1>10. Outside' = Cardinality(stash') + Cardinality(STT')
  BY DEF Outside
<1>11. s0 + t0 <= before + Own + m + Z
  <2>1. Outside = s0 + t0
    BY <1>5 DEF Outside
  <2>2. Outside <= before + Own + (lvl + 1 - EMPTY_TOP) * Z
    BY DEF PathGrowth
  <2>. QED  BY <1>8, <2>1, <2>2, GrowthTypes
<1>12. Outside' <= before + Own + m
  <2>1. PICK o \in Nat : o = Own
    BY GrowthTypes
  <2>2. PICK e \in Nat : e = before
    BY GrowthTypes
  <2>3. Outside' = (s0 - w) + (t0 - t) /\ Z \in Nat
    BY <1>7, <1>10, GrowthTypes
  <2>4. s0 - c + t0 <= e + o + m /\ s0 + t0 <= e + o + m + Z
    BY <1>9, <1>11, <2>1, <2>2
  <2>. QED  BY <1>4, <2>1, <2>2, <2>3, <2>4
<1>13. ASSUME NEW l \in EMPTY_TOP .. lvl
       PROVE  Cardinality({ s \in stash' : s.addr # cur /\ NodeAt(s.label, l) # NodeAt(label, l) })
                + Cardinality(STT') <= before + (l - EMPTY_TOP) * Z
  <2>1. PICK M : M = Misfits(l)
    OBVIOUS
  <2>2. PICK N : N = { s \in stash' : s.addr # cur /\ NodeAt(s.label, l) # NodeAt(label, l) }
    OBVIOUS
  <2>3. N \subseteq M /\ M \subseteq stash
    BY <1>2, <2>1, <2>2 DEF Misfits
  <2>4. IsFiniteSet(M) /\ Cardinality(N) <= Cardinality(M) /\ Cardinality(M) \in Nat /\ Cardinality(N) \in Nat
    BY <1>6, <2>3, FS_Subset, FS_CardinalityType
  <2>5. Cardinality(M) + t0 <= before + (l - EMPTY_TOP) * Z
    BY <1>5, <2>1 DEF PathGrowth
  <2>6. (l - EMPTY_TOP) * Z \in Int
    BY GrowthTypes
  <2>. QED  BY <1>4, <1>5, <1>7, <2>2, <2>4, <2>5, <2>6, GrowthTypes
<1>. QED  BY <1>8, <1>12, <1>13

(* Every step keeps the stash and the STT within the growth of the access. *)
LEMMA GrowthNext == Inv /\ GrowthInv /\ [Next]_vars => GrowthInv'
<1>. SUFFICES ASSUME Inv, GrowthInv, [Next]_vars
              PROVE  GrowthInv'
  OBVIOUS
<1>. USE DEF Inv
<1>1. ASSUME pc' \notin { "remap", "write" }
      PROVE  GrowthInv'
  BY <1>1 DEF GrowthInv
<1>2. ASSUME NEW p \in Path, NEW b, read_path(p, b, stash), STT' = STT
      PROVE  GrowthInv'
  <2>1. stash \in SUBSET Slot
    BY DEF TypeOK
  <2>. QED  BY <1>2, <2>1, ReadGrowth DEF GrowthInv
<1>3. CASE PosmapAccess
  <2>1. /\ pc = "posmap" /\ i_saved >= 1 /\ req # NONE /\ mode # "snapshot"
    BY <1>3 DEF PosmapAccess, At, RequestPhase
  <2>2. PICK x \in Block : x = PosTag[req][i_saved]
    BY <2>1, PosTagType
  <2>3. PosMap[x] \in Path
    BY <2>1 DEF RequestPhase
  <2>. QED  BY <1>2, <1>3, <2>2, <2>3 DEF PosmapAccess
<1>4. CASE oram_access
  <2>1. req \in Block /\ mode # "snapshot"
    BY <1>4 DEF oram_access, At, RequestPhase, TypeOK, Block
  <2>2. PosMap[req] \in Path
    BY <2>1 DEF RequestPhase
  <2>. QED  BY <1>2, <1>4, <2>2 DEF oram_access
<1>5. CASE \E p \in Path : background_eviction(p)
  BY <1>2, <1>5 DEF background_eviction
<1>6. ASSUME NEW b \in Block, take_snapshot(b)
      PROVE  GrowthInv'
  <2>1. PosMap[b] \in Path
    BY <1>6 DEF take_snapshot, TypeOK
  <2>. QED  BY <1>2, <1>6, <2>1 DEF take_snapshot
<1>7. ASSUME NEW b \in Block, NEW p \in Path, oram_init_path(b, p)
      PROVE  GrowthInv'
  <2>1. stash \cup {[addr |-> b, label |-> p]} \in SUBSET Slot
    BY DEF TypeOK, Slot
  <2>2. read_path(p, b, stash \cup {[addr |-> b, label |-> p]}) /\ STT' = STT
    BY <1>7 DEF oram_init_path
  <2>. QED  BY <2>1, <2>2, ReadGrowth DEF GrowthInv
<1>8. CASE \E p \in Path : remap_block(p)
  <2>1. pc = "remap"
    BY <1>8 DEF remap_block, At
  <2>. QED  BY <1>8, <2>1, RemapGrowth DEF GrowthInv
<1>9. ASSUME NEW T \in SUBSET STT, NEW W \in SUBSET stash, write_path(T, W)
      PROVE  GrowthInv'
  <2>1. PathGrowth
    BY <1>9 DEF write_path, At, GrowthInv
  <2>2. CASE LastTurn
    BY <2>2, <1>1 DEF LastTurn, EndOfPath, EndOfRequest
  <2>3. CASE NextTurn
    <3>1. /\ lvl' = lvl - 1 /\ cur' = cur /\ label' = label /\ before' = before
          /\ lvl' + 1 - EMPTY_TOP = lvl - EMPTY_TOP /\ Own' = Own
      BY <2>3, GrowthTypes DEF NextTurn, Own
    <3>2. Outside' <= before' + Own' + (lvl' + 1 - EMPTY_TOP) * Z
      <4>1. Outside' <= before + Own + (lvl - EMPTY_TOP) * Z
        BY <1>9, <2>1, WriteGrowth
      <4>. QED  BY <3>1, <4>1, Zenon
    <3>3. ASSUME NEW l \in EMPTY_TOP .. lvl'
          PROVE  Cardinality(Misfits(l)') + Cardinality(STT') <= before' + (l - EMPTY_TOP) * Z
      <4>1. l \in EMPTY_TOP .. lvl
        BY <3>1, GrowthTypes
      <4>2. Misfits(l)' = { s \in stash' : s.addr # cur /\ NodeAt(s.label, l) # NodeAt(label, l) }
        BY <3>1 DEF Misfits
      <4>. QED  BY <1>9, <2>1, <3>1, <4>1, <4>2, WriteGrowth
    <3>. QED  BY <3>2, <3>3 DEF GrowthInv, PathGrowth
  <2>. QED  BY <1>9, <2>2, <2>3, WriteTurn
<1>10. CASE UNCHANGED vars
  BY <1>10 DEF vars, GrowthInv, PathGrowth, Misfits, Own, Outside
<1>11. CASE PosmapInStash \/ (\E a \in Data : StashHit(a)) \/ (\E a \in Data : freecursive_access(a))
            \/ plb_fill \/ \E F \in SUBSET { s.addr : s \in stash } : free_stash(F)
  <2>1. pc' \notin { "remap", "write" }
    BY <1>11 DEF PosmapInStash, StashHit, freecursive_access, plb_fill, free_stash, EndOfRequest
  <2>. QED  BY <1>1, <2>1
<1>. QED
  BY <1>3, <1>4, <1>5, <1>6, <1>7, <1>8, <1>9, <1>10, <1>11 DEF Next

(* An access adds at most its own block to the stash and the STT together, *)
(* the eviction of a path none, although an STT block that is written also *)
(* uses up a stash candidate.                                              *)
THEOREM GrowthBounded == Spec => OutsideGrowth
<1>1. Init => GrowthInv
  BY DEF Init, GrowthInv
<1>2. Inv /\ GrowthInv /\ [Next]_vars
        => [ pc = "write" /\ pc' # "write" =>
               Outside' <= before + (IF cur = NONE THEN 0 ELSE 1) ]_vars
  <2>. SUFFICES ASSUME Inv, GrowthInv, Next, pc = "write", pc' # "write"
                PROVE  Outside' <= before + (IF cur = NONE THEN 0 ELSE 1)
    OBVIOUS
  <2>1. PICK T \in SUBSET STT, W \in SUBSET stash : write_path(T, W)
    BY DEF Next, StashHit, freecursive_access, PosmapAccess, PosmapInStash, oram_access,
       background_eviction, oram_init_path, take_snapshot, remap_block, plb_fill, free_stash, At
  <2>2. lvl = EMPTY_TOP
    BY <2>1, WriteTurn DEF LastTurn, NextTurn
  <2>3. Outside' <= before + Own + (lvl - EMPTY_TOP) * Z
    BY <2>1, WriteGrowth DEF GrowthInv
  <2>4. (lvl - EMPTY_TOP) * Z = 0
    BY <2>2, GrowthTypes DEF Inv
  <2>. QED  BY <2>3, <2>4, GrowthTypes DEF Inv, Own
<1>. QED  BY <1>1, <1>2, GrowthNext, Inductive, InvInit, PTL DEF Spec, OutsideGrowth

-------------------------------------------------------------------------------
(* The strengthening of WriteIsMaximal.  Without an STT (STT_ENABLE off) a *)
(* slot that could have gone to a level already written has met a full     *)
(* bucket there.                                                           *)
NoStt == STT_WAY = 0

LeftOver(s) == ~(pinFlag /\ s.addr = cur)

WrittenFull ==
  /\ STT = {} /\ pc # "free"
  /\ pc \in { "remap", "write" } =>
       \A s \in stash : LeftOver(s) =>
         \A l \in lvl + 1 .. LEVEL - 1 :
           NodeAt(s.label, l) = NodeAt(label, l) => Cardinality(tree[NodeAt(label, l)]) = Z

(* One turn of write_path leaves a candidate in the stash only if the      *)
(* bucket is full now.                                                     *)
LEMMA WriteLeavesFull ==
  ASSUME Inv, WrittenFull, NEW T \in SUBSET STT, NEW W \in SUBSET stash, write_path(T, W),
         NEW s \in stash', LeftOver(s),
         NEW l \in lvl .. LEVEL - 1, NodeAt(s.label, l) = NodeAt(label, l)
  PROVE  Cardinality(tree'[NodeAt(label, l)]) = Z
<1>. USE DEF Inv
<1>1. PICK n \in Node : WritesTo(T, W, n)
  BY WriteEffect
<1>2. /\ n = NodeAt(label, lvl) /\ n[1] = lvl /\ pc = "write"
      /\ stash' = stash \ W
      /\ \A m \in Node : tree'[m] = IF m = n THEN Filled(T, W) ELSE tree[m]
  BY <1>1 DEF WritesTo
<1>3. lvl \in Nat /\ l \in Level /\ label \in Path
  BY GrowthTypes, LevelAssumption DEF TypeOK, Level
<1>4. CASE l = lvl
  <2>1. T = {} /\ Cardinality(T) = 0 /\ Z \in Nat
    BY FS_EmptySet, GrowthTypes DEF WrittenFull
  <2>2. PICK C : C = pick_candidate(n)
    OBVIOUS
  <2>3. s \in C /\ s \notin W
    BY <1>2, <1>4, <2>2 DEF pick_candidate, LeftOver
  <2>4. W \subseteq C /\ IsFiniteSet(C)
    BY <1>1, <2>2, SlotsFinite DEF WritesTo, Takes, TypeOK, pick_candidate
  <2>5. Cardinality(W) < Cardinality(C)
    <3>1. IsFiniteSet(C \ {s}) /\ Cardinality(C \ {s}) = Cardinality(C) - 1
      BY <2>3, <2>4, FS_Subset, OneElement
    <3>2. Cardinality(W) <= Cardinality(C \ {s})
      BY <2>3, <2>4, <3>1, FS_Subset
    <3>3. Cardinality(C) \in Nat /\ Cardinality(W) \in Nat
      BY <2>4, FS_Subset, FS_CardinalityType
    <3>. QED  BY <3>1, <3>2, <3>3
  <2>6. Cardinality(W) = Z
    <3>1. /\ Cardinality(W) \in Nat /\ Cardinality(C) \in Nat
          /\ \/ Cardinality(T) + Cardinality(W) = Z
             \/ Cardinality(T) + Cardinality(W) >= Cardinality(C)
      BY <1>1, <2>2, TakesCount DEF WritesTo
    <3>. QED  BY <2>1, <2>5, <3>1
  <2>7. Filled(T, W) = W
    BY <2>1 DEF Filled
  <2>. QED  BY <1>2, <1>4, <2>6, <2>7
<1>5. CASE l # lvl
  <2>1. l \in lvl + 1 .. LEVEL - 1
    BY <1>3, <1>5, LevelAssumption
  <2>2. NodeAt(label, l) \in Node /\ NodeAt(label, l) # n
    BY <1>2, <1>3, <1>5, NodeAtLevel
  <2>3. s \in stash
    BY <1>2
  <2>. QED  BY <1>2, <2>1, <2>2, <2>3 DEF WrittenFull
<1>. QED  BY <1>4, <1>5

(* The levels that write_path has passed stay full for every slot left.    *)
LEMMA WrittenFullNext == NoStt /\ Inv /\ WrittenFull /\ [Next]_vars => WrittenFull'
<1>. SUFFICES ASSUME NoStt, Inv, WrittenFull, [Next]_vars
              PROVE  WrittenFull'
  OBVIOUS
<1>. USE DEF Inv
<1>1. ASSUME STT' = {}, pc' \notin { "remap", "write", "free" }
      PROVE  WrittenFull'
  BY <1>1 DEF WrittenFull
<1>2. ASSUME STT' = {}, pc' \in { "remap", "write" }, lvl' = LEVEL - 1
      PROVE  WrittenFull'
  <2>1. lvl' + 1 .. LEVEL - 1 = {}
    BY <1>2, LevelAssumption
  <2>. QED  BY <1>2, <2>1 DEF WrittenFull
<1>3. STT = {} /\ pc # "free" /\ EndOfRequest = "idle"
  BY DEF WrittenFull, NoStt, EndOfRequest
<1>4. CASE PosmapAccess \/ oram_access \/ (\E p \in Path : background_eviction(p))
           \/ (\E b \in Block, p \in Path : oram_init_path(b, p)) \/ (\E b \in Block : take_snapshot(b))
  <2>1. STT' = {} /\ pc' \in { "remap", "write" } /\ lvl' = LEVEL - 1
    BY <1>3, <1>4 DEF PosmapAccess, oram_access, background_eviction, oram_init_path,
       take_snapshot, read_path
  <2>. QED  BY <1>2, <2>1
<1>5. CASE \E p \in Path : remap_block(p)
  <2>1. pc = "remap" /\ pc' = "write" /\ STT' = {} /\ lvl' = lvl
    BY <1>3, <1>5 DEF remap_block, At, pathVars
  <2>2. lvl = LEVEL - 1
    BY <2>1 DEF PathPhase
  <2>. QED  BY <1>2, <2>1, <2>2
<1>6. ASSUME NEW T \in SUBSET STT, NEW W \in SUBSET stash, write_path(T, W)
      PROVE  WrittenFull'
  <2>1. STT' = {} /\ pc = "write"
    BY <1>3, <1>6 DEF write_path, At
  <2>2. CASE LastTurn
    <3>1. pc' \notin { "remap", "write", "free" }
      BY <1>3, <2>2 DEF LastTurn, EndOfPath
    <3>. QED  BY <1>1, <2>1, <3>1
  <2>3. CASE NextTurn
    <3>1. lvl' = lvl - 1 /\ lvl' + 1 = lvl /\ label' = label /\ cur' = cur /\ pinFlag' = pinFlag /\ pc' = "write"
      BY <2>1, <2>3, GrowthTypes DEF NextTurn
    <3>2. ASSUME NEW s \in stash', LeftOver(s), NEW l \in lvl .. LEVEL - 1,
                 NodeAt(s.label, l) = NodeAt(label, l)
          PROVE  Cardinality(tree'[NodeAt(label, l)]) = Z
      BY <1>6, <3>2, WriteLeavesFull
    <3>. QED  BY <2>1, <3>1, <3>2 DEF WrittenFull, LeftOver
  <2>. QED  BY <1>6, <2>2, <2>3, WriteTurn
<1>7. CASE \E F \in SUBSET { s.addr : s \in stash } : free_stash(F)
  BY <1>3, <1>7 DEF free_stash, At
<1>8. CASE UNCHANGED vars
  BY <1>8 DEF vars, WrittenFull, LeftOver
<1>9. CASE PosmapInStash \/ (\E a \in Data : StashHit(a)) \/ (\E a \in Data : freecursive_access(a)) \/ plb_fill
  <2>1. STT' = {} /\ pc' \notin { "remap", "write", "free" }
    BY <1>3, <1>9 DEF PosmapInStash, StashHit, freecursive_access, plb_fill
  <2>. QED  BY <1>1, <2>1
<1>. QED
  BY <1>4, <1>5, <1>6, <1>7, <1>8, <1>9 DEF Next

(* Without an STT a path is written greedily: a block that stays in the    *)
(* stash has met a full bucket wherever it could have gone.                *)
THEOREM WriteMaximal == NoStt /\ Spec => WriteIsMaximal
<1>1. Init /\ NoStt => WrittenFull
  BY DEF Init, WrittenFull
<1>2. NoStt /\ Inv /\ WrittenFull /\ [Next]_vars
        => [ pc = "write" /\ pc' # "write" =>
               \A s \in stash' : ~(pinFlag /\ s.addr = cur) =>
                 \A n \in OnPath(label) \cap OnPath(s.label) :
                   n[1] >= EMPTY_TOP => Cardinality(tree'[n]) = Z ]_vars
  <2>. SUFFICES ASSUME NoStt, Inv, WrittenFull, Next, pc = "write", pc' # "write",
                       NEW s \in stash', LeftOver(s),
                       NEW n \in OnPath(label) \cap OnPath(s.label), n[1] >= EMPTY_TOP
                PROVE  Cardinality(tree'[n]) = Z
    BY DEF LeftOver
  <2>1. PICK T \in SUBSET STT, W \in SUBSET stash : write_path(T, W)
    BY DEF Next, StashHit, freecursive_access, PosmapAccess, PosmapInStash, oram_access,
       background_eviction, oram_init_path, take_snapshot, remap_block, plb_fill, free_stash, At
  <2>2. lvl = EMPTY_TOP
    BY <2>1, WriteTurn DEF LastTurn, NextTurn
  <2>3. label \in Path /\ s.label \in Path
    <3>1. stash' = stash \ W
      BY <2>1 DEF write_path
    <3>. QED  BY <3>1, SlotParts DEF Inv, TypeOK
  <2>4. n[1] \in Level /\ n = NodeAt(label, n[1]) /\ n = NodeAt(s.label, n[1])
    BY <2>3, OnPathLevel
  <2>5. n[1] \in lvl .. LEVEL - 1
    BY <2>2, <2>4, SizeAssumption, LevelAssumption DEF Level
  <2>6. Cardinality(tree'[NodeAt(label, n[1])]) = Z
    BY <2>1, <2>4, <2>5, WriteLeavesFull
  <2>. QED  BY <2>4, <2>6
<1>3. NoStt /\ [Next]_vars => NoStt'
  BY DEF NoStt
<1>. QED  BY <1>1, <1>2, <1>3, WrittenFullNext, Inductive, InvInit, PTL DEF Spec, WriteIsMaximal

===============================================================================
